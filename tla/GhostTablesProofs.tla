------------------------- MODULE GhostTablesProofs -------------------------
(***************************************************************************)
(* Ghost tables and registrations, with whatever work they do inside,      *)
(* leave the protocol of the mutex as bolt.rb has it: so what is proved of *)
(* Bolt holds of them, for any processes, tables and bounds.               *)
(***************************************************************************)
EXTENDS GhostTables, BoltProofs

LEMMA LinkerSteps ==
  ASSUME NEW p \in Proc, Visit(p) \/ Link(p)
  PROVE  [BoltNext]_boltVars
<1> USE DEF boltVars, BoltNext, Step
<1>1. CASE Visit(p)
  BY <1>1 DEF Visit
<1>2. CASE Look(p)
  BY <1>2 DEF Look
<1>3. CASE Dequeue(p) \/ FetchTables(p) \/ FetchRows(p)
  BY <1>3 DEF Dequeue, FetchTables, FetchRows
<1>4. CASE Enqueue(p)
  BY <1>4 DEF Enqueue
<1>5. CASE Perform(p)
  BY <1>5 DEF Perform
<1>6. CASE Denied(p)
  BY <1>6 DEF Denied
<1>7. CASE Regenerate(p) \/ RenameRow(p) \/ CreateRow(p) \/ DropRow(p)
  BY <1>7 DEF Regenerate, RenameRow, CreateRow, DropRow
<1>8. CASE EndSync(p)
  BY <1>8 DEF EndSync
<1> QED
  BY <1>1, <1>2, <1>3, <1>4, <1>5, <1>6, <1>7, <1>8 DEF Link

LEMMA RegistrarSteps ==
  ASSUME NEW p \in Proc, Register(p) \/ Choose(p) \/ Enter(p)
  PROVE  [BoltNext]_boltVars
<1> USE DEF boltVars, BoltNext, Step
<1>1. CASE Register(p)
  BY <1>1 DEF Register
<1>2. CASE Choose(p)
  BY <1>2 DEF Choose, ProposeName, ProposeToOverwrite, Synchronize, Reserve
<1>3. CASE MoveTable(p) \/ SwapIn(p) \/ Cartodbfy(p) \/ Insert(p) \/ FixOid(p) \/ Persist(p)
  BY <1>3 DEF MoveTable, SwapIn, Cartodbfy, Insert, FixOid, Persist
<1>4. CASE BringIn(p) \/ Ready(p) \/ Replace(p)
  BY <1>4 DEF BringIn, Ready, Replace
<1>5. CASE EndRegister(p)
  BY <1>5 DEF EndRegister
<1> QED
  BY <1>1, <1>2, <1>3, <1>4, <1>5 DEF Enter

LEMMA GhostStep == [Next]_vars => [BoltNext]_boltVars
<1> SUFFICES ASSUME [Next]_vars PROVE [BoltNext]_boltVars
  OBVIOUS
<1>1. ASSUME NEW p \in Proc, Visit(p) \/ Link(p) PROVE [BoltNext]_boltVars
  BY <1>1, LinkerSteps
<1>2. ASSUME NEW p \in Proc, Register(p) \/ Choose(p) \/ Enter(p) PROVE [BoltNext]_boltVars
  BY <1>2, RegistrarSteps
<1>3. ASSUME NEW p \in Proc, Acquire(p) \/ Release(p) PROVE [BoltNext]_boltVars
  BY <1>3 DEF Acquire, Release, BoltNext, Step
<1>4. CASE SqlCreate \/ SqlRename \/ SqlDrop
  BY <1>4 DEF SqlCreate, SqlRename, SqlDrop, Sql
<1>5. CASE LeaseEnds
  BY <1>5 DEF LeaseEnds, BoltNext
<1>6. CASE UNCHANGED vars
  BY <1>6 DEF vars
<1> QED
  BY <1>1, <1>2, <1>3, <1>4, <1>5, <1>6 DEF Next, Proceed

(* Whatever the linkers and the registrars do inside the lock, each step   *)
(* of theirs is a step of run_locked or leaves the bolt alone.             *)
THEOREM KeepsBolt == Spec => BoltSpec
<1>1. Init => BoltInit
  BY DEF Init
<1> QED
  BY <1>1, GhostStep, PTL DEF Spec, BoltSpec

(* So at most one registration or sync works without the key for each      *)
(* lease that has ended under it, and the fail_functions that reschedule   *)
(* a link stay bounded.                                                    *)
THEOREM GhostMutex == Spec => [](OrphansBounded /\ ClaimsBounded)
BY KeepsBolt, OrphansTheorem, ClaimsTheorem, PTL

-----------------------------------------------------------------------------

(* Where processes change rows and tables, or hold what they fetched.      *)
Working ==
  {"fetching", "applying", "moving", "swapping", "cartodbfying", "cartodbfyingOver", "inserting",
   "fixing", "settingUp", "persisting", "bringing", "readying", "replacing"}

Resting == {"out", "looking", "asking", "enqueuing", "linking", "waiting", "closing", "done"}

(* Nobody works there but in a block that run_locked runs, or without the  *)
(* lock for want of it.                                                    *)
WorksInside ==
  /\ at \in [Proc -> Working \cup Resting]
  /\ \A p \in Proc : at[p] \in Working => pc[p] = "running" \/ p \in unlocked

LEMMA WorksInsideInit == Init => WorksInside /\ Apart
BY DEF Init, WorksInside, Beside, Apart, Working, Resting

LEMMA WorksInsideStep ==
  ASSUME BoltTypeOK, WorksInside, [Next]_vars
  PROVE  WorksInside'
<1> USE DEF BoltTypeOK, WorksInside, Working, Resting, Move, Goto, boltVars
<1>1. ASSUME NEW p \in Proc, Visit(p) PROVE WorksInside'
  BY <1>1 DEF Visit
<1>2. ASSUME NEW p \in Proc, Look(p) PROVE WorksInside'
  BY <1>2 DEF Look, Call
<1>3. ASSUME NEW p \in Proc, Dequeue(p) \/ Denied(p) PROVE WorksInside'
  BY <1>3 DEF Dequeue, Denied, SetRetry
<1>4. ASSUME NEW p \in Proc, Enqueue(p) PROVE WorksInside'
  BY <1>4 DEF Enqueue, FailFunction
<1>5. ASSUME NEW p \in Proc, Perform(p) \/ Register(p) PROVE WorksInside'
  BY <1>5 DEF Perform, Register, Call
<1>6. ASSUME NEW p \in Proc, FetchTables(p) \/ FetchRows(p) PROVE WorksInside'
  BY <1>6 DEF FetchTables, FetchRows
<1>7. ASSUME NEW p \in Proc, Regenerate(p) \/ RenameRow(p) \/ CreateRow(p) \/ DropRow(p)
      PROVE  WorksInside'
  BY <1>7 DEF Regenerate, RenameRow, CreateRow, DropRow
<1>8. ASSUME NEW p \in Proc, EndSync(p) PROVE WorksInside'
  BY <1>8 DEF EndSync, Finish
<1>9. ASSUME NEW p \in Proc, Choose(p) PROVE WorksInside'
  BY <1>9 DEF Choose, ProposeName, ProposeToOverwrite, Synchronize, Reserve
<1>10. ASSUME NEW p \in Proc, MoveTable(p) \/ SwapIn(p) \/ BringIn(p) PROVE WorksInside'
  BY <1>10 DEF MoveTable, SwapIn, BringIn
<1>11. ASSUME NEW p \in Proc, Cartodbfy(p) PROVE WorksInside'
  BY <1>11 DEF Cartodbfy
<1>12. ASSUME NEW p \in Proc, Insert(p) \/ FixOid(p) \/ Persist(p) PROVE WorksInside'
  BY <1>12 DEF Insert, FixOid, Persist
<1>13. ASSUME NEW p \in Proc, Ready(p) \/ Replace(p) PROVE WorksInside'
  BY <1>13 DEF Ready, Replace
<1>14. ASSUME NEW p \in Proc, EndRegister(p) PROVE WorksInside'
  BY <1>14 DEF EndRegister, Finish
<1>15. ASSUME NEW p \in Proc, Acquire(p) PROVE WorksInside'
  BY <1>15 DEF Acquire, GetLock, MissLock, Wake, Retried, ghostVars
<1>16. ASSUME NEW p \in Proc, Release(p) PROVE WorksInside'
  BY <1>16 DEF Release, Unlock
<1>17. CASE SqlCreate \/ SqlRename \/ SqlDrop
  BY <1>17 DEF SqlCreate, SqlRename, SqlDrop, Sql
<1>18. CASE LeaseEnds
  BY <1>18 DEF LeaseEnds, Expire, ghostVars
<1>19. CASE UNCHANGED vars
  BY <1>19 DEF vars, ghostVars
<1> QED
  BY <1>1, <1>2, <1>3, <1>4, <1>5, <1>6, <1>7, <1>8, <1>9, <1>10, <1>11, <1>12,
     <1>13, <1>14, <1>15, <1>16, <1>17, <1>18, <1>19
  DEF Next, Proceed, Link, Enter

(* Whoever changes something while no lease has ended and everyone has the *)
(* lock is alone.                                                          *)
LEMMA SpoilsNobody ==
  ASSUME BoltTypeOK, MutualExclusion, WorksInside, Apart,
         NEW p \in Proc, at[p] \in Working, Spoil(p),
         overruns' = overruns, unlocked' = unlocked
  PROVE  Apart'
<1> SUFFICES ASSUME overruns = 0, unlocked = {}
             PROVE  Beside("process")' = {}
  BY DEF Apart, BoltTypeOK
<1>1. Beside("process") = {}
  BY DEF Apart
<1>2. p \in Inside
  BY DEF WorksInside, Inside
<1>3. ASSUME NEW q \in Fetching PROVE q = p
  <2>1. q \in Proc /\ at[q] \in Working
    BY GhostAssumption DEF Fetching, Working
  <2>2. q \in Inside
    BY <2>1 DEF WorksInside, Inside
  <2> QED
    BY <1>2, <2>2 DEF MutualExclusion
<1> QED
  BY <1>1, <1>3 DEF Spoil, Beside

LEMMA ApartStep ==
  ASSUME BoltTypeOK, MutualExclusion, WorksInside, Apart, [Next]_vars
  PROVE  Apart'
<1>1. ASSUME NEW p \in Proc,
             Regenerate(p) \/ RenameRow(p) \/ CreateRow(p) \/ DropRow(p)
      PROVE  Apart'
  <2>1. at[p] \in Working /\ Spoil(p) /\ overruns' = overruns /\ unlocked' = unlocked
    BY <1>1 DEF Regenerate, RenameRow, CreateRow, DropRow, Working, boltVars
  <2> QED
    BY <2>1, SpoilsNobody
<1>2. ASSUME NEW p \in Proc,
             MoveTable(p) \/ SwapIn(p) \/ Cartodbfy(p) \/ Insert(p) \/ FixOid(p)
      PROVE  Apart'
  <2>1. at[p] \in Working /\ Spoil(p) /\ overruns' = overruns /\ unlocked' = unlocked
    BY <1>2 DEF MoveTable, SwapIn, Cartodbfy, Insert, FixOid, Working, boltVars
  <2> QED
    BY <2>1, SpoilsNobody
<1>3. ASSUME NEW p \in Proc, BringIn(p) \/ Ready(p) \/ Replace(p)
      PROVE  Apart'
  <2>1. at[p] \in Working /\ Spoil(p) /\ overruns' = overruns /\ unlocked' = unlocked
    BY <1>3 DEF BringIn, Ready, Replace, Working, boltVars
  <2> QED
    BY <2>1, SpoilsNobody
<1>4. ASSUME Beside("process")' \subseteq Beside("process"), overruns' = overruns, unlocked \subseteq unlocked'
      PROVE  Apart'
  BY <1>4 DEF Apart
<1>5. ASSUME NEW p \in Proc,
             Visit(p) \/ Look(p) \/ Dequeue(p) \/ Enqueue(p) \/ Perform(p) \/ Denied(p)
      PROVE  Apart'
  BY <1>4, <1>5 DEF Beside, Visit, Look, Dequeue, Enqueue, Perform, Denied, Call, SetRetry,
                    FailFunction, boltVars
<1>6. ASSUME NEW p \in Proc, FetchTables(p) \/ FetchRows(p) \/ EndSync(p)
      PROVE  Apart'
  BY <1>4, <1>6 DEF Beside, Unspoil, FetchTables, FetchRows, EndSync, Finish, boltVars
<1>7. ASSUME NEW p \in Proc, Register(p) \/ Choose(p) \/ Persist(p) \/ EndRegister(p)
      PROVE  Apart'
  BY <1>4, <1>7 DEF Beside, Register, Choose, ProposeName, ProposeToOverwrite, Synchronize, Reserve,
                    Persist, EndRegister, Call, Finish, boltVars
<1>8. ASSUME NEW p \in Proc, Acquire(p) \/ Release(p)
      PROVE  Apart'
  BY <1>4, <1>8 DEF Beside, Acquire, GetLock, MissLock, Wake, Retried, Release, Unlock, ghostVars
<1>9. CASE SqlCreate \/ SqlRename \/ SqlDrop
  BY <1>4, <1>9 DEF Beside, Fetching, SqlCreate, SqlRename, SqlDrop, Sql, boltVars
<1>10. CASE LeaseEnds
  BY <1>10 DEF Beside, LeaseEnds, Expire, Apart, ghostVars, BoltTypeOK
<1>11. CASE UNCHANGED vars
  BY <1>4, <1>11 DEF Beside, vars, ghostVars, boltVars
<1> QED
  BY <1>1, <1>2, <1>3, <1>5, <1>6, <1>7, <1>8, <1>9, <1>10, <1>11
  DEF Next, Proceed, Link, Enter

(* run_synchronized and sync_user_tables_with_db keep registrations and    *)
(* syncs apart: what a sync has fetched is changed under it only when a    *)
(* lease has ended early or somebody has worked without the lock.          *)
THEOREM ApartTheorem == Spec => []Apart
<1>1. BoltTypeOK /\ MutualExclusion /\ WorksInside /\ Apart /\ [Next]_vars
        => WorksInside' /\ Apart'
  BY WorksInsideStep, ApartStep
<1>2. Spec => []BoltTypeOK /\ []MutualExclusion
  BY KeepsBolt, TypeCorrect, MutexTheorem, PTL
<1> QED
  BY <1>1, <1>2, WorksInsideInit, PTL DEF Spec
-----------------------------------------------------------------------------

(* What the linkers and registrars hold.                                   *)

(* Registrars that have yet to make their table; each makes one at most.   *)
Placing == {"out", "waiting", "moving", "swapping", "bringing"}
Unplaced == {p \in Registrar : at[p] \in Placing}

(* There is always an oid for the tables that are still to come.           *)
OidsLeft ==
  /\ sql \in 0 .. MaxUpsets
  /\ made + Cardinality(Unplaced) + (MaxUpsets - sql)
       <= Len(Linked) + MaxUpsets + Cardinality(Registrar)

LinkerPlaces == {"looking", "asking", "linking", "enqueuing", "fetching", "applying"}
RegistrarPlaces == Working \ {"fetching", "applying"}

(* Who is where, and with what name in hand.                               *)
Places ==
  /\ target \in [Registrar -> Name \cup {NoName}]
  /\ \A p \in Proc :
       /\ at[p] \in LinkerPlaces => p \in Linker
       /\ at[p] \in RegistrarPlaces => p \in Registrar /\ target[p] \in Name
       /\ at[p] \in {"bringing", "readying", "replacing"} => p \in Syncer
       /\ pc[p] \in {"denied", "rescheduling"} => p \in Linker
       /\ at[p] \in {"out", "looking", "asking"} => pc[p] = "idle"
       /\ at[p] = "enqueuing" => pc[p] \in {"idle", "rescheduling"}
       /\ at[p] \in {"fetching", "applying"} => pc[p] = "running"
       /\ at[p] \in RegistrarPlaces => pc[p] \in {"idle", "running"}

(* The table that a synchronization brings in has its name until the swap. *)
Temporaries ==
  \A s \in Syncer : Named(TempName[s]) # {} => at[s] \in {"readying", "replacing"}

Found == [table : Oid, name : AnyName]
Missing == [table : Oid \cup {NoTable}, name : AnyName]

(* What linkers have fetched and found out, and nothing once they are done.*)
Fetched ==
  /\ seen \in [Linker -> SUBSET Found]
  /\ todo \in [Linker -> [regenerated : SUBSET Found, renamed : SUBSET Found,
                          new : SUBSET Found, dropped : SUBSET Missing]]
  /\ \A p \in Linker : at[p] # "applying" => todo[p] = Nothing

GhostInv == GhostTypeOK /\ OidsLeft /\ Places /\ Temporaries /\ Fetched

(* A linker that nobody works beside.                                      *)
Alone(p) == p \notin Beside("process") \cup Beside("user")

(* What is to be dropped is not to be given a table, has kept its row if a *)
(* row is to get its name and table, and each table that has its oid or its*)
(* name has a row that stays.                                              *)
DropsWhatIsGone(altered) ==
  /\ altered.renamed \subseteq Cartodbfied
  /\ \A d \in altered.dropped, f \in altered.regenerated : d.name # f.name
  /\ \A d \in altered.dropped \cap altered.renamed : \E r \in rows : Facade(r) = d
  /\ \A d \in altered.dropped, o \in linkable :
       o = d.table \/ tables[o] = d.name =>
         \E q \in rows : /\ q.table = o
                         /\ Facade(q) \notin altered.dropped
                         /\ \A f \in altered.regenerated : f.name # q.name

Links(p) ==
  Alone(p) =>
    /\ at[p] = "fetching" => seen[p] = Cartodbfied
    /\ at[p] = "applying" => DropsWhatIsGone(todo[p])

LinksWhatThereIs == \A p \in Linker : Links(p)

-----------------------------------------------------------------------------

LEMMA Oids ==
  /\ Len(Linked) \in Nat /\ DOMAIN Linked = 1 .. Len(Linked)
  /\ IsFiniteSet(Registrar) /\ Cardinality(Registrar) \in Nat
  /\ Cardinality(Oid) = Len(Linked) + MaxUpsets + Cardinality(Registrar)
  /\ Oid \subseteq Nat \ {NoTable}
  /\ MaxUpsets \in Nat
<1>1. Len(Linked) \in Nat /\ DOMAIN Linked = 1 .. Len(Linked) /\ MaxUpsets \in Nat
  BY GhostAssumption
<1>2. IsFiniteSet(Registrar) /\ Cardinality(Registrar) \in Nat
  BY ProcSets, GhostAssumption
<1>3. ASSUME NEW n \in Nat PROVE Cardinality(1 .. n) = n
  BY FS_Interval
<1>4. Len(Linked) + MaxUpsets + Cardinality(Registrar) \in Nat
  BY <1>1, <1>2
<1> QED
  BY <1>1, <1>2, <1>3, <1>4 DEF Oid, NoTable

LEMMA TableIdIsOid ==
  ASSUME NEW n
  PROVE  TableId(n) \in Oid \cup {NoTable}
BY DEF TableId, Named

LEMMA GhostInvInit == Init => GhostInv /\ LinksWhatThereIs
<1> SUFFICES ASSUME Init PROVE GhostInv /\ LinksWhatThereIs
  OBVIOUS
<1>1. \A o \in DOMAIN Linked : Linked[o] \in Name /\ o \in Oid /\ Linked[o] # NoName
  BY Oids, GhostAssumption DEF Oid
<1>2. GhostTypeOK
  <2>1. tables \in [Oid -> AnyName \cup {NoName}]
    BY <1>1 DEF Init, AnyName
  <2>2. linkable \subseteq {o \in Oid : tables[o] # NoName}
    BY <1>1 DEF Init
  <2>3. made \in 0 .. Cardinality(Oid) /\ born \in Nat /\ jobs \in Nat
    BY Oids DEF Init
  <2>4. rows \subseteq [id : 1 .. born, name : AnyName, table : Oid \cup {NoTable}]
    BY <1>1, Oids DEF Init, AnyName
  <2>5. \A r, q \in rows : r.name = q.name \/ r.id = q.id => r = q
    BY GhostAssumption, Oids DEF Init, IsInjective
  <2>6. \A o, u \in Oid : tables[o] = tables[u] => o = u \/ tables[o] = NoName
    BY <1>1, GhostAssumption DEF Init, IsInjective
  <2>7. spoilt = {}
    BY DEF Init
  <2> QED
    BY <2>1, <2>2, <2>3, <2>4, <2>5, <2>6, <2>7 DEF GhostTypeOK
<1>3. OidsLeft
  <2>1. Unplaced = Registrar
    BY GhostAssumption DEF Init, Unplaced, Placing
  <2> QED
    BY <2>1, Oids DEF OidsLeft, Init
<1>4. Places /\ Fetched
  <2>1. \A p \in Proc : at[p] = "out"
    BY DEF Init
  <2>2. Places
    BY <2>1 DEF Init, BoltInit, Places, LinkerPlaces, RegistrarPlaces, Working
  <2>3. Fetched
    BY DEF Init, Fetched, Nothing
  <2> QED
    BY <2>2, <2>3
<1>5. Temporaries
  BY <1>1, GhostAssumption DEF Init, Temporaries, Named, Range
<1>6. LinksWhatThereIs
  BY GhostAssumption DEF Init, LinksWhatThereIs, Links
<1> QED
  BY <1>2, <1>3, <1>4, <1>5, <1>6 DEF GhostInv

-----------------------------------------------------------------------------

LEMMA PlacesStep ==
  ASSUME BoltTypeOK, WorksInside, Places, [Next]_vars
  PROVE  Places'
<1> USE DEF BoltTypeOK, Goto, boltVars, Places, WorksInside, LinkerPlaces, RegistrarPlaces, Working, Resting, Move
<1>1. ASSUME NEW p \in Proc, Visit(p) \/ Look(p) PROVE Places'
  BY <1>1 DEF Visit, Look, Linker, Call
<1>2. ASSUME NEW p \in Proc, Dequeue(p) \/ Denied(p) \/ Enqueue(p) PROVE Places'
  BY <1>2 DEF Dequeue, Denied, SetRetry, Enqueue, FailFunction
<1>3. ASSUME NEW p \in Proc, Perform(p) \/ Register(p) PROVE Places'
  BY <1>3 DEF Perform, Register, Linker, Call
<1>4. ASSUME NEW p \in Proc, FetchTables(p) \/ FetchRows(p) PROVE Places'
  BY <1>4 DEF FetchTables, FetchRows
<1>5. ASSUME NEW p \in Proc,
             Regenerate(p) \/ RenameRow(p) \/ CreateRow(p) \/ DropRow(p) \/ EndSync(p)
      PROVE  Places'
  BY <1>5 DEF Regenerate, RenameRow, CreateRow, DropRow, EndSync, Finish
<1>6. ASSUME NEW p \in Proc, ProposeName(p) PROVE Places'
  <2>1. p \in Registrar /\ pc[p] \in {"idle", "running"}
    BY <1>6 DEF ProposeName, Registrar, Begins, MayBegin
  <2>2. CASE \E n \in Name \ Taken : Reserve(p, n, "moving")
    BY <2>1, <2>2 DEF Reserve
  <2>3. CASE Reserve(p, NoName, "closing")
    BY <2>1, <2>3 DEF Reserve
  <2> QED
    BY <1>6, <2>2, <2>3 DEF ProposeName
<1>7. ASSUME NEW p \in Proc, ProposeToOverwrite(p) PROVE Places'
  BY <1>7 DEF ProposeToOverwrite, Begins, MayBegin, Reserve, Registrar
<1>8. ASSUME NEW p \in Proc, Synchronize(p) PROVE Places'
  BY <1>8 DEF Synchronize, Begins, MayBegin, Reserve, Registrar
<1>9. ASSUME NEW p \in Proc, MoveTable(p) \/ SwapIn(p) \/ Cartodbfy(p) PROVE Places'
  BY <1>9 DEF MoveTable, SwapIn, Cartodbfy
<1>10. ASSUME NEW p \in Proc, Insert(p) \/ FixOid(p) \/ Persist(p) PROVE Places'
  <2>1. CASE Insert(p)
    BY <2>1 DEF Insert
  <2>2. CASE FixOid(p)
    BY <2>2 DEF FixOid
  <2>3. CASE Persist(p)
    BY <2>3 DEF Persist
  <2> QED
    BY <1>10, <2>1, <2>2, <2>3
<1>11. ASSUME NEW p \in Proc, BringIn(p) \/ Ready(p) \/ Replace(p) PROVE Places'
  BY <1>11 DEF BringIn, Ready, Replace
<1>12. ASSUME NEW p \in Proc, EndRegister(p) \/ Release(p) PROVE Places'
  BY <1>12 DEF EndRegister, Finish, Release, Unlock
<1>13. ASSUME NEW p \in Proc, Acquire(p) PROVE Places'
  BY <1>13, GhostAssumption DEF Acquire, GetLock, MissLock, Wake, Retried, ghostVars
<1>14. CASE SqlCreate \/ SqlRename \/ SqlDrop
  BY <1>14 DEF SqlCreate, SqlRename, SqlDrop, Sql
<1>15. CASE LeaseEnds \/ UNCHANGED vars
  BY <1>15 DEF LeaseEnds, Expire, vars, ghostVars
<1> QED
  BY <1>1, <1>2, <1>3, <1>4, <1>5, <1>6, <1>7, <1>8, <1>9, <1>10, <1>11, <1>12,
     <1>13, <1>14, <1>15
  DEF Next, Proceed, Link, Enter, Choose

LEMMA Moved ==
  ASSUME WorksInside, NEW p \in Proc, NEW where, Move(p, where)
  PROVE  /\ where \in Placing /\ p \in Unplaced => Unplaced' = Unplaced
         /\ where \notin Placing \/ p \notin Registrar => Unplaced' = Unplaced \ {p}
BY GhostAssumption DEF Unplaced, Move, WorksInside

(* A table made takes one of the oids that a registrar or the user had left*)
(* to them.                                                                *)
NoTableMade == Unplaced' \subseteq Unplaced /\ made' = made /\ sql' = sql

LEMMA OidsStay ==
  ASSUME OidsLeft, made \in Nat, NoTableMade
  PROVE  OidsLeft'
<1>1. Unplaced \subseteq Registrar
  BY DEF Unplaced
<1>2. Cardinality(Unplaced') <= Cardinality(Unplaced)
  BY <1>1, NoLarger, GhostAssumption DEF NoTableMade
<1>3. Cardinality(Unplaced') \in Nat /\ Cardinality(Unplaced) \in Nat
  BY <1>1, ProcSets, GhostAssumption DEF NoTableMade
<1> QED
  BY <1>2, <1>3, Oids DEF OidsLeft, NoTableMade

LEMMA OidTaken ==
  ASSUME OidsLeft, made \in Nat, NEW p \in Unplaced, Unplaced' \subseteq Unplaced \ {p},
         made' \in {made, made + 1}, sql' = sql
  PROVE  OidsLeft' /\ made + 1 \in Oid /\ made' \in 0 .. Cardinality(Oid)
<1>1. Unplaced \in SUBSET Proc /\ Unplaced' \in SUBSET Proc
  BY GhostAssumption DEF Unplaced
<1>2. IsFiniteSet(Unplaced) /\ Cardinality(Unplaced) \in Nat /\ Cardinality(Unplaced') \in Nat
  BY <1>1, ProcSets
<1>3. Cardinality(Unplaced \ {p}) = Cardinality(Unplaced) - 1
  BY <1>2, FS_RemoveElement
<1>4. Cardinality(Unplaced') <= Cardinality(Unplaced \ {p})
  BY <1>1, NoLarger
<1>5. OidsLeft'
  BY <1>2, <1>3, <1>4, Oids DEF OidsLeft
<1>6. Cardinality(Unplaced) >= 1
  BY <1>2, <1>3, <1>4
<1>7. made + 1 <= Len(Linked) + MaxUpsets + Cardinality(Registrar)
  BY <1>2, <1>6, Oids DEF OidsLeft
<1> QED
  BY <1>5, <1>7, Oids DEF Oid

LEMMA OidsStep ==
  ASSUME BoltTypeOK, WorksInside, Places, OidsLeft, made \in 0 .. Cardinality(Oid), [Next]_vars
  PROVE  OidsLeft' /\ made' \in 0 .. Cardinality(Oid) /\ (made' # made => made + 1 \in Oid)
<1> DEFINE Goal == OidsLeft' /\ made' \in 0 .. Cardinality(Oid)
                     /\ (made' # made => made + 1 \in Oid)
<1>0. made \in Nat
  BY Oids
<1>k. ASSUME NoTableMade PROVE Goal
  BY <1>0, <1>k, OidsStay DEF NoTableMade
<1>t. ASSUME NEW p \in Unplaced, Unplaced' \subseteq Unplaced \ {p}, made' \in {made, made + 1}, sql' = sql
      PROVE  Goal
  BY <1>t, <1>0, OidTaken
<1> HIDE DEF Goal
<1>1. ASSUME NEW p \in Proc, NEW where, Move(p, where), p \in Linker, made' = made, sql' = sql
      PROVE  NoTableMade
  BY <1>1, Moved, GhostAssumption DEF NoTableMade
<1>2. ASSUME NEW p \in Proc,
             \/ Visit(p) \/ Look(p) \/ Dequeue(p) \/ Denied(p) \/ Enqueue(p) \/ Perform(p)
             \/ FetchTables(p) \/ FetchRows(p) \/ EndSync(p)
      PROVE  NoTableMade
  <2>1. p \in Linker
    BY <1>2 DEF Visit, Look, Dequeue, Denied, Enqueue, Perform, FetchTables, FetchRows, EndSync,
                Linker, Places, LinkerPlaces, SetRetry
  <2>2. made' = made /\ sql' = sql
    BY <1>2 DEF Visit, Look, Dequeue, Denied, Enqueue, Perform, FetchTables, FetchRows, EndSync,
                tableVars
  <2>3. at' = at \/ \E where : Move(p, where)
    BY <1>2 DEF Visit, Look, Dequeue, Denied, Enqueue, Perform, FetchTables, FetchRows, EndSync, Move
  <2> QED
    BY <2>1, <2>2, <2>3, <1>1 DEF Unplaced, NoTableMade
<1>3. ASSUME NEW p \in Proc, Regenerate(p) \/ RenameRow(p) \/ CreateRow(p) \/ DropRow(p)
      PROVE  NoTableMade
  BY <1>3 DEF NoTableMade, Unplaced, Regenerate, RenameRow, CreateRow, DropRow, tableVars
<1>11. ASSUME NEW p \in Proc, Register(p) \/ Choose(p)
      PROVE  NoTableMade
  <2>1. p \in Unplaced
    BY <1>11 DEF Unplaced, Placing, Register, Choose, ProposeName, ProposeToOverwrite,
                Synchronize, MayBegin, Begins, Registrar
  <2>2. \E where : Move(p, where)
    BY <1>11 DEF Register, Choose, ProposeName, ProposeToOverwrite, Synchronize, Reserve
  <2>3. made' = made /\ sql' = sql
    BY <1>11 DEF Register, Choose, ProposeName, ProposeToOverwrite, Synchronize, Reserve, tableVars
  <2> QED
    BY <2>1, <2>2, <2>3, Moved DEF Unplaced, NoTableMade
<1>4. ASSUME NEW p \in Proc, MoveTable(p) \/ SwapIn(p) \/ BringIn(p)
      PROVE  Goal
  <2>1. p \in Registrar
    BY <1>4 DEF MoveTable, SwapIn, BringIn, Places, RegistrarPlaces, Working
  <2>2. p \in Unplaced
    BY <1>4, <2>1 DEF Unplaced, Placing, MoveTable, SwapIn, BringIn
  <2>4. \E where \in {"cartodbfying", "cartodbfyingOver", "readying", "closing"} : Move(p, where)
    BY <1>4 DEF MoveTable, SwapIn, BringIn
  <2>5. Unplaced' \subseteq Unplaced \ {p}
    BY <2>4, Moved DEF Placing
  <2>3. made' \in {made, made + 1} /\ sql' = sql
    BY <1>4 DEF MoveTable, SwapIn, BringIn, Place, tableVars
  <2> QED
    BY <2>2, <2>3, <2>5, <1>t
<1>5. ASSUME NEW p \in Proc, Cartodbfy(p) \/ Insert(p) \/ FixOid(p) \/ Persist(p) \/ Ready(p) \/ Replace(p)
      PROVE  NoTableMade
  <2>1. \E where \in (Working \cup Resting) \ Placing : Move(p, where)
    BY <1>5 DEF Cartodbfy, Insert, FixOid, Persist, Ready, Replace, Working, Resting, Placing
  <2>2. made' = made /\ sql' = sql
    BY <1>5 DEF Cartodbfy, Insert, FixOid, Persist, Ready, Replace, tableVars
  <2> QED
    BY <2>1, <2>2, Moved DEF NoTableMade
<1>6. ASSUME NEW p \in Proc, EndRegister(p) \/ Release(p)
      PROVE  NoTableMade
  <2>1. made' = made /\ sql' = sql
    BY <1>6 DEF EndRegister, Release, tableVars
  <2>2. \/ at' = at
        \/ Move(p, "done")
        \/ p \in Linker /\ Move(p, "out")
    BY <1>6 DEF EndRegister, Release
  <2> QED
    BY <2>1, <2>2, Moved, GhostAssumption DEF NoTableMade, Unplaced, Placing
<1>7. ASSUME NEW p \in Proc, Acquire(p)
      PROVE  NoTableMade
  BY <1>7 DEF NoTableMade, Unplaced, Acquire, ghostVars
<1>8. ASSUME SqlCreate \/ SqlRename \/ SqlDrop PROVE Goal
  <2>1. Unplaced' = Unplaced /\ made' \in {made, made + 1} /\ sql' = sql + 1 /\ sql + 1 <= MaxUpsets
    BY <1>8, Oids DEF Unplaced, SqlCreate, SqlRename, SqlDrop, Sql, OidsLeft, BoltTypeOK
  <2>2. Cardinality(Unplaced) \in Nat
    BY ProcSets, GhostAssumption DEF Unplaced
  <2>3. OidsLeft'
    BY <1>0, <2>1, <2>2, Oids DEF OidsLeft
  <2>4. made + 1 <= Len(Linked) + MaxUpsets + Cardinality(Registrar)
    BY <1>0, <2>1, <2>2, Oids DEF OidsLeft
  <2> QED
    BY <1>0, <2>1, <2>3, <2>4, Oids DEF Goal, Oid
<1>9. ASSUME LeaseEnds \/ UNCHANGED vars PROVE Goal
  <2>1. NoTableMade
    BY <1>9 DEF NoTableMade, Unplaced, LeaseEnds, vars, ghostVars, tableVars
  <2> QED
    BY <2>1, <1>k
<1>10. Goal
  BY <1>k, <1>2, <1>3, <1>4, <1>5, <1>6, <1>7, <1>8, <1>9, <1>11
  DEF Next, Proceed, Link, Enter
<1> QED
  BY <1>10 DEF Goal

-----------------------------------------------------------------------------

(* Tables: what a name is of, and which of them ghost tables sees.         *)
TablesOK ==
  /\ tables \in [Oid -> AnyName \cup {NoName}]
  /\ linkable \subseteq {o \in Oid : tables[o] # NoName}
  /\ \A o, u \in Oid : tables[o] = tables[u] => o = u \/ tables[o] = NoName

(* A new table with a name that no table keeps.                            *)
LEMMA PlaceKeeps ==
  ASSUME TablesOK, made + 1 \in Oid, NEW n \in AnyName, NEW gone \in SUBSET Oid,
         Place(n, gone), Named(n) \subseteq gone
  PROVE  TablesOK'
<1>1. tables' \in [Oid -> AnyName \cup {NoName}] /\ linkable' \subseteq {o \in Oid : tables'[o] # NoName}
  BY GhostAssumption DEF TablesOK, Place, AnyName
<1>2. \A o, u \in Oid : tables'[o] = tables'[u] => o = u \/ tables'[o] = NoName
  BY DEF TablesOK, Place, Named
<1> QED
  BY <1>1, <1>2 DEF TablesOK

LEMMA RegistrarTables ==
  ASSUME TablesOK, Places, Temporaries, NEW p \in Proc, made' # made => made + 1 \in Oid,
         made \in Nat,
         MoveTable(p) \/ SwapIn(p) \/ Cartodbfy(p) \/ BringIn(p) \/ Ready(p) \/ Replace(p)
  PROVE  TablesOK'
<1>1. target[p] \in Name /\ target[p] \in AnyName /\ target[p] # NoName
  BY GhostAssumption
  DEF Places, RegistrarPlaces, Working, AnyName, MoveTable, SwapIn, Cartodbfy, BringIn, Ready, Replace
<1>2. CASE MoveTable(p)
  <2>1. CASE Place(target[p], {}) /\ Named(target[p]) = {}
    <3>1. made + 1 \in Oid
      BY <2>1 DEF Place
    <3> QED
      BY <1>1, <2>1, <3>1, PlaceKeeps
  <2>2. CASE UNCHANGED tableVars
    BY <2>2 DEF TablesOK, tableVars
  <2> QED
    BY <1>2, <2>1, <2>2 DEF MoveTable
<1>3. CASE SwapIn(p)
  <2>0. Named(target[p]) \in SUBSET Oid
    BY DEF Named
  <2>1. CASE Place(target[p], Named(target[p]))
    <3>1. made + 1 \in Oid
      BY <2>1 DEF Place
    <3> QED
      BY <1>1, <2>0, <2>1, <3>1, PlaceKeeps
  <2>2. CASE UNCHANGED tableVars
    BY <2>2 DEF TablesOK, tableVars
  <2> QED
    BY <1>3, <2>1, <2>2 DEF SwapIn
<1>4. CASE Cartodbfy(p)
  BY <1>1, <1>4 DEF TablesOK, Cartodbfy, Named
<1>5. ASSUME BringIn(p) \/ Ready(p) \/ Replace(p)
      PROVE  p \in Syncer /\ TempName[p] \in AnyName /\ TempName[p] # NoName /\ TempName[p] \notin Name
  BY <1>5, GhostAssumption DEF BringIn, Ready, Replace, Places, AnyName, Range
<1>6. CASE BringIn(p)
  <2>1. Named(TempName[p]) = {}
    BY <1>5, <1>6 DEF Temporaries, BringIn
  <2>2. CASE Place(TempName[p], {})
    <3>1. made + 1 \in Oid
      BY <2>2 DEF Place
    <3>2. TempName[p] \in AnyName /\ Named(TempName[p]) \subseteq {}
      BY <1>5, <1>6, <2>1
    <3> QED
      BY <2>2, <3>1, <3>2, PlaceKeeps
  <2>3. CASE UNCHANGED tableVars
    BY <2>3 DEF TablesOK, tableVars
  <2> QED
    BY <1>6, <2>2, <2>3 DEF BringIn
<1>7. CASE Ready(p)
  BY <1>5, <1>7 DEF TablesOK, Ready, Named
<1>8. CASE Replace(p)
  <2> DEFINE new == Named(TempName[p])
             old == Named(target[p])
             gone == IF old = {} THEN new ELSE old
  <2>1. /\ tables' = [o \in Oid |-> IF o \in gone THEN NoName
                                    ELSE IF o \in new THEN target[p] ELSE tables[o]]
        /\ linkable' = linkable \ gone
    BY <1>8 DEF Replace
  <2>2. new \subseteq Oid /\ old \subseteq Oid /\ new \cap old = {}
    BY <1>1, <1>5, <1>8 DEF Named
  <2>3. tables' \in [Oid -> AnyName \cup {NoName}] /\ linkable' \subseteq {o \in Oid : tables'[o] # NoName}
    BY <1>1, <2>1 DEF TablesOK
  <2>4. \A o, u \in new : o = u
    BY <1>5, <1>8 DEF TablesOK, Named
  <2>5. \A o \in Oid \ gone : tables[o] = target[p] => o \in new
    BY DEF Named
  <2>6. \A o, u \in Oid : tables'[o] = tables'[u] => o = u \/ tables'[o] = NoName
    BY <1>1, <2>1, <2>2, <2>4, <2>5 DEF TablesOK
  <2> QED
    BY <2>3, <2>6 DEF TablesOK
<1> QED
  BY <1>2, <1>3, <1>4, <1>6, <1>7, <1>8

LEMMA SqlTables ==
  ASSUME TablesOK, made' # made => made + 1 \in Oid, made \in Nat,
         SqlCreate \/ SqlRename \/ SqlDrop
  PROVE  TablesOK'
<1>1. Name \subseteq AnyName /\ NoName \notin Name
  BY GhostAssumption DEF AnyName
<1>2. CASE SqlCreate
  <2>1. PICK n \in Name : /\ Named(n) = {} /\ made' = made + 1
                          /\ tables' = [tables EXCEPT ![made + 1] = n]
                          /\ linkable' = linkable \cup {made + 1}
    BY <1>2 DEF SqlCreate
  <2> QED
    BY <1>1, <2>1 DEF TablesOK, Named
<1>3. CASE SqlRename
  <2>1. PICK n \in Name, o \in linkable : /\ Named(n) = {} /\ tables[o] \in Name
                                          /\ tables' = [tables EXCEPT ![o] = n]
                                          /\ linkable' = linkable
    BY <1>3 DEF SqlRename
  <2> QED
    BY <1>1, <2>1 DEF TablesOK, Named
<1>4. CASE SqlDrop
  BY <1>4 DEF TablesOK, SqlDrop
<1> QED
  BY <1>2, <1>3, <1>4

(* The other actions leave the user's database alone.                      *)
LEMMA TablesStep ==
  ASSUME BoltTypeOK, Places, Temporaries, TablesOK, made \in Nat,
         made' # made => made + 1 \in Oid, [Next]_vars
  PROVE  TablesOK'
<1>1. ASSUME NEW p \in Proc,
             \/ Visit(p) \/ Look(p) \/ Dequeue(p) \/ Denied(p) \/ Enqueue(p) \/ Perform(p)
             \/ FetchTables(p) \/ FetchRows(p) \/ EndSync(p)
             \/ Regenerate(p) \/ RenameRow(p) \/ CreateRow(p) \/ DropRow(p)
      PROVE  UNCHANGED tableVars
  BY <1>1 DEF Visit, Look, Dequeue, Denied, Enqueue, Perform, FetchTables, FetchRows, EndSync,
              Regenerate, RenameRow, CreateRow, DropRow
<1>2. ASSUME NEW p \in Proc,
             \/ Register(p) \/ Choose(p) \/ Insert(p) \/ FixOid(p) \/ Persist(p) \/ EndRegister(p)
             \/ Release(p) \/ Acquire(p)
      PROVE  UNCHANGED tableVars
  BY <1>2 DEF Register, Choose, ProposeName, ProposeToOverwrite, Synchronize, Reserve, Insert,
              FixOid, Persist, EndRegister, Release, Acquire, ghostVars, tableVars
<1>3. CASE LeaseEnds \/ UNCHANGED vars
  BY <1>3 DEF LeaseEnds, vars, ghostVars, tableVars, TablesOK
<1>4. ASSUME UNCHANGED tableVars PROVE TablesOK'
  BY <1>4 DEF tableVars, TablesOK
<1> QED
  BY <1>1, <1>2, <1>3, <1>4, RegistrarTables, SqlTables DEF Next, Proceed, Link, Enter

-----------------------------------------------------------------------------

(* The processes that p's action leaves where they bring in a table.       *)
StillBringing ==
  \A s \in Syncer : at[s] \in {"readying", "replacing"} => at'[s] \in {"readying", "replacing"}

(* No table is given the name of what a synchronization brings in.         *)
NoneBroughtIn ==
  \A o \in Oid, s \in Syncer : tables'[o] = TempName[s] => tables[o] = TempName[s]

LEMMA TemporariesStay ==
  ASSUME Temporaries, StillBringing, NoneBroughtIn
  PROVE  Temporaries'
BY DEF Temporaries, StillBringing, NoneBroughtIn, Named

LEMMA TempNames ==
  ASSUME NEW s \in Syncer
  PROVE  /\ s \in Registrar /\ s \in Proc /\ s \notin Linker
         /\ TempName[s] \in AnyName /\ TempName[s] \notin Name /\ TempName[s] # NoName
         /\ \A t \in Syncer : TempName[t] = TempName[s] => t = s
BY GhostAssumption DEF Registrar, AnyName, Range, IsInjective

LEMMA TemporariesStep ==
  ASSUME BoltTypeOK, WorksInside, Places, Temporaries, TablesOK, [Next]_vars
  PROVE  Temporaries'
<1> USE TempNames
<1>0. NoName \notin Name /\ at \in [Proc -> Working \cup Resting]
  BY GhostAssumption DEF WorksInside
<1>1. ASSUME NEW p \in Proc, NEW where, Move(p, where),
             at[p] \in {"readying", "replacing"} => where \in {"readying", "replacing"}
      PROVE  StillBringing
  BY <1>0, <1>1 DEF StillBringing, Move
<1>2. ASSUME NEW p \in Proc,
             \/ Visit(p) \/ Look(p) \/ Dequeue(p) \/ Enqueue(p) \/ Perform(p)
             \/ FetchTables(p) \/ FetchRows(p) \/ EndSync(p)
             \/ Regenerate(p) \/ RenameRow(p) \/ CreateRow(p) \/ DropRow(p)
      PROVE  StillBringing /\ NoneBroughtIn
  <2>1. NoneBroughtIn
    BY <1>2
    DEF NoneBroughtIn, Visit, Look, Dequeue, Enqueue, Perform, FetchTables, FetchRows, EndSync,
        Regenerate, RenameRow, CreateRow, DropRow, tableVars
  <2>2. at[p] \notin {"readying", "replacing"}
    BY <1>2
    DEF Visit, Look, Dequeue, Enqueue, Perform, FetchTables, FetchRows, EndSync,
        Regenerate, RenameRow, CreateRow, DropRow
  <2>3. at' = at \/ \E where : Move(p, where)
    BY <1>2
    DEF Visit, Look, Dequeue, Enqueue, Perform, FetchTables, FetchRows, EndSync,
        Regenerate, RenameRow, CreateRow, DropRow
  <2> QED
    BY <1>1, <2>1, <2>2, <2>3 DEF StillBringing
<1>3. ASSUME NEW p \in Proc,
             Register(p) \/ Choose(p) \/ Insert(p) \/ FixOid(p) \/ Persist(p) \/ EndRegister(p)
      PROVE  StillBringing /\ NoneBroughtIn
  <2>1. NoneBroughtIn
    BY <1>3
    DEF NoneBroughtIn, Register, Choose, ProposeName, ProposeToOverwrite, Synchronize, Reserve,
        Insert, FixOid, Persist, EndRegister, tableVars
  <2>2. at[p] \notin {"readying", "replacing"}
    BY <1>3
    DEF Register, MayBegin, Begins, Choose, ProposeName, ProposeToOverwrite, Synchronize, Insert,
        FixOid, Persist, EndRegister
  <2>3. at' = at \/ \E where : Move(p, where)
    BY <1>3
    DEF Register, Choose, ProposeName, ProposeToOverwrite, Synchronize, Reserve, Insert, FixOid,
        Persist, EndRegister
  <2> QED
    BY <1>1, <2>1, <2>2, <2>3 DEF StillBringing
<1>4. ASSUME NEW p \in Proc, Denied(p) \/ Release(p)
      PROVE  StillBringing /\ NoneBroughtIn
  <2>1. NoneBroughtIn
    BY <1>4 DEF NoneBroughtIn, Denied, Release, tableVars
  <2>2. CASE Denied(p)
    <3>1. p \notin Syncer
      BY <2>2 DEF Denied, SetRetry, Places
    <3> QED
      BY <1>0, <2>1, <2>2, <3>1 DEF Denied, StillBringing
  <2>3. CASE Release(p)
    <3>1. at[p] \notin {"readying", "replacing"}
      BY <2>3 DEF Release, Unlock, Places, RegistrarPlaces, Working
    <3> QED
      BY <1>1, <2>1, <2>3, <3>1 DEF Release
  <2> QED
    BY <1>4, <2>2, <2>3
<1>5. ASSUME NEW p \in Proc, MoveTable(p) \/ SwapIn(p) \/ Cartodbfy(p)
      PROVE  StillBringing /\ NoneBroughtIn
  <2>1. target[p] \in Name /\ at[p] \notin {"readying", "replacing"}
    BY <1>5 DEF Places, RegistrarPlaces, Working, MoveTable, SwapIn, Cartodbfy
  <2>2. NoneBroughtIn
    BY <1>0, <1>5, <2>1
    DEF NoneBroughtIn, MoveTable, SwapIn, Cartodbfy, Place, tableVars
  <2>3. \E where : Move(p, where)
    BY <1>5 DEF MoveTable, SwapIn, Cartodbfy
  <2> QED
    BY <1>1, <2>1, <2>2, <2>3
<1>6. ASSUME NEW p \in Proc, BringIn(p) PROVE Temporaries'
  <2>1. p \in Syncer /\ at[p] \notin {"readying", "replacing"}
    BY <1>6 DEF Places, BringIn
  <2>2. CASE Place(TempName[p], {}) /\ Move(p, "readying")
    <3>1. at'[p] = "readying" /\ StillBringing
      BY <1>0, <1>1, <2>1, <2>2 DEF Move
    <3>2. \A o \in Oid, s \in Syncer : tables'[o] = TempName[s] => tables[o] = TempName[s] \/ s = p
      BY <2>1, <2>2 DEF Place
    <3> QED
      BY <3>1, <3>2 DEF Temporaries, StillBringing, Named
  <2>3. CASE UNCHANGED tableVars /\ Move(p, "closing")
    BY <1>1, <2>1, <2>3, TemporariesStay DEF NoneBroughtIn, tableVars
  <2> QED
    BY <1>6, <2>2, <2>3 DEF BringIn
<1>7. ASSUME NEW p \in Proc, Ready(p) PROVE StillBringing /\ NoneBroughtIn
  BY <1>1, <1>7 DEF Ready, NoneBroughtIn
<1>8. ASSUME NEW p \in Proc, Replace(p) PROVE Temporaries'
  <2>1. p \in Syncer /\ at[p] = "replacing" /\ target[p] \in Name
    BY <1>8 DEF Places, RegistrarPlaces, Working, Replace
  <2> DEFINE new == Named(TempName[p])
             old == Named(target[p])
             gone == IF old = {} THEN new ELSE old
  <2>2. tables' = [o \in Oid |-> IF o \in gone THEN NoName
                                 ELSE IF o \in new THEN target[p] ELSE tables[o]]
    BY <1>8 DEF Replace
  <2>3. \A o \in Oid, s \in Syncer : tables'[o] = TempName[s] => tables[o] = TempName[s] /\ s # p
    BY <2>1, <2>2 DEF Named
  <2>4. \A s \in Syncer : s # p => at'[s] = at[s]
    BY <1>0, <1>8 DEF Replace, Move
  <2> QED
    BY <2>3, <2>4 DEF Temporaries, Named
<1>9. CASE SqlCreate \/ SqlRename \/ SqlDrop
  <2>1. StillBringing
    BY <1>9 DEF StillBringing, SqlCreate, SqlRename, SqlDrop, Sql
  <2>2. NoneBroughtIn
    BY <1>0, <1>9 DEF NoneBroughtIn, SqlCreate, SqlRename, SqlDrop, TablesOK
  <2> QED
    BY <2>1, <2>2, TemporariesStay
<1>10. ASSUME UNCHANGED <<at, tables>> PROVE Temporaries'
  BY <1>10 DEF Temporaries, Named
<1>11. ASSUME NEW p \in Proc, Acquire(p) PROVE UNCHANGED <<at, tables>>
  BY <1>11 DEF Acquire, ghostVars
<1>12. CASE LeaseEnds \/ UNCHANGED vars
  BY <1>10, <1>12 DEF LeaseEnds, vars, ghostVars
<1> QED
  BY <1>2, <1>3, <1>4, <1>5, <1>6, <1>7, <1>8, <1>9, <1>10, <1>11, <1>12, TemporariesStay
  DEF Next, Proceed, Link, Enter

-----------------------------------------------------------------------------

Row == [id : 1 .. born, name : AnyName, table : Oid \cup {NoTable}]

(* Rows: no two have a name or an identity in common.                      *)
RowsOK ==
  /\ rows \subseteq Row
  /\ \A r, q \in rows : r.name = q.name \/ r.id = q.id => r = q
  /\ born \in Nat

LEMMA RowParts ==
  ASSUME RowsOK, NEW r \in rows
  PROVE  /\ r.id \in 1 .. born /\ r.name \in AnyName /\ r.table \in Oid \cup {NoTable}
         /\ r = [id |-> r.id, name |-> r.name, table |-> r.table]
         /\ \A o : /\ [r EXCEPT !.table = o] = [id |-> r.id, name |-> r.name, table |-> o]
                   /\ [r EXCEPT !.name = o] = [id |-> r.id, name |-> o, table |-> r.table]
BY DEF RowsOK, Row

(* A table is given to the row that has a name.                            *)
LEMMA TableGiven ==
  ASSUME RowsOK, NEW n, NEW o \in Oid \cup {NoTable}, born' = born,
         rows' = {IF r.name = n THEN [r EXCEPT !.table = o] ELSE r : r \in rows}
  PROVE  RowsOK'
<1>1. \A q \in rows' : \E r \in rows : q = IF r.name = n THEN [r EXCEPT !.table = o] ELSE r
  OBVIOUS
<1>2. \A q \in rows' : q \in Row'
  BY <1>1, RowParts DEF Row
<1>3. ASSUME NEW q1 \in rows', NEW q2 \in rows', q1.name = q2.name \/ q1.id = q2.id PROVE q1 = q2
  <2>1. PICK r1 \in rows : q1 = IF r1.name = n THEN [r1 EXCEPT !.table = o] ELSE r1
    BY <1>1
  <2>2. PICK r2 \in rows : q2 = IF r2.name = n THEN [r2 EXCEPT !.table = o] ELSE r2
    BY <1>1
  <2>3. q1.name = r1.name /\ q1.id = r1.id /\ q2.name = r2.name /\ q2.id = r2.id
    BY <2>1, <2>2, RowParts
  <2>4. r1 = r2
    BY <1>3, <2>3 DEF RowsOK
  <2> QED
    BY <2>1, <2>2, <2>4
<1> QED
  BY <1>2, <1>3 DEF RowsOK

LEMMA RowMade ==
  ASSUME RowsOK, NEW n \in AnyName, NEW o \in Oid \cup {NoTable}, RowsNamed(n) = {}, NewRow(n, o)
  PROVE  RowsOK'
<1> DEFINE new == [id |-> born + 1, name |-> n, table |-> o]
<1>1. rows' = rows \cup {new} /\ born' = born + 1 /\ born \in Nat
  BY DEF NewRow, RowsOK
<1>2. rows \subseteq Row' /\ new \in Row'
  BY <1>1 DEF Row, RowsOK
<1>3. \A r \in rows : r.name # new.name /\ r.id # new.id
  BY <1>1, RowParts DEF RowsNamed
<1> QED
  BY <1>1, <1>2, <1>3 DEF RowsOK

LEMMA RowRenamed ==
  ASSUME RowsOK, NEW n \in AnyName, NEW r \in rows, RowsNamed(n) = {}, born' = born,
         rows' = (rows \ {r}) \cup {[r EXCEPT !.name = n]}
  PROVE  RowsOK'
<1> DEFINE new == [id |-> r.id, name |-> n, table |-> r.table]
<1>1. rows' = (rows \ {r}) \cup {new}
  BY RowParts
<1>2. rows \subseteq Row' /\ new \in Row'
  BY RowParts DEF Row, RowsOK
<1>3. \A q \in rows \ {r} : q.name # new.name /\ q.id # new.id
  BY DEF RowsNamed, RowsOK
<1> QED
  BY <1>1, <1>2, <1>3 DEF RowsOK

LEMMA RowsStay ==
  ASSUME RowsOK, rows' \subseteq rows, born' = born
  PROVE  RowsOK'
BY DEF RowsOK, Row

LEMMA LinkerRows ==
  ASSUME RowsOK, Places, Fetched, NEW p \in Proc,
         Regenerate(p) \/ RenameRow(p) \/ CreateRow(p) \/ DropRow(p)
  PROVE  RowsOK'
<1>1. p \in Linker
  BY DEF Places, LinkerPlaces, Regenerate, RenameRow, CreateRow, DropRow
<1>2. \A f \in todo[p].regenerated \cup todo[p].renamed \cup todo[p].new :
        f.table \in Oid /\ f.name \in AnyName
  BY <1>1 DEF Fetched, Found
<1>3. CASE Regenerate(p)
  BY <1>2, <1>3, TableGiven DEF Regenerate
<1>4. CASE RenameRow(p)
  <2>1. PICK f \in todo[p].renamed :
          LET mine == {r \in rows : r.table = f.table}
          IN IF mine = {} \/ RowsNamed(f.name) # {}
             THEN UNCHANGED rows
             ELSE \E r \in mine : rows' = (rows \ {r}) \cup {[r EXCEPT !.name = f.name]}
    BY <1>4 DEF RenameRow
  <2>2. born' = born
    BY <1>4 DEF RenameRow
  <2>3. f.name \in AnyName
    BY <1>2
  <2>4. CASE UNCHANGED rows
    BY <2>2, <2>4, RowsStay
  <2>5. ASSUME RowsNamed(f.name) = {}, NEW r \in rows,
               rows' = (rows \ {r}) \cup {[r EXCEPT !.name = f.name]}
        PROVE  RowsOK'
    BY <2>2, <2>3, <2>5, RowRenamed
  <2> QED
    BY <2>1, <2>4, <2>5
<1>5. CASE CreateRow(p)
  <2>1. PICK f \in todo[p].new :
          IF RowsNamed(f.name) # {} \/ TableId(f.name) = NoTable
          THEN UNCHANGED rowVars
          ELSE NewRow(f.name, TableId(f.name))
    BY <1>5 DEF CreateRow
  <2>2. CASE UNCHANGED rowVars
    BY <2>2, RowsStay DEF rowVars
  <2> QED
    BY <1>2, <2>1, <2>2, RowMade, TableIdIsOid
<1>6. CASE DropRow(p)
  BY <1>6, RowsStay DEF DropRow
<1> QED
  BY <1>3, <1>4, <1>5, <1>6

LEMMA RegistrarRows ==
  ASSUME RowsOK, Places, NEW p \in Proc, Insert(p) \/ FixOid(p)
  PROVE  RowsOK'
<1>1. target[p] \in AnyName
  BY DEF Places, RegistrarPlaces, Working, Insert, FixOid, AnyName
<1>2. CASE Insert(p)
  <2>1. CASE UNCHANGED rowVars
    BY <2>1, RowsStay DEF rowVars
  <2> QED
    BY <1>1, <1>2, <2>1, RowMade, TableIdIsOid DEF Insert
<1>3. CASE FixOid(p)
  BY <1>3, TableGiven, TableIdIsOid DEF FixOid, Fix
<1> QED
  BY <1>2, <1>3

LEMMA RowsUntouched ==
  ASSUME [Next]_vars,
         \A p \in Proc : ~(Regenerate(p) \/ RenameRow(p) \/ CreateRow(p) \/ DropRow(p)),
         \A p \in Proc : ~(Insert(p) \/ FixOid(p))
  PROVE  UNCHANGED rowVars
<1>1. ASSUME NEW p \in Proc,
             \/ Visit(p) \/ Look(p) \/ Dequeue(p) \/ Denied(p) \/ Enqueue(p) \/ Perform(p)
             \/ FetchTables(p) \/ FetchRows(p) \/ EndSync(p) \/ Acquire(p) \/ Release(p)
      PROVE  UNCHANGED rowVars
  BY <1>1 DEF Visit, Look, Dequeue, Denied, Enqueue, Perform, FetchTables, FetchRows, EndSync,
              Acquire, Release, ghostVars, rowVars
<1>2. ASSUME NEW p \in Proc,
             \/ Register(p) \/ Choose(p) \/ Persist(p) \/ EndRegister(p)
             \/ MoveTable(p) \/ SwapIn(p) \/ Cartodbfy(p) \/ BringIn(p) \/ Ready(p) \/ Replace(p)
      PROVE  UNCHANGED rowVars
  BY <1>2 DEF Register, Choose, ProposeName, ProposeToOverwrite, Synchronize, Reserve, Persist,
              EndRegister, MoveTable, SwapIn, Cartodbfy, BringIn, Ready, Replace
<1>3. CASE SqlCreate \/ SqlRename \/ SqlDrop
  BY <1>3 DEF SqlCreate, SqlRename, SqlDrop, Sql
<1>4. CASE LeaseEnds \/ UNCHANGED vars
  BY <1>4 DEF LeaseEnds, vars, ghostVars, rowVars
<1> QED
  BY <1>1, <1>2, <1>3, <1>4 DEF Next, Proceed, Link, Enter

LEMMA RowsStep ==
  ASSUME RowsOK, Places, Fetched, [Next]_vars
  PROVE  RowsOK'
<1>1. CASE UNCHANGED rowVars
  BY <1>1, RowsStay DEF rowVars
<1> QED
  BY <1>1, LinkerRows, RegistrarRows, RowsUntouched

(* Jobs in Resque, and who has changed what linkers have fetched.          *)
LEMMA JobsStep ==
  ASSUME jobs \in Nat, [Next]_vars
  PROVE  jobs' \in Nat
<1>1. ASSUME NEW p \in Proc, Perform(p) \/ Dequeue(p) \/ Enqueue(p) PROVE jobs' \in Nat
  BY <1>1 DEF Perform, Dequeue, Enqueue
<1>2. ASSUME NEW p \in Proc,
             \/ Visit(p) \/ Look(p) \/ Denied(p)
             \/ FetchTables(p) \/ FetchRows(p) \/ EndSync(p) \/ Acquire(p) \/ Release(p)
             \/ Regenerate(p) \/ RenameRow(p) \/ CreateRow(p) \/ DropRow(p)
      PROVE  jobs' = jobs
  BY <1>2 DEF Visit, Look, Denied, FetchTables, FetchRows, EndSync,
              Acquire, Release, ghostVars, Regenerate, RenameRow, CreateRow, DropRow
<1>3. ASSUME NEW p \in Proc,
             \/ Register(p) \/ Choose(p) \/ Insert(p) \/ FixOid(p) \/ Persist(p) \/ EndRegister(p)
             \/ MoveTable(p) \/ SwapIn(p) \/ Cartodbfy(p) \/ BringIn(p) \/ Ready(p) \/ Replace(p)
      PROVE  jobs' = jobs
  BY <1>3 DEF Register, Choose, ProposeName, ProposeToOverwrite, Synchronize, Reserve, Persist,
              Insert, FixOid, EndRegister, MoveTable, SwapIn, Cartodbfy, BringIn, Ready, Replace
<1>4. CASE SqlCreate \/ SqlRename \/ SqlDrop
  BY <1>4 DEF SqlCreate, SqlRename, SqlDrop, Sql
<1>5. CASE LeaseEnds \/ UNCHANGED vars
  BY <1>5 DEF LeaseEnds, vars, ghostVars
<1> QED
  BY <1>1, <1>2, <1>3, <1>4, <1>5 DEF Next, Proceed, Link, Enter

SpoiltOK == spoilt \subseteq Linker \X {"process", "user"}

LEMMA SpoiltStep ==
  ASSUME SpoiltOK, [Next]_vars
  PROVE  SpoiltOK'
<1> USE DEF SpoiltOK
<1>1. ASSUME NEW p \in Proc, Spoil(p) \/ Unspoil(p) \/ UNCHANGED spoilt PROVE SpoiltOK'
  BY <1>1 DEF Spoil, Unspoil, Fetching
<1>2. ASSUME NEW p \in Proc,
             \/ Visit(p) \/ Look(p) \/ Dequeue(p) \/ Denied(p) \/ Enqueue(p) \/ Perform(p)
             \/ FetchTables(p) \/ FetchRows(p) \/ EndSync(p) \/ Acquire(p) \/ Release(p)
             \/ Regenerate(p) \/ RenameRow(p) \/ CreateRow(p) \/ DropRow(p)
      PROVE  Spoil(p) \/ Unspoil(p) \/ UNCHANGED spoilt
  BY <1>2 DEF Visit, Look, Dequeue, Denied, Enqueue, Perform, FetchTables, FetchRows, EndSync,
              Acquire, Release, ghostVars, Regenerate, RenameRow, CreateRow, DropRow
<1>3. ASSUME NEW p \in Proc,
             \/ Register(p) \/ Choose(p) \/ Insert(p) \/ FixOid(p) \/ Persist(p) \/ EndRegister(p)
             \/ MoveTable(p) \/ SwapIn(p) \/ Cartodbfy(p) \/ BringIn(p) \/ Ready(p) \/ Replace(p)
      PROVE  Spoil(p) \/ UNCHANGED spoilt
  BY <1>3 DEF Register, Choose, ProposeName, ProposeToOverwrite, Synchronize, Reserve, Persist,
              Insert, FixOid, EndRegister, MoveTable, SwapIn, Cartodbfy, BringIn, Ready, Replace
<1>4. CASE SqlCreate \/ SqlRename \/ SqlDrop
  BY <1>4 DEF SqlCreate, SqlRename, SqlDrop, Sql, Fetching
<1>5. CASE LeaseEnds \/ UNCHANGED vars
  BY <1>5 DEF LeaseEnds, vars, ghostVars
<1> QED
  BY <1>1, <1>2, <1>3, <1>4, <1>5 DEF Next, Proceed, Link, Enter

-----------------------------------------------------------------------------

Altered == [regenerated : SUBSET Found, renamed : SUBSET Found,
            new : SUBSET Found, dropped : SUBSET Missing]

LEMMA AlteredTyped ==
  ASSUME RowsOK, NEW found \in SUBSET Found, NEW altered \in AlteredTables(found, rows)
  PROVE  altered \in Altered
<1> DEFINE common == {f.table : f \in found} \cap {r.table : r \in rows}
           unknown == {f \in found : f.table \notin common}
<1>1. PICK match \in {m \in [common -> rows] : \A k \in common : m[k].table = k} :
        LET missing == {Facade(r) : r \in rows \ Range(match)}
            again == {f \in unknown : \E m \in missing : m.name = f.name}
        IN altered = [regenerated |-> again,
                      renamed |-> {f \in found \ unknown : match[f.table].name # f.name},
                      new |-> unknown \ again,
                      dropped |-> {m \in missing : \A f \in again : f.name # m.name}]
  BY DEF AlteredTables
<1>2. \A r \in rows : Facade(r) \in Missing
  BY RowParts DEF Facade, Missing
<1> QED
  BY <1>1, <1>2 DEF Altered

LEMMA CartodbfiedTyped ==
  ASSUME TablesOK
  PROVE  Cartodbfied \in SUBSET Found
BY DEF TablesOK, Cartodbfied, Found

LEMMA NothingTyped == Nothing \in Altered
BY DEF Nothing, Altered

LEMMA FetchedStep ==
  ASSUME BoltTypeOK, WorksInside, Places, Fetched, TablesOK, RowsOK, [Next]_vars
  PROVE  Fetched'
<1>0. /\ seen \in [Linker -> SUBSET Found] /\ todo \in [Linker -> Altered]
      /\ \A p \in Linker : p \in Proc /\ (at[p] # "applying" => todo[p] = Nothing)
      /\ at \in [Proc -> Working \cup Resting]
  BY GhostAssumption DEF Fetched, Altered, WorksInside
<1>1. ASSUME seen' \in [Linker -> SUBSET Found], todo' \in [Linker -> Altered],
             \A q \in Linker : at'[q] # "applying" => todo'[q] = Nothing
      PROVE  Fetched'
  BY <1>1 DEF Fetched, Altered
<1>2. ASSUME seen' \in [Linker -> SUBSET Found], todo' = todo, NEW p \in Proc, NEW where,
             Move(p, where), at[p] = "applying" => p \notin Linker \/ todo[p] = Nothing
      PROVE  Fetched'
  BY <1>0, <1>1, <1>2 DEF Move
<1>3. ASSUME NEW p \in Linker, NEW s \in SUBSET Found PROVE [seen EXCEPT ![p] = s] \in [Linker -> SUBSET Found]
  BY <1>0
<1>4. ASSUME NEW p \in Proc, Visit(p) \/ Look(p) \/ FetchTables(p) PROVE Fetched'
  <2>1. p \in Linker /\ at[p] # "applying"
    BY <1>4 DEF Visit, Look, FetchTables, Linker, Places, LinkerPlaces
  <2>2. todo' = todo /\ \E where : Move(p, where)
    BY <1>4 DEF Visit, Look, FetchTables
  <2>3. seen' = seen \/ \E s \in SUBSET Found : seen' = [seen EXCEPT ![p] = s]
    BY <1>4, CartodbfiedTyped DEF Visit, Look, FetchTables
  <2>4. seen' \in [Linker -> SUBSET Found]
    BY <1>0, <1>3, <2>1, <2>3
  <2> QED
    BY <1>2, <2>1, <2>2, <2>4
<1>5. ASSUME NEW p \in Proc, FetchRows(p) PROVE Fetched'
  <2>1. p \in Linker /\ at[p] = "fetching"
    BY <1>5 DEF FetchRows, Places, LinkerPlaces
  <2>2. seen' \in [Linker -> SUBSET Found]
    BY <1>3, <1>5, <2>1 DEF FetchRows
  <2>3. todo' = todo \/ \E altered \in Altered : todo' = [todo EXCEPT ![p] = altered]
    BY <1>0, <1>5, <2>1, AlteredTyped DEF FetchRows
  <2>4. at'[p] = "applying" /\ \A q \in Proc : q # p => at'[q] = at[q]
    BY <1>0, <1>5, <2>1 DEF FetchRows, Move
  <2> QED
    BY <1>0, <1>1, <2>1, <2>2, <2>3, <2>4
<1>6. ASSUME NEW p \in Proc, Regenerate(p) \/ RenameRow(p) \/ CreateRow(p) \/ DropRow(p)
      PROVE  Fetched'
  <2>1. p \in Linker /\ at[p] = "applying"
    BY <1>6 DEF Regenerate, RenameRow, CreateRow, DropRow, Places, LinkerPlaces
  <2>2. seen' = seen /\ at' = at
    BY <1>6 DEF Regenerate, RenameRow, CreateRow, DropRow
  <2>3. \E list \in {"regenerated", "renamed", "new", "dropped"} : \E f : Done(p, list, f)
    BY <1>6 DEF Regenerate, RenameRow, CreateRow, DropRow
  <2>4. todo' \in [Linker -> Altered] /\ \A q \in Linker : q # p => todo'[q] = todo[q]
    <3>0. PICK list \in {"regenerated", "renamed", "new", "dropped"} : \E f : Done(p, list, f)
      BY <2>3
    <3>1. PICK f : Done(p, list, f)
      BY <3>0
    <3> DEFINE rest == [todo[p] EXCEPT ![list] = @ \ {f}]
    <3>2. todo[p] \in Altered
      BY <1>0, <2>1
    <3>3. rest \in Altered
      BY <3>2 DEF Altered
    <3>4. todo' = [todo EXCEPT ![p] = rest]
      BY <1>0, <2>1, <3>1 DEF Done
    <3> QED
      BY <1>0, <2>1, <3>3, <3>4
  <2> QED
    BY <1>0, <1>1, <2>1, <2>2, <2>4
<1>7. ASSUME UNCHANGED <<seen, todo, at>> PROVE Fetched'
  BY <1>7 DEF Fetched
<1>8. ASSUME NEW p \in Proc, Dequeue(p) \/ Enqueue(p) \/ Perform(p) \/ EndSync(p) \/ Release(p)
      PROVE  Fetched'
  <2>1. UNCHANGED <<seen, todo>> /\ \E where : Move(p, where)
    BY <1>8 DEF Dequeue, Enqueue, Perform, EndSync, Release
  <2>2. at[p] = "applying" => p \notin Linker \/ todo[p] = Nothing
    BY <1>8 DEF Dequeue, Enqueue, Perform, EndSync, Release, Unlock, Places
  <2> QED
    BY <1>0, <1>2, <2>1, <2>2
<1>9. ASSUME NEW p \in Proc, Denied(p) PROVE Fetched'
  <2>1. at[p] # "applying"
    BY <1>9 DEF Denied, SetRetry, Places
  <2>2. UNCHANGED <<seen, todo>> /\ Move(p, IF retry THEN "out" ELSE at[p])
    BY <1>0, <1>9 DEF Denied, Move
  <2> QED
    BY <1>0, <1>2, <2>1, <2>2
<1>10. ASSUME NEW p \in Proc, Acquire(p) PROVE UNCHANGED <<seen, todo, at>>
  BY <1>10 DEF Acquire, ghostVars
<1>11. ASSUME NEW p \in Proc,
             \/ Register(p) \/ Choose(p) \/ Insert(p) \/ FixOid(p) \/ Persist(p) \/ EndRegister(p)
             \/ MoveTable(p) \/ SwapIn(p) \/ Cartodbfy(p) \/ BringIn(p) \/ Ready(p) \/ Replace(p)
      PROVE  Fetched'
  <2>1. UNCHANGED <<seen, todo>> /\ (at' = at \/ \E where : Move(p, where))
    BY <1>11
    DEF Register, Choose, ProposeName, ProposeToOverwrite, Synchronize, Reserve, Persist,
        Insert, FixOid, EndRegister, MoveTable, SwapIn, Cartodbfy, BringIn, Ready, Replace
  <2>2. at[p] # "applying"
    BY <1>11
    DEF Register, Choose, ProposeName, ProposeToOverwrite, Synchronize, MayBegin, Begins, Persist,
        Insert, FixOid, EndRegister, MoveTable, SwapIn, Cartodbfy, BringIn, Ready, Replace
  <2> QED
    BY <1>0, <1>2, <1>7, <2>1, <2>2
<1>12. CASE SqlCreate \/ SqlRename \/ SqlDrop
  BY <1>7, <1>12 DEF SqlCreate, SqlRename, SqlDrop, Sql
<1>13. CASE LeaseEnds \/ UNCHANGED vars
  BY <1>7, <1>13 DEF LeaseEnds, vars, ghostVars
<1> QED
  BY <1>4, <1>5, <1>6, <1>7, <1>8, <1>9, <1>10, <1>11, <1>12, <1>13 DEF Next, Proceed, Link, Enter

-----------------------------------------------------------------------------

(* What AlteredTables finds missing is gone: a table that it knows by its  *)
(* oid keeps a row, one that has the name of a missing row is given it.    *)
LEMMA AlteredDrops ==
  ASSUME TablesOK, RowsOK, NEW altered \in AlteredTables(Cartodbfied, rows)
  PROVE  DropsWhatIsGone(altered)
<1> DEFINE common == {f.table : f \in Cartodbfied} \cap {r.table : r \in rows}
           unknown == {f \in Cartodbfied : f.table \notin common}
<1>1. PICK match \in {m \in [common -> rows] : \A k \in common : m[k].table = k} :
        LET missing == {Facade(r) : r \in rows \ Range(match)}
            again == {f \in unknown : \E m \in missing : m.name = f.name}
        IN altered = [regenerated |-> again,
                      renamed |-> {f \in Cartodbfied \ unknown : match[f.table].name # f.name},
                      new |-> unknown \ again,
                      dropped |-> {m \in missing : \A f \in again : f.name # m.name}]
  BY DEF AlteredTables
<1> DEFINE missing == {Facade(r) : r \in rows \ Range(match)}
           again == {f \in unknown : \E m \in missing : m.name = f.name}
<1>2. /\ altered.regenerated = again
      /\ altered.renamed \subseteq Cartodbfied
      /\ altered.dropped = {m \in missing : \A f \in again : f.name # m.name}
  BY <1>1
<1>3. ASSUME NEW r \in rows PROVE Facade(r).table = r.table /\ Facade(r).name = r.name
  BY DEF Facade
<1>4. \A k \in common : match[k] \in rows /\ match[k].table = k /\ match[k] \in Range(match)
  BY <1>1 DEF Range
<1>5. ASSUME NEW o \in linkable PROVE [table |-> o, name |-> tables[o]] \in Cartodbfied
  BY DEF Cartodbfied
<1>6. \A m \in missing : \E r \in rows \ Range(match) : Facade(r) = m /\ r.table = m.table /\ r.name = m.name
  BY <1>3
<1>7. ASSUME NEW k \in common, NEW m \in missing PROVE m.name # match[k].name
  <2>1. PICK r \in rows \ Range(match) : r.name = m.name
    BY <1>6
  <2> QED
    BY <1>4, <2>1 DEF RowsOK
<1>8. ASSUME NEW d \in altered.dropped, NEW o \in linkable, o = d.table \/ tables[o] = d.name
      PROVE  \E q \in rows : /\ q.table = o
                             /\ Facade(q) \notin altered.dropped
                             /\ \A f \in altered.regenerated : f.name # q.name
  <2>1. d \in missing /\ \A f \in again : f.name # d.name
    BY <1>2
  <2> DEFINE g == [table |-> o, name |-> tables[o]]
  <2>2. g \in Cartodbfied /\ g.table = o /\ g.name = tables[o]
    BY <1>5
  <2>3. o \in common
    <3>1. CASE o = d.table
      BY <1>6, <2>1, <2>2, <3>1
    <3>2. CASE tables[o] = d.name /\ o \notin common
      <4>1. g \in unknown
        BY <2>2, <3>2
      <4>2. g \in again
        BY <2>1, <2>2, <3>2, <4>1
      <4> QED
        BY <2>1, <2>2, <3>2, <4>2
    <3> QED
      BY <1>8, <3>1, <3>2
  <2>4. match[o] \in rows /\ match[o].table = o
    BY <1>4, <2>3
  <2>5. Facade(match[o]) \notin missing
    BY <1>3, <1>7, <2>3, <2>4
  <2>6. \A f \in again : f.name # match[o].name
    BY <1>7, <2>3
  <2> QED
    BY <1>2, <2>4, <2>5, <2>6
<1>9. \A d \in altered.dropped, f \in altered.regenerated : d.name # f.name
  BY <1>2
<1>10. \A d \in altered.dropped : \E r \in rows : Facade(r) = d
  BY <1>2, <1>6
<1> QED
  BY <1>2, <1>8, <1>9, <1>10 DEF DropsWhatIsGone

LEMMA RegenerateDrops ==
  ASSUME RowsOK, NEW p \in Linker, Fetched, DropsWhatIsGone(todo[p]), Regenerate(p)
  PROVE  DropsWhatIsGone(todo[p])'
<1>1. PICK f \in todo[p].regenerated :
        /\ Done(p, "regenerated", f)
        /\ rows' = {IF r.name = f.name THEN [r EXCEPT !.table = f.table] ELSE r : r \in rows}
  BY DEF Regenerate
<1>2. /\ todo'[p].regenerated = todo[p].regenerated \ {f}
      /\ todo'[p].renamed = todo[p].renamed /\ todo'[p].dropped = todo[p].dropped
  BY <1>1 DEF Done, Fetched
<1>3. UNCHANGED tableVars
  BY DEF Regenerate
<1>4. Cartodbfied' = Cartodbfied /\ linkable' = linkable /\ tables' = tables
  BY <1>3 DEF Cartodbfied, tableVars
<1>5. \A r \in rows : r.name # f.name => r \in rows'
  BY <1>1
<1>6. \A r \in rows : Facade(r).name = r.name
  BY DEF Facade
<1>7. \A d \in todo'[p].dropped \cap todo'[p].renamed : \E r \in rows' : Facade(r) = d
  <2>1. TAKE d \in todo'[p].dropped \cap todo'[p].renamed
  <2>2. PICK r \in rows : Facade(r) = d
    BY <1>2 DEF DropsWhatIsGone
  <2>3. r.name # f.name
    BY <1>2, <1>6, <2>2 DEF DropsWhatIsGone
  <2> QED
    BY <1>5, <2>2, <2>3
<1>8. ASSUME NEW d \in todo'[p].dropped, NEW o \in linkable', o = d.table \/ tables'[o] = d.name
      PROVE  \E q \in rows' : /\ q.table = o
                              /\ Facade(q) \notin todo'[p].dropped
                              /\ \A g \in todo'[p].regenerated : g.name # q.name
  <2>1. PICK q \in rows : /\ q.table = o
                          /\ Facade(q) \notin todo[p].dropped
                          /\ \A g \in todo[p].regenerated : g.name # q.name
    BY <1>2, <1>4, <1>8 DEF DropsWhatIsGone
  <2>2. q \in rows'
    BY <1>5, <2>1
  <2> QED
    BY <1>2, <2>1, <2>2
<1>9. \A d \in todo'[p].dropped, g \in todo'[p].regenerated : d.name # g.name
  BY <1>2 DEF DropsWhatIsGone
<1>10. todo'[p].renamed \subseteq Cartodbfied'
  BY <1>2, <1>4 DEF DropsWhatIsGone
<1> QED
  BY <1>7, <1>8, <1>9, <1>10 DEF DropsWhatIsGone, Facade

LEMMA RenameDrops ==
  ASSUME RowsOK, NEW p \in Linker, Fetched, DropsWhatIsGone(todo[p]), RenameRow(p)
  PROVE  DropsWhatIsGone(todo[p])'
<1>1. PICK f \in todo[p].renamed :
        /\ Done(p, "renamed", f)
        /\ LET mine == {r \in rows : r.table = f.table}
           IN IF mine = {} \/ RowsNamed(f.name) # {}
              THEN UNCHANGED rows
              ELSE \E r \in mine : rows' = (rows \ {r}) \cup {[r EXCEPT !.name = f.name]}
  BY DEF RenameRow
<1>2. /\ todo[p].regenerated = {} /\ todo'[p].regenerated = {}
      /\ todo'[p].renamed = todo[p].renamed \ {f} /\ todo'[p].dropped = todo[p].dropped
  BY <1>1 DEF Done, Fetched, RenameRow
<1>3. UNCHANGED tableVars
  BY DEF RenameRow
<1>4. Cartodbfied' = Cartodbfied /\ linkable' = linkable /\ tables' = tables
  BY <1>3 DEF Cartodbfied, tableVars
<1>5. \A r \in rows : Facade(r).name = r.name /\ Facade(r).table = r.table
  BY DEF Facade
<1>6. todo'[p].renamed \subseteq Cartodbfied'
  BY <1>2, <1>4 DEF DropsWhatIsGone
<1>7. CASE UNCHANGED rows
  BY <1>2, <1>4, <1>6, <1>7 DEF DropsWhatIsGone, Facade
<1>8. ASSUME RowsNamed(f.name) = {}, NEW r \in rows, r.table = f.table,
             rows' = (rows \ {r}) \cup {[r EXCEPT !.name = f.name]}
      PROVE  DropsWhatIsGone(todo[p])'
  <2> DEFINE new == [id |-> r.id, name |-> f.name, table |-> r.table]
  <2>1. rows' = (rows \ {r}) \cup {new}
    BY <1>8, RowParts
  <2>2. f \in Cartodbfied /\ f \in todo[p].renamed /\ f = [table |-> f.table, name |-> f.name]
    BY DEF DropsWhatIsGone, Fetched, Found
  <2>3. Facade(new) = f
    BY <1>8, <2>2 DEF Facade
  <2>4. f \notin todo[p].dropped
    <3>1. SUFFICES ASSUME f \in todo[p].dropped PROVE FALSE
      OBVIOUS
    <3>2. PICK s \in rows : Facade(s) = f
      BY <2>2, <3>1 DEF DropsWhatIsGone
    <3> QED
      BY <1>5, <1>8, <3>2 DEF RowsNamed
  <2>5. ASSUME NEW d \in todo'[p].dropped \cap todo'[p].renamed
        PROVE  \E s \in rows' : Facade(s) = d
    <3>1. PICK s \in rows : Facade(s) = d
      BY <1>2 DEF DropsWhatIsGone
    <3>2. d \in todo[p].dropped
      BY <1>2
    <3>3. d \in Cartodbfied
      BY <1>4, <1>6
    <3>4. s # r
      BY <1>5, <1>8, <2>2, <2>4, <3>1, <3>2, <3>3 DEF Cartodbfied
    <3> QED
      BY <2>1, <3>1, <3>4
  <2>6. ASSUME NEW d \in todo'[p].dropped, NEW o \in linkable', o = d.table \/ tables'[o] = d.name
        PROVE  \E q \in rows' : /\ q.table = o
                                /\ Facade(q) \notin todo'[p].dropped
                                /\ \A g \in todo'[p].regenerated : g.name # q.name
    <3>1. PICK q \in rows : q.table = o /\ Facade(q) \notin todo[p].dropped
      BY <1>2, <1>4, <2>6 DEF DropsWhatIsGone
    <3>2. CASE q # r
      BY <1>2, <2>1, <3>1, <3>2
    <3>3. CASE q = r
      <4>1. new \in rows' /\ new.table = o
        BY <2>1, <3>1, <3>3
      <4> QED
        BY <1>2, <2>3, <2>4, <4>1
    <3> QED
      BY <3>2, <3>3
  <2> QED
    BY <1>2, <1>6, <2>5, <2>6 DEF DropsWhatIsGone, Facade
<1> QED
  BY <1>1, <1>7, <1>8

LEMMA CreateDrops ==
  ASSUME NEW p \in Linker, Fetched, DropsWhatIsGone(todo[p]), CreateRow(p)
  PROVE  DropsWhatIsGone(todo[p])'
<1>1. rows \subseteq rows' /\ UNCHANGED tableVars /\ \E f : Done(p, "new", f)
  BY DEF CreateRow, NewRow, rowVars
<1>2. /\ todo[p].regenerated = {} /\ todo'[p].regenerated = {}
      /\ todo[p].renamed = {} /\ todo'[p].renamed = {} /\ todo'[p].dropped = todo[p].dropped
  BY <1>1 DEF CreateRow, Done, Fetched
<1> QED
  BY <1>1, <1>2 DEF DropsWhatIsGone, tableVars, Facade

LEMMA DropDrops ==
  ASSUME NEW p \in Linker, Fetched, DropsWhatIsGone(todo[p]), DropRow(p)
  PROVE  DropsWhatIsGone(todo[p])'
<1>1. PICK f : Done(p, "dropped", f) /\ f \in todo[p].dropped /\ rows' = {r \in rows : Facade(r) # f}
  BY DEF DropRow
<1>2. UNCHANGED tableVars
  BY DEF DropRow
<1>3. /\ todo[p].regenerated = {} /\ todo'[p].regenerated = {}
      /\ todo[p].renamed = {} /\ todo'[p].renamed = {} /\ todo'[p].dropped = todo[p].dropped \ {f}
  BY <1>1 DEF DropRow, Done, Fetched
<1>4. ASSUME NEW d \in todo'[p].dropped, NEW o \in linkable', o = d.table \/ tables'[o] = d.name
      PROVE  \E q \in rows' : q.table = o /\ Facade(q) \notin todo'[p].dropped
  <2>1. PICK q \in rows : q.table = o /\ Facade(q) \notin todo[p].dropped
    BY <1>2, <1>3, <1>4 DEF DropsWhatIsGone, tableVars
  <2> QED
    BY <1>1, <1>3, <2>1
<1> QED
  BY <1>3, <1>4 DEF DropsWhatIsGone, Facade

-----------------------------------------------------------------------------

(* A step that changes nothing that q's sync has fetched or is to do.      *)
Unmoved(q) ==
  /\ rows' = rows /\ tables' = tables /\ linkable' = linkable
  /\ todo'[q] = todo[q]
  /\ at'[q] = "fetching" => at[q] = "fetching" /\ seen'[q] = seen[q]
  /\ at'[q] = "applying" => at[q] = "applying"
  /\ Alone(q)' => Alone(q)

LEMMA LinksStay ==
  ASSUME NEW q \in Linker, Links(q), Unmoved(q)
  PROVE  Links(q)'
BY DEF Links, Unmoved, DropsWhatIsGone, Cartodbfied, Facade

(* Whoever changes rows or tables, the syncs beside are no longer alone.   *)
LEMMA LinksSpoilt ==
  ASSUME NEW q \in Linker,
         at'[q] \in {"fetching", "applying"} => at[q] = at'[q],
         (\E p \in Proc : p # q /\ Spoil(p)) \/ spoilt' = spoilt \cup (Fetching \X {"user"})
  PROVE  Links(q)'
<1>1. CASE at'[q] \notin {"fetching", "applying"}
  BY <1>1 DEF Links
<1>2. CASE at'[q] \in {"fetching", "applying"}
  <2>1. q \in Fetching
    BY <1>2 DEF Fetching
  <2>2. <<q, "process">> \in spoilt' \/ <<q, "user">> \in spoilt'
    BY <2>1 DEF Spoil
  <2> QED
    BY <2>2 DEF Links, Alone, Beside
<1> QED
  BY <1>1, <1>2

LEMMA OwnFetch ==
  ASSUME TablesOK, RowsOK, Fetched, WorksInside, NEW q \in Linker, Links(q),
         FetchTables(q) \/ FetchRows(q)
  PROVE  Links(q)'
<1>1. /\ q \in Proc /\ at \in [Proc -> Working \cup Resting]
      /\ seen \in [Linker -> SUBSET Found] /\ todo \in [Linker -> Altered]
      /\ at[q] # "applying" => todo[q] = Nothing
  BY GhostAssumption DEF WorksInside, Fetched, Altered
<1>2. rows' = rows /\ tables' = tables /\ linkable' = linkable
  BY DEF FetchTables, FetchRows, tableVars, rowVars
<1>3. Cartodbfied' = Cartodbfied
  BY <1>2 DEF Cartodbfied
<1>4. CASE FetchTables(q)
  <2>1. at'[q] = "fetching" /\ seen'[q] = Cartodbfied'
    BY <1>1, <1>3, <1>4 DEF FetchTables, Move
  <2> QED
    BY <2>1 DEF Links
<1>5. CASE FetchRows(q)
  <2>1. at[q] = "fetching" /\ at'[q] = "applying" /\ Alone(q)' = Alone(q)
    BY <1>1, <1>5 DEF FetchRows, Move, Alone, Beside
  <2>2. SUFFICES ASSUME Alone(q), seen[q] = Cartodbfied PROVE DropsWhatIsGone(todo[q])'
    BY <2>1 DEF Links
  <2>3. ASSUME todo' = todo PROVE DropsWhatIsGone(todo[q])'
    BY <1>1, <2>1, <2>3 DEF DropsWhatIsGone, Nothing
  <2>4. ASSUME NEW altered \in AlteredTables(Cartodbfied, rows), todo' = [todo EXCEPT ![q] = altered]
        PROVE  DropsWhatIsGone(todo[q])'
    <3>1. todo'[q] = altered
      BY <1>1, <2>4
    <3>2. DropsWhatIsGone(altered)
      BY AlteredDrops
    <3> QED
      BY <1>2, <1>3, <3>1, <3>2 DEF DropsWhatIsGone, Facade
  <2> QED
    BY <1>5, <2>2, <2>3, <2>4 DEF FetchRows
<1> QED
  BY <1>4, <1>5

LEMMA OwnChanges ==
  ASSUME RowsOK, Fetched, WorksInside, NEW q \in Linker, Links(q),
         Regenerate(q) \/ RenameRow(q) \/ CreateRow(q) \/ DropRow(q)
  PROVE  Links(q)'
<1>1. at[q] = "applying" /\ at' = at /\ Spoil(q)
  BY DEF Regenerate, RenameRow, CreateRow, DropRow
<1>2. Alone(q)' => Alone(q)
  BY <1>1 DEF Alone, Beside, Spoil
<1>3. SUFFICES ASSUME Alone(q)' PROVE DropsWhatIsGone(todo[q])'
  BY <1>1 DEF Links
<1>4. DropsWhatIsGone(todo[q])
  BY <1>1, <1>2, <1>3 DEF Links
<1> QED
  BY <1>4, RegenerateDrops, RenameDrops, CreateDrops, DropDrops

(* The steps of another process: they leave the sync alone, or spoil it.   *)
LEMMA OthersStep ==
  ASSUME WorksInside, Fetched, NEW q \in Linker, Links(q), NEW p \in Proc, p # q,
         Visit(p) \/ Register(p) \/ Choose(p) \/ Proceed(p)
  PROVE  Links(q)'
<1>1. /\ at \in [Proc -> Working \cup Resting] /\ q \in Proc
      /\ seen \in [Linker -> SUBSET Found] /\ todo \in [Linker -> Altered]
  BY GhostAssumption DEF WorksInside, Fetched, Altered
<1>2. ASSUME \/ Visit(p) \/ Look(p) \/ Dequeue(p) \/ Denied(p) \/ Enqueue(p) \/ Perform(p)
             \/ FetchTables(p) \/ FetchRows(p) \/ EndSync(p) \/ Acquire(p) \/ Release(p)
      PROVE  Unmoved(q)
  <2>1. at'[q] = at[q]
    BY <1>1, <1>2
    DEF Visit, Look, Dequeue, Denied, Enqueue, Perform, FetchTables, FetchRows, EndSync, Acquire,
        Release, ghostVars, Move
  <2>2. seen'[q] = seen[q] /\ todo'[q] = todo[q]
    BY <1>1, <1>2
    DEF Visit, Look, Dequeue, Denied, Enqueue, Perform, FetchTables, FetchRows, EndSync, Acquire,
        Release, ghostVars
  <2>3. UNCHANGED <<rows, tables, linkable>>
    BY <1>2
    DEF Visit, Look, Dequeue, Denied, Enqueue, Perform, FetchTables, FetchRows, EndSync, Acquire,
        Release, ghostVars, rowVars, tableVars
  <2>4. UNCHANGED spoilt \/ Unspoil(p)
    BY <1>2
    DEF Visit, Look, Dequeue, Denied, Enqueue, Perform, FetchTables, FetchRows, EndSync, Acquire,
        Release, ghostVars
  <2> QED
    BY <2>1, <2>2, <2>3, <2>4 DEF Unmoved, Alone, Beside, Unspoil
<1>3. ASSUME Register(p) \/ Choose(p) \/ Persist(p) \/ EndRegister(p)
      PROVE  Unmoved(q)
  <2>1. at'[q] = at[q]
    BY <1>1, <1>3
    DEF Register, Choose, ProposeName, ProposeToOverwrite, Synchronize, Reserve, Persist,
        EndRegister, Move
  <2>2. UNCHANGED <<rows, tables, linkable, seen, todo, spoilt>>
    BY <1>3
    DEF Register, Choose, ProposeName, ProposeToOverwrite, Synchronize, Reserve, Persist,
        EndRegister, rowVars, tableVars
  <2> QED
    BY <2>1, <2>2 DEF Unmoved, Alone, Beside
<1>4. ASSUME \/ Regenerate(p) \/ RenameRow(p) \/ CreateRow(p) \/ DropRow(p)
             \/ Insert(p) \/ FixOid(p)
             \/ MoveTable(p) \/ SwapIn(p) \/ Cartodbfy(p) \/ BringIn(p) \/ Ready(p) \/ Replace(p)
      PROVE  Spoil(p) /\ at'[q] = at[q]
  BY <1>1, <1>4
  DEF Regenerate, RenameRow, CreateRow, DropRow, Insert, FixOid, MoveTable, SwapIn, Cartodbfy,
      BringIn, Ready, Replace, Move
<1> QED
  BY <1>2, <1>3, <1>4, LinksStay, LinksSpoilt DEF Proceed, Link, Enter

(* The other steps of the linker: it is not where it holds anything.       *)
LEMMA OwnStep ==
  ASSUME WorksInside, Places, NEW q \in Linker, Links(q),
         Visit(q) \/ Register(q) \/ Choose(q) \/ Acquire(q) \/ Release(q) \/ Enter(q)
           \/ Look(q) \/ Dequeue(q) \/ Enqueue(q) \/ Perform(q) \/ Denied(q) \/ EndSync(q)
  PROVE  Links(q)'
<1>1. at \in [Proc -> Working \cup Resting] /\ q \in Proc /\ q \notin Registrar
  BY GhostAssumption DEF WorksInside
<1>2. ASSUME at'[q] \notin {"fetching", "applying"} PROVE Links(q)'
  BY <1>2 DEF Links
<1>3. CASE \/ Visit(q) \/ Look(q) \/ Dequeue(q) \/ Enqueue(q) \/ Perform(q) \/ EndSync(q)
           \/ Release(q)
  <2>1. at'[q] \notin {"fetching", "applying"}
    BY <1>1, <1>3 DEF Visit, Look, Dequeue, Enqueue, Perform, EndSync, Release, Move
  <2> QED
    BY <1>2, <2>1
<1>4. CASE Denied(q)
  <2>1. at'[q] \notin {"fetching", "applying"}
    BY <1>1, <1>4 DEF Denied, SetRetry, Places
  <2> QED
    BY <1>2, <2>1
<1>5. CASE Acquire(q)
  <2>1. Unmoved(q)
    BY <1>5 DEF Acquire, ghostVars, Unmoved, Alone, Beside
  <2> QED
    BY <2>1, LinksStay
<1>6. ~Register(q) /\ ~Choose(q) /\ ~Enter(q)
  BY <1>1 DEF Register, Choose, ProposeName, ProposeToOverwrite, Synchronize, Registrar, Enter,
              MoveTable, SwapIn, Cartodbfy, Insert, FixOid, Persist, BringIn, Ready, Replace,
              EndRegister, Places, RegistrarPlaces, Working
<1> QED
  BY <1>3, <1>4, <1>5, <1>6

LEMMA LinksStep ==
  ASSUME WorksInside, Places, Fetched, TablesOK, RowsOK, LinksWhatThereIs, [Next]_vars
  PROVE  LinksWhatThereIs'
<1> SUFFICES ASSUME NEW q \in Linker PROVE Links(q)'
  BY DEF LinksWhatThereIs
<1>1. Links(q) /\ q \in Proc
  BY GhostAssumption DEF LinksWhatThereIs
<1>2. ASSUME NEW p \in Proc, Visit(p) \/ Register(p) \/ Choose(p) \/ Proceed(p)
      PROVE  Links(q)'
  <2>1. CASE p # q
    BY <1>1, <1>2, <2>1, OthersStep
  <2>2. CASE p = q
    BY <1>1, <1>2, <2>2, OwnFetch, OwnChanges, OwnStep DEF Proceed, Link
  <2> QED
    BY <2>1, <2>2
<1>3. CASE SqlCreate \/ SqlRename \/ SqlDrop
  <2>1. at' = at /\ spoilt' = spoilt \cup (Fetching \X {"user"})
    BY <1>3 DEF SqlCreate, SqlRename, SqlDrop, Sql
  <2> QED
    BY <1>1, <2>1, LinksSpoilt
<1>4. CASE LeaseEnds \/ UNCHANGED vars
  <2>1. Unmoved(q)
    BY <1>4 DEF LeaseEnds, vars, ghostVars, Unmoved, Alone, Beside
  <2> QED
    BY <1>1, <2>1, LinksStay
<1> QED
  BY <1>2, <1>3, <1>4 DEF Next

-----------------------------------------------------------------------------

LEMMA GhostTypeParts == GhostTypeOK <=>
  /\ TablesOK /\ RowsOK /\ SpoiltOK
  /\ made \in 0 .. Cardinality(Oid) /\ jobs \in Nat
BY DEF GhostTypeOK, TablesOK, RowsOK, Row, SpoiltOK

LEMMA GhostInvStep ==
  ASSUME BoltTypeOK, WorksInside, GhostInv, [Next]_vars
  PROVE  GhostInv'
<1>1. /\ TablesOK /\ RowsOK /\ SpoiltOK /\ made \in 0 .. Cardinality(Oid) /\ jobs \in Nat
      /\ OidsLeft /\ Places /\ Temporaries /\ Fetched
  BY GhostTypeParts DEF GhostInv
<1>2. made \in Nat
  BY <1>1, Oids
<1>3. Places'
  BY <1>1, PlacesStep
<1>4. OidsLeft' /\ made' \in 0 .. Cardinality(Oid) /\ (made' # made => made + 1 \in Oid)
  BY <1>1, OidsStep
<1>5. TablesOK'
  BY <1>1, <1>2, <1>4, TablesStep
<1>6. Temporaries'
  BY <1>1, TemporariesStep
<1>7. RowsOK' /\ jobs' \in Nat /\ SpoiltOK'
  BY <1>1, RowsStep, JobsStep, SpoiltStep
<1>8. Fetched'
  BY <1>1, FetchedStep
<1>9. GhostTypeOK'
  BY <1>4, <1>5, <1>7 DEF GhostTypeOK, TablesOK, RowsOK, Row, SpoiltOK
<1> QED
  BY <1>3, <1>4, <1>6, <1>8, <1>9 DEF GhostInv

LEMMA GhostInvariant == Spec => [](BoltTypeOK /\ WorksInside /\ GhostInv)
<1>1. BoltTypeOK /\ WorksInside /\ GhostInv /\ [Next]_vars => WorksInside' /\ GhostInv'
  BY WorksInsideStep, GhostInvStep
<1>2. Spec => []BoltTypeOK
  BY KeepsBolt, TypeCorrect, PTL
<1> QED
  BY <1>1, <1>2, WorksInsideInit, GhostInvInit, PTL DEF Spec

(* Whatever imports, synchronizations, new tables, syncs and the user's    *)
(* own SQL do at once, and whenever leases end: no two tables and no two   *)
(* rows have the same name, whoever looked first whether it was free, and  *)
(* what a synchronization brings in is never taken for another's table.    *)
THEOREM GhostTypes == Spec => []GhostTypeOK
<1>1. GhostInv => GhostTypeOK
  BY DEF GhostInv
<1> QED
  BY <1>1, GhostInvariant, PTL

(* What a sync that nobody works beside has yet to do: it destroys a row   *)
(* only when the tables with its name or oid have another that stays.      *)
THEOREM LinksTheorem == Spec => []LinksWhatThereIs
<1>1. WorksInside /\ GhostInv /\ LinksWhatThereIs /\ [Next]_vars => LinksWhatThereIs'
  BY LinksStep, GhostTypeParts DEF GhostInv
<1> QED
  BY <1>1, GhostInvariant, GhostInvInit, PTL DEF Spec

(* sync_user_tables_with_db never destroys a row, and with it a map, of a  *)
(* cartodbfied table that would be left without one, unless somebody       *)
(* changes rows or tables while it is at it.                               *)
THEOREM UnlinksGoneTheorem == Spec => UnlinksGone
<1>1. ASSUME LinksWhatThereIs, NEW p \in Linker \ (Beside("process") \cup Beside("user"))
      PROVE  Unlinks(p)
  <2> SUFFICES ASSUME DropRow(p), NEW r \in rows \ rows', NEW o \in linkable,
                      tables[o] = r.name \/ o = r.table
               PROVE  \E q \in rows' : q.table = o
    BY DEF Unlinks
  <2>1. DropsWhatIsGone(todo[p])
    BY <1>1 DEF LinksWhatThereIs, Links, Alone, DropRow
  <2>2. PICK f \in todo[p].dropped : rows' = {q \in rows : Facade(q) # f}
    BY DEF DropRow
  <2>3. f.name = r.name /\ f.table = r.table
    BY <2>2 DEF Facade
  <2>4. PICK q \in rows : q.table = o /\ Facade(q) \notin todo[p].dropped
    BY <2>1, <2>3 DEF DropsWhatIsGone
  <2> QED
    BY <2>2, <2>4
<1>2. LinksWhatThereIs /\ [Next]_vars
        => [\A p \in Linker \ (Beside("process") \cup Beside("user")) : Unlinks(p)]_vars
  BY <1>1
<1> QED
  BY <1>2, LinksTheorem, PTL DEF Spec, UnlinksGone
=============================================================================
