----------------------------- MODULE BoltProofs -----------------------------
(***************************************************************************)
(* What bolt.rb guarantees for any set of processes, attempts and leases:  *)
(* each lease that ends under its holder costs at most one place, and so,  *)
(* when none does, the lock is a mutex.                                    *)
(***************************************************************************)
EXTENDS Bolt, FiniteSetTheorems, TLAPS

(* Holders that have yet to delete the retry flag.                         *)
Acquired == {p \in Proc : pc[p] = "acquired"}

FlagAbsent == IF retry THEN 0 ELSE 1

(* ClaimsBounded is not inductive: a holder that is about to delete the    *)
(* flag, and a flag that is not there, each allow one more claim.          *)
ClaimsInv == claims + Cardinality(Acquired) + FlagAbsent <= 2 + overruns

BoltInv == BoltTypeOK /\ OrphansBounded /\ ClaimsInv

-----------------------------------------------------------------------------

(* Sets of processes are finite, so their cardinalities are numbers.       *)
LEMMA ProcSets ==
  ASSUME NEW S \in SUBSET Proc
  PROVE  IsFiniteSet(S) /\ Cardinality(S) \in Nat
BY BoltAssumption, FS_Subset, FS_CardinalityType

(* A set of processes that grows by at most one process.                   *)
LEMMA GrowsByOne ==
  ASSUME NEW S \in SUBSET Proc, NEW T \in SUBSET Proc, NEW p \in Proc,
         T \subseteq S \cup {p}
  PROVE  Cardinality(T) <= Cardinality(S) + 1
<1>1. S \cup {p} \in SUBSET Proc
  OBVIOUS
<1>2. IsFiniteSet(S) /\ IsFiniteSet(S \cup {p})
  BY <1>1, ProcSets
<1>3. Cardinality(S \cup {p}) <= Cardinality(S) + 1
  <2>1. Cardinality(S \cup {p}) = IF p \in S THEN Cardinality(S) ELSE Cardinality(S) + 1
    BY <1>2, FS_AddElement
  <2> QED
    BY <2>1, ProcSets
<1>4. Cardinality(T) <= Cardinality(S \cup {p})
  BY <1>2, FS_Subset
<1> QED
  BY <1>1, <1>3, <1>4, ProcSets

LEMMA NoLarger ==
  ASSUME NEW S \in SUBSET Proc, NEW T \in SUBSET Proc, T \subseteq S
  PROVE  Cardinality(T) <= Cardinality(S)
BY ProcSets, FS_Subset

(* One process of the set may be exchanged for another.                    *)
LEMMA Exchange ==
  ASSUME NEW S \in SUBSET Proc, NEW T \in SUBSET Proc,
         NEW p \in S, NEW q \in Proc, T \subseteq (S \ {p}) \cup {q}
  PROVE  Cardinality(T) <= Cardinality(S)
<1>1. IsFiniteSet(S) /\ Cardinality(S) \in Nat
  BY ProcSets
<1>2. Cardinality(S \ {p}) = Cardinality(S) - 1
  BY <1>1, FS_RemoveElement
<1>3. Cardinality(T) <= Cardinality(S \ {p}) + 1
  BY GrowsByOne
<1>4. Cardinality(T) \in Nat /\ Cardinality(S \ {p}) \in Nat
  BY ProcSets
<1> QED
  BY <1>1, <1>2, <1>3, <1>4

-----------------------------------------------------------------------------

LEMMA InitInv == BoltInit => BoltInv
<1> SUFFICES ASSUME BoltInit PROVE BoltInv
  OBVIOUS
<1>1. BoltTypeOK
  <2>1. \A p \in Proc : Attempts[p] \in Nat \ {0}
    BY BoltAssumption
  <2>2. \A p \in Proc : tries[p] < Attempts[p] /\ tries[p] = 0
    BY <2>1 DEF BoltInit
  <2>3. pc \in [Proc -> Where] /\ tries \in [Proc -> Nat]
    BY DEF BoltInit, Where
  <2>4. overruns \in 0..MaxOverruns /\ claims \in Nat
    BY BoltAssumption DEF BoltInit
  <2>5. lock \in Proc \cup {NoProc} /\ retry \in BOOLEAN
    BY DEF BoltInit
  <2> QED
    BY <2>2, <2>3, <2>4, <2>5 DEF BoltTypeOK
<1>2. Orphans = {} /\ Acquired = {}
  BY DEF BoltInit, Orphans, Inside, Acquired
<1>3. Cardinality({}) = 0
  BY FS_EmptySet
<1>4. OrphansBounded
  BY <1>2, <1>3 DEF OrphansBounded, BoltInit
<1>5. ClaimsInv
  BY <1>2, <1>3 DEF ClaimsInv, FlagAbsent, BoltInit
<1> QED
  BY <1>1, <1>4, <1>5 DEF BoltInv

LEMMA NextType == BoltTypeOK /\ [BoltNext]_boltVars => BoltTypeOK'
<1> SUFFICES ASSUME BoltTypeOK, [BoltNext]_boltVars PROVE BoltTypeOK'
  OBVIOUS
<1> USE BoltAssumption DEF BoltTypeOK, Where, Inside, Goto
<1>1. ASSUME NEW p \in Proc, Call(p) PROVE BoltTypeOK'
  BY <1>1 DEF Call
<1>2. ASSUME NEW p \in Proc, GetLock(p) PROVE BoltTypeOK'
  BY <1>2 DEF GetLock
<1>3. ASSUME NEW p \in Proc, MissLock(p) PROVE BoltTypeOK'
  BY <1>3 DEF MissLock
<1>4. ASSUME NEW p \in Proc, Wake(p) PROVE BoltTypeOK'
  BY <1>4 DEF Wake
<1>5. ASSUME NEW p \in Proc, Retried(p) PROVE BoltTypeOK'
  BY <1>5 DEF Retried
<1>6. ASSUME NEW p \in Proc, Finish(p) PROVE BoltTypeOK'
  BY <1>6 DEF Finish
<1>7. ASSUME NEW p \in Proc, Unlock(p) PROVE BoltTypeOK'
  BY <1>7 DEF Unlock
<1>8. ASSUME NEW p \in Proc, SetRetry(p) PROVE BoltTypeOK'
  BY <1>8 DEF SetRetry
<1>9. ASSUME NEW p \in Proc, FailFunction(p) PROVE BoltTypeOK'
  BY <1>9 DEF FailFunction
<1>10. ASSUME NEW p \in Proc, Crash(p) PROVE BoltTypeOK'
  BY <1>10 DEF Crash
<1>11. CASE Expire
  BY <1>11 DEF Expire
<1>12. CASE UNCHANGED boltVars
  BY <1>12 DEF boltVars
<1> QED
  BY <1>1, <1>2, <1>3, <1>4, <1>5, <1>6, <1>7, <1>8, <1>9, <1>10, <1>11, <1>12
  DEF BoltNext, Step

(* A step changes the processes without a key as the code lets it: only a  *)
(* lease that ends adds one, an unlock at most swaps the caller that       *)
(* leaves for the one whose key it deletes.                                *)
LEMMA OrphansStep ==
  ASSUME BoltTypeOK, [BoltNext]_boltVars
  PROVE  \/ Orphans' \subseteq Orphans /\ overruns' = overruns
         \/ /\ \E p \in Orphans, q \in Proc : Orphans' \subseteq (Orphans \ {p}) \cup {q}
            /\ overruns' = overruns
         \/ /\ \E q \in Proc : Orphans' \subseteq Orphans \cup {q}
            /\ overruns' = overruns + 1
<1> USE BoltAssumption DEF BoltTypeOK, Where, Inside, Orphans, Goto
<1>1. ASSUME NEW p \in Proc,
             Call(p) \/ MissLock(p) \/ Wake(p) \/ Retried(p) \/ Finish(p)
               \/ SetRetry(p) \/ FailFunction(p) \/ Crash(p)
      PROVE  Orphans' \subseteq Orphans /\ overruns' = overruns
  BY <1>1 DEF Call, MissLock, Wake, Retried, Finish, SetRetry, FailFunction, Crash
<1>2. ASSUME NEW p \in Proc, GetLock(p)
      PROVE  Orphans' \subseteq Orphans /\ overruns' = overruns
  BY <1>2 DEF GetLock
<1>3. ASSUME NEW p \in Proc, Unlock(p), lock \in {p, NoProc}
      PROVE  Orphans' \subseteq Orphans /\ overruns' = overruns
  BY <1>3 DEF Unlock
<1>4. ASSUME NEW p \in Proc, Unlock(p), lock \notin {p, NoProc}
      PROVE  /\ p \in Orphans /\ lock \in Proc
             /\ Orphans' \subseteq (Orphans \ {p}) \cup {lock}
             /\ overruns' = overruns
  BY <1>4 DEF Unlock
<1>5. CASE Expire /\ lock \in Inside
  BY <1>5 DEF Expire
<1>6. CASE Expire /\ lock \notin Inside
  <2>1. Orphans' \subseteq Orphans /\ overruns' = overruns
    BY <1>6 DEF Expire
  <2> QED
    BY <2>1
<1>7. CASE UNCHANGED boltVars
  BY <1>7 DEF boltVars
<1> QED
  BY <1>1, <1>2, <1>3, <1>4, <1>5, <1>6, <1>7 DEF BoltNext, Step

LEMMA NextOrphans ==
  ASSUME BoltTypeOK, OrphansBounded, [BoltNext]_boltVars
  PROVE  OrphansBounded'
<1>1. BoltTypeOK'
  BY NextType
<1>2. Orphans \in SUBSET Proc /\ Orphans' \in SUBSET Proc
  BY DEF Orphans, Inside
<1>3. Cardinality(Orphans) \in Nat /\ Cardinality(Orphans') \in Nat
  BY <1>2, ProcSets
<1>4. overruns \in Nat /\ overruns' \in Nat
  BY <1>1 DEF BoltTypeOK
<1>5. CASE Orphans' \subseteq Orphans /\ overruns' = overruns
  <2>1. Cardinality(Orphans') <= Cardinality(Orphans)
    BY <1>2, <1>5, NoLarger
  <2> QED
    BY <1>3, <1>4, <1>5, <2>1 DEF OrphansBounded
<1>6. CASE /\ \E p \in Orphans, q \in Proc : Orphans' \subseteq (Orphans \ {p}) \cup {q}
           /\ overruns' = overruns
  <2>1. Cardinality(Orphans') <= Cardinality(Orphans)
    BY <1>2, <1>6, Exchange
  <2> QED
    BY <1>3, <1>4, <1>6, <2>1 DEF OrphansBounded
<1>7. CASE /\ \E q \in Proc : Orphans' \subseteq Orphans \cup {q}
           /\ overruns' = overruns + 1
  <2>1. Cardinality(Orphans') <= Cardinality(Orphans) + 1
    BY <1>2, <1>7, GrowsByOne
  <2> QED
    BY <1>3, <1>4, <1>7, <2>1 DEF OrphansBounded
<1> QED
  BY <1>5, <1>6, <1>7, OrphansStep

(* Callers inside: the creator of the key and the orphans.                 *)
LEMMA InsideBounded ==
  ASSUME BoltTypeOK, OrphansBounded
  PROVE  /\ Cardinality(Inside) <= 1 + overruns
         /\ lock = NoProc => Cardinality(Inside) <= overruns
<1>1. Inside \in SUBSET Proc /\ Orphans \in SUBSET Proc
  BY DEF Inside, Orphans
<1>2. Cardinality(Inside) \in Nat /\ Cardinality(Orphans) \in Nat /\ overruns \in Nat
  BY <1>1, ProcSets DEF BoltTypeOK
<1>3. CASE lock = NoProc
  <2>1. Inside \subseteq Orphans
    BY <1>3, BoltAssumption DEF Orphans, Inside
  <2>2. Cardinality(Inside) <= Cardinality(Orphans)
    BY <1>1, <2>1, NoLarger
  <2> QED
    BY <1>2, <2>2 DEF OrphansBounded
<1>4. CASE lock # NoProc
  <2>1. lock \in Proc /\ Inside \subseteq Orphans \cup {lock}
    BY <1>4 DEF Orphans, BoltTypeOK
  <2>2. Cardinality(Inside) <= Cardinality(Orphans) + 1
    BY <1>1, <2>1, GrowsByOne
  <2> QED
    BY <1>2, <1>4, <2>2 DEF OrphansBounded
<1> QED
  BY <1>3, <1>4

(* Both terms the claims bound adds are disturbed by few steps: only a SET *)
(* adds a holder that has the flag to delete, only its DEL or a crash      *)
(* takes one away.                                                         *)
LEMMA NextClaims ==
  ASSUME BoltInv, [BoltNext]_boltVars
  PROVE  ClaimsInv'
<1> USE DEF BoltInv
<1>1. /\ Acquired \in SUBSET Proc /\ Acquired' \in SUBSET Proc
      /\ Inside \in SUBSET Proc /\ Inside' \in SUBSET Proc
      /\ Acquired \subseteq Inside
  BY DEF Acquired, Inside
<1>2. /\ Cardinality(Acquired) \in Nat /\ Cardinality(Acquired') \in Nat
      /\ Cardinality(Inside) \in Nat
  BY <1>1, ProcSets
<1>3. claims \in Nat /\ overruns \in Nat /\ retry \in BOOLEAN /\ FlagAbsent \in {0, 1}
  BY DEF BoltTypeOK, FlagAbsent
<1>4. ASSUME Acquired' \subseteq Acquired, UNCHANGED <<retry, claims>>,
             overruns' \in {overruns, overruns + 1}
      PROVE  ClaimsInv'
  <2>1. Cardinality(Acquired') <= Cardinality(Acquired)
    BY <1>1, <1>4, NoLarger
  <2>2. FlagAbsent' = FlagAbsent
    BY <1>4 DEF FlagAbsent
  <2> QED
    BY <1>2, <1>3, <1>4, <2>1, <2>2 DEF ClaimsInv
<1>5. ASSUME NEW p \in Proc,
             Call(p) \/ MissLock(p) \/ Wake(p) \/ Finish(p) \/ Unlock(p)
               \/ FailFunction(p) \/ Crash(p)
      PROVE  ClaimsInv'
  <2>1. Acquired' \subseteq Acquired /\ UNCHANGED <<retry, claims, overruns>>
    BY <1>5 DEF Call, MissLock, Wake, Finish, Unlock, FailFunction, Crash, Acquired,
                BoltTypeOK, Goto
  <2> QED
    BY <1>4, <2>1
<1>6. ASSUME NEW p \in Proc, GetLock(p) PROVE ClaimsInv'
  <2>1. /\ claims' = 0 /\ overruns' = overruns /\ FlagAbsent' = FlagAbsent
        /\ Acquired' \subseteq Inside \cup {p}
    BY <1>1, <1>6 DEF GetLock, Acquired, FlagAbsent, BoltTypeOK, Goto
  <2>2. Cardinality(Acquired') <= Cardinality(Inside) + 1
    BY <1>1, <2>1, GrowsByOne
  <2>3. Cardinality(Inside) <= overruns
    BY <1>6, InsideBounded DEF GetLock
  <2> QED
    BY <1>2, <1>3, <2>1, <2>2, <2>3 DEF ClaimsInv
<1>7. ASSUME NEW p \in Proc, Retried(p) PROVE ClaimsInv'
  <2>1. /\ UNCHANGED <<claims, overruns>> /\ FlagAbsent' = 1
        /\ p \in Acquired /\ Acquired' = Acquired \ {p}
    BY <1>7 DEF Retried, Acquired, FlagAbsent, BoltTypeOK, Goto
  <2>2. IsFiniteSet(Acquired)
    BY <1>1, ProcSets
  <2>3. Cardinality(Acquired') = Cardinality(Acquired) - 1
    BY <2>1, <2>2, FS_RemoveElement
  <2> QED
    BY <1>2, <1>3, <2>1, <2>3 DEF ClaimsInv
<1>8. ASSUME NEW p \in Proc, SetRetry(p) PROVE ClaimsInv'
  <2>1. Acquired' \subseteq Acquired /\ overruns' = overruns /\ FlagAbsent' = 0
    BY <1>8 DEF SetRetry, Acquired, FlagAbsent, BoltTypeOK, Goto
  <2>2. claims' = claims + FlagAbsent
    BY <1>3, <1>8 DEF SetRetry, FlagAbsent
  <2>3. Cardinality(Acquired') <= Cardinality(Acquired)
    BY <1>1, <2>1, NoLarger
  <2>4. claims' \in Nat
    BY <1>3, <1>8 DEF SetRetry
  <2> QED
    BY <1>2, <1>3, <2>1, <2>2, <2>3, <2>4 DEF ClaimsInv
<1>9. CASE Expire
  <2>1. Acquired' \subseteq Acquired /\ UNCHANGED <<retry, claims>>
        /\ overruns' \in {overruns, overruns + 1}
    BY <1>9 DEF Expire, Acquired
  <2> QED
    BY <1>4, <2>1
<1>10. CASE UNCHANGED boltVars
  <2>1. Acquired' \subseteq Acquired /\ UNCHANGED <<retry, claims, overruns>>
    BY <1>10 DEF boltVars, Acquired
  <2> QED
    BY <1>4, <2>1
<1> QED
  BY <1>5, <1>6, <1>7, <1>8, <1>9, <1>10 DEF BoltNext, Step

LEMMA Invariance == BoltSpec => []BoltInv
<1>1. BoltInv /\ [BoltNext]_boltVars => BoltInv'
  <2> SUFFICES ASSUME BoltInv, [BoltNext]_boltVars PROVE BoltInv'
    OBVIOUS
  <2>1. BoltTypeOK'
    BY NextType DEF BoltInv
  <2>2. OrphansBounded'
    BY NextOrphans DEF BoltInv
  <2>3. ClaimsInv'
    BY NextClaims
  <2> QED
    BY <2>1, <2>2, <2>3 DEF BoltInv
<1> QED
  BY InitInv, <1>1, PTL DEF BoltSpec

-----------------------------------------------------------------------------

(* The variables keep their types, and a caller that still waits for the   *)
(* key has attempts left.                                                  *)
THEOREM TypeCorrect == BoltSpec => []BoltTypeOK
BY Invariance, PTL DEF BoltInv

(* Every caller inside without the key stands for one lease that ended too *)
(* early, however many foreign unlocks there were since.                   *)
THEOREM OrphansTheorem == BoltSpec => []OrphansBounded
BY Invariance, PTL DEF BoltInv

(* As long as no lease has ended under its holder, the bolt is a mutex.    *)
MutualExclusion ==
  overruns = 0 => \A p, q \in Inside : p = q

THEOREM MutexTheorem == BoltSpec => []MutualExclusion
<1>1. BoltInv => MutualExclusion
  <2> SUFFICES ASSUME BoltInv, overruns = 0, NEW p \in Inside, NEW q \in Inside
               PROVE  p = q
    BY DEF MutualExclusion
  <2>1. Orphans \in SUBSET Proc
    BY DEF Orphans, Inside
  <2>2. IsFiniteSet(Orphans) /\ Cardinality(Orphans) = 0
    BY <2>1, ProcSets DEF BoltInv, OrphansBounded
  <2>3. Orphans = {}
    BY <2>2, FS_EmptySet
  <2> QED
    BY <2>3 DEF Orphans
<1> QED
  BY Invariance, <1>1, PTL

(* The fail_function is called at most twice between two SETs of the key   *)
(* while leases last.                                                      *)
THEOREM ClaimsTheorem == BoltSpec => []ClaimsBounded
<1>1. BoltInv => ClaimsBounded
  <2> SUFFICES ASSUME BoltInv PROVE ClaimsBounded
    OBVIOUS
  <2>1. Acquired \in SUBSET Proc
    BY DEF Acquired
  <2>2. Cardinality(Acquired) \in Nat
    BY <2>1, ProcSets
  <2> QED
    BY <2>2 DEF BoltInv, ClaimsInv, ClaimsBounded, FlagAbsent, BoltTypeOK
<1> QED
  BY Invariance, <1>1, PTL

(* bolt.rb implements the leased mutex: from its initial states, and step  *)
(* by step.                                                                *)
THEOREM Refinement == BoltSpec => KeepsPromise
<1>1. BoltInit => Promise!Init
  BY DEF BoltInit, Promise!Init, Inside
<1>2. BoltInv /\ [BoltNext]_boltVars => [Promise!Next]_(Promise!lmvars)
  <2> SUFFICES ASSUME BoltInv, [BoltNext]_boltVars
               PROVE  [Promise!Next]_(Promise!lmvars)
    OBVIOUS
  <2> USE DEF BoltInv, BoltTypeOK, Where, Inside, Goto
  <2>1. ASSUME NEW p \in Proc,
               Call(p) \/ MissLock(p) \/ Wake(p) \/ Retried(p) \/ Finish(p)
                 \/ SetRetry(p) \/ FailFunction(p)
        PROVE  UNCHANGED Promise!lmvars
    BY <2>1 DEF Call, MissLock, Wake, Retried, Finish, SetRetry, FailFunction,
                Promise!lmvars
  <2>2. ASSUME NEW p \in Proc, GetLock(p) PROVE Promise!Enter(p)
    <3>1. Cardinality(Inside) <= overruns
      BY <2>2, InsideBounded DEF GetLock
    <3>2. p \notin Inside /\ Inside' = Inside \cup {p} /\ overruns' = overruns
      BY <2>2 DEF GetLock
    <3> QED
      BY <3>1, <3>2 DEF Promise!Enter, Promise!Cardinality, Cardinality
  <2>3. ASSUME NEW p \in Proc, Unlock(p) PROVE Promise!Leave(p)
    BY <2>3 DEF Unlock, Promise!Leave
  <2>4. ASSUME NEW p \in Proc, Crash(p)
        PROVE  Promise!Leave(p) \/ UNCHANGED Promise!lmvars
    <3>1. overruns' = overruns /\ Inside' = Inside \ {p}
      BY <2>4 DEF Crash
    <3> QED
      BY <3>1 DEF Promise!Leave, Promise!lmvars
  <2>5. CASE Expire
    <3>1. Inside' = Inside
      BY <2>5 DEF Expire
    <3>2. CASE lock \in Inside
      BY <2>5, <3>1, <3>2 DEF Expire, Promise!Overrun, Promise!Next
    <3>3. CASE lock \notin Inside
      BY <2>5, <3>1, <3>3 DEF Expire, Promise!lmvars
    <3> QED
      BY <3>2, <3>3 DEF Promise!Next
  <2>6. CASE UNCHANGED boltVars
    BY <2>6 DEF boltVars, Promise!lmvars
  <2> QED
    BY <2>1, <2>2, <2>3, <2>4, <2>5, <2>6 DEF BoltNext, Step, Promise!Next
<1> QED
  BY <1>1, <1>2, Invariance, PTL DEF BoltSpec, KeepsPromise, Promise!Spec
=============================================================================
