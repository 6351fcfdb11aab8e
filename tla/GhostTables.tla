---------------------------- MODULE GhostTables ----------------------------
(***************************************************************************)
(* The tables of a user's database and their rows of user_tables, kept     *)
(* equal by GhostTablesManager (lib/carto/ghost_tables_manager.rb), beside *)
(* what else makes, replaces and registers tables: imports, runs of        *)
(* synchronizations, the application's own new tables and SQL.             *)
(*                                                                         *)
(* The mutex is Bolt's, step by step.  Postgres tables are known by oid:   *)
(* an oid is never used again.  A row has an identity, that of its map.    *)
(* `spoilt` and `unlocked` are history variables.                          *)
(***************************************************************************)
EXTENDS Bolt, Sequences, Functions

CONSTANTS
  Visitor,    \* web requests that list the user's visualizations
  Worker,     \* Resque workers of the queue user_dbs
  Importer,   \* imports, when they register what they have downloaded
  Syncer,     \* runs of synchronizations, when they replace their table
  Creator,    \* new tables and imports from a query: they take no lock
  Name, NoName,
  TempName,        \* name of what each syncer brings in, until the swap
  Linked,          \* names of the tables there are at first, with their rows
  MaxUserTables,   \* MAX_USERTABLES_FOR_SYNC_CHECK
  MaxTables,       \* MAX_TABLES_FOR_SYNC_RUN
  MaxUpsets,       \* bound: statements of the user through the SQL API and
                   \* leases that end under their holder
  MaxRegistrars    \* bound: registrars that begin

Registrar == Importer \cup Syncer \cup Creator
Linker == Visitor \cup Worker

AnyName == Name \cup Range(TempName)

ASSUME GhostAssumption ==
  /\ Proc = Linker \cup Registrar
  /\ Notifier = Linker
  /\ Linked \in Seq(Name)
  /\ IsInjective(Linked)
  /\ Linker \cap Registrar = {}
  /\ DOMAIN TempName = Syncer /\ IsInjective(TempName)
  /\ NoName \notin Name \cup Range(TempName) /\ Name \cap Range(TempName) = {}
  /\ {MaxUserTables, MaxTables, MaxUpsets, MaxRegistrars} \subseteq Nat

NoTable == 0
Oid == 1 .. Len(Linked) + MaxUpsets + Cardinality(Registrar)

VARIABLES
  tables,    \* name of each Postgres table, NoName when there is none
  linkable,  \* tables that are cartodbfied
  made,      \* oids given so far
  rows,      \* user_tables of the user
  born,      \* rows inserted so far
  jobs,      \* LinkGhostTablesByUsername waiting in Resque
  at,        \* where each process is
  seen,      \* cartodbfied tables, as each linker fetched them
  todo,      \* what each linker has left to do
  target,    \* name that each registrar is to give
  sql,       \* statements of the user so far
  spoilt,    \* linkers that have fetched, with who has changed what there was
  unlocked   \* registrars that have worked without the lock

tableVars == <<tables, linkable, made>>
rowVars == <<rows, born>>
ghostVars == <<tables, linkable, made, rows, born, jobs, at, seen, todo, target, sql, spoilt, unlocked>>
vars == <<boltVars, ghostVars>>

Nothing == [regenerated |-> {}, renamed |-> {}, new |-> {}, dropped |-> {}]

Init ==
  /\ BoltInit
  /\ tables = [o \in Oid |-> IF o \in DOMAIN Linked THEN Linked[o] ELSE NoName]
  /\ linkable = DOMAIN Linked
  /\ made = Len(Linked)
  /\ rows = {[id |-> o, name |-> Linked[o], table |-> o] : o \in DOMAIN Linked}
  /\ born = Len(Linked)
  /\ jobs = 0
  /\ at = [p \in Proc |-> "out"]
  /\ seen = [p \in Linker |-> {}]
  /\ todo = [p \in Linker |-> Nothing]
  /\ target = [p \in Registrar |-> NoName]
  /\ sql = 0
  /\ spoilt = {}
  /\ unlocked = {}

-----------------------------------------------------------------------------
(* Tables and rows.                                                        *)

Move(p, where) == at' = [at EXCEPT ![p] = where]

Named(n) == {o \in Oid : tables[o] = n}

(* get_table_id: nil when no table has the name.                           *)
TableId(n) == IF Named(n) = {} THEN NoTable ELSE CHOOSE o \in Named(n) : TRUE

RowsNamed(n) == {r \in rows : r.name = n}

Taken == {n \in Name : Named(n) # {} \/ RowsNamed(n) # {}}

Facade(r) == [table |-> r.table, name |-> r.name]

Cartodbfied == {[table |-> o, name |-> tables[o]] : o \in linkable}

(* Sorting by table_id, or comparing one with an oid, raises at a nil.     *)
Incomparable(found, rs) ==
  \E r \in rs : r.table = NoTable /\ (found # {} \/ \E q \in rs : q.table # NoTable)

(* Mutant: whatever is missing is dropped, whether its name is new or not. *)
DropAllMissing(found, rs) ==
  LET common == {f.table : f \in found} \cap {r.table : r \in rs}
  IN {LET new == {f \in found : f.table \notin common}
          missing == {Facade(r) : r \in rs \ Range(match)}
      IN [regenerated |-> {}, new |-> new, dropped |-> missing,
          renamed |-> {f \in found \ new : match[f.table].name # f.name}] :
      match \in {m \in [common -> rs] : \A k \in common : m[k].table = k}}

(* fetch_altered_tables: a walk along both lists in the order of the oids. *)
(* Of rows with the same table_id the first is compared with the table,    *)
(* and nothing says which that is.                                         *)
AlteredTables(found, rs) ==
  LET common == {f.table : f \in found} \cap {r.table : r \in rs}
  IN {LET unknown == {f \in found : f.table \notin common}
          missing == {Facade(r) : r \in rs \ Range(match)}
          again == {f \in unknown : \E m \in missing : m.name = f.name}
      IN [regenerated |-> again,
          renamed |-> {f \in found \ unknown : match[f.table].name # f.name},
          new |-> unknown \ again,
          dropped |-> {m \in missing : \A f \in again : f.name # m.name}] :
      match \in {m \in [common -> rs] : \A k \in common : m[k].table = k}}

Amount(altered) ==
  Cardinality(altered.regenerated) + Cardinality(altered.renamed)
  + Cardinality(altered.new) + Cardinality(altered.dropped)

Fetching == {p \in Linker : at[p] \in {"fetching", "applying"}}

(* p does something to rows or tables: what the linkers fetched is old.    *)
Spoil(p) == spoilt' = spoilt \cup ((Fetching \ {p}) \X {"process"})

Unspoil(p) == spoilt' = {x \in spoilt : x[1] # p}

-----------------------------------------------------------------------------
(* Linkers: the request and the job.                                       *)

(* Mutant: as many tables as rows are taken for the same tables.           *)
VisitWhenCountsDiffer(v) ==
  /\ v \in Visitor /\ at[v] = "out"
  /\ \/ Cardinality(rows) = Cardinality(linkable) /\ UNCHANGED <<seen, at>>
     \/ /\ Cardinality(rows) # Cardinality(linkable)
        /\ seen' = [seen EXCEPT ![v] = Cartodbfied]
        /\ Move(v, "looking")
  /\ UNCHANGED <<boltVars, tableVars, rowVars, jobs, todo, target, sql, spoilt, unlocked>>

(* link_ghost_tables: with many rows no comparison is made.                *)
Visit(v) ==
  /\ v \in Visitor /\ at[v] = "out"
  /\ \/ Cardinality(rows) > MaxUserTables /\ Move(v, "asking") /\ UNCHANGED seen
     \/ /\ Cardinality(rows) <= MaxUserTables
        /\ seen' = [seen EXCEPT ![v] = Cartodbfied]
        /\ Move(v, "looking")
  /\ UNCHANGED <<boltVars, tableVars, rowVars, jobs, todo, target, sql, spoilt, unlocked>>

(* The rows are fetched after the tables; what differs is only counted.    *)
Look(v) ==
  /\ at[v] = "looking"
  /\ seen' = [seen EXCEPT ![v] = {}]
  /\ \/ Incomparable(seen[v], rows) /\ Move(v, "out") /\ UNCHANGED boltVars
     \/ /\ ~Incomparable(seen[v], rows)
        /\ \E altered \in AlteredTables(seen[v], rows) :
             \/ Amount(altered) = 0 /\ Move(v, "out") /\ UNCHANGED boltVars
             \/ Amount(altered) \in 1 .. MaxTables - 1 /\ Move(v, "linking") /\ Call(v)
             \/ Amount(altered) >= MaxTables /\ Move(v, "asking") /\ UNCHANGED boltVars
  /\ UNCHANGED <<tableVars, rowVars, jobs, todo, target, sql, spoilt, unlocked>>

(* link_ghost_tables_asynchronously, also as the fail_function.            *)
Dequeue(p) ==
  /\ p \in Linker
  /\ \/ at[p] = "asking"
     \/ at[p] = "linking" /\ pc[p] = "rescheduling"
  /\ jobs' = 0
  /\ Move(p, "enqueuing")
  /\ UNCHANGED <<boltVars, tableVars, rowVars, seen, todo, target, sql, spoilt, unlocked>>

Enqueue(p) ==
  /\ at[p] = "enqueuing"
  /\ jobs' = jobs + 1
  /\ Move(p, "out")
  /\ IF pc[p] = "rescheduling" THEN FailFunction(p) ELSE UNCHANGED boltVars
  /\ UNCHANGED <<tableVars, rowVars, seen, todo, target, sql, spoilt, unlocked>>

(* A worker takes the job and asks for the lock.                           *)
Perform(w) ==
  /\ w \in Worker /\ at[w] = "out" /\ jobs > 0
  /\ jobs' = jobs - 1
  /\ Call(w)
  /\ Move(w, "linking")
  /\ UNCHANGED <<tableVars, rowVars, seen, todo, target, sql, spoilt, unlocked>>

(* The steps of run_locked before its block, and the return without it.    *)
Acquire(p) ==
  /\ GetLock(p) \/ MissLock(p) \/ Wake(p) \/ Retried(p)
  /\ UNCHANGED ghostVars

Denied(p) ==
  /\ SetRetry(p)
  /\ at' = [at EXCEPT ![p] = IF retry THEN "out" ELSE @]
  /\ UNCHANGED <<tableVars, rowVars, jobs, seen, todo, target, sql, spoilt, unlocked>>

-----------------------------------------------------------------------------
(* Linkers: sync, under the lock.                                          *)

FetchTables(p) ==
  /\ p \in Linker /\ pc[p] = "running" /\ at[p] = "linking"
  /\ seen' = [seen EXCEPT ![p] = Cartodbfied]
  /\ Unspoil(p)
  /\ Move(p, "fetching")
  /\ UNCHANGED <<boltVars, tableVars, rowVars, jobs, todo, target, sql, unlocked>>

FetchRows(p) ==
  /\ at[p] = "fetching"
  /\ seen' = [seen EXCEPT ![p] = {}]
  /\ \/ Incomparable(seen[p], rows) /\ UNCHANGED todo
     \/ /\ ~Incomparable(seen[p], rows)
        /\ \E altered \in AlteredTables(seen[p], rows) : todo' = [todo EXCEPT ![p] = altered]
  /\ Move(p, "applying")
  /\ UNCHANGED <<boltVars, tableVars, rowVars, jobs, target, sql, spoilt, unlocked>>

(* The next facade of a list, in the order of the oids.                    *)
IsNext(f, list) == f \in list /\ \A g \in list : f.table <= g.table

Done(p, list, f) == todo' = [todo EXCEPT ![p][list] = @ \ {f}]

(* update of the one row that has the name or the id, if there is one.     *)
Regenerate(p) ==
  /\ at[p] = "applying"
  /\ \E f \in todo[p].regenerated :
       /\ IsNext(f, todo[p].regenerated)
       /\ Done(p, "regenerated", f)
       /\ rows' = {IF r.name = f.name THEN [r EXCEPT !.table = f.table] ELSE r : r \in rows}
  /\ Spoil(p)
  /\ UNCHANGED <<boltVars, tableVars, born, jobs, at, seen, target, sql, unlocked>>

(* A name that another row has is refused, and the error only logged.      *)
RenameRow(p) ==
  /\ at[p] = "applying"
  /\ todo[p].regenerated = {}
  /\ \E f \in todo[p].renamed :
       /\ IsNext(f, todo[p].renamed)
       /\ Done(p, "renamed", f)
       /\ LET mine == {r \in rows : r.table = f.table}
          IN IF mine = {} \/ RowsNamed(f.name) # {}
             THEN UNCHANGED rows
             ELSE \E r \in mine : rows' = (rows \ {r}) \cup {[r EXCEPT !.name = f.name]}
  /\ Spoil(p)
  /\ UNCHANGED <<boltVars, tableVars, born, jobs, at, seen, target, sql, unlocked>>

NewRow(n, o) ==
  /\ rows' = rows \cup {[id |-> born + 1, name |-> n, table |-> o]}
  /\ born' = born + 1

(* Mutant: nothing keeps the names of the rows unique.                     *)
CreateRowAgain(p) ==
  /\ at[p] = "applying"
  /\ todo[p].regenerated \cup todo[p].renamed = {}
  /\ \E f \in todo[p].new :
       /\ IsNext(f, todo[p].new)
       /\ Done(p, "new", f)
       /\ IF TableId(f.name) = NoTable THEN UNCHANGED rowVars ELSE NewRow(f.name, TableId(f.name))
  /\ Spoil(p)
  /\ UNCHANGED <<boltVars, tableVars, jobs, at, seen, target, sql, unlocked>>

(* before_create looks the oid up again, by the name.                      *)
CreateRow(p) ==
  /\ at[p] = "applying"
  /\ todo[p].regenerated \cup todo[p].renamed = {}
  /\ \E f \in todo[p].new :
       /\ IsNext(f, todo[p].new)
       /\ Done(p, "new", f)
       /\ IF RowsNamed(f.name) # {} \/ TableId(f.name) = NoTable
          THEN UNCHANGED rowVars
          ELSE NewRow(f.name, TableId(f.name))
  /\ Spoil(p)
  /\ UNCHANGED <<boltVars, tableVars, jobs, at, seen, target, sql, unlocked>>

(* The row is destroyed with its map, if it still has the name and the id. *)
DropRow(p) ==
  /\ at[p] = "applying"
  /\ todo[p].regenerated \cup todo[p].renamed \cup todo[p].new = {}
  /\ \E f \in todo[p].dropped :
       /\ IsNext(f, todo[p].dropped)
       /\ Done(p, "dropped", f)
       /\ rows' = {r \in rows : Facade(r) # f}
  /\ Spoil(p)
  /\ UNCHANGED <<boltVars, tableVars, born, jobs, at, seen, target, sql, unlocked>>

EndSync(p) ==
  /\ at[p] = "applying"
  /\ todo[p] = Nothing
  /\ Finish(p)
  /\ Unspoil(p)
  /\ Move(p, "closing")
  /\ UNCHANGED <<tableVars, rowVars, jobs, seen, todo, target, sql, unlocked>>

-----------------------------------------------------------------------------
(* Registrars.                                                             *)

MayBegin(p) ==
  at[p] = "out" /\ Cardinality({q \in Registrar : at[q] # "out"}) < MaxRegistrars

(* run_synchronized.                                                       *)
Register(p) ==
  /\ p \in Importer \cup Syncer /\ MayBegin(p)
  /\ Call(p)
  /\ Move(p, "waiting")
  /\ UNCHANGED <<tableVars, rowVars, jobs, seen, todo, target, sql, spoilt, unlocked>>

(* The block runs with the lock, or after the last attempt without it.     *)
Begins(p) ==
  \/ p \in Creator /\ MayBegin(p)
  \/ at[p] = "waiting" /\ pc[p] \in {"running", "idle"}

Reserve(p, n, where) ==
  /\ target' = [target EXCEPT ![p] = n]
  /\ Move(p, where)
  /\ unlocked' = IF pc[p] = "running" THEN unlocked ELSE unlocked \cup {p}
  /\ UNCHANGED <<boltVars, tableVars, rowVars, jobs, seen, todo, sql, spoilt>>

ProposeName(p) ==
  /\ p \in Importer \cup Creator
  /\ Begins(p)
  /\ \/ \E n \in Name \ Taken : Reserve(p, n, "moving")
     \/ Taken = Name /\ Reserve(p, NoName, "closing")

(* The import overwrites a table that is there.                            *)
ProposeToOverwrite(p) ==
  /\ p \in Importer \cup Creator
  /\ Begins(p)
  /\ \E n \in Name : Named(n) # {} /\ Reserve(p, n, "swapping")

Synchronize(p) ==
  /\ p \in Syncer
  /\ Begins(p)
  /\ \E n \in Name : Reserve(p, n, "bringing")

(* The table whose oid is made + 1 gets name n; those of `gone` go.        *)
Place(n, gone) ==
  /\ made' = made + 1
  /\ tables' = [o \in Oid |-> IF o = made + 1 THEN n
                              ELSE IF o \in gone THEN NoName ELSE tables[o]]
  /\ linkable' = linkable \ gone

(* ALTER TABLE of new_register, or CREATE TABLE: fails if the name is used.*)
MoveTable(p) ==
  /\ at[p] = "moving"
  /\ \/ /\ Named(target[p]) = {}
        /\ Place(target[p], {})
        /\ Move(p, "cartodbfying")
     \/ Named(target[p]) # {} /\ UNCHANGED tableVars /\ Move(p, "closing")
  /\ Spoil(p)
  /\ UNCHANGED <<boltVars, rowVars, jobs, seen, todo, target, sql, unlocked>>

(* The transaction of overwrite_register: DROP and RENAME.                 *)
SwapIn(p) ==
  /\ at[p] = "swapping"
  /\ \/ /\ Named(target[p]) # {}
        /\ Place(target[p], Named(target[p]))
        /\ Move(p, "cartodbfyingOver")
     \/ Named(target[p]) = {} /\ UNCHANGED tableVars /\ Move(p, "closing")
  /\ Spoil(p)
  /\ UNCHANGED <<boltVars, rowVars, jobs, seen, todo, target, sql, unlocked>>

(* CDB_CartodbfyTable finds the table by its name.                         *)
Cartodbfy(p) ==
  /\ at[p] \in {"cartodbfying", "cartodbfyingOver"}
  /\ linkable' = linkable \cup Named(target[p])
  /\ Move(p, IF Named(target[p]) = {} THEN "closing"
             ELSE IF at[p] = "cartodbfying" THEN "inserting" ELSE "fixing")
  /\ Spoil(p)
  /\ UNCHANGED <<boltVars, tables, made, rowVars, jobs, seen, todo, target, sql, unlocked>>

(* set_table_id and INSERT; the name of the row is unique.                 *)
Insert(p) ==
  /\ at[p] = "inserting"
  /\ IF RowsNamed(target[p]) # {} \/ TableId(target[p]) = NoTable
     THEN UNCHANGED rowVars
     ELSE NewRow(target[p], TableId(target[p]))
  /\ Move(p, "closing")
  /\ Spoil(p)
  /\ UNCHANGED <<boltVars, tableVars, jobs, seen, todo, target, sql, unlocked>>

(* fix_oid: table_id is what get_table_id finds, nil too.                  *)
Fix(n) ==
  rows' = {IF r.name = n THEN [r EXCEPT !.table = TableId(n)] ELSE r : r \in rows}

(* It raises when there is no row.  setup_table ends with a second one,    *)
(* and an import that overwrites goes on to persist_metadata.              *)
FixOid(p) ==
  /\ at[p] \in {"fixing", "settingUp"}
  /\ Fix(target[p])
  /\ Move(p, IF RowsNamed(target[p]) = {} \/ at[p] = "settingUp" \/ p \in Creator THEN "closing"
             ELSE IF p \in Syncer THEN "settingUp" ELSE "persisting")
  /\ Spoil(p)
  /\ UNCHANGED <<boltVars, tableVars, born, jobs, seen, todo, target, sql, unlocked>>

(* persist_metadata after an overwrite makes the row if it is gone.        *)
Persist(p) ==
  /\ at[p] = "persisting"
  /\ Move(p, IF RowsNamed(target[p]) = {} THEN "cartodbfying" ELSE "closing")
  /\ UNCHANGED <<boltVars, tableVars, rowVars, jobs, seen, todo, target, sql, spoilt, unlocked>>

(* The adapter: the new table comes in under a name of its own.            *)
BringIn(p) ==
  /\ at[p] = "bringing"
  /\ \/ RowsNamed(target[p]) # {} /\ Place(TempName[p], {}) /\ Move(p, "readying")
     \/ RowsNamed(target[p]) = {} /\ UNCHANGED tableVars /\ Move(p, "closing")
  /\ Spoil(p)
  /\ UNCHANGED <<boltVars, rowVars, jobs, seen, todo, target, sql, unlocked>>

Ready(p) ==
  /\ at[p] = "readying"
  /\ linkable' = linkable \cup Named(TempName[p])
  /\ Move(p, "replacing")
  /\ Spoil(p)
  /\ UNCHANGED <<boltVars, tables, made, rowVars, jobs, seen, todo, target, sql, unlocked>>

(* swap_tables, one transaction.  Before it has_column raises if the table *)
(* is gone, and the new one is dropped.                                    *)
Replace(p) ==
  /\ at[p] = "replacing"
  /\ LET new == Named(TempName[p])
         old == Named(target[p])
         gone == IF old = {} THEN new ELSE old
     IN /\ tables' = [o \in Oid |-> IF o \in gone THEN NoName
                                    ELSE IF o \in new THEN target[p] ELSE tables[o]]
        /\ linkable' = linkable \ gone
        /\ Move(p, IF old = {} THEN "closing" ELSE "fixing")
  /\ Spoil(p)
  /\ UNCHANGED <<boltVars, made, rowVars, jobs, seen, todo, target, sql, unlocked>>

EndRegister(p) ==
  /\ p \in Registrar /\ at[p] = "closing"
  /\ \/ pc[p] = "running" /\ Finish(p) /\ UNCHANGED at
     \/ pc[p] = "idle" /\ Move(p, "done") /\ UNCHANGED boltVars
  /\ UNCHANGED <<tableVars, rowVars, jobs, seen, todo, target, sql, spoilt, unlocked>>

Release(p) ==
  /\ Unlock(p)
  /\ Move(p, IF p \in Linker THEN "out" ELSE "done")
  /\ UNCHANGED <<tableVars, rowVars, jobs, seen, todo, target, sql, spoilt, unlocked>>

-----------------------------------------------------------------------------
(* The user's SQL.                                                         *)

Sql ==
  /\ sql + overruns < MaxUpsets
  /\ sql' = sql + 1
  /\ spoilt' = spoilt \cup (Fetching \X {"user"})
  /\ UNCHANGED <<boltVars, rowVars, jobs, at, seen, todo, target, unlocked>>

SqlCreate ==
  /\ Sql
  /\ \E n \in Name :
       /\ Named(n) = {}
       /\ made' = made + 1
       /\ tables' = [tables EXCEPT ![made + 1] = n]
       /\ linkable' = linkable \cup {made + 1}

SqlRename ==
  /\ Sql
  /\ \E n \in Name, o \in linkable :
       /\ Named(n) = {} /\ tables[o] \in Name
       /\ tables' = [tables EXCEPT ![o] = n]
  /\ UNCHANGED <<linkable, made>>

SqlDrop ==
  /\ Sql
  /\ \E o \in linkable :
       /\ tables[o] \in Name
       /\ tables' = [tables EXCEPT ![o] = NoName]
       /\ linkable' = linkable \ {o}
  /\ UNCHANGED made

(* Redis drops the key of a lease that has run out.                        *)
LeaseEnds == sql + overruns < MaxUpsets /\ Expire /\ UNCHANGED ghostVars

-----------------------------------------------------------------------------

Link(p) ==
  \/ Look(p) \/ Dequeue(p) \/ Enqueue(p) \/ Perform(p) \/ Denied(p)
  \/ FetchTables(p) \/ FetchRows(p)
  \/ Regenerate(p) \/ RenameRow(p) \/ CreateRow(p) \/ DropRow(p) \/ EndSync(p)

Enter(p) ==
  \/ MoveTable(p) \/ SwapIn(p) \/ Cartodbfy(p) \/ Insert(p) \/ FixOid(p) \/ Persist(p)
  \/ BringIn(p) \/ Ready(p) \/ Replace(p) \/ EndRegister(p)

Choose(p) == ProposeName(p) \/ ProposeToOverwrite(p) \/ Synchronize(p)

Proceed(p) == Acquire(p) \/ Release(p) \/ Link(p) \/ Enter(p)

Next ==
  \/ \E p \in Proc : Visit(p) \/ Register(p) \/ Choose(p) \/ Proceed(p)
  \/ SqlCreate \/ SqlRename \/ SqlDrop
  \/ LeaseEnds

(* Processes go on once they have begun, and the user's list of            *)
(* visualizations is asked for again and again.                            *)
Fairness ==
  /\ \A p \in Proc : WF_vars(Proceed(p))
  /\ \A p \in Proc : WF_vars(Choose(p) /\ at[p] = "waiting")
  /\ \A v \in Visitor : WF_vars(Visit(v))
  /\ \A w \in Worker : SF_vars(Perform(w))

Spec == Init /\ [][Next]_vars /\ Fairness
-----------------------------------------------------------------------------
(* Properties.                                                             *)

(* Type invariant: also, names are unique among tables and among rows.     *)
GhostTypeOK ==
  /\ tables \in [Oid -> AnyName \cup {NoName}]
  /\ linkable \subseteq {o \in Oid : tables[o] # NoName}
  /\ made \in 0 .. Cardinality(Oid)
  /\ rows \subseteq [id : 1 .. born, name : AnyName, table : Oid \cup {NoTable}]
  /\ \A r, q \in rows : r.name = q.name \/ r.id = q.id => r = q
  /\ \A o, u \in Oid : tables[o] = tables[u] => o = u \/ tables[o] = NoName
  /\ born \in Nat /\ jobs \in Nat
  /\ spoilt \subseteq Linker \X {"process", "user"}

(* As fetch_user_tables_synced_with_db? has it.                            *)
Synced == {Facade(r) : r \in rows} = Cartodbfied

(* Rows that wait for each other's names, as after two tables have been    *)
(* given each other's, and rows that have lost their oid.                  *)
Tangled ==
  \/ \E S \in SUBSET rows \ {{}} : \A r \in S :
       /\ r.table \in linkable
       /\ \E q \in S : q.name = tables[r.table] /\ q # r
  \/ Incomparable(Cartodbfied, rows)

Beside(who) == {p \in Linker : <<p, who>> \in spoilt}

(* The lock keeps the syncs and the registrations apart: nothing that a    *)
(* sync has fetched is changed by another process until it is done, unless *)
(* a lease has run out or somebody has worked without the lock.            *)
Apart ==
  Beside("process") # {} => overruns > 0 \/ unlocked # {}

(* A sync that nobody worked beside destroys a row, and with it a map, only*)
(* if each cartodbfied table with its name or its oid is left with a row.  *)
Unlinks(p) ==
  DropRow(p) => \A r \in rows \ rows', o \in linkable :
    tables[o] = r.name \/ o = r.table => \E q \in rows' : q.table = o

UnlinksGone ==
  [][\A p \in Linker \ (Beside("process") \cup Beside("user")) : Unlinks(p)]_vars

(* "unlink sql dropped tables" (ghost_tables_manager_spec.rb:104): the same *)
(* of every sync beside which the user has not changed tables by SQL.      *)
UnlinksOnlyGone == [][\A p \in Linker \ Beside("user") : Unlinks(p)]_vars

(* Once the user's SQL and the registrations are over, rows and tables     *)
(* become the same and stay so, unless they are tangled.                   *)
Converges == <>[](Synced \/ Tangled)
=============================================================================
