-------------------------- MODULE Synchronization ---------------------------
(***************************************************************************)
(* The synchronizations of one user: rows that the cron task, the web      *)
(* controller and the Resque workers all read, and later write back whole. *)
(*                                                                         *)
(* Sources: app/models/synchronization/member.rb (the row and its run),    *)
(* services/synchronizer/lib/synchronizer/collection.rb (cron),            *)
(* app/controllers/api/json/synchronizations_controller.rb (web),          *)
(* app/models/data_import.rb (the first import),                           *)
(* services/data-repository/backend/sequel.rb (store, an upsert).          *)
(*                                                                         *)
(* There is no clock: run_at, ran_at and updated_at only say when a guard  *)
(* starts to hold, and a step that waits for them may happen at any time.  *)
(* Resque serves each queue first in, first out, but several workers run   *)
(* at once: a queue is the number of jobs that wait for each row.          *)
(***************************************************************************)
EXTENDS SyncLimit

CONSTANTS
  Sync,        \* ids of rows
  Worker,      \* Resque workers
  Web,         \* web processes
  Cron,        \* the process of the sync_tables rake task
  Nothing,     \* no row, no id
  MaxRetries,  \* MAX_RETRIES
  MaxJobs,     \* bound: jobs in Resque for one row
  MaxDeaths    \* bound: processes that die, rake tasks that raise

ASSUME SynchronizationAssumption ==
  /\ Client = Web \cup {Cron}
  /\ Cron \notin Web
  /\ IsFiniteSet(Worker)
  /\ MaxRetries \in Nat \ {0}
  /\ MaxJobs \in Nat
  /\ MaxDeaths \in Nat

VARIABLES
  row,      \* the synchronizations table
  queue,    \* SynchronizationJobs in Resque, per row
  imports,  \* rows with an ImporterJobs job in Resque
  job,      \* what each worker does, and the row as it fetched it
  web,      \* what each web process does, and the row as it fetched it
  cron,     \* what the rake task does, and the records still to be enqueued
  told,     \* history: rows whose owner has been mailed since the last success
  deleted,  \* history: ids that have been deleted
  deaths,   \* history: processes that died, rake tasks that raised
  unmarked, \* history: how often the rake task ended, by a death or an error,
            \* between the job of a row and its mark
  left      \* history: rows left busy by a process that died or raised, or by
            \* an update that stored an older copy

rowVars == <<row, left>>
deathVars == <<deaths, unmarked>>
resque == <<queue, imports>>
syncVars ==
  <<row, queue, imports, job, web, cron, told, deleted, deaths, unmarked, left, slots, push>>

States == {"created", "queued", "syncing", "success", "failure"}
Row == [state : States, retries : 0..MaxRetries]
Busy == {"created", "syncing"}

IsBusy(s) == row[s] # Nothing /\ row[s].state \in Busy

Fresh == [state |-> "created", retries |-> 0]
Idle == [at |-> "idle", sync |-> Nothing, row |-> Nothing]
NoPass == [at |-> "idle", sync |-> Nothing, todo |-> {}, pass |-> "due"]

JobType ==
  [at : {"idle", "start", "syncing", "release", "importing", "imported"},
   sync : Sync \cup {Nothing}, row : Row \cup {Nothing}]

WebType ==
  [at : {"idle", "import", "mark", "check", "enqueue", "store", "count", "push", "update"},
   sync : Sync \cup {Nothing}, row : Row \cup {Nothing}]

CronType ==
  [at : {"idle", "each", "enqueue", "mark", "count", "push"},
   sync : Sync \cup {Nothing}, todo : SUBSET Sync, pass : {"due", "all"}]

SyncTypeOK ==
  /\ LimitTypeOK
  /\ row \in [Sync -> Row \cup {Nothing}]
  /\ queue \in [Sync -> 0..MaxJobs]
  /\ imports \subseteq Sync
  /\ job \in [Worker -> JobType]
  /\ web \in [Web -> WebType]
  /\ cron \in CronType
  /\ told \subseteq Sync /\ deleted \subseteq Sync /\ left \subseteq Sync
  /\ deaths \in 0..MaxDeaths
  /\ unmarked \in [Sync -> Nat]

(* Rows of earlier days, or none yet.                                      *)
SyncInit ==
  /\ LimitInit
  /\ row \in [Sync -> {Nothing, [state |-> "success", retries |-> 0]}]
  /\ queue = [s \in Sync |-> 0]
  /\ imports = {}
  /\ job = [w \in Worker |-> Idle]
  /\ web = [h \in Web |-> Idle]
  /\ cron = NoPass
  /\ told = {} /\ deleted = {} /\ left = {}
  /\ deaths = 0
  /\ unmarked = [s \in Sync |-> 0]

(* Member#store: an UPDATE of every column and, when it finds no row, an   *)
(* INSERT.                                                                 *)
Store(s, r) ==
  /\ row' = [row EXCEPT ![s] = r]
  /\ left' = IF r.state \in Busy THEN left ELSE left \ {s}

(* The copy in memory carries the state its process is going to store.     *)
As(r, state) == [r EXCEPT !.state = state]

Enqueue(s) ==
  /\ queue[s] < MaxJobs
  /\ queue' = [queue EXCEPT ![s] = @ + 1]

-----------------------------------------------------------------------------
(* The web controller.                                                     *)

WebAt(h, at) == web[h].at = at
WebGo(h, at) == web' = [web EXCEPT ![h].at = at]
WebDone(h) == web' = [web EXCEPT ![h] = Idle]

(* create: the row is stored as created, the import is enqueued, and then  *)
(* the whole row is stored again as queued.                                *)
Create(h, s) ==
  /\ WebAt(h, "idle")
  /\ row[s] = Nothing /\ s \notin deleted
  /\ Store(s, Fresh)
  /\ web' = [web EXCEPT ![h] = [at |-> "import", sync |-> s, row |-> As(Fresh, "queued")]]
  /\ UNCHANGED <<resque, job, cron, told, deleted, deathVars, limitVars>>

(* The URL, the external source or the connector parameters are refused:   *)
(* the answer is an error, and the row stays.                              *)
RefuseImport(h) ==
  /\ WebAt(h, "import")
  /\ left' = IF IsBusy(web[h].sync) THEN left \cup {web[h].sync} ELSE left
  /\ WebDone(h)
  /\ UNCHANGED <<row, resque, job, cron, told, deleted, deathVars, limitVars>>

EnqueueImport(h) ==
  /\ WebAt(h, "import")
  /\ imports' = imports \cup {web[h].sync}
  /\ WebGo(h, "mark")
  /\ UNCHANGED <<rowVars, queue, job, cron, told, deleted, deathVars, limitVars>>

(* Mutant: the row is not marked after the import is enqueued.             *)
MarkQueuedForgotten(h) ==
  /\ WebAt(h, "mark")
  /\ WebDone(h)
  /\ UNCHANGED <<rowVars, resque, job, cron, told, deleted, deathVars, limitVars>>

MarkQueued(h) ==
  /\ WebAt(h, "mark")
  /\ Store(web[h].sync, web[h].row)
  /\ WebDone(h)
  /\ UNCHANGED <<resque, job, cron, told, deleted, deathVars, limitVars>>

(* sync and sync_now: fetch, and go on if should_auto_sync? or             *)
(* can_manually_sync?.                                                     *)
SyncNow(h, s) ==
  /\ WebAt(h, "idle")
  /\ row[s] # Nothing
  /\ row[s].state \in {"success", "failure", "queued"}
  /\ web' = [web EXCEPT ![h] = [at |-> "check", sync |-> s, row |-> As(row[s], "queued")]]
  /\ UNCHANGED <<rowVars, resque, job, cron, told, deleted, deathVars, limitVars>>

CheckLimit(h) ==
  /\ WebAt(h, "check")
  /\ IF WithinLimit THEN WebGo(h, "enqueue") ELSE WebDone(h)
  /\ UNCHANGED <<rowVars, resque, job, cron, told, deleted, deathVars, limitVars>>

(* Member#enqueue: the job goes to Resque first, the row is marked after.  *)
EnqueueSync(h) ==
  /\ WebAt(h, "enqueue")
  /\ Enqueue(web[h].sync)
  /\ WebGo(h, "store")
  /\ UNCHANGED <<rowVars, imports, job, cron, told, deleted, deathVars, limitVars>>

StoreQueued(h) ==
  /\ WebAt(h, "store")
  /\ Store(web[h].sync, web[h].row)
  /\ web' = [web EXCEPT ![h] = [at |-> "count", sync |-> @.sync, row |-> Nothing]]
  /\ UNCHANGED <<resque, job, cron, told, deleted, deathVars, limitVars>>

WebIncrease(h) ==
  /\ WebAt(h, "count")
  /\ IncreaseRead(h)
  /\ IF push'[h] = "none" THEN WebDone(h) ELSE WebGo(h, "push")
  /\ UNCHANGED <<rowVars, resque, job, cron, told, deleted, deathVars>>

WebPush(h) ==
  /\ WebAt(h, "push")
  /\ \/ IncreaseExists(h) /\ UNCHANGED web
     \/ IncreasePush(h) /\ WebDone(h)
  /\ UNCHANGED <<rowVars, resque, job, cron, told, deleted, deathVars>>

(* update: fetch, merge the payload (the interval), store the whole row.   *)
FetchToUpdate(h, s) ==
  /\ WebAt(h, "idle")
  /\ row[s] # Nothing
  /\ web' = [web EXCEPT ![h] = [at |-> "update", sync |-> s, row |-> row[s]]]
  /\ UNCHANGED <<rowVars, resque, job, cron, told, deleted, deathVars, limitVars>>

StoreUpdate(h) ==
  /\ WebAt(h, "update")
  /\ LET s == web[h].sync IN
       /\ row' = [row EXCEPT ![s] = web[h].row]
       /\ left' = IF web[h].row.state \notin Busy THEN left \ {s}
                  ELSE IF IsBusy(s) THEN left ELSE left \cup {s}
  /\ WebDone(h)
  /\ UNCHANGED <<resque, job, cron, told, deleted, deathVars, limitVars>>

(* destroy, or the end of the table's visualization.                       *)
Destroy(s) ==
  /\ row[s] # Nothing
  /\ row' = [row EXCEPT ![s] = Nothing]
  /\ left' = left \ {s}
  /\ deleted' = deleted \cup {s}
  /\ UNCHANGED <<resque, job, web, cron, told, deathVars, limitVars>>

WebDies(h) ==
  /\ ~WebAt(h, "idle")
  /\ deaths < MaxDeaths
  /\ deaths' = deaths + 1
  /\ WebDone(h)
  /\ Abandon(h)
  /\ left' = IF IsBusy(web[h].sync) THEN left \cup {web[h].sync} ELSE left
  /\ UNCHANGED <<row, resque, job, cron, told, deleted, unmarked>>

-----------------------------------------------------------------------------
(* The rake task: one query, then record by record.                        *)

(* Mutant: a row whose retries are exhausted is tried once more.           *)
EligibleOffByOne(s) ==
  /\ row[s] # Nothing
  /\ \/ row[s].state = "success"
     \/ row[s].state = "failure" /\ row[s].retries <= MaxRetries

Eligible(s) ==
  /\ row[s] # Nothing
  /\ \/ row[s].state = "success"
     \/ row[s].state = "failure" /\ row[s].retries < MaxRetries

(* Rows whose run_at has come: any of the eligible ones.                   *)
CronFetch ==
  /\ cron.at = "idle"
  /\ \E todo \in SUBSET {s \in Sync : Eligible(s)} :
       /\ todo # {}
       /\ cron' = [at |-> "each", sync |-> Nothing, todo |-> todo, pass |-> "due"]
  /\ UNCHANGED <<rowVars, resque, job, web, told, deleted, deathVars, limitVars>>

(* force_all_syncs: successes and also rows left in syncing, whatever their*)
(* run_at, with no limit.                                                  *)
CronFetchAll ==
  /\ cron.at = "idle"
  /\ LET all == {s \in Sync : row[s] # Nothing /\ row[s].state \in {"success", "syncing"}} IN
       /\ all # {}
       /\ cron' = [at |-> "each", sync |-> Nothing, todo |-> all, pass |-> "all"]
  /\ UNCHANGED <<rowVars, resque, job, web, told, deleted, deathVars, limitVars>>

(* Over the limit, the record is skipped until a later pass.               *)
CronPick(s) ==
  /\ cron.at = "each"
  /\ s \in cron.todo
  /\ LET todo == cron.todo \ {s} IN
       \/ /\ cron.pass = "all" \/ WithinLimit
          /\ cron' = [at |-> "enqueue", sync |-> s, todo |-> todo, pass |-> cron.pass]
       \/ /\ cron.pass = "due" /\ ~WithinLimit
          /\ cron' = IF todo = {} THEN NoPass ELSE [cron EXCEPT !.todo = todo]
  /\ UNCHANGED <<rowVars, resque, job, web, told, deleted, deathVars, limitVars>>

CronEnqueue ==
  /\ cron.at = "enqueue"
  /\ Enqueue(cron.sync)
  /\ cron' = [cron EXCEPT !.at = "mark"]
  /\ UNCHANGED <<rowVars, imports, job, web, told, deleted, deathVars, limitVars>>

CronNextRecord ==
  cron' = IF cron.todo = {} THEN NoPass
          ELSE [at |-> "each", sync |-> Nothing, todo |-> cron.todo, pass |-> cron.pass]

(* Mutant: the rake task does not mark what it enqueues.                   *)
CronMarkNothing ==
  /\ cron.at = "mark"
  /\ IF cron.pass = "all" THEN CronNextRecord ELSE cron' = [cron EXCEPT !.at = "count"]
  /\ UNCHANGED <<rowVars, resque, job, web, told, deleted, deathVars, limitVars>>

(* UPDATE of the state alone, of a row that may be gone.                   *)
CronMark ==
  /\ cron.at = "mark"
  /\ IF row[cron.sync] = Nothing
     THEN UNCHANGED rowVars
     ELSE Store(cron.sync, [row[cron.sync] EXCEPT !.state = "queued"])
  /\ IF cron.pass = "all" THEN CronNextRecord ELSE cron' = [cron EXCEPT !.at = "count"]
  /\ UNCHANGED <<resque, job, web, told, deleted, deathVars, limitVars>>

CronIncrease ==
  /\ cron.at = "count"
  /\ IncreaseRead(Cron)
  /\ IF push'[Cron] = "none" THEN CronNextRecord ELSE cron' = [cron EXCEPT !.at = "push"]
  /\ UNCHANGED <<rowVars, resque, job, web, told, deleted, deathVars>>

CronPush ==
  /\ cron.at = "push"
  /\ \/ IncreaseExists(Cron) /\ UNCHANGED cron
     \/ IncreasePush(Cron) /\ CronNextRecord
  /\ UNCHANGED <<rowVars, resque, job, web, told, deleted, deathVars>>

(* The task is killed, or Resque, the database or Redis raises: nothing    *)
(* rescues it, and the records that it had still to enqueue are left to the*)
(* next pass. A job pushed for a row that was not marked stays in Resque.  *)
CronDies ==
  /\ cron.at # "idle"
  /\ deaths < MaxDeaths
  /\ deaths' = deaths + 1
  /\ unmarked' = IF cron.at = "mark" THEN [unmarked EXCEPT ![cron.sync] = @ + 1] ELSE unmarked
  /\ cron' = NoPass
  /\ Abandon(Cron)
  /\ UNCHANGED <<rowVars, resque, job, web, told, deleted>>

-----------------------------------------------------------------------------
(* The workers.                                                            *)

JobAt(w, at) == job[w].at = at
JobGo(w, at) == job' = [job EXCEPT ![w].at = at]
JobResult(w) == job' = [job EXCEPT ![w] = [at |-> "release", sync |-> @.sync, row |-> Nothing]]
JobDone(w) == job' = [job EXCEPT ![w] = Idle]

(* A SynchronizationJobs job fetches its row. If the row is gone the fetch *)
(* raises before `run`, and the slot is not given back.                    *)
TakeJob(w, s) ==
  /\ JobAt(w, "idle")
  /\ queue[s] > 0
  /\ queue' = [queue EXCEPT ![s] = @ - 1]
  /\ IF row[s] = Nothing
     THEN UNCHANGED job
     ELSE job' = [job EXCEPT ![w] = [at |-> "start", sync |-> s, row |-> As(row[s], "syncing")]]
  /\ UNCHANGED <<rowVars, imports, web, cron, told, deleted, deathVars, limitVars>>

StoreSyncing(w) ==
  /\ JobAt(w, "start")
  /\ Store(job[w].sync, job[w].row)
  /\ JobGo(w, "syncing")
  /\ UNCHANGED <<resque, web, cron, told, deleted, deathVars, limitVars>>

Succeed(w) ==
  /\ JobAt(w, "syncing")
  /\ Store(job[w].sync, [state |-> "success", retries |-> 0])
  /\ told' = told \ {job[w].sync}
  /\ JobResult(w)
  /\ UNCHANGED <<resque, web, cron, deleted, deathVars, limitVars>>

(* Mutant: a failure at the maximum is counted once more.                  *)
FailOffByOne(w) ==
  /\ JobAt(w, "syncing")
  /\ Store(job[w].sync, [state |-> "failure", retries |-> job[w].row.retries + 1])
  /\ JobResult(w)
  /\ UNCHANGED <<resque, web, cron, told, deleted, deathVars, limitVars>>

(* Mutant: an exception leaves the state as it was.                        *)
FailKeepsState(w) ==
  /\ JobAt(w, "syncing")
  /\ Store(job[w].sync, job[w].row)
  /\ JobResult(w)
  /\ UNCHANGED <<resque, web, cron, told, deleted, deathVars, limitVars>>

(* A failed import or an exception. The failure counts once; twice if an   *)
(* error follows its first count, since the rescue of `run` calls the same *)
(* handler again; as the first one if it is a success that could not be    *)
(* stored. The mail goes out when the retries were exhausted before.       *)
Fail(w) ==
  /\ JobAt(w, "syncing")
  /\ LET s == job[w].sync  r == job[w].row.retries IN
       \E count \in {1, r + 1, r + 2} :
         \/ /\ count <= MaxRetries
            /\ Store(s, [state |-> "failure", retries |-> count])
            /\ UNCHANGED told
         \/ /\ count > MaxRetries
            /\ Store(s, [state |-> "failure", retries |-> MaxRetries])
            /\ told' = told \cup {s}
  /\ JobResult(w)
  /\ UNCHANGED <<resque, web, cron, deleted, deathVars, limitVars>>

(* An error while the result is being recorded: the handlers of            *)
(* set_success_state_from and set_general_failure_state_from let `run`     *)
(* store the row, still syncing, and set_failure_state_from has none.      *)
ResultLost(w) ==
  /\ JobAt(w, "syncing")
  /\ LET s == job[w].sync IN
       \/ /\ row' = [row EXCEPT ![s] = job[w].row]
          /\ left' = left \cup {s}
       \/ /\ left' = IF IsBusy(s) THEN left \cup {s} ELSE left
          /\ UNCHANGED row
  /\ JobResult(w)
  /\ UNCHANGED <<resque, web, cron, told, deleted, deathVars, limitVars>>

(* The ensure clause of run.                                               *)
Release(w) ==
  /\ JobAt(w, "release")
  /\ Decrease
  /\ JobDone(w)
  /\ UNCHANGED <<rowVars, resque, web, cron, told, deleted, deathVars>>

(* The first import of a new synchronization.                              *)
TakeImport(w, s) ==
  /\ JobAt(w, "idle")
  /\ s \in imports
  /\ imports' = imports \ {s}
  /\ job' = [job EXCEPT ![w] = [at |-> "importing", sync |-> s, row |-> Nothing]]
  /\ UNCHANGED <<rowVars, queue, web, cron, told, deleted, deathVars, limitVars>>

(* The import ends before store_results has an importer (a download error, *)
(* for instance), or update_synchronization finds no row.                  *)
ImportWithoutResult(w) ==
  /\ JobAt(w, "importing")
  /\ JobDone(w)
  /\ UNCHANGED <<rowVars, resque, web, cron, told, deleted, deathVars, limitVars>>

ImportFetch(w) ==
  /\ JobAt(w, "importing")
  /\ row[job[w].sync] # Nothing
  /\ \E state \in {"success", "failure"} :
       job' = [job EXCEPT ![w] = [at |-> "imported", sync |-> @.sync, row |-> As(row[@.sync], state)]]
  /\ UNCHANGED <<rowVars, resque, web, cron, told, deleted, deathVars, limitVars>>

ImportStore(w) ==
  /\ JobAt(w, "imported")
  /\ Store(job[w].sync, job[w].row)
  /\ JobDone(w)
  /\ UNCHANGED <<resque, web, cron, told, deleted, deathVars, limitVars>>

(* The worker is killed: Resque loses the job, no ensure clause runs.      *)
WorkerDies(w) ==
  /\ ~JobAt(w, "idle")
  /\ deaths < MaxDeaths
  /\ deaths' = deaths + 1
  /\ JobDone(w)
  /\ left' = IF IsBusy(job[w].sync) THEN left \cup {job[w].sync} ELSE left
  /\ UNCHANGED <<row, resque, web, cron, told, deleted, unmarked, limitVars>>

SlotsExpire ==
  /\ KeyExpires
  /\ UNCHANGED <<rowVars, resque, job, web, cron, told, deleted, deathVars>>

-----------------------------------------------------------------------------

CronPass == (\E s \in Sync : CronPick(s)) \/ CronEnqueue \/ CronMark \/ CronIncrease \/ CronPush

JobStep(w) ==
  \/ StoreSyncing(w) \/ Succeed(w) \/ Fail(w) \/ ResultLost(w) \/ Release(w)
  \/ ImportWithoutResult(w) \/ ImportFetch(w) \/ ImportStore(w)

WebStep(h) ==
  \/ RefuseImport(h) \/ EnqueueImport(h) \/ MarkQueued(h)
  \/ CheckLimit(h) \/ EnqueueSync(h) \/ StoreQueued(h) \/ WebIncrease(h) \/ WebPush(h)
  \/ StoreUpdate(h)

(* The scheduled life of the rows: a single rake task and the workers.     *)
ScheduledNext ==
  \/ CronFetch \/ CronPass \/ CronDies
  \/ \E w \in Worker : (\E s \in Sync : TakeJob(w, s)) \/ JobStep(w) \/ WorkerDies(w)

(* With the owner and the operator beside them.                            *)
SyncNext ==
  \/ ScheduledNext
  \/ CronFetchAll
  \/ \E w \in Worker, s \in Sync : TakeImport(w, s)
  \/ \E h \in Web :
       \/ \E s \in Sync : Create(h, s) \/ SyncNow(h, s) \/ FetchToUpdate(h, s)
       \/ WebStep(h)
       \/ WebDies(h)
  \/ \E s \in Sync : Destroy(s)
  \/ SlotsExpire

ScheduledSpec == SyncInit /\ [][ScheduledNext]_syncVars
SyncSpec == SyncInit /\ [][SyncNext]_syncVars

(* Workers go on; nobody has to ask for anything.                          *)
SyncFairness == \A w \in Worker : WF_syncVars(JobStep(w))

SyncFairSpec == SyncSpec /\ SyncFairness

-----------------------------------------------------------------------------

Running(s) == {w \in Worker : job[w].sync = s /\ job[w].at \in {"start", "syncing"}}
Active(s) == queue[s] > 0 \/ Running(s) # {}

(* A process is going to store the row in another state.                   *)
Handled(s) ==
  \/ \E h \in Web : web[h].sync = s /\ web[h].at \in {"import", "mark"}
  \/ \E w \in Worker : job[w].sync = s /\ job[w].at = "syncing"

(* A row in created or syncing, which no owner can start by hand (member.rb*)
(* can_manually_sync?), is in the hands of some process that is going to   *)
(* store it again, unless that process died or raised, or an update        *)
(* brought the state back from an older copy.                              *)
BusyIsHandled == \A s \in Sync \ left : IsBusy(s) => Handled(s)

(* With the rake task alone, a row waits once or runs once: the task, which*)
(* reads all the rows before it enqueues the first one and pushes a job    *)
(* before it marks the row, does not enqueue a row that waits or runs, and *)
(* so a table is not synchronized by two workers at once. Each time it dies*)
(* or raises between the push and the mark, the next pass may push one more*)
(* job of that row.                                                        *)
OneRunAtATime == \A s \in Sync : queue[s] + Cardinality(Running(s)) <= 1 + unmarked[s]

(* With the rake task alone, no attempt follows the mail that says that the*)
(* synchronization has reached the maximum of its attempts (max_retries_   *)
(* reached.html.erb): its row neither waits nor runs, although the mail    *)
(* goes out while the task may be enqueueing what it has read before. A    *)
(* second job of an unmarked row is the exception.                         *)
ToldIsLast == \A s \in told : unmarked[s] = 0 => ~Active(s)

(* A run that has stored syncing goes on to store its result.              *)
SyncingEnds ==
  \A s \in Sync : (row[s] # Nothing /\ row[s].state = "syncing" /\ s \notin left)
                    ~> (row[s] = Nothing \/ row[s].state # "syncing" \/ s \in left)
=============================================================================
