---------------------------- MODULE DataImports -----------------------------
(***************************************************************************)
(* The imports of one user: rows of data_imports that the web controllers  *)
(* create, the Resque workers run, the upload task feeds and the polling   *)
(* requests declare failed, each of them writing the whole row back.       *)
(*                                                                         *)
(* Sources: app/models/data_import.rb (the row and its run),               *)
(* app/controllers/api/json/imports_controller.rb and                      *)
(* synchronizations_controller.rb (creation), app/services/carto/          *)
(* data_imports_service.rb (stuck imports), lib/resque/importer_jobs.rb    *)
(* and base_job.rb (the job), lib/tasks/import.rake (upload_to_s3).        *)
(*                                                                         *)
(* The states that the importer reports (uploading, unpacking, importing,  *)
(* guessing, geocoding) are one, "running": no guard tells them apart.     *)
(* There is no clock: an age of five or sixty minutes only says when a     *)
(* check may begin, and here it may at any time.                           *)
(***************************************************************************)
EXTENDS ImportLimit

CONSTANTS
  Import,      \* ids of rows
  Worker,      \* Resque workers of the imports queue
  Checker,     \* web processes that poll imports
  Nothing,     \* no row, no id
  MaxRetries,  \* MAX_RETRIES of BaseJob
  MaxFaults    \* bound: processes that die and slots that Redis does not take back

Open == {"enqueued", "pending", "running"}
Final == {"complete", "failure"}

ASSUME DataImportsAssumption ==
  /\ IsFiniteSet(Import)
  /\ Nothing \notin Import \cup Open \cup Final
  /\ MaxRetries \in Nat \ {0}
  /\ MaxFaults \in Nat

VARIABLES
  row,      \* state of each row of data_imports
  jobs,     \* imports with an ImporterJobs job in Resque
  req,      \* what each creating request does
  run,      \* what each worker does
  check,    \* what each polling request does
  upload,   \* what the upload task does
  held,     \* history: imports whose slot was taken and not given back
  stalled,  \* history: imports left by a process that died or raised
  kept,     \* history: imports whose slot is left taken by the code that ended them
  faults    \* history: processes that died and slots that Redis did not take back

importVars == <<row, jobs, req, run, check, upload, held, stalled, kept, faults, slots, push>>

NoRequest == [at |-> "idle", import |-> Nothing]
NoRun == [at |-> "idle", import |-> Nothing, tries |-> 0, error |-> "none"]
NoCheck == [at |-> "idle", ids |-> {}, stuck |-> Nothing]
NoUpload == [at |-> "idle", import |-> Nothing]

RequestType ==
  [at : {"idle", "count", "read", "create", "enqueue", "sync", "refuse"},
   import : Import \cup {Nothing}]

RunType ==
  [at : {"idle", "run", "success", "giveback", "notify", "failure", "release", "after"},
   import : Import \cup {Nothing}, tries : 0..MaxRetries - 1, error : {"none", "raised"}]

CheckType ==
  [at : {"idle", "rows", "workers", "fail", "decrease"},
   ids : SUBSET Import, stuck : Import \cup {Nothing}]

UploadType ==
  [at : {"idle", "mark", "upload", "enqueue"}, import : Import \cup {Nothing}]

ImportTypeOK ==
  /\ LimitTypeOK
  /\ row \in [Import -> Open \cup Final \cup {Nothing}]
  /\ jobs \subseteq Import
  /\ req \in [Web -> RequestType]
  /\ run \in [Worker -> RunType]
  /\ check \in [Checker -> CheckType]
  /\ upload \in UploadType
  /\ held \subseteq Import /\ stalled \subseteq Import /\ kept \subseteq Import
  /\ faults \in 0..MaxFaults

ImportInit ==
  /\ LimitInit
  /\ row = [i \in Import |-> Nothing]
  /\ jobs = {} /\ held = {} /\ stalled = {} /\ kept = {}
  /\ req = [h \in Web |-> NoRequest]
  /\ run = [w \in Worker |-> NoRun]
  /\ check = [c \in Checker |-> NoCheck]
  /\ upload = NoUpload
  /\ faults = 0

(* Sequel's save writes every column, whatever the row says by now.        *)
Save(i, state) == row' = [row EXCEPT ![i] = state]

Enqueue(i) == jobs' = jobs \cup {i}

(* decrement!, for an import or for a request that has not made any.       *)
GiveBack(i) ==
  /\ Decrease
  /\ held' = held \ {i}
  /\ UNCHANGED <<kept, faults>>

(* decrement! raises: each of its callers logs that and goes on.           *)
GiveBackRaises(i) ==
  /\ faults < MaxFaults
  /\ faults' = faults + 1
  /\ kept' = kept \cup ({i} \cap Import)
  /\ UNCHANGED <<held, limitVars>>

Decrement(i) == GiveBack(i) \/ GiveBackRaises(i)

-----------------------------------------------------------------------------
(* ImportsController#create.                                               *)

ReqAt(h, at) == req[h].at = at
ReqGo(h, at, i) == req' = [req EXCEPT ![h] = [at |-> at, import |-> i]]
ReqDone(h) == req' = [req EXCEPT ![h] = NoRequest]

Request(h) ==
  /\ ReqAt(h, "idle")
  /\ Increase(h)
  /\ ReqGo(h, "count", Nothing)
  /\ UNCHANGED <<row, jobs, run, check, upload, held, stalled, kept, faults>>

TakeSlot(h) ==
  /\ ReqAt(h, "count")
  /\ \/ IncreaseExists(h) /\ UNCHANGED req
     \/ IncreasePush(h) /\ ReqGo(h, "read", Nothing)
  /\ UNCHANGED <<row, jobs, run, check, upload, held, stalled, kept, faults>>

CheckLimit(h) ==
  /\ ReqAt(h, "read")
  /\ ReqGo(h, IF IsOverLimit THEN "refuse" ELSE "create", Nothing)
  /\ UNCHANGED <<row, jobs, run, check, upload, held, stalled, kept, faults, limitVars>>

(* A parameter, the upload or the creation of the row raises.              *)
BadRequest(h) ==
  /\ ReqAt(h, "create")
  /\ ReqGo(h, "refuse", Nothing)
  /\ UNCHANGED <<row, jobs, run, check, upload, held, stalled, kept, faults, limitVars>>

(* A file too long to be uploaded at once leaves the row enqueued, for the *)
(* upload task.                                                            *)
Create(h, i) ==
  /\ ReqAt(h, "create")
  /\ row[i] = Nothing
  /\ held' = held \cup {i}
  /\ \/ Save(i, "pending") /\ ReqGo(h, "enqueue", i)
     \/ Save(i, "enqueued") /\ ReqDone(h)
  /\ UNCHANGED <<jobs, run, check, upload, stalled, kept, faults, limitVars>>

(* SynchronizationsController#create makes its import without a slot.      *)
CreateForSync(h, i) ==
  /\ ReqAt(h, "idle")
  /\ row[i] = Nothing
  /\ Save(i, "pending")
  /\ ReqGo(h, "sync", i)
  /\ UNCHANGED <<jobs, run, check, upload, held, stalled, kept, faults, limitVars>>

EnqueueJob(h) ==
  /\ ReqAt(h, "enqueue") \/ ReqAt(h, "sync")
  /\ Enqueue(req[h].import)
  /\ ReqDone(h)
  /\ UNCHANGED <<row, run, check, upload, held, stalled, kept, faults, limitVars>>

(* Resque or the external import's record raises: the row stays.           *)
EnqueueRaises(h) ==
  /\ \/ ReqAt(h, "enqueue") /\ ReqGo(h, "refuse", req[h].import)
     \/ ReqAt(h, "sync") /\ ReqDone(h)
  /\ stalled' = stalled \cup {req[h].import}
  /\ UNCHANGED <<row, jobs, run, check, upload, held, kept, faults, limitVars>>

(* The rescue clauses.                                                     *)
Refuse(h) ==
  /\ ReqAt(h, "refuse")
  /\ Decrement(req[h].import)
  /\ ReqDone(h)
  /\ UNCHANGED <<row, jobs, run, check, upload, stalled>>

RequestDies(h) ==
  /\ ~ReqAt(h, "idle")
  /\ faults < MaxFaults
  /\ faults' = faults + 1
  /\ stalled' = stalled \cup ({req[h].import} \cap Import)
  /\ ReqDone(h)
  /\ Abandon(h)
  /\ UNCHANGED <<row, jobs, run, check, upload, held, kept>>

-----------------------------------------------------------------------------
(* The upload_to_s3 task, one process per host.                            *)

UploadGo(at) == upload' = [at |-> at, import |-> upload.import]

UploadFetch(i) ==
  /\ upload.at = "idle"
  /\ row[i] = "enqueued"
  /\ upload' = [at |-> "mark", import |-> i]
  /\ UNCHANGED <<row, jobs, req, run, check, held, stalled, kept, faults, limitVars>>

UploadMark ==
  /\ upload.at = "mark"
  /\ Save(upload.import, "pending")
  /\ UploadGo("upload")
  /\ UNCHANGED <<jobs, req, run, check, held, stalled, kept, faults, limitVars>>

(* The row is saved again with the address of the file.                    *)
UploadStore ==
  /\ upload.at = "upload"
  /\ Save(upload.import, "pending")
  /\ UploadGo("enqueue")
  /\ UNCHANGED <<jobs, req, run, check, held, stalled, kept, faults, limitVars>>

UploadEnqueue ==
  /\ upload.at = "enqueue"
  /\ Enqueue(upload.import)
  /\ upload' = NoUpload
  /\ UNCHANGED <<row, req, run, check, held, stalled, kept, faults, limitVars>>

(* Mutant: the rescue leaves the row as it is.                             *)
UploadForgotten ==
  /\ upload.at # "idle"
  /\ kept' = kept \cup {upload.import}
  /\ upload' = NoUpload
  /\ UNCHANGED <<row, jobs, req, run, check, held, stalled, faults, limitVars>>

(* The rescue saves the failure, and nobody gives the slot back: the task  *)
(* does not, and no poll looks at an import that has failed.               *)
UploadFails ==
  /\ upload.at # "idle"
  /\ Save(upload.import, "failure")
  /\ kept' = kept \cup {upload.import}
  /\ upload' = NoUpload
  /\ UNCHANGED <<jobs, req, run, check, held, stalled, faults, limitVars>>

(* The task is killed, or its rescue raises. Once pending, the row is not  *)
(* looked for again.                                                       *)
UploadDies ==
  /\ upload.at # "idle"
  /\ faults < MaxFaults
  /\ faults' = faults + 1
  /\ stalled' = IF upload.at = "mark" THEN stalled ELSE stalled \cup {upload.import}
  /\ upload' = NoUpload
  /\ UNCHANGED <<row, jobs, req, run, check, held, kept, limitVars>>

-----------------------------------------------------------------------------
(* The workers: BaseJob.run_action and DataImport#run_import!.             *)

RunAt(w, at) == run[w].at = at
RunGo(w, at) ==
  run' = [run EXCEPT ![w] =
    [at |-> at, import |-> run[w].import, tries |-> run[w].tries, error |-> run[w].error]]
RunRaises(w, error) ==
  run' = [run EXCEPT ![w] =
    [at |-> "failure", import |-> run[w].import, tries |-> run[w].tries, error |-> error]]
RunDone(w) == run' = [run EXCEPT ![w] = NoRun]

TakeJob(w, i) ==
  /\ RunAt(w, "idle")
  /\ i \in jobs
  /\ jobs' = jobs \ {i}
  /\ run' = [run EXCEPT ![w] = [at |-> "run", import |-> i, tries |-> 0, error |-> "none"]]
  /\ UNCHANGED <<row, req, check, upload, held, stalled, kept, faults, limitVars>>

(* The tracker saves each state that the importer reports; an import from  *)
(* a table or a query saves that it is uploading.                          *)
Track(w) ==
  /\ RunAt(w, "run")
  /\ Save(run[w].import, "running")
  /\ UNCHANGED <<jobs, req, run, check, upload, held, stalled, kept, faults, limitVars>>

Imported(w) ==
  /\ RunAt(w, "run")
  /\ RunGo(w, "success")
  /\ UNCHANGED <<row, jobs, req, check, upload, held, stalled, kept, faults, limitVars>>

(* The importer fails, or the exception is one that run_import! keeps to   *)
(* itself, or one that it raises again.                                    *)
NotImported(w) ==
  /\ RunAt(w, "run")
  /\ \E error \in {"none", "raised"} : RunRaises(w, error)
  /\ UNCHANGED <<row, jobs, req, check, upload, held, stalled, kept, faults, limitVars>>

(* Without results, or over a quota, a state is saved before the handler   *)
(* of success or failure saves its own.                                    *)
EarlyState(w) ==
  /\ RunAt(w, "run")
  /\ \E state \in Final : Save(run[w].import, state)
  /\ RunGo(w, "success") \/ RunRaises(w, "none")
  /\ UNCHANGED <<jobs, req, check, upload, held, stalled, kept, faults, limitVars>>

(* handle_success: save, give the slot back, notify.                       *)
SaveComplete(w) ==
  /\ RunAt(w, "success")
  /\ Save(run[w].import, "complete")
  /\ RunGo(w, "giveback")
  /\ UNCHANGED <<jobs, req, check, upload, held, stalled, kept, faults, limitVars>>

GiveBackSuccess(w) ==
  /\ RunAt(w, "giveback")
  /\ Decrement(run[w].import)
  /\ RunGo(w, "notify")
  /\ UNCHANGED <<row, jobs, req, check, upload, stalled>>

Notify(w) ==
  /\ RunAt(w, "notify")
  /\ RunDone(w)
  /\ UNCHANGED <<row, jobs, req, check, upload, held, stalled, kept, faults, limitVars>>

(* run_import! takes an error of handle_success for one of the import.     *)
SuccessRaises(w) ==
  /\ RunAt(w, "success") \/ RunAt(w, "notify")
  /\ RunRaises(w, "raised")
  /\ UNCHANGED <<row, jobs, req, check, upload, held, stalled, kept, faults, limitVars>>

(* Mutant: the handler of a failure leaves the state as it was.            *)
SaveFailureForgotten(w) ==
  /\ RunAt(w, "failure")
  /\ RunGo(w, "release")
  /\ UNCHANGED <<row, jobs, req, check, upload, held, stalled, kept, faults, limitVars>>

(* handle_failure: the same, but its own errors end it.                    *)
SaveFailure(w) ==
  /\ RunAt(w, "failure")
  /\ Save(run[w].import, "failure")
  /\ RunGo(w, "release")
  /\ UNCHANGED <<jobs, req, check, upload, held, stalled, kept, faults, limitVars>>

FailureNotSaved(w) ==
  /\ RunAt(w, "failure")
  /\ RunGo(w, "after")
  /\ stalled' = stalled \cup {run[w].import}
  /\ UNCHANGED <<row, jobs, req, check, upload, held, kept, faults, limitVars>>

(* Mutant: only a successful import gives its slot back.                   *)
ReleaseForgotten(w) ==
  /\ RunAt(w, "release")
  /\ RunGo(w, "after")
  /\ UNCHANGED <<row, jobs, req, check, upload, held, stalled, kept, faults, limitVars>>

Release(w) ==
  /\ RunAt(w, "release")
  /\ Decrement(run[w].import)
  /\ RunGo(w, "after")
  /\ UNCHANGED <<row, jobs, req, check, upload, stalled>>

(* Mutant: as many retries as attempts.                                    *)
RetryOffByOne(w) ==
  /\ RunAt(w, "after")
  /\ run[w].error = "raised"
  /\ run' = [run EXCEPT ![w] =
       [at |-> "run", import |-> run[w].import, tries |-> run[w].tries + 1, error |-> "none"]]
  /\ run[w].tries < MaxRetries
  /\ UNCHANGED <<row, jobs, req, check, upload, held, stalled, kept, faults, limitVars>>

(* A lost database connection that run_import! raised again is retried:    *)
(* the whole import, which has already failed and returned its slot.       *)
Retry(w) ==
  /\ RunAt(w, "after")
  /\ run[w].error = "raised"
  /\ run[w].tries + 1 < MaxRetries
  /\ run' = [run EXCEPT ![w] =
       [at |-> "run", import |-> run[w].import, tries |-> run[w].tries + 1, error |-> "none"]]
  /\ UNCHANGED <<row, jobs, req, check, upload, held, stalled, kept, faults, limitVars>>

EndJob(w) ==
  /\ RunAt(w, "after")
  /\ RunDone(w)
  /\ UNCHANGED <<row, jobs, req, check, upload, held, stalled, kept, faults, limitVars>>

WorkerDies(w) ==
  /\ ~RunAt(w, "idle")
  /\ faults < MaxFaults
  /\ faults' = faults + 1
  /\ stalled' = stalled \cup {run[w].import}
  /\ RunDone(w)
  /\ UNCHANGED <<row, jobs, req, check, upload, held, kept, limitVars>>

-----------------------------------------------------------------------------
(* The polling requests.                                                   *)

RunningIds == {run[w].import : w \in {v \in Worker : ~RunAt(v, "idle")}}

CheckAt(c, at) == check[c].at = at
CheckGo(c, at, ids, stuck) ==
  check' = [check EXCEPT ![c] = [at |-> at, ids |-> ids, stuck |-> stuck]]
CheckDone(c) == check' = [check EXCEPT ![c] = NoCheck]

(* index asks the workers first: ActiveRecord runs its query when the rows *)
(* are mapped.                                                             *)
IndexWorkers(c) ==
  /\ CheckAt(c, "idle")
  /\ CheckGo(c, "rows", RunningIds, Nothing)
  /\ UNCHANGED <<row, jobs, req, run, upload, held, stalled, kept, faults, limitVars>>

(* Mutant: imports that are complete are not left out.                     *)
IndexRowsAll(c) ==
  /\ CheckAt(c, "rows")
  /\ \E ids \in SUBSET {i \in Import \ check[c].ids : row[i] \in Open \cup {"complete"}} :
       IF ids = {} THEN CheckDone(c) ELSE CheckGo(c, "fail", ids, Nothing)
  /\ UNCHANGED <<row, jobs, req, run, upload, held, stalled, kept, faults, limitVars>>

(* Any of the unfinished imports may be old enough.                        *)
IndexRows(c) ==
  /\ CheckAt(c, "rows")
  /\ \E ids \in SUBSET {i \in Import \ check[c].ids : row[i] \in Open} :
       IF ids = {} THEN CheckDone(c) ELSE CheckGo(c, "fail", ids, Nothing)
  /\ UNCHANGED <<row, jobs, req, run, upload, held, stalled, kept, faults, limitVars>>

(* show looks at the row first, and only at an import that has started.    *)
(* The service asks the same of an older copy before; that changes nothing.*)
ShowRow(c, i) ==
  /\ CheckAt(c, "idle")
  /\ row[i] = "running"
  /\ CheckGo(c, "workers", {i}, Nothing)
  /\ UNCHANGED <<row, jobs, req, run, upload, held, stalled, kept, faults, limitVars>>

ShowWorkers(c) ==
  /\ CheckAt(c, "workers")
  /\ IF check[c].ids \subseteq RunningIds THEN CheckDone(c) ELSE CheckGo(c, "fail", check[c].ids, Nothing)
  /\ UNCHANGED <<row, jobs, req, run, upload, held, stalled, kept, faults, limitVars>>

(* handle_failure of an import taken for stuck, whatever has become of it. *)
FailStuck(c, i) ==
  /\ CheckAt(c, "fail")
  /\ i \in check[c].ids
  /\ Save(i, "failure")
  /\ CheckGo(c, "decrease", check[c].ids \ {i}, i)
  /\ UNCHANGED <<jobs, req, run, upload, held, stalled, kept, faults, limitVars>>

GiveBackStuck(c) ==
  /\ CheckAt(c, "decrease")
  /\ Decrement(check[c].stuck)
  /\ IF check[c].ids = {} THEN CheckDone(c) ELSE CheckGo(c, "fail", check[c].ids, Nothing)
  /\ UNCHANGED <<row, jobs, req, run, upload, stalled>>

CheckDies(c) ==
  /\ ~CheckAt(c, "idle")
  /\ faults < MaxFaults
  /\ faults' = faults + 1
  /\ stalled' = stalled \cup ({check[c].stuck} \cap Import)
  /\ CheckDone(c)
  /\ UNCHANGED <<row, jobs, req, run, upload, held, kept, limitVars>>

SlotsExpire ==
  /\ KeyExpires
  /\ UNCHANGED <<row, jobs, req, run, check, upload, held, stalled, kept, faults>>

-----------------------------------------------------------------------------

RequestStep(h) ==
  \/ Request(h) \/ TakeSlot(h) \/ CheckLimit(h) \/ BadRequest(h) \/ Refuse(h)
  \/ EnqueueJob(h) \/ EnqueueRaises(h)
  \/ \E i \in Import : Create(h, i)

(* What goes on until the job is over, the reports of progress apart.      *)
RunStep(w) ==
  \/ Imported(w) \/ NotImported(w) \/ EarlyState(w)
  \/ SaveComplete(w) \/ GiveBackSuccess(w) \/ Notify(w) \/ SuccessRaises(w)
  \/ SaveFailure(w) \/ FailureNotSaved(w) \/ Release(w) \/ Retry(w) \/ EndJob(w)

UploadStep == UploadMark \/ UploadStore \/ UploadEnqueue \/ UploadFails

IndexStep(c) == IndexWorkers(c) \/ IndexRows(c)

ShowStep(c) ==
  \/ ShowWorkers(c) \/ GiveBackStuck(c)
  \/ \E i \in Import : ShowRow(c, i) \/ FailStuck(c, i)

(* Requests, jobs and uploads when nobody dies, polls or synchronizes and  *)
(* the key does not expire.                                                *)
PlainNext ==
  \/ \E h \in Web : RequestStep(h)
  \/ \E w \in Worker : (\E i \in Import : TakeJob(w, i)) \/ Track(w) \/ RunStep(w)
  \/ (\E i \in Import : UploadFetch(i)) \/ UploadStep

(* The same beside an owner who looks at one import.                       *)
ShowNext == PlainNext \/ \E c \in Checker : ShowStep(c)

ImportNext ==
  \/ ShowNext
  \/ \E h \in Web : (\E i \in Import : CreateForSync(h, i)) \/ RequestDies(h)
  \/ \E w \in Worker : WorkerDies(w)
  \/ UploadDies
  \/ \E c \in Checker : IndexStep(c) \/ CheckDies(c)
  \/ SlotsExpire

ImportSpec == ImportInit /\ [][ImportNext]_importVars

(* The workers of the queue go on taking jobs and ending them; every step  *)
(* of an import is under some timeout.                                     *)
ImportFairness ==
  /\ WF_importVars(\E w \in Worker, i \in Import : TakeJob(w, i))
  /\ \A w \in Worker : WF_importVars(RunStep(w))

ImportFairSpec == ImportSpec /\ ImportFairness

-----------------------------------------------------------------------------

(* Workers that are going to save the row, or to give its slot back.       *)
Saving(i) == \E w \in Worker : run[w].import = i /\ run[w].at \in {"run", "success", "failure"}
Owing(i) == \E w \in Worker : run[w].import = i /\ run[w].at \notin {"notify", "after"}

Running(i) == \E w \in Worker : run[w].import = i
Creating(i) == \E h \in Web : req[h].import = i
Judging(i) ==
  \E c \in Checker : check[c].at # "rows" /\ i \in check[c].ids \cup {check[c].stuck}
Uploading(i) == upload.import = i

(* Requests that took a slot and have neither an import nor given it back. *)
Unsettled == {h \in Web : req[h].at \in {"read", "create", "refuse"} /\ req[h].import = Nothing}

(* The list never counts more than there is: each of its elements stands   *)
(* for a request under way, an import that has not given its slot back, a  *)
(* process that died or a command that Redis did not take. A user is not   *)
(* refused for slots that nobody has taken.                                *)
SlotsAccounted == slots <= Cardinality(Unsettled) + Cardinality(held) + faults

(* An import that is over has given its slot back, or some process is about*)
(* to. The exceptions: the process that ended it died or could not save    *)
(* the failure (stalled), Redis did not take the slot back, or it was the  *)
(* upload that failed, and the upload task returns no slots (kept).        *)
OverIsReturned ==
  \A i \in held \ (stalled \cup kept) :
    row[i] \in Open \/ Owing(i) \/ \E c \in Checker : check[c].stuck = i

(* A pending import has a job in Resque or a process on its way to enqueue *)
(* or to end it, unless that process died or raised: it does not wait for  *)
(* nothing.                                                                *)
PendingIsCarried ==
  \A i \in Import \ stalled :
    row[i] = "pending" => i \in jobs \/ Saving(i) \/ Creating(i) \/ Uploading(i)

(* Once an import is over and no process has it in hand, no process takes  *)
(* it again, and its state is the one its owner will go on reading.        *)
Settled(i) ==
  row[i] \in Final /\ i \notin jobs /\ ~Running(i) /\ ~Creating(i) /\ ~Judging(i) /\ ~Uploading(i)

SettledStays == [][\A i \in Import : Settled(i) => Settled(i)' /\ row'[i] = row[i]]_importVars

(* A job ends its import, one way or the other, unless its worker died or  *)
(* could not save the failure.                                             *)
JobsEnd == \A i \in Import : i \in jobs ~> (row[i] \in Final \/ i \in stalled)
=============================================================================
