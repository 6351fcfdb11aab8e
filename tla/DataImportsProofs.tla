------------------------- MODULE DataImportsProofs --------------------------
(***************************************************************************)
(* What the imports of a user guarantee for any number of imports,         *)
(* requests, workers and polls: that the limit counts no slot twice, that  *)
(* no import keeps its slot or waits for nothing unless a process died or  *)
(* raised over it, and that what is over and out of hand stays as it is.   *)
(***************************************************************************)
EXTENDS DataImports, FiniteSetTheorems, TLAPS

-----------------------------------------------------------------------------
(* What each process has in hand.                                          *)

ReqHands ==
  \A h \in Web :
    /\ req[h].at \in {"idle", "count", "read", "create"} => req[h].import = Nothing
    /\ req[h].at \in {"enqueue", "sync"} => req[h].import \in Import
    /\ req[h].at = "refuse" => req[h].import \in stalled \cup {Nothing}

RunHands ==
  \A w \in Worker :
    /\ run[w].at = "idle" => run[w].import = Nothing
    /\ run[w].at # "idle" => run[w].import \in Import

CheckHands ==
  \A c \in Checker :
    check[c].stuck \in IF check[c].at = "decrease" THEN Import ELSE {Nothing}

(* The row that the upload task has just fetched was enqueued, and only the*)
(* task makes it pending.                                                  *)
UploadHands ==
  /\ upload.import \in IF upload.at = "idle" THEN {Nothing} ELSE Import
  /\ upload.at = "mark" => row[upload.import] \notin {Nothing, "pending"}

HeldExists == \A i \in held : row[i] # Nothing

Hands == ImportTypeOK /\ ReqHands /\ RunHands /\ CheckHands /\ UploadHands /\ HeldExists

RowType == [Import -> Open \cup Final \cup {Nothing}]

(* A row that is saved exists, and the others are as they were.            *)
LEMMA SaveKeeps ==
  ASSUME row \in RowType, NEW i \in Import, NEW state \in Open \cup Final, Save(i, state)
  PROVE  /\ row' \in RowType
         /\ row'[i] = state
         /\ \A j \in Import \ {i} : row'[j] = row[j]
         /\ \A j \in Import : row[j] # Nothing => row'[j] # Nothing
<1>1. row' = [row EXCEPT ![i] = state]
  BY DEF Save
<1>2. Nothing \notin Open \cup Final
  BY DataImportsAssumption
<1> QED
  BY <1>1, <1>2 DEF RowType

LEMMA GiveBackKeeps ==
  ASSUME ImportTypeOK, NEW i, GiveBack(i)
  PROVE  /\ LimitTypeOK' /\ push' = push
         /\ held' = held \ {i} /\ held' \subseteq Import
         /\ kept' = kept /\ faults' = faults
         /\ slots' = IF slots > 0 THEN slots - 1 ELSE 0
BY DEF ImportTypeOK, LimitTypeOK, GiveBack, Decrease

(* Whether Redis takes the slot back or not.                               *)
LEMMA DecrementKeeps ==
  ASSUME ImportTypeOK, NEW i, Decrement(i)
  PROVE  /\ LimitTypeOK' /\ push' = push
         /\ held' = held \/ held' = held \ {i}
         /\ held' \subseteq Import
         /\ kept \subseteq kept' /\ kept' \subseteq Import
         /\ faults' \in 0..MaxFaults
         /\ i \notin held' \ kept'
<1>1. CASE GiveBack(i)
  BY <1>1, GiveBackKeeps DEF ImportTypeOK
<1>2. CASE GiveBackRaises(i)
  BY <1>2, DataImportsAssumption DEF GiveBackRaises, ImportTypeOK, LimitTypeOK, limitVars
<1> QED
  BY <1>1, <1>2 DEF Decrement

(* The upload task and the slots do not mind a row that others save, as    *)
(* long as they do not save that it is pending.                            *)
LEMMA RowsElsewhere ==
  ASSUME ImportTypeOK, UploadHands, HeldExists, NEW i \in Import,
         NEW state \in {"running"} \cup Final, Save(i, state),
         upload' = upload, held' \subseteq held
  PROVE  row' \in RowType /\ UploadHands' /\ HeldExists'
<1>1. row \in RowType /\ state \in Open \cup Final
  BY DEF ImportTypeOK, RowType, Open
<1>2. /\ row' \in RowType /\ row'[i] = state
      /\ \A j \in Import \ {i} : row'[j] = row[j]
      /\ \A j \in Import : row[j] # Nothing => row'[j] # Nothing
  BY <1>1, SaveKeeps
<1>3. HeldExists'
  BY <1>2 DEF HeldExists, ImportTypeOK
<1>4. state # "pending" /\ state # Nothing
  BY DataImportsAssumption DEF Open, Final
<1>5. UploadHands'
  BY <1>2, <1>4 DEF UploadHands
<1> QED
  BY <1>2, <1>3, <1>5

LEMMA HandsInit == ImportInit => Hands
<1> SUFFICES ASSUME ImportInit PROVE Hands
  OBVIOUS
<1> USE DEF ImportInit
<1>1. LimitTypeOK
  BY DEF LimitInit, LimitTypeOK, Pushes
<1>2. req \in [Web -> RequestType]
  BY DEF NoRequest, RequestType
<1>3. run \in [Worker -> RunType]
  <2>1. NoRun \in RunType
    BY DataImportsAssumption DEF NoRun, RunType
  <2> QED
    BY <2>1
<1>4. check \in [Checker -> CheckType]
  BY DEF NoCheck, CheckType
<1>5. upload \in UploadType
  BY DEF NoUpload, UploadType
<1>6. ImportTypeOK
  BY <1>1, <1>2, <1>3, <1>4, <1>5, DataImportsAssumption DEF ImportTypeOK
<1>7. ReqHands /\ RunHands /\ CheckHands /\ UploadHands /\ HeldExists
  BY DEF ReqHands, RunHands, CheckHands, UploadHands, HeldExists, NoRequest, NoRun, NoCheck, NoUpload
<1> QED
  BY <1>6, <1>7 DEF Hands

-----------------------------------------------------------------------------
(* The requests.                                                           *)

RequestAction(h) ==
  \/ RequestStep(h) \/ RequestDies(h)
  \/ \E i \in Import : CreateForSync(h, i)

LEMMA RequestTypes ==
  ASSUME Hands, NEW h \in Web, RequestAction(h)
  PROVE  /\ LimitTypeOK'
         /\ jobs' \subseteq Import
         /\ req' \in [Web -> RequestType]
         /\ held' \subseteq Import /\ stalled' \subseteq Import /\ kept' \subseteq Import
         /\ faults' \in 0..MaxFaults
         /\ stalled \subseteq stalled' /\ kept \subseteq kept'
         /\ UNCHANGED <<run, check, upload>>
<1> USE DEF Hands, ImportTypeOK, RequestAction, RequestStep
<1>1. UNCHANGED <<run, check, upload>>
  BY DEF Request, TakeSlot, CheckLimit, BadRequest, Refuse, EnqueueJob, EnqueueRaises, Create,
         CreateForSync, RequestDies
<1>2. /\ LimitTypeOK'
      /\ held' \subseteq Import /\ stalled' \subseteq Import /\ kept' \subseteq Import
      /\ faults' \in 0..MaxFaults
      /\ stalled \subseteq stalled' /\ kept \subseteq kept'
  <2>1. CASE Refuse(h)
    BY <2>1, DecrementKeeps DEF Refuse
  <2>2. CASE ~Refuse(h)
    <3>1. LimitTypeOK'
      BY <2>2
         DEF Request, TakeSlot, CheckLimit, BadRequest, EnqueueJob, EnqueueRaises, Create,
             CreateForSync, RequestDies, LimitTypeOK, Pushes, Increase, IncreaseExists,
             IncreasePush, Abandon, limitVars
    <3>2. held' \subseteq Import /\ stalled' \subseteq Import /\ stalled \subseteq stalled'
      BY <2>2
         DEF Request, TakeSlot, CheckLimit, BadRequest, EnqueueJob, EnqueueRaises, Create,
             CreateForSync, RequestDies, ReqHands, ReqAt
    <3>3. kept' = kept /\ faults' \in 0..MaxFaults
      BY <2>2, DataImportsAssumption
         DEF Request, TakeSlot, CheckLimit, BadRequest, EnqueueJob, EnqueueRaises, Create,
             CreateForSync, RequestDies
    <3> QED
      BY <3>1, <3>2, <3>3
  <2> QED
    BY <2>1, <2>2
<1>3. req' \in [Web -> RequestType]
  <2>1. req[h].import \in Import \cup {Nothing}
    BY DEF RequestType
  <2>2. NoRequest \in RequestType
    BY DEF NoRequest, RequestType
  <2>3. \E r \in RequestType : req' = [req EXCEPT ![h] = r] \/ req' = req
    <3>1. CASE ReqDone(h) \/ req' = req
      BY <2>2, <3>1 DEF ReqDone
    <3>2. CASE \E at \in {"count", "read", "create", "enqueue", "sync", "refuse"},
                  i \in Import \cup {Nothing} : ReqGo(h, at, i)
      BY <3>2 DEF ReqGo, RequestType
    <3> QED
      BY <2>1, <3>1, <3>2
         DEF Request, TakeSlot, CheckLimit, BadRequest, Refuse, EnqueueJob, EnqueueRaises, Create,
             CreateForSync, RequestDies
  <2> QED
    BY <2>3
<1>4. jobs' \subseteq Import
  BY DEF Request, TakeSlot, CheckLimit, BadRequest, Refuse, EnqueueJob, EnqueueRaises, Create,
         CreateForSync, RequestDies, Enqueue, ReqHands, ReqAt
<1> QED
  BY <1>1, <1>2, <1>3, <1>4

(* A request saves a row only when it makes it.                            *)
LEMMA RequestRows ==
  ASSUME Hands, NEW h \in Web, RequestAction(h)
  PROVE  \/ row' = row /\ held' \subseteq held
         \/ \E i \in Import, state \in {"pending", "enqueued"} :
              /\ row[i] = Nothing
              /\ Save(i, state)
              /\ held' \subseteq held \cup {i}
<1> USE DEF RequestAction, RequestStep
<1>1. CASE \E i \in Import : Create(h, i) \/ CreateForSync(h, i)
  BY <1>1 DEF Create, CreateForSync
<1>2. CASE ~\E i \in Import : Create(h, i) \/ CreateForSync(h, i)
  BY <1>2
     DEF Request, TakeSlot, CheckLimit, BadRequest, Refuse, EnqueueJob, EnqueueRaises, RequestDies,
         Decrement, GiveBack, GiveBackRaises
<1> QED
  BY <1>1, <1>2

LEMMA RequestKeepsHands ==
  ASSUME Hands, NEW h \in Web, RequestAction(h)
  PROVE  Hands'
<1>0. ImportTypeOK /\ ReqHands /\ RunHands /\ CheckHands /\ UploadHands /\ HeldExists
  BY DEF Hands
<1>1. /\ LimitTypeOK' /\ jobs' \subseteq Import
      /\ req' \in [Web -> RequestType]
      /\ held' \subseteq Import /\ stalled' \subseteq Import /\ kept' \subseteq Import
      /\ faults' \in 0..MaxFaults
      /\ run' = run /\ check' = check /\ upload' = upload
  BY RequestTypes
<1>2. row' \in RowType /\ UploadHands' /\ HeldExists'
  <2>1. CASE row' = row /\ held' \subseteq held
    BY <1>0, <1>1, <2>1 DEF ImportTypeOK, RowType, UploadHands, HeldExists
  <2>2. ASSUME NEW i \in Import, NEW state \in {"pending", "enqueued"},
               row[i] = Nothing, Save(i, state), held' \subseteq held \cup {i}
        PROVE  row' \in RowType /\ UploadHands' /\ HeldExists'
    <3>1. row \in RowType /\ state \in Open \cup Final /\ state # Nothing
      BY <1>0, DataImportsAssumption DEF ImportTypeOK, RowType, Open
    <3>2. /\ row' \in RowType
          /\ row'[i] = state
          /\ \A j \in Import \ {i} : row'[j] = row[j]
          /\ \A j \in Import : row[j] # Nothing => row'[j] # Nothing
      BY <2>2, <3>1, SaveKeeps
    <3>3. UploadHands'
      BY <1>0, <1>1, <2>2, <3>2 DEF UploadHands
    <3>4. HeldExists'
      BY <1>0, <1>1, <2>2, <3>1, <3>2 DEF HeldExists, ImportTypeOK
    <3> QED
      BY <3>2, <3>3, <3>4
  <2> QED
    BY <2>1, <2>2, RequestRows
<1>3. ImportTypeOK'
  BY <1>0, <1>1, <1>2 DEF ImportTypeOK, RowType
<1>4. RunHands' /\ CheckHands'
  BY <1>0, <1>1 DEF RunHands, CheckHands
<1>5. ReqHands'
  <2>1. /\ req[h] \in RequestType
        /\ \A g \in Web \ {h} : req'[g] = req[g]
        /\ stalled \subseteq stalled'
    BY <1>0
       DEF ImportTypeOK, RequestAction, RequestStep, Request, TakeSlot, CheckLimit, BadRequest,
           Refuse, EnqueueJob, EnqueueRaises, Create, CreateForSync, RequestDies, ReqGo, ReqDone
  <2>2. /\ req'[h].at \in {"idle", "count", "read", "create"} => req'[h].import = Nothing
        /\ req'[h].at \in {"enqueue", "sync"} => req'[h].import \in Import
        /\ req'[h].at = "refuse" => req'[h].import \in stalled' \cup {Nothing}
    <3>1. CASE ReqDone(h)
      BY <1>0, <3>1 DEF ReqDone, NoRequest, ImportTypeOK
    <3>2. CASE req' = req
      BY <1>0, <2>1, <3>2 DEF ReqHands
    <3>3. CASE \E at \in {"count", "read", "create", "refuse"} : ReqGo(h, at, Nothing)
      BY <1>0, <3>3 DEF ReqGo, ImportTypeOK
    <3>4. CASE \E i \in Import : ReqGo(h, "enqueue", i) \/ ReqGo(h, "sync", i)
      BY <1>0, <3>4 DEF ReqGo, ImportTypeOK
    <3>5. CASE ReqGo(h, "refuse", req[h].import) /\ stalled' = stalled \cup {req[h].import}
      BY <1>0, <3>5 DEF ReqGo, ImportTypeOK
    <3> QED
      BY <3>1, <3>2, <3>3, <3>4, <3>5
         DEF RequestAction, RequestStep, Request, TakeSlot, CheckLimit, BadRequest,
             Refuse, EnqueueJob, EnqueueRaises, Create, CreateForSync, RequestDies
  <2> QED
    BY <1>0, <2>1, <2>2 DEF ReqHands
<1> QED
  BY <1>2, <1>3, <1>4, <1>5 DEF Hands

-----------------------------------------------------------------------------
(* The workers.                                                            *)

RunAction(w) ==
  \/ Track(w) \/ RunStep(w) \/ WorkerDies(w)
  \/ \E i \in Import : TakeJob(w, i)

(* What a worker saves is the row it has in hand, and never as pending.    *)
LEMMA RunRows ==
  ASSUME Hands, NEW w \in Worker, RunAction(w)
  PROVE  /\ \/ row' = row
            \/ /\ run[w].at \in {"run", "success", "failure"}
               /\ run[w].import \in Import
               /\ \E state \in {"running"} \cup Final : Save(run[w].import, state)
         /\ held' \subseteq held
<1> USE DEF RunAction, RunStep, RunAt
<1>1. run[w].at # "idle" => run[w].import \in Import
  BY DEF Hands, RunHands
<1>2. CASE Track(w) \/ EarlyState(w) \/ SaveComplete(w) \/ SaveFailure(w)
  BY <1>1, <1>2 DEF Track, EarlyState, SaveComplete, SaveFailure, Final
<1>3. CASE ~(Track(w) \/ EarlyState(w) \/ SaveComplete(w) \/ SaveFailure(w))
  BY <1>3
     DEF TakeJob, Imported, NotImported, GiveBackSuccess, Notify, SuccessRaises, FailureNotSaved,
         Release, Retry, EndJob, WorkerDies, Decrement, GiveBack, GiveBackRaises
<1> QED
  BY <1>2, <1>3

(* A worker's own state: it is done, it goes on with the same import, or it*)
(* takes another.                                                          *)
RunStates == {"run", "success", "giveback", "notify", "failure", "release", "after"}

LEMMA RunNext ==
  ASSUME Hands, NEW w \in Worker, RunAction(w)
  PROVE  \/ run' = run
         \/ RunDone(w)
         \/ \E i \in Import, at \in RunStates, tries \in 0..MaxRetries - 1, error \in {"none", "raised"} :
              run' = [run EXCEPT ![w] = [at |-> at, import |-> i, tries |-> tries, error |-> error]]
<1> USE DEF RunAction, RunStep, RunAt
<1>0. /\ run[w] \in RunType
      /\ run[w].at # "idle" => run[w].import \in Import
      /\ MaxRetries \in Nat \ {0}
  BY DataImportsAssumption DEF Hands, ImportTypeOK, RunHands
<1>1. run[w].tries \in 0..MaxRetries - 1 /\ run[w].error \in {"none", "raised"}
  BY <1>0 DEF RunType
<1>2. CASE \E i \in Import : TakeJob(w, i)
  <2>1. PICK i \in Import : TakeJob(w, i)
    BY <1>2
  <2>2. run' = [run EXCEPT ![w] = [at |-> "run", import |-> i, tries |-> 0, error |-> "none"]]
    BY <2>1 DEF TakeJob
  <2>3. 0 \in 0..MaxRetries - 1 /\ "run" \in RunStates /\ "none" \in {"none", "raised"}
    BY <1>0 DEF RunStates
  <2> QED
    BY <2>2, <2>3
<1>3. CASE Track(w) \/ Notify(w) \/ EndJob(w) \/ WorkerDies(w)
  BY <1>3 DEF Track, Notify, EndJob, WorkerDies
<1>4. CASE Retry(w)
  <2>1. run[w].tries + 1 \in 0..MaxRetries - 1
    BY <1>0, <1>1, <1>4 DEF Retry
  <2> QED
    BY <1>0, <1>4, <2>1 DEF Retry, RunStates
<1>5. CASE \/ Imported(w) \/ NotImported(w) \/ EarlyState(w) \/ SaveComplete(w)
           \/ GiveBackSuccess(w) \/ SuccessRaises(w)
           \/ SaveFailure(w) \/ FailureNotSaved(w) \/ Release(w)
  <2>1. run[w].import \in Import
    BY <1>0, <1>5
       DEF Imported, NotImported, EarlyState, SaveComplete, GiveBackSuccess, SuccessRaises,
           SaveFailure, FailureNotSaved, Release
  <2>2. \/ \E at \in RunStates : RunGo(w, at)
        \/ \E error \in {"none", "raised"} : RunRaises(w, error)
    BY <1>5
       DEF Imported, NotImported, EarlyState, SaveComplete, GiveBackSuccess, SuccessRaises,
           SaveFailure, FailureNotSaved, Release, RunStates
  <2> QED
    BY <1>1, <2>1, <2>2 DEF RunGo, RunRaises, RunStates
<1> QED
  BY <1>2, <1>3, <1>4, <1>5

LEMMA RunKeepsHands ==
  ASSUME Hands, NEW w \in Worker, RunAction(w)
  PROVE  Hands'
<1>0. ImportTypeOK /\ ReqHands /\ RunHands /\ CheckHands /\ UploadHands /\ HeldExists
  BY DEF Hands
<1>1. run' \in [Worker -> RunType] /\ RunHands'
  <2>1. CASE run' = run
    BY <1>0, <2>1 DEF ImportTypeOK, RunHands
  <2>2. CASE RunDone(w)
    <3>1. NoRun \in RunType
      BY DataImportsAssumption DEF NoRun, RunType
    <3> QED
      BY <1>0, <2>2, <3>1 DEF RunDone, NoRun, ImportTypeOK, RunHands
  <2>3. ASSUME NEW i \in Import, NEW at \in RunStates, NEW tries \in 0..MaxRetries - 1,
               NEW error \in {"none", "raised"},
               run' = [run EXCEPT ![w] = [at |-> at, import |-> i, tries |-> tries, error |-> error]]
        PROVE  run' \in [Worker -> RunType] /\ RunHands'
    <3>1. [at |-> at, import |-> i, tries |-> tries, error |-> error] \in RunType
      BY DEF RunType, RunStates
    <3>2. at # "idle"
      BY DEF RunStates
    <3>3. run' \in [Worker -> RunType]
      BY <1>0, <2>3, <3>1 DEF ImportTypeOK
    <3>4. RunHands'
      BY <1>0, <2>3, <3>2 DEF ImportTypeOK, RunHands
    <3> QED
      BY <3>3, <3>4
  <2> QED
    BY <2>1, <2>2, <2>3, RunNext
<1>2. UNCHANGED <<req, check, upload>>
  BY DEF RunAction, RunStep, TakeJob, Track, Imported, NotImported, EarlyState, SaveComplete,
         GiveBackSuccess, Notify, SuccessRaises, SaveFailure, FailureNotSaved, Release, Retry,
         EndJob, WorkerDies
<1>3. /\ held' \subseteq held
      /\ row' \in RowType /\ UploadHands' /\ HeldExists'
  <2>1. held' \subseteq held
    BY RunRows
  <2>2. CASE row' = row
    BY <1>0, <1>2, <2>1, <2>2 DEF ImportTypeOK, RowType, UploadHands, HeldExists
  <2>3. CASE /\ run[w].import \in Import
             /\ \E state \in {"running"} \cup Final : Save(run[w].import, state)
    BY <1>0, <1>2, <2>1, <2>3, RowsElsewhere
  <2> QED
    BY <2>1, <2>2, <2>3, RunRows
<1>4. /\ jobs' \subseteq Import
      /\ stalled' \subseteq Import /\ stalled \subseteq stalled'
  <2>1. run[w].at # "idle" => run[w].import \in Import
    BY <1>0 DEF RunHands
  <2> QED
    BY <1>0, <2>1
       DEF RunAction, RunStep, TakeJob, Track, Imported, NotImported, EarlyState, SaveComplete,
           GiveBackSuccess, Notify, SuccessRaises, SaveFailure, FailureNotSaved, Release, Retry,
           EndJob, WorkerDies, ImportTypeOK, RunAt
<1>5. LimitTypeOK' /\ kept' \subseteq Import /\ faults' \in 0..MaxFaults
  <2>1. CASE GiveBackSuccess(w) \/ Release(w)
    BY <1>0, <2>1, DecrementKeeps DEF GiveBackSuccess, Release
  <2>2. CASE ~(GiveBackSuccess(w) \/ Release(w))
    BY <1>0, <2>2, DataImportsAssumption
       DEF RunAction, RunStep, TakeJob, Track, Imported, NotImported, EarlyState, SaveComplete,
           Notify, SuccessRaises, SaveFailure, FailureNotSaved, Retry,
           EndJob, WorkerDies, ImportTypeOK, LimitTypeOK, limitVars
  <2> QED
    BY <2>1, <2>2
<1>6. ImportTypeOK'
  BY <1>0, <1>1, <1>2, <1>3, <1>4, <1>5 DEF ImportTypeOK, RowType
<1>7. ReqHands' /\ CheckHands'
  BY <1>0, <1>2, <1>4 DEF ReqHands, CheckHands
<1> QED
  BY <1>1, <1>3, <1>6, <1>7 DEF Hands

-----------------------------------------------------------------------------
(* The polling requests.                                                   *)

CheckAction(c) ==
  \/ IndexStep(c) \/ ShowStep(c) \/ CheckDies(c)

(* A poll saves no row but as a failure, and returns the slot it has failed*)
(* before.                                                                 *)
LEMMA CheckRows ==
  ASSUME Hands, NEW c \in Checker, CheckAction(c)
  PROVE  /\ row' = row \/ \E i \in Import : row' = [row EXCEPT ![i] = "failure"]
         /\ held' \subseteq held
         /\ jobs' = jobs /\ UNCHANGED <<req, run, upload>>
<1>1. CASE \E i \in Import : FailStuck(c, i)
  <2>1. PICK i \in Import : FailStuck(c, i)
    BY <1>1
  <2> QED
    BY <2>1 DEF FailStuck, Save
<1>2. CASE ~\E i \in Import : FailStuck(c, i)
  BY <1>2
     DEF CheckAction, IndexStep, ShowStep, IndexWorkers, IndexRows, ShowRow, ShowWorkers,
         GiveBackStuck, CheckDies, Decrement, GiveBack, GiveBackRaises
<1> QED
  BY <1>1, <1>2

(* What a poll looks for is imports.                                       *)
LEMMA CheckNext ==
  ASSUME Hands, NEW c \in Checker, CheckAction(c)
  PROVE  \/ CheckDone(c)
         \/ \E at \in {"rows", "workers", "fail"}, ids \in SUBSET Import : CheckGo(c, at, ids, Nothing)
         \/ \E ids \in SUBSET Import, i \in Import : CheckGo(c, "decrease", ids, i)
<1>0. /\ check[c] \in CheckType
      /\ RunningIds \subseteq Import
  BY DEF Hands, ImportTypeOK, RunHands, RunningIds, RunAt
<1>1. check[c].ids \subseteq Import
  BY <1>0 DEF CheckType
<1>2. CASE IndexWorkers(c)
  BY <1>0, <1>2 DEF IndexWorkers
<1>3. CASE IndexRows(c)
  <2>1. PICK ids \in SUBSET {i \in Import \ check[c].ids : row[i] \in Open} :
          IF ids = {} THEN CheckDone(c) ELSE CheckGo(c, "fail", ids, Nothing)
    BY <1>3 DEF IndexRows
  <2>2. ids \in SUBSET Import
    BY <2>1
  <2> QED
    BY <2>1, <2>2
<1>4. CASE \E i \in Import : ShowRow(c, i)
  <2>1. PICK i \in Import : ShowRow(c, i)
    BY <1>4
  <2>2. CheckGo(c, "workers", {i}, Nothing) /\ {i} \in SUBSET Import
    BY <2>1 DEF ShowRow
  <2> QED
    BY <2>2
<1>5. CASE ShowWorkers(c) \/ GiveBackStuck(c) \/ CheckDies(c)
  BY <1>1, <1>5 DEF ShowWorkers, GiveBackStuck, CheckDies
<1>6. CASE \E i \in Import : FailStuck(c, i)
  <2>1. PICK i \in Import : FailStuck(c, i)
    BY <1>6
  <2>2. CheckGo(c, "decrease", check[c].ids \ {i}, i) /\ check[c].ids \ {i} \in SUBSET Import
    BY <1>1, <2>1 DEF FailStuck
  <2> QED
    BY <2>2
<1> QED
  BY <1>2, <1>3, <1>4, <1>5, <1>6 DEF CheckAction, IndexStep, ShowStep

LEMMA CheckKeepsHands ==
  ASSUME Hands, NEW c \in Checker, CheckAction(c)
  PROVE  Hands'
<1>0. ImportTypeOK /\ ReqHands /\ RunHands /\ CheckHands /\ UploadHands /\ HeldExists
  BY DEF Hands
<1>1. check' \in [Checker -> CheckType] /\ CheckHands'
  <2>1. CASE CheckDone(c)
    <3>1. NoCheck \in CheckType /\ NoCheck.at # "decrease" /\ NoCheck.stuck = Nothing
      BY DEF NoCheck, CheckType
    <3> QED
      BY <1>0, <2>1, <3>1 DEF CheckDone, ImportTypeOK, CheckHands
  <2>2. ASSUME NEW at \in {"rows", "workers", "fail"}, NEW ids \in SUBSET Import,
               CheckGo(c, at, ids, Nothing)
        PROVE  check' \in [Checker -> CheckType] /\ CheckHands'
    <3>1. [at |-> at, ids |-> ids, stuck |-> Nothing] \in CheckType /\ at # "decrease"
      BY DEF CheckType
    <3> QED
      BY <1>0, <2>2, <3>1 DEF CheckGo, ImportTypeOK, CheckHands
  <2>3. ASSUME NEW ids \in SUBSET Import, NEW i \in Import, CheckGo(c, "decrease", ids, i)
        PROVE  check' \in [Checker -> CheckType] /\ CheckHands'
    <3>1. [at |-> "decrease", ids |-> ids, stuck |-> i] \in CheckType
      BY DEF CheckType
    <3> QED
      BY <1>0, <2>3, <3>1 DEF CheckGo, ImportTypeOK, CheckHands
  <2> QED
    BY <2>1, <2>2, <2>3, CheckNext
<1>2. /\ UNCHANGED <<jobs, req, run, upload>>
      /\ held' \subseteq held
  BY CheckRows
<1>3. row' \in RowType /\ UploadHands' /\ HeldExists'
  <2>1. CASE row' = row
    BY <1>0, <1>2, <2>1 DEF ImportTypeOK, RowType, UploadHands, HeldExists
  <2>2. CASE \E i \in Import : row' = [row EXCEPT ![i] = "failure"]
    BY <1>0, <1>2, <2>2, RowsElsewhere DEF Save, Final
  <2> QED
    BY <2>1, <2>2, CheckRows
<1>4. stalled' \subseteq Import /\ stalled \subseteq stalled'
  BY <1>0
     DEF CheckAction, IndexStep, ShowStep, IndexWorkers, IndexRows, ShowRow, ShowWorkers,
         FailStuck, GiveBackStuck, CheckDies, ImportTypeOK
<1>5. LimitTypeOK' /\ kept' \subseteq Import /\ faults' \in 0..MaxFaults
  <2>1. CASE GiveBackStuck(c)
    BY <1>0, <2>1, DecrementKeeps DEF GiveBackStuck
  <2>2. CASE CheckDies(c)
    BY <1>0, <2>2, DataImportsAssumption DEF CheckDies, ImportTypeOK, LimitTypeOK, limitVars
  <2>3. CASE ~(GiveBackStuck(c) \/ CheckDies(c))
    <3>1. UNCHANGED <<slots, push, kept, faults>>
      BY <2>3
         DEF CheckAction, IndexStep, ShowStep, IndexWorkers, IndexRows, ShowRow, ShowWorkers,
             FailStuck, limitVars
    <3> QED
      BY <1>0, <3>1 DEF ImportTypeOK, LimitTypeOK
  <2> QED
    BY <2>1, <2>2, <2>3
<1>6. ImportTypeOK'
  BY <1>0, <1>1, <1>2, <1>3, <1>4, <1>5 DEF ImportTypeOK, RowType
<1>7. ReqHands' /\ RunHands'
  BY <1>0, <1>2, <1>4 DEF ReqHands, RunHands
<1> QED
  BY <1>1, <1>3, <1>6, <1>7 DEF Hands

-----------------------------------------------------------------------------
(* The upload task.                                                        *)

UploadAction == UploadStep \/ UploadDies \/ \E i \in Import : UploadFetch(i)

LEMMA UploadKeepsHands ==
  ASSUME Hands, UploadAction
  PROVE  Hands'
<1>0. ImportTypeOK /\ ReqHands /\ RunHands /\ CheckHands /\ UploadHands /\ HeldExists
  BY DEF Hands
<1>1. /\ UNCHANGED <<req, run, check, held, slots, push>>
      /\ stalled \subseteq stalled' /\ stalled' \subseteq Import /\ kept' \subseteq Import
      /\ jobs' \subseteq Import
      /\ faults' \in 0..MaxFaults
  BY <1>0, DataImportsAssumption
     DEF UploadAction, UploadStep, UploadFetch, UploadMark, UploadStore, UploadEnqueue, UploadFails,
         UploadDies, UploadHands, ImportTypeOK, Enqueue, limitVars
<1>2. row' \in RowType /\ (\A j \in Import : row[j] # Nothing => row'[j] # Nothing)
  <2>1. CASE UploadMark \/ UploadStore \/ UploadFails
    <3>1. /\ upload.import \in Import
          /\ \E state \in {"pending", "failure"} : Save(upload.import, state)
      BY <1>0, <2>1 DEF UploadMark, UploadStore, UploadFails, UploadHands
    <3>2. row \in RowType /\ {"pending", "failure"} \subseteq Open \cup Final
      BY <1>0 DEF ImportTypeOK, RowType, Open, Final
    <3> QED
      BY <3>1, <3>2, SaveKeeps
  <2>2. CASE row' = row
    BY <1>0, <2>2 DEF ImportTypeOK, RowType
  <2> QED
    BY <2>1, <2>2 DEF UploadAction, UploadStep, UploadFetch, UploadEnqueue, UploadDies
<1>3. upload' \in UploadType /\ UploadHands'
  <2>0. /\ Nothing # "enqueued"
        /\ NoUpload \in UploadType /\ NoUpload.at = "idle" /\ NoUpload.import = Nothing
    BY DataImportsAssumption DEF Open, NoUpload, UploadType
  <2>1. CASE UploadEnqueue \/ UploadFails \/ UploadDies
    BY <2>0, <2>1 DEF UploadEnqueue, UploadFails, UploadDies, UploadHands
  <2>2. CASE UploadMark \/ UploadStore
    BY <1>0, <2>2 DEF UploadMark, UploadStore, UploadGo, UploadHands, UploadType, ImportTypeOK
  <2>3. CASE \E i \in Import : UploadFetch(i)
    <3>1. PICK i \in Import : UploadFetch(i)
      BY <2>3
    <3> QED
      BY <2>0, <3>1 DEF UploadFetch, UploadHands, UploadType
  <2> QED
    BY <2>1, <2>2, <2>3 DEF UploadAction, UploadStep
<1>4. ImportTypeOK'
  BY <1>0, <1>1, <1>2, <1>3 DEF ImportTypeOK, RowType, LimitTypeOK
<1>5. ReqHands' /\ RunHands' /\ CheckHands' /\ HeldExists'
  BY <1>0, <1>1, <1>2 DEF ReqHands, RunHands, CheckHands, HeldExists, ImportTypeOK
<1> QED
  BY <1>3, <1>4, <1>5 DEF Hands

LEMMA ExpireKeepsHands == Hands /\ SlotsExpire => Hands'
BY DEF Hands, SlotsExpire, KeyExpires, ImportTypeOK, LimitTypeOK, ReqHands, RunHands, CheckHands,
       UploadHands, HeldExists

LEMMA StutterKeepsHands == Hands /\ UNCHANGED importVars => Hands'
BY DEF Hands, importVars, ImportTypeOK, LimitTypeOK, ReqHands, RunHands, CheckHands, UploadHands,
       HeldExists

-----------------------------------------------------------------------------

(* Whose step it is.                                                       *)
LEMMA Steps ==
  ASSUME [ImportNext]_importVars
  PROVE  \/ \E h \in Web : RequestAction(h)
         \/ \E w \in Worker : RunAction(w)
         \/ \E c \in Checker : CheckAction(c)
         \/ UploadAction \/ SlotsExpire \/ UNCHANGED importVars
BY DEF ImportNext, ShowNext, PlainNext, RequestAction, RunAction, CheckAction, UploadAction

LEMMA HandsInvariant == ImportSpec => []Hands
<1>1. Hands /\ [ImportNext]_importVars => Hands'
  BY Steps, RequestKeepsHands, RunKeepsHands, CheckKeepsHands, UploadKeepsHands, ExpireKeepsHands,
     StutterKeepsHands
<1> QED
  BY <1>1, HandsInit, PTL DEF ImportSpec

(* Every row, request, job, poll and slot has one of the states that the   *)
(* code gives it, whatever the processes do and whichever die.             *)
THEOREM ImportTypeCorrect == ImportSpec => []ImportTypeOK
<1>1. Hands => ImportTypeOK
  BY DEF Hands
<1> QED
  BY <1>1, HandsInvariant, PTL

-----------------------------------------------------------------------------
(* What is over has given its slot back.                                   *)

(* A worker that owes a slot goes on owing it, returns it, or leaves its   *)
(* import behind.                                                          *)
LEMMA RunOwes ==
  ASSUME Hands, NEW w \in Worker, RunAction(w), run[w].at \notin {"idle", "notify", "after"}
  PROVE  \/ run'[w].import = run[w].import /\ run'[w].at \notin {"notify", "after"}
         \/ run[w].import \notin held' \ (stalled' \cup kept')
<1> USE DEF Hands, ImportTypeOK
<1>1. CASE Track(w)
  BY <1>1 DEF Track
<1>2. CASE GiveBackSuccess(w) \/ Release(w)
  BY <1>2, DecrementKeeps DEF GiveBackSuccess, Release
<1>3. CASE FailureNotSaved(w) \/ WorkerDies(w)
  BY <1>3 DEF FailureNotSaved, WorkerDies
<1>4. CASE Imported(w) \/ SaveComplete(w) \/ SaveFailure(w)
  BY <1>4 DEF Imported, SaveComplete, SaveFailure, RunGo
<1>5. CASE NotImported(w) \/ SuccessRaises(w)
  BY <1>5 DEF NotImported, SuccessRaises, RunRaises
<1>6. CASE EarlyState(w)
  BY <1>6 DEF EarlyState, RunGo, RunRaises
<1> QED
  BY <1>1, <1>2, <1>3, <1>4, <1>5, <1>6
     DEF RunAction, RunStep, TakeJob, Notify, Retry, EndJob, RunAt

(* A poll that has failed an import returns its slot or leaves it behind,  *)
(* and a poll that fails one is about to.                                  *)
LEMMA CheckOwes ==
  ASSUME Hands, NEW c \in Checker, CheckAction(c)
  PROVE  /\ check[c].stuck \notin held' \ (stalled' \cup kept')
         /\ \A d \in Checker \ {c} : check'[d] = check[d]
         /\ \A i \in Import : row'[i] = row[i] \/ check'[c].stuck = i
<1> USE DEF Hands, ImportTypeOK
<1>0. Nothing \notin Import
  BY DataImportsAssumption
<1>1. \A d \in Checker \ {c} : check'[d] = check[d]
  BY CheckNext DEF CheckDone, CheckGo
<1>2. check[c].stuck \notin held' \ (stalled' \cup kept')
  <2>1. CASE check[c].at = "decrease"
    <3>1. GiveBackStuck(c) \/ CheckDies(c)
      BY <2>1
         DEF CheckAction, IndexStep, ShowStep, IndexWorkers, IndexRows, ShowRow, ShowWorkers,
             FailStuck, CheckAt
    <3> QED
      BY <2>1, <3>1, DecrementKeeps DEF GiveBackStuck, CheckDies, CheckHands
  <2>2. CASE check[c].at # "decrease"
    BY <1>0, <2>2, CheckKeepsHands DEF CheckHands
  <2> QED
    BY <2>1, <2>2
<1>3. \A i \in Import : row'[i] = row[i] \/ check'[c].stuck = i
  <2>1. CASE \E i \in Import : FailStuck(c, i)
    <3>1. PICK i \in Import : FailStuck(c, i)
      BY <2>1
    <3> QED
      BY <3>1 DEF FailStuck, Save, CheckGo
  <2>2. CASE ~\E i \in Import : FailStuck(c, i)
    BY <2>2
       DEF CheckAction, IndexStep, ShowStep, IndexWorkers, IndexRows, ShowRow, ShowWorkers,
           GiveBackStuck, CheckDies
  <2> QED
    BY <2>1, <2>2
<1> QED
  BY <1>1, <1>2, <1>3

LEMMA OverIsReturnedStep ==
  ASSUME Hands, OverIsReturned, [ImportNext]_importVars
  PROVE  OverIsReturned'
<1>0. ImportTypeOK /\ ReqHands /\ RunHands /\ CheckHands /\ UploadHands /\ HeldExists
  BY DEF Hands
<1>1. ASSUME NEW h \in Web, RequestAction(h)
      PROVE  OverIsReturned'
  <2>1. UNCHANGED <<run, check>> /\ stalled \subseteq stalled' /\ kept \subseteq kept'
    BY <1>1, RequestTypes
  <2>2. CASE row' = row /\ held' \subseteq held
    BY <2>1, <2>2 DEF OverIsReturned, Owing
  <2>3. ASSUME NEW i \in Import, NEW state \in {"pending", "enqueued"},
               Save(i, state), held' \subseteq held \cup {i}
        PROVE  OverIsReturned'
    <3>1. row'[i] \in Open /\ \A j \in Import \ {i} : row'[j] = row[j]
      BY <1>0, <2>3 DEF Save, ImportTypeOK, Open
    <3> QED
      BY <1>0, <2>1, <2>3, <3>1 DEF OverIsReturned, Owing, ImportTypeOK
  <2> QED
    BY <1>1, <2>2, <2>3, RequestRows
<1>2. ASSUME NEW w \in Worker, RunAction(w)
      PROVE  OverIsReturned'
  <2>1. check' = check /\ stalled \subseteq stalled' /\ kept \subseteq kept'
    BY <1>2
       DEF RunAction, RunStep, TakeJob, Track, Imported, NotImported, EarlyState, SaveComplete,
           GiveBackSuccess, Notify, SuccessRaises, SaveFailure, FailureNotSaved, Release, Retry,
           EndJob, WorkerDies, Decrement, GiveBack, GiveBackRaises
  <2>2. held' \subseteq held /\ \A v \in Worker \ {w} : run'[v] = run[v]
    BY <1>0, <1>2, RunRows, RunNext DEF RunDone, ImportTypeOK
  <2> SUFFICES ASSUME NEW i \in held' \ (stalled' \cup kept'), ~\E c \in Checker : check[c].stuck = i
               PROVE  row'[i] \in Open \/ Owing(i)'
    BY <2>1 DEF OverIsReturned
  <2>3. i \in held \ (stalled \cup kept) /\ i \in Import
    BY <1>0, <2>1, <2>2 DEF ImportTypeOK
  <2>4. (row[i] \in Open /\ row'[i] = row[i]) \/ Owing(i)
    <3>1. CASE row' = row
      BY <2>3, <3>1 DEF OverIsReturned
    <3>2. CASE run[w].at \in {"run", "success", "failure"} /\ run[w].import = i
      BY <3>2 DEF Owing
    <3>3. CASE \E state \in {"running"} \cup Final : Save(run[w].import, state) /\ run[w].import # i
      BY <1>0, <2>3, <3>3 DEF OverIsReturned, Save, ImportTypeOK
    <3> QED
      BY <1>2, <3>1, <3>2, <3>3, RunRows
  <2>5. CASE Owing(i)
    <3>1. PICK v \in Worker : run[v].import = i /\ run[v].at \notin {"notify", "after"}
      BY <2>5 DEF Owing
    <3>2. CASE v # w
      BY <2>2, <3>1, <3>2 DEF Owing
    <3>3. CASE v = w
      <4>1. run[w].at # "idle"
        BY <1>0, <2>3, <3>1, <3>3, DataImportsAssumption DEF RunHands
      <4> QED
        BY <1>2, <3>1, <3>3, <4>1, RunOwes DEF Owing
    <3> QED
      BY <3>2, <3>3
  <2> QED
    BY <2>4, <2>5
<1>3. ASSUME NEW c \in Checker, CheckAction(c)
      PROVE  OverIsReturned'
  <2>1. run' = run /\ held' \subseteq held
    BY <1>3, CheckRows
  <2>2. stalled \subseteq stalled' /\ kept \subseteq kept'
    BY <1>3
       DEF CheckAction, IndexStep, ShowStep, IndexWorkers, IndexRows, ShowRow, ShowWorkers,
           FailStuck, GiveBackStuck, CheckDies, Decrement, GiveBack, GiveBackRaises
  <2> QED
    BY <1>0, <1>3, <2>1, <2>2, CheckOwes DEF OverIsReturned, Owing, ImportTypeOK
<1>4. ASSUME UploadAction
      PROVE  OverIsReturned'
  <2>1. UNCHANGED <<run, check, held>> /\ stalled \subseteq stalled' /\ kept \subseteq kept'
    BY <1>4
       DEF UploadAction, UploadStep, UploadFetch, UploadMark, UploadStore, UploadEnqueue,
           UploadFails, UploadDies
  <2>2. \A i \in Import : row'[i] = row[i] \/ row'[i] \in Open \/ i \in kept'
    BY <1>0, <1>4
       DEF UploadAction, UploadStep, UploadFetch, UploadMark, UploadStore, UploadEnqueue,
           UploadFails, UploadDies, Save, ImportTypeOK, Open
  <2> QED
    BY <1>0, <2>1, <2>2 DEF OverIsReturned, Owing, ImportTypeOK
<1>5. CASE SlotsExpire \/ UNCHANGED importVars
  BY <1>5 DEF SlotsExpire, importVars, OverIsReturned, Owing
<1> QED
  BY <1>1, <1>2, <1>3, <1>4, <1>5, Steps

(* An import that is over keeps no slot: whoever ends it, the worker or a  *)
(* poll that takes it for stuck, gives the slot back in the steps that     *)
(* follow. The exceptions are those of the code: a process died or could   *)
(* not save the failure, Redis did not take the slot, the upload failed.   *)
THEOREM OverIsReturnedAlways == ImportSpec => []OverIsReturned
<1>1. ImportInit => OverIsReturned
  BY DEF ImportInit, OverIsReturned
<1>2. Hands /\ OverIsReturned /\ [ImportNext]_importVars => OverIsReturned'
  BY OverIsReturnedStep
<1> QED
  BY <1>1, <1>2, HandsInvariant, PTL DEF ImportSpec

-----------------------------------------------------------------------------
(* What is pending is carried.                                             *)

(* The import that a request has in hand gets its job or is left behind.   *)
LEMMA RequestCarries ==
  ASSUME Hands, NEW h \in Web, RequestAction(h)
  PROVE  /\ req[h].import \in Import => req[h].import \in jobs' \cup stalled'
         /\ \A g \in Web \ {h} : req'[g] = req[g]
         /\ jobs \subseteq jobs' /\ stalled \subseteq stalled'
         /\ \A i \in Import : row'[i] = row[i] \/ row'[i] # "pending" \/ req'[h].import = i
<1> USE DEF Hands, ImportTypeOK, RequestAction, RequestStep, ReqAt
<1>0. Nothing \notin Import
  BY DataImportsAssumption
<1>1. CASE Request(h) \/ TakeSlot(h) \/ CheckLimit(h) \/ BadRequest(h)
  BY <1>0, <1>1 DEF Request, TakeSlot, CheckLimit, BadRequest, ReqGo, ReqHands
<1>2. CASE EnqueueJob(h) \/ EnqueueRaises(h)
  BY <1>0, <1>2 DEF EnqueueJob, EnqueueRaises, ReqGo, ReqDone, Enqueue
<1>3. CASE Refuse(h) \/ RequestDies(h)
  BY <1>0, <1>3 DEF Refuse, RequestDies, ReqDone, ReqHands
<1>4. CASE \E i \in Import : Create(h, i)
  <2>1. PICK i \in Import : Create(h, i)
    BY <1>4
  <2>2. req[h].import = Nothing /\ jobs' = jobs /\ stalled' = stalled
    BY <2>1 DEF Create, ReqHands
  <2>3. CASE Save(i, "pending") /\ ReqGo(h, "enqueue", i)
    BY <1>0, <2>2, <2>3 DEF Save, ReqGo
  <2>4. CASE Save(i, "enqueued") /\ ReqDone(h)
    BY <1>0, <2>2, <2>4 DEF Save, ReqDone
  <2> QED
    BY <2>1, <2>3, <2>4 DEF Create
<1>5. CASE \E i \in Import : CreateForSync(h, i)
  BY <1>0, <1>5 DEF CreateForSync, Save, ReqGo, ReqHands
<1> QED
  BY <1>1, <1>2, <1>3, <1>4, <1>5

(* The worker that will save an import goes on to do so, unless it leaves  *)
(* it behind or has saved something else than that it is pending.          *)
LEMMA RunCarries ==
  ASSUME Hands, NEW w \in Worker, RunAction(w)
  PROVE  /\ \A i \in jobs \ jobs' : run'[w].import = i /\ run'[w].at = "run"
         /\ run[w].at \in {"run", "success", "failure"} =>
              \/ run'[w].import = run[w].import /\ run'[w].at \in {"run", "success", "failure"}
              \/ run[w].import \in stalled'
              \/ row'[run[w].import] # "pending"
<1> USE DEF Hands, ImportTypeOK, RunAt
<1>0. /\ run[w].at # "idle" => run[w].import \in Import
      /\ "pending" \notin Final
  BY DEF RunHands, Final
<1>1. CASE Track(w)
  BY <1>1 DEF Track
<1>2. CASE GiveBackSuccess(w) \/ Release(w) \/ Notify(w) \/ EndJob(w) \/ Retry(w)
  BY <1>2 DEF GiveBackSuccess, Release, Notify, EndJob, Retry
<1>3. CASE FailureNotSaved(w) \/ WorkerDies(w)
  BY <1>3 DEF FailureNotSaved, WorkerDies
<1>4. CASE SaveComplete(w) \/ SaveFailure(w)
  BY <1>0, <1>4 DEF SaveComplete, SaveFailure, Save
<1>5. CASE Imported(w) \/ NotImported(w) \/ SuccessRaises(w)
  BY <1>5 DEF Imported, NotImported, SuccessRaises, RunRaises, RunGo
<1>6. CASE EarlyState(w)
  BY <1>6 DEF EarlyState, RunGo, RunRaises
<1>7. CASE \E i \in Import : TakeJob(w, i)
  BY <1>7 DEF TakeJob
<1> QED
  BY <1>1, <1>2, <1>3, <1>4, <1>5, <1>6, <1>7 DEF RunAction, RunStep

LEMMA PendingIsCarriedStep ==
  ASSUME Hands, PendingIsCarried, [ImportNext]_importVars
  PROVE  PendingIsCarried'
<1>0. ImportTypeOK /\ ReqHands /\ RunHands /\ CheckHands /\ UploadHands /\ HeldExists
  BY DEF Hands
<1> USE DEF PendingIsCarried, Saving, Creating, Uploading
<1>1. ASSUME NEW h \in Web, RequestAction(h)
      PROVE  PendingIsCarried'
  <2>1. UNCHANGED <<run, upload>>
    BY <1>1, RequestTypes
  <2> QED
    BY <1>1, <2>1, RequestCarries
<1>2. ASSUME NEW w \in Worker, RunAction(w)
      PROVE  PendingIsCarried'
  <2>1. UNCHANGED <<req, upload>> /\ stalled \subseteq stalled'
    BY <1>2
       DEF RunAction, RunStep, TakeJob, Track, Imported, NotImported, EarlyState, SaveComplete,
           GiveBackSuccess, Notify, SuccessRaises, SaveFailure, FailureNotSaved, Release, Retry,
           EndJob, WorkerDies
  <2>2. \A v \in Worker \ {w} : run'[v] = run[v]
    BY <1>0, <1>2, RunNext DEF RunDone, ImportTypeOK
  <2> SUFFICES ASSUME NEW i \in Import \ stalled', row'[i] = "pending"
               PROVE  i \in jobs' \/ Saving(i)' \/ Creating(i)' \/ Uploading(i)'
    OBVIOUS
  <2>3. row[i] = "pending"
    BY <1>0, <1>2, RunRows DEF Save, Final, ImportTypeOK
  <2>4. CASE i \in jobs
    BY <1>2, <2>4, RunCarries
  <2>5. CASE Saving(i)
    BY <1>2, <2>2, <2>5, RunCarries
  <2> QED
    BY <2>1, <2>3, <2>4, <2>5
<1>3. ASSUME NEW c \in Checker, CheckAction(c)
      PROVE  PendingIsCarried'
  <2>1. UNCHANGED <<jobs, req, run, upload>>
    BY <1>3, CheckRows
  <2>2. stalled \subseteq stalled'
    BY <1>3
       DEF CheckAction, IndexStep, ShowStep, IndexWorkers, IndexRows, ShowRow, ShowWorkers,
           FailStuck, GiveBackStuck, CheckDies
  <2>3. \A i \in Import : row'[i] = row[i] \/ row'[i] # "pending"
    BY <1>0, <1>3, CheckRows DEF ImportTypeOK
  <2> QED
    BY <2>1, <2>2, <2>3
<1>4. ASSUME UploadAction
      PROVE  PendingIsCarried'
  <2>0. /\ UNCHANGED <<req, run>>
        /\ stalled \subseteq stalled' /\ jobs \subseteq jobs'
    BY <1>4
       DEF UploadAction, UploadStep, UploadFetch, UploadMark, UploadStore, UploadEnqueue,
           UploadFails, UploadDies, Enqueue
  <2>1. CASE UploadMark \/ UploadStore
    BY <1>0, <2>0, <2>1 DEF UploadMark, UploadStore, UploadGo, Save, UploadHands, ImportTypeOK
  <2>2. CASE \E i \in Import : UploadFetch(i)
    <3>1. upload.import \notin Import /\ row' = row
      BY <1>0, <2>2, DataImportsAssumption DEF UploadFetch, UploadHands
    <3> QED
      BY <2>0, <3>1
  <2>3. CASE UploadEnqueue
    BY <2>0, <2>3 DEF UploadEnqueue, Enqueue
  <2>4. CASE UploadFails
    BY <1>0, <2>0, <2>4 DEF UploadFails, Save, UploadHands, ImportTypeOK
  <2>5. CASE UploadDies
    <3>1. row' = row /\ (upload.import \in stalled' \/ row[upload.import] # "pending")
      BY <1>0, <2>5 DEF UploadDies, UploadHands
    <3> QED
      BY <2>0, <3>1
  <2> QED
    BY <1>4, <2>1, <2>2, <2>3, <2>4, <2>5 DEF UploadAction, UploadStep
<1>5. CASE SlotsExpire \/ UNCHANGED importVars
  BY <1>5 DEF SlotsExpire, importVars
<1> QED
  BY <1>1, <1>2, <1>3, <1>4, <1>5, Steps

(* A pending import is never forgotten while nobody dies or raises: its job*)
(* is in the queue, or the request, the upload task or the worker that has *)
(* it in hand is still there.                                              *)
THEOREM PendingIsCarriedAlways == ImportSpec => []PendingIsCarried
<1>1. ImportInit => PendingIsCarried
  BY DataImportsAssumption DEF ImportInit, PendingIsCarried, Open
<1>2. Hands /\ PendingIsCarried /\ [ImportNext]_importVars => PendingIsCarried'
  BY PendingIsCarriedStep
<1> QED
  BY <1>1, <1>2, HandsInvariant, PTL DEF ImportSpec

-----------------------------------------------------------------------------
(* What is settled stays.                                                  *)

LEMMA SettledStaysStep ==
  ASSUME Hands, [ImportNext]_importVars, NEW i \in Import, Settled(i)
  PROVE  Settled(i)' /\ row'[i] = row[i]
<1>0. ImportTypeOK /\ ReqHands /\ RunHands /\ CheckHands /\ UploadHands /\ HeldExists
  BY DEF Hands
<1>s. /\ row[i] \in Final /\ i \notin jobs
      /\ \A w \in Worker : run[w].import # i
      /\ \A h \in Web : req[h].import # i
      /\ \A c \in Checker : check[c].at = "rows" \/ i \notin check[c].ids \cup {check[c].stuck}
      /\ upload.import # i
  BY DEF Settled, Running, Creating, Judging, Uploading
<1>n. i # Nothing /\ row[i] \notin Open \cup {Nothing}
  BY <1>s, DataImportsAssumption DEF Open, Final
<1> SUFFICES /\ row'[i] = row[i] /\ i \notin jobs'
             /\ \A w \in Worker : run'[w].import # i
             /\ \A h \in Web : req'[h].import # i
             /\ \A c \in Checker : check'[c].at = "rows" \/ i \notin check'[c].ids \cup {check'[c].stuck}
             /\ upload'.import # i
  BY <1>s DEF Settled, Running, Creating, Judging, Uploading
<1>1. ASSUME NEW h \in Web, RequestAction(h)
      PROVE  /\ row'[i] = row[i] /\ i \notin jobs'
             /\ \A g \in Web : req'[g].import # i
             /\ UNCHANGED <<run, check, upload>>
  <2>1. row'[i] = row[i]
    BY <1>0, <1>1, <1>n, RequestRows DEF Save, ImportTypeOK
  <2>2. i \notin jobs'
    BY <1>s, <1>1
       DEF RequestAction, RequestStep, Request, TakeSlot, CheckLimit, BadRequest, Refuse,
           EnqueueJob, EnqueueRaises, Create, CreateForSync, RequestDies, Enqueue
  <2>3. req'[h].import # i
    <3> USE <1>0, <1>s, <1>n DEF ReqDone, ReqGo, NoRequest, ImportTypeOK
    <3>1. CASE \E j \in Import : Create(h, j) \/ CreateForSync(h, j)
      BY <3>1 DEF Create, CreateForSync
    <3>2. CASE Request(h) \/ TakeSlot(h) \/ CheckLimit(h) \/ BadRequest(h)
      BY <3>2 DEF Request, TakeSlot, CheckLimit, BadRequest
    <3>3. CASE Refuse(h) \/ EnqueueJob(h) \/ EnqueueRaises(h) \/ RequestDies(h)
      BY <3>3 DEF Refuse, EnqueueJob, EnqueueRaises, RequestDies
    <3> QED
      BY <1>1, <3>1, <3>2, <3>3 DEF RequestAction, RequestStep
  <2>4. \A g \in Web \ {h} : req'[g] = req[g]
    BY <1>1, RequestCarries
  <2> QED
    BY <1>s, <1>1, <2>1, <2>2, <2>3, <2>4, RequestTypes
<1>2. ASSUME NEW w \in Worker, RunAction(w)
      PROVE  /\ row'[i] = row[i] /\ i \notin jobs'
             /\ \A v \in Worker : run'[v].import # i
             /\ UNCHANGED <<req, check, upload>>
  <2>1. row'[i] = row[i]
    BY <1>0, <1>s, <1>2, RunRows DEF Save, ImportTypeOK
  <2>2. i \notin jobs' /\ UNCHANGED <<req, check, upload>>
    BY <1>s, <1>2
       DEF RunAction, RunStep, TakeJob, Track, Imported, NotImported, EarlyState, SaveComplete,
           GiveBackSuccess, Notify, SuccessRaises, SaveFailure, FailureNotSaved, Release, Retry,
           EndJob, WorkerDies
  <2>3. run'[w].import # i
    <3>1. CASE \E j \in Import : TakeJob(w, j)
      BY <1>0, <1>s, <3>1 DEF TakeJob, ImportTypeOK
    <3>2. CASE Track(w) \/ Notify(w) \/ EndJob(w) \/ WorkerDies(w) \/ Retry(w)
      BY <1>0, <1>s, <1>n, <3>2
         DEF Track, Notify, EndJob, WorkerDies, Retry, RunDone, NoRun, ImportTypeOK
    <3>3. CASE (\E at \in RunStates : RunGo(w, at)) \/ \E e \in {"none", "raised"} : RunRaises(w, e)
      BY <1>0, <1>s, <3>3 DEF RunGo, RunRaises, ImportTypeOK
    <3> QED
      BY <1>2, <3>1, <3>2, <3>3
         DEF RunAction, RunStep, Imported, NotImported, EarlyState, SaveComplete,
             GiveBackSuccess, SuccessRaises, SaveFailure, FailureNotSaved, Release, RunStates
  <2>4. \A v \in Worker \ {w} : run'[v] = run[v]
    BY <1>0, <1>2, RunNext DEF RunDone, ImportTypeOK
  <2> QED
    BY <1>s, <2>1, <2>2, <2>3, <2>4
<1>3. ASSUME NEW c \in Checker, CheckAction(c)
      PROVE  /\ row'[i] = row[i]
             /\ \A d \in Checker : check'[d].at = "rows" \/ i \notin check'[d].ids \cup {check'[d].stuck}
             /\ UNCHANGED <<jobs, req, run, upload>>
  <2>1. \A d \in Checker \ {c} : check'[d] = check[d]
    BY <1>3, CheckOwes
  <2>2. /\ row'[i] = row[i]
        /\ check'[c].at = "rows" \/ i \notin check'[c].ids \cup {check'[c].stuck}
    <3> USE <1>0, <1>s, <1>n DEF CheckAt, CheckGo, CheckDone, NoCheck, ImportTypeOK
    <3>1. CASE IndexWorkers(c)
      BY <3>1 DEF IndexWorkers
    <3>2. CASE IndexRows(c)
      <4>1. PICK ids \in SUBSET {j \in Import \ check[c].ids : row[j] \in Open} :
              IF ids = {} THEN CheckDone(c) ELSE CheckGo(c, "fail", ids, Nothing)
        BY <3>2 DEF IndexRows
      <4>2. i \notin ids /\ row' = row
        BY <3>2 DEF IndexRows
      <4> QED
        BY <4>1, <4>2
    <3>3. CASE \E j \in Import : ShowRow(c, j)
      <4>1. PICK j \in Import : ShowRow(c, j)
        BY <3>3
      <4> QED
        BY <4>1 DEF ShowRow, Open
    <3>4. CASE ShowWorkers(c) \/ GiveBackStuck(c) \/ CheckDies(c)
      BY <3>4 DEF ShowWorkers, GiveBackStuck, CheckDies
    <3>5. CASE \E j \in Import : FailStuck(c, j)
      <4>1. PICK j \in Import : FailStuck(c, j)
        BY <3>5
      <4> QED
        BY <4>1 DEF FailStuck, Save
    <3> QED
      BY <1>3, <3>1, <3>2, <3>3, <3>4, <3>5 DEF CheckAction, IndexStep, ShowStep
  <2> QED
    BY <1>s, <1>3, <2>1, <2>2, CheckRows
<1>4. ASSUME UploadAction
      PROVE  /\ row'[i] = row[i] /\ i \notin jobs' /\ upload'.import # i
             /\ UNCHANGED <<req, run, check>>
  <2>1. CASE \E j \in Import : UploadFetch(j)
    <3>1. PICK j \in Import : UploadFetch(j)
      BY <2>1
    <3> QED
      BY <1>s, <1>n, <3>1 DEF UploadFetch, Open
  <2>2. CASE UploadStep \/ UploadDies
    BY <1>0, <1>s, <1>n, <2>2
       DEF UploadStep, UploadMark, UploadStore, UploadEnqueue, UploadFails, UploadDies, UploadGo, NoUpload,
           Save, Enqueue, ImportTypeOK
  <2> QED
    BY <1>4, <2>1, <2>2 DEF UploadAction
<1>5. CASE SlotsExpire \/ UNCHANGED importVars
  BY <1>s, <1>5 DEF SlotsExpire, importVars
<1> QED
  BY <1>s, <1>1, <1>2, <1>3, <1>4, <1>5, Steps

(* A process that writes a whole row back wrote it before anybody could see*)
(* the import as settled: with no job and no process left that has it in   *)
(* hand, what its owner reads is what it will always be.                   *)
THEOREM SettledStaysAlways == ImportSpec => SettledStays
<1>1. Hands /\ [ImportNext]_importVars
        => [\A i \in Import : Settled(i) => Settled(i)' /\ row'[i] = row[i]]_importVars
  BY SettledStaysStep
<1> QED
  BY <1>1, HandsInvariant, PTL DEF ImportSpec, SettledStays

-----------------------------------------------------------------------------
(* What the list counts.                                                   *)

LEMMA Counts ==
  ASSUME Hands
  PROVE  /\ IsFiniteSet(Unsettled) /\ IsFiniteSet(held) /\ Nothing \notin held
         /\ Cardinality(Unsettled) \in Nat /\ Cardinality(held) \in Nat
         /\ faults \in Nat /\ slots \in Nat
<1>1. held \subseteq Import /\ faults \in 0..MaxFaults /\ slots \in Nat
  BY DEF Hands, ImportTypeOK, LimitTypeOK
<1>2. Unsettled \in SUBSET Web
  BY DEF Unsettled
<1>3. IsFiniteSet(Unsettled) /\ IsFiniteSet(held)
  BY <1>1, <1>2, FS_Subset, ImportLimitAssumption, DataImportsAssumption
<1>4. Cardinality(Unsettled) \in Nat /\ Cardinality(held) \in Nat
  BY <1>3, FS_CardinalityType
<1> QED
  BY <1>1, <1>3, <1>4, DataImportsAssumption

(* A slot that is given back for an import, or should have been, leaves as *)
(* much to count.                                                          *)
LEMMA GiveBackCounts ==
  ASSUME Hands, SlotsAccounted, NEW i \in Import, Decrement(i), Unsettled' = Unsettled
  PROVE  SlotsAccounted'
<1>0. CASE GiveBackRaises(i)
  BY <1>0, Counts DEF GiveBackRaises, SlotsAccounted, limitVars
<1> SUFFICES ASSUME GiveBack(i) PROVE SlotsAccounted'
  BY <1>0 DEF Decrement
<1>1. /\ held' = held \ {i} /\ faults' = faults
      /\ slots' = IF slots > 0 THEN slots - 1 ELSE 0
  BY GiveBackKeeps DEF Hands
<1>2. Cardinality(held') >= Cardinality(held) - 1 /\ Cardinality(held') \in Nat
  <2>1. IsFiniteSet(held') /\ Cardinality(held') = IF i \in held THEN Cardinality(held) - 1 ELSE Cardinality(held)
    BY <1>1, Counts, FS_RemoveElement
  <2> QED
    BY <2>1, Counts, FS_CardinalityType
<1> QED
  BY <1>1, <1>2, Counts DEF SlotsAccounted

LEMMA RequestCounts ==
  ASSUME Hands, SlotsAccounted, NEW h \in Web, RequestAction(h)
  PROVE  SlotsAccounted'
<1>0. ImportTypeOK /\ ReqHands /\ HeldExists /\ Nothing \notin Import
  BY DataImportsAssumption DEF Hands
<1>1. \A g \in Web \ {h} : req'[g] = req[g]
  BY RequestCarries
<1>2. /\ h \in Unsettled /\ h \in Unsettled' => Unsettled' = Unsettled
      /\ h \notin Unsettled /\ h \notin Unsettled' => Unsettled' = Unsettled
      /\ h \in Unsettled /\ h \notin Unsettled' => Unsettled' = Unsettled \ {h}
      /\ h \notin Unsettled /\ h \in Unsettled' => Unsettled' = Unsettled \cup {h}
  BY <1>1 DEF Unsettled
<1>3. PICK n \in Nat : n = Cardinality(Unsettled)
  BY Counts
<1>4. /\ Unsettled' = Unsettled \ {h} /\ h \in Unsettled => Cardinality(Unsettled') = n - 1 /\ n > 0
      /\ Unsettled' = Unsettled \cup {h} /\ h \notin Unsettled => Cardinality(Unsettled') = n + 1
  <2>1. Cardinality(Unsettled \ {h}) = IF h \in Unsettled THEN n - 1 ELSE n
    BY <1>3, Counts, FS_RemoveElement
  <2>2. Cardinality(Unsettled \cup {h}) = IF h \in Unsettled THEN n ELSE n + 1
    BY <1>3, Counts, FS_AddElement
  <2>3. Cardinality(Unsettled \ {h}) \in Nat
    BY Counts, FS_RemoveElement, FS_CardinalityType
  <2>4. /\ Unsettled' = Unsettled \ {h} => Cardinality(Unsettled') = Cardinality(Unsettled \ {h})
        /\ Unsettled' = Unsettled \cup {h} => Cardinality(Unsettled') = Cardinality(Unsettled \cup {h})
    BY Zenon
  <2>5. h \in Unsettled => n - 1 \in Nat
    BY <2>1, <2>3
  <2> QED
    BY <2>1, <2>2, <2>4, <2>5
<1>5. PICK m \in Nat : m = Cardinality(held)
  BY Counts
<1>6. slots <= n + m + faults /\ slots \in Nat /\ faults \in Nat
  BY <1>3, <1>5, Counts DEF SlotsAccounted
<1> USE <1>2, <1>3, <1>4, <1>5, <1>6 DEF SlotsAccounted
<1>7. CASE Request(h)
  <2>1. h \notin Unsettled /\ h \notin Unsettled'
    BY <1>0, <1>7 DEF Request, ReqAt, ReqGo, Unsettled, ImportTypeOK
  <2>2. held' = held /\ faults' = faults /\ slots' = slots
    BY <1>7 DEF Request, Increase
  <2> QED
    BY <2>1, <2>2
<1>8. CASE TakeSlot(h)
  <2>1. h \notin Unsettled /\ held' = held /\ faults' = faults
    BY <1>8 DEF TakeSlot, ReqAt, Unsettled
  <2>2. CASE IncreaseExists(h) /\ UNCHANGED req
    BY <2>1, <2>2 DEF IncreaseExists, Unsettled
  <2>3. CASE IncreasePush(h) /\ ReqGo(h, "read", Nothing)
    <3>1. h \in Unsettled'
      BY <1>0, <2>3 DEF ReqGo, Unsettled, ImportTypeOK
    <3>2. slots' \in Nat /\ slots' <= slots + 1
      BY <2>3 DEF IncreasePush
    <3> QED
      BY <2>1, <3>1, <3>2
  <2> QED
    BY <1>8, <2>2, <2>3 DEF TakeSlot
<1>9. CASE CheckLimit(h) \/ BadRequest(h)
  <2>1. h \in Unsettled /\ h \in Unsettled'
    BY <1>0, <1>9 DEF CheckLimit, BadRequest, ReqHands, ReqAt, ReqGo, Unsettled, ImportTypeOK
  <2>2. held' = held /\ faults' = faults /\ slots' = slots
    BY <1>9 DEF CheckLimit, BadRequest, limitVars
  <2> QED
    BY <2>1, <2>2
<1>10. CASE \E i \in Import : Create(h, i)
  <2>1. PICK i \in Import : Create(h, i)
    BY <1>10
  <2>2. h \in Unsettled /\ h \notin Unsettled'
    BY <1>0, <2>1 DEF Create, ReqHands, ReqAt, ReqGo, ReqDone, NoRequest, Unsettled, ImportTypeOK
  <2>3. Cardinality(held') = m + 1
    BY <1>0, <2>1, Counts, FS_AddElement DEF Create, HeldExists
  <2>4. faults' = faults /\ slots' = slots
    BY <2>1 DEF Create, limitVars
  <2> QED
    BY <2>2, <2>3, <2>4
<1>11. CASE \/ EnqueueJob(h) \/ EnqueueRaises(h)
            \/ \E i \in Import : CreateForSync(h, i)
  <2>1. h \notin Unsettled /\ h \notin Unsettled'
    <3>1. CASE EnqueueJob(h) \/ EnqueueRaises(h)
      BY <1>0, <3>1
         DEF EnqueueJob, EnqueueRaises, ReqHands, ReqAt, ReqGo, ReqDone, NoRequest, Unsettled,
             ImportTypeOK
    <3>2. CASE \E i \in Import : CreateForSync(h, i)
      BY <1>0, <3>2 DEF CreateForSync, ReqAt, ReqGo, Unsettled, ImportTypeOK
    <3> QED
      BY <1>11, <3>1, <3>2
  <2>2. held' = held /\ faults' = faults /\ slots' = slots
    BY <1>11 DEF EnqueueJob, EnqueueRaises, CreateForSync, limitVars
  <2> QED
    BY <2>1, <2>2
<1>12. CASE Refuse(h)
  <2>1. Decrement(req[h].import) /\ h \notin Unsettled'
    BY <1>0, <1>12 DEF Refuse, ReqDone, NoRequest, Unsettled, ImportTypeOK
  <2>2. CASE req[h].import = Nothing
    <3>1. h \in Unsettled
      BY <1>12, <2>2 DEF Refuse, ReqAt, Unsettled
    <3>2. CASE GiveBack(Nothing)
      <4>1. held' = held /\ faults' = faults /\ slots' = IF slots > 0 THEN slots - 1 ELSE 0
        BY <3>2, Counts DEF GiveBack, Decrease
      <4> QED
        BY <2>1, <3>1, <4>1
    <3>3. CASE GiveBackRaises(Nothing)
      <4>1. held' = held /\ faults' = faults + 1 /\ slots' = slots
        BY <3>3 DEF GiveBackRaises, limitVars
      <4> QED
        BY <2>1, <3>1, <4>1
    <3> QED
      BY <2>1, <2>2, <3>2, <3>3 DEF Decrement
  <2>3. CASE req[h].import # Nothing
    <3>1. req[h].import \in Import /\ h \notin Unsettled
      BY <1>0, <1>12, <2>3 DEF Refuse, ReqAt, ReqHands, ImportTypeOK, Unsettled
    <3> QED
      BY <2>1, <3>1, GiveBackCounts
  <2> QED
    BY <2>2, <2>3
<1>13. CASE RequestDies(h)
  <2>1. h \notin Unsettled'
    BY <1>0, <1>13 DEF RequestDies, ReqDone, NoRequest, Unsettled, ImportTypeOK
  <2>2. held' = held /\ faults' = faults + 1 /\ slots' = slots
    BY <1>13 DEF RequestDies, Abandon
  <2> QED
    BY <2>1, <2>2
<1> QED
  BY <1>7, <1>8, <1>9, <1>10, <1>11, <1>12, <1>13 DEF RequestAction, RequestStep

LEMMA SlotsAccountedStep ==
  ASSUME Hands, SlotsAccounted, [ImportNext]_importVars
  PROVE  SlotsAccounted'
<1>0. ImportTypeOK /\ RunHands /\ CheckHands
  BY DEF Hands
<1>s. ASSUME req' = req, held' = held, slots' \in Nat, slots' <= slots,
             faults' = faults \/ faults' = faults + 1
      PROVE  SlotsAccounted'
  <2>1. Unsettled' = Unsettled
    BY <1>s DEF Unsettled
  <2> QED
    BY <1>s, <2>1, Counts DEF SlotsAccounted
<1>1. ASSUME NEW w \in Worker, RunAction(w)
      PROVE  SlotsAccounted'
  <2>1. CASE GiveBackSuccess(w) \/ Release(w)
    <3>1. run[w].import \in Import /\ Decrement(run[w].import) /\ req' = req
      BY <1>0, <2>1 DEF GiveBackSuccess, Release, RunHands, RunAt
    <3>2. Unsettled' = Unsettled
      BY <3>1 DEF Unsettled
    <3> QED
      BY <3>1, <3>2, GiveBackCounts
  <2>2. CASE ~(GiveBackSuccess(w) \/ Release(w))
    <3>1. /\ req' = req /\ held' = held /\ slots' = slots
          /\ faults' = faults \/ faults' = faults + 1
      BY <1>1, <2>2
         DEF RunAction, RunStep, TakeJob, Track, Imported, NotImported, EarlyState, SaveComplete,
             Notify, SuccessRaises, SaveFailure, FailureNotSaved, Retry, EndJob, WorkerDies,
             limitVars
    <3> QED
      BY <1>s, <3>1, Counts
  <2> QED
    BY <2>1, <2>2
<1>2. ASSUME NEW c \in Checker, CheckAction(c)
      PROVE  SlotsAccounted'
  <2>1. CASE GiveBackStuck(c)
    <3>1. check[c].stuck \in Import /\ Decrement(check[c].stuck) /\ req' = req
      BY <1>0, <2>1 DEF GiveBackStuck, CheckHands, CheckAt
    <3>2. Unsettled' = Unsettled
      BY <3>1 DEF Unsettled
    <3> QED
      BY <3>1, <3>2, GiveBackCounts
  <2>2. CASE ~GiveBackStuck(c)
    <3>1. /\ req' = req /\ held' = held /\ slots' = slots
          /\ faults' = faults \/ faults' = faults + 1
      BY <1>2, <2>2
         DEF CheckAction, IndexStep, ShowStep, IndexWorkers, IndexRows, ShowRow, ShowWorkers,
             FailStuck, CheckDies, limitVars
    <3> QED
      BY <1>s, <3>1, Counts
  <2> QED
    BY <2>1, <2>2
<1>3. CASE UploadAction
  <2>1. /\ req' = req /\ held' = held /\ slots' = slots
        /\ faults' = faults \/ faults' = faults + 1
    BY <1>3
       DEF UploadAction, UploadStep, UploadFetch, UploadMark, UploadStore, UploadEnqueue,
           UploadFails, UploadDies, limitVars
  <2> QED
    BY <1>s, <2>1, Counts
<1>4. CASE SlotsExpire \/ UNCHANGED importVars
  <2>1. /\ req' = req /\ held' = held /\ faults' = faults
        /\ slots' = 0 \/ slots' = slots
    BY <1>4 DEF SlotsExpire, KeyExpires, importVars
  <2> QED
    BY <1>s, <2>1, Counts
<1> QED
  BY <1>1, <1>2, <1>3, <1>4, RequestCounts, Steps

(* No interleaving of the three commands of increase with the pops of      *)
(* other processes, and no expiry of the list, counts a slot twice: each   *)
(* element of the list belongs to a request under way, to an import that   *)
(* still has its slot, or to a process that died.                          *)
THEOREM SlotsAccountedAlways == ImportSpec => []SlotsAccounted
<1>1. ImportInit => SlotsAccounted
  <2> SUFFICES ASSUME ImportInit PROVE SlotsAccounted
    OBVIOUS
  <2>1. slots = 0 /\ Cardinality(Unsettled) \in Nat /\ Cardinality(held) \in Nat /\ faults = 0
    BY HandsInit, Counts DEF ImportInit, LimitInit
  <2> QED
    BY <2>1 DEF SlotsAccounted
<1>2. Hands /\ SlotsAccounted /\ [ImportNext]_importVars => SlotsAccounted'
  BY SlotsAccountedStep
<1> QED
  BY <1>1, <1>2, HandsInvariant, PTL DEF ImportSpec
=============================================================================
