----------------------- MODULE SynchronizationProofs ------------------------
(***************************************************************************)
(* What the synchronizations guarantee for any number of rows, workers and *)
(* web processes: how far the limit can be overrun, that a busy row is in  *)
(* somebody's hands, and that the rake task alone runs a row once at a     *)
(* time, but where it ended between a push and a mark, and no more once its*)
(* owner has been told.                                                    *)
(***************************************************************************)
EXTENDS Synchronization, FiniteSetTheorems, TLAPS

(* Nearly every step leaves these as they are.                             *)
USE DEF deathVars

-----------------------------------------------------------------------------
(* The limit.                                                              *)

(* SlotsBounded is not inductive: a client between its check and its push  *)
(* counts as one more element already.                                     *)
PushesBounded == slots + Cardinality(Pushing) <= MaxSyncs - 1 + Cardinality(Client)

LimitInv == LimitTypeOK /\ PushesBounded

LEMMA ClientSets ==
  ASSUME NEW S \in SUBSET Client
  PROVE  /\ IsFiniteSet(S)
         /\ Cardinality(S) \in Nat
         /\ Cardinality(Client) \in Nat
         /\ Cardinality(S) <= Cardinality(Client)
BY SyncLimitAssumption, FS_Subset, FS_CardinalityType

LEMMA LimitInitHolds == LimitInit => LimitInv
<1> SUFFICES ASSUME LimitInit PROVE LimitInv
  OBVIOUS
<1>1. LimitTypeOK
  BY DEF LimitInit, LimitTypeOK, Pushes
<1>2. Pushing = {}
  BY DEF LimitInit, Pushing
<1>3. Cardinality(Pushing) = 0
  BY <1>2, FS_EmptySet
<1>4. Cardinality(Client) \in Nat /\ MaxSyncs \in Nat \ {0}
  BY SyncLimitAssumption, ClientSets
<1> QED
  BY <1>1, <1>3, <1>4 DEF LimitInit, LimitInv, PushesBounded

LEMMA LimitStep == LimitInv /\ [LimitNext]_limitVars => LimitInv'
<1> SUFFICES ASSUME LimitInv, [LimitNext]_limitVars PROVE LimitInv'
  OBVIOUS
<1> USE DEF LimitInv, LimitTypeOK
<1>0. /\ MaxSyncs \in Nat \ {0}
      /\ Pushing \in SUBSET Client /\ Pushing' \in SUBSET Client
      /\ Cardinality(Pushing) \in Nat /\ Cardinality(Pushing)' \in Nat
      /\ Cardinality(Client) \in Nat
      /\ Cardinality(Pushing)' <= Cardinality(Client)
  <2>1. Pushing \in SUBSET Client /\ Pushing' \in SUBSET Client
    BY DEF Pushing
  <2> QED
    BY <2>1, ClientSets, SyncLimitAssumption
<1>1. ASSUME NEW c \in Client, IncreaseRead(c) PROVE LimitInv'
  <2>1. LimitTypeOK'
    BY <1>1 DEF IncreaseRead, Pushes
  <2>2. CASE WithinLimit
    BY <1>0, <1>1, <2>1, <2>2 DEF IncreaseRead, WithinLimit, PushesBounded
  <2>3. CASE ~WithinLimit
    <3>1. Pushing' = Pushing
      BY <1>1, <2>3 DEF IncreaseRead, Pushing
    <3> QED
      BY <1>1, <2>1, <3>1 DEF IncreaseRead, PushesBounded
  <2> QED
    BY <2>2, <2>3
<1>2. ASSUME NEW c \in Client, IncreaseExists(c) PROVE LimitInv'
  <2>1. Pushing' = Pushing
    BY <1>2 DEF IncreaseExists, Pushing
  <2>2. LimitTypeOK'
    BY <1>2 DEF IncreaseExists, Pushes
  <2> QED
    BY <1>2, <2>1, <2>2 DEF IncreaseExists, PushesBounded
<1>3. ASSUME NEW c \in Client, IncreasePush(c) PROVE LimitInv'
  <2>1. LimitTypeOK'
    BY <1>3 DEF IncreasePush, Pushes
  <2>2. c \in Pushing /\ Pushing' = Pushing \ {c}
    BY <1>3 DEF IncreasePush, Pushing
  <2>3. Cardinality(Pushing') = Cardinality(Pushing) - 1
    BY <1>0, <2>2, ClientSets, FS_RemoveElement
  <2>4. slots' <= slots + 1
    BY <1>3 DEF IncreasePush
  <2> QED
    BY <1>0, <2>1, <2>3, <2>4 DEF PushesBounded
<1>4. ASSUME NEW c \in Client, Abandon(c) PROVE LimitInv'
  <2>1. LimitTypeOK'
    BY <1>4 DEF Abandon, Pushes
  <2>2. Pushing' \subseteq Pushing
    BY <1>4 DEF Abandon, Pushing
  <2>3. Cardinality(Pushing') <= Cardinality(Pushing)
    BY <1>0, <2>2, ClientSets, FS_Subset
  <2> QED
    BY <1>0, <1>4, <2>1, <2>3 DEF Abandon, PushesBounded
<1>5. CASE Decrease \/ KeyExpires
  <2>1. Pushing' = Pushing /\ slots' \in Nat /\ slots' <= slots /\ push' = push
    BY <1>5 DEF Decrease, KeyExpires, Pushing
  <2> QED
    BY <1>0, <2>1 DEF PushesBounded
<1>6. CASE UNCHANGED limitVars
  BY <1>6 DEF limitVars, PushesBounded, Pushing
<1> QED
  BY <1>1, <1>2, <1>3, <1>4, <1>5, <1>6 DEF LimitNext

LEMMA LimitSafety == LimitInv => SlotsBounded
<1> SUFFICES ASSUME LimitInv PROVE SlotsBounded
  OBVIOUS
<1>1. Pushing \in SUBSET Client
  BY DEF Pushing
<1> QED
  BY <1>1, ClientSets, SyncLimitAssumption
     DEF LimitInv, LimitTypeOK, PushesBounded, SlotsBounded

(* With any number of clients that check and push in any order, with       *)
(* deaths, decrements and expiries in between, the list of                 *)
(* UserConcurrentSyncsAmount has at most one element too many for each     *)
(* client after the first.                                                 *)
THEOREM LimitTheorem == LimitSpec => []SlotsBounded
<1>1. LimitSpec => []LimitInv
  BY LimitInitHolds, LimitStep, PTL DEF LimitSpec
<1> QED
  BY <1>1, LimitSafety, PTL

-----------------------------------------------------------------------------
(* Every synchronization step is a step of the limit, or leaves it alone.  *)

LEMMA CronUsesLimit ==
  ASSUME CronPass \/ CronFetch \/ CronFetchAll \/ CronDies
  PROVE  [LimitNext]_limitVars
<1>1. Cron \in Client
  BY SynchronizationAssumption
<1>2. CASE CronIncrease
  BY <1>1, <1>2 DEF CronIncrease, LimitNext
<1>3. CASE CronPush
  BY <1>1, <1>3 DEF CronPush, LimitNext
<1>4. CASE CronFetch \/ CronFetchAll \/ CronEnqueue \/ CronMark \/ \E s \in Sync : CronPick(s)
  BY <1>4 DEF CronFetch, CronFetchAll, CronEnqueue, CronMark, CronPick, limitVars
<1>5. CASE CronDies
  BY <1>1, <1>5 DEF CronDies, LimitNext
<1> QED
  BY <1>2, <1>3, <1>4, <1>5 DEF CronPass

LEMMA WorkersUseLimit ==
  ASSUME NEW w \in Worker,
         \/ JobStep(w) \/ WorkerDies(w)
         \/ \E s \in Sync : TakeJob(w, s) \/ TakeImport(w, s)
  PROVE  [LimitNext]_limitVars
<1>1. CASE Release(w)
  BY <1>1 DEF Release, LimitNext
<1>2. CASE ~Release(w)
  BY <1>2 DEF JobStep, WorkerDies, TakeJob, TakeImport, StoreSyncing, Succeed, Fail, ResultLost,
              ImportWithoutResult, ImportFetch, ImportStore, limitVars
<1> QED
  BY <1>1, <1>2

LEMMA WebUsesLimit ==
  ASSUME NEW h \in Web,
         \/ WebStep(h) \/ WebDies(h)
         \/ \E s \in Sync : Create(h, s) \/ SyncNow(h, s) \/ FetchToUpdate(h, s)
  PROVE  [LimitNext]_limitVars
<1>1. h \in Client
  BY SynchronizationAssumption
<1>2. CASE WebIncrease(h) \/ WebPush(h) \/ WebDies(h)
  BY <1>1, <1>2 DEF WebIncrease, WebPush, WebDies, LimitNext
<1>3. CASE ~(WebIncrease(h) \/ WebPush(h) \/ WebDies(h))
  BY <1>3 DEF WebStep, Create, SyncNow, FetchToUpdate, RefuseImport, EnqueueImport, MarkQueued,
              CheckLimit, EnqueueSync, StoreQueued, StoreUpdate, limitVars
<1> QED
  BY <1>2, <1>3

LEMMA StepUsesLimit == [SyncNext]_syncVars => [LimitNext]_limitVars
<1> SUFFICES ASSUME [SyncNext]_syncVars PROVE [LimitNext]_limitVars
  OBVIOUS
<1>1. CASE CronFetch \/ CronPass \/ CronDies \/ CronFetchAll
  BY <1>1, CronUsesLimit
<1>2. CASE \E w \in Worker :
             \/ JobStep(w) \/ WorkerDies(w)
             \/ \E s \in Sync : TakeJob(w, s) \/ TakeImport(w, s)
  BY <1>2, WorkersUseLimit
<1>3. CASE \E h \in Web :
             \/ WebStep(h) \/ WebDies(h)
             \/ \E s \in Sync : Create(h, s) \/ SyncNow(h, s) \/ FetchToUpdate(h, s)
  BY <1>3, WebUsesLimit
<1>4. CASE \E s \in Sync : Destroy(s)
  BY <1>4 DEF Destroy
<1>5. CASE SlotsExpire
  BY <1>5 DEF SlotsExpire, LimitNext
<1>6. CASE UNCHANGED syncVars
  BY <1>6 DEF syncVars, limitVars
<1> QED
  BY <1>1, <1>2, <1>3, <1>4, <1>5, <1>6 DEF SyncNext, ScheduledNext

(* Whatever the rake task, the controller and the workers do with the      *)
(* list, they use it as its clients may.                                   *)
THEOREM UsesLimit == SyncSpec => LimitSpec
<1>1. SyncInit => LimitInit
  BY DEF SyncInit
<1> QED
  BY <1>1, StepUsesLimit, PTL DEF SyncSpec, LimitSpec

(* So the limit of LimitTheorem is the limit of the system: a user is over *)
(* it by at most one element for each web process.                         *)
THEOREM SlotsTheorem == SyncSpec => []SlotsBounded
BY UsesLimit, LimitTheorem, PTL

-----------------------------------------------------------------------------
(* The copies of the rows in memory.                                       *)

JobCopies ==
  \A w \in Worker :
    /\ job[w].at # "idle" => job[w].sync \in Sync
    /\ job[w].at \in {"start", "syncing"} => job[w].row \in Row /\ job[w].row.state = "syncing"
    /\ job[w].at = "imported" => job[w].row \in Row /\ job[w].row.state \in {"success", "failure"}

WebCopies ==
  \A h \in Web :
    /\ web[h].at # "idle" => web[h].sync \in Sync
    /\ web[h].at \in {"import", "mark", "check", "enqueue", "store"} =>
         web[h].row \in Row /\ web[h].row.state = "queued"
    /\ web[h].at = "update" => web[h].row \in Row

CronCopy == cron.at \in {"enqueue", "mark"} => cron.sync \in Sync

(* BusyIsHandled is inductive once it is known what the processes are      *)
(* going to store.                                                         *)
SyncInv == SyncTypeOK /\ JobCopies /\ WebCopies /\ CronCopy /\ BusyIsHandled

LEMMA SyncInitHolds == SyncInit => SyncInv
<1> SUFFICES ASSUME SyncInit PROVE SyncInv
  OBVIOUS
<1> USE DEF SyncInit
<1>1. LimitTypeOK
  BY LimitInitHolds DEF LimitInv
<1>2. row \in [Sync -> Row \cup {Nothing}]
  BY SynchronizationAssumption DEF Row, States
<1>3. /\ queue \in [Sync -> 0..MaxJobs] /\ deaths \in 0..MaxDeaths
      /\ unmarked \in [Sync -> Nat]
  BY SynchronizationAssumption
<1>4. /\ imports \subseteq Sync /\ told \subseteq Sync
      /\ deleted \subseteq Sync /\ left \subseteq Sync
  OBVIOUS
<1>5. job \in [Worker -> JobType]
  BY DEF Idle, JobType
<1>6. web \in [Web -> WebType]
  BY DEF Idle, WebType
<1>7. cron \in CronType
  BY DEF NoPass, CronType
<1>8. SyncTypeOK
  BY <1>1, <1>2, <1>3, <1>4, <1>5, <1>6, <1>7 DEF SyncTypeOK
<1>9. JobCopies /\ WebCopies /\ CronCopy
  BY DEF JobCopies, WebCopies, CronCopy, Idle, NoPass
<1>10. BusyIsHandled
  BY DEF BusyIsHandled, IsBusy, Busy
<1> QED
  BY <1>8, <1>9, <1>10 DEF SyncInv

(* The limit keeps its types whatever the clients do.                      *)
LEMMA LimitTyped == LimitTypeOK /\ [LimitNext]_limitVars => LimitTypeOK'
BY DEF LimitTypeOK, Pushes, LimitNext, limitVars, IncreaseRead, IncreaseExists, IncreasePush,
       Abandon, Decrease, KeyExpires

(* A step that leaves the rows alone, and the processes that handle them.  *)
LEMMA RowsAlone ==
  ASSUME BusyIsHandled, UNCHANGED rowVars, \A s \in Sync : Handled(s) => Handled(s)'
  PROVE  BusyIsHandled'
BY DEF BusyIsHandled, IsBusy, rowVars

(* Storing a row that is not busy.                                         *)
LEMMA StoreAtRest ==
  ASSUME SyncTypeOK, BusyIsHandled, NEW s \in Sync, NEW r \in Row, r.state \notin Busy,
         Store(s, r), \A x \in Sync \ {s} : Handled(x) => Handled(x)'
  PROVE  /\ row' \in [Sync -> Row \cup {Nothing}]
         /\ left' \subseteq Sync
         /\ BusyIsHandled'
<1>1. row' = [row EXCEPT ![s] = r] /\ left' = left \ {s}
  BY DEF Store
<1>2. row' \in [Sync -> Row \cup {Nothing}] /\ left' \subseteq Sync
  BY <1>1 DEF SyncTypeOK
<1>3. row'[s] = r /\ \A x \in Sync \ {s} : row'[x] = row[x]
  BY <1>1 DEF SyncTypeOK
<1>4. BusyIsHandled'
  BY <1>1, <1>3 DEF BusyIsHandled, IsBusy
<1> QED
  BY <1>2, <1>4

LEMMA EnqueueTyped ==
  ASSUME SyncTypeOK, NEW s \in Sync, Enqueue(s)
  PROVE  queue' \in [Sync -> 0..MaxJobs]
BY SynchronizationAssumption DEF Enqueue, SyncTypeOK

(* Steps of the rake task that touch nothing but its own state and the     *)
(* limit.                                                                  *)
LEMMA CronAlone ==
  ASSUME SyncInv, LimitTypeOK', cron' \in CronType, CronCopy',
         UNCHANGED <<rowVars, resque, job, web, told, deleted, deathVars>>
  PROVE  SyncInv'
<1>1. SyncTypeOK'
  BY DEF SyncInv, SyncTypeOK, rowVars, resque
<1>2. JobCopies' /\ WebCopies' /\ BusyIsHandled'
  BY RowsAlone DEF SyncInv, JobCopies, WebCopies, Handled
<1> QED
  BY <1>1, <1>2 DEF SyncInv

LEMMA CronKeepsInv ==
  ASSUME SyncInv, LimitTypeOK', CronPass \/ CronFetch \/ CronFetchAll \/ CronDies
  PROVE  SyncInv'
<1>0. SyncTypeOK /\ JobCopies /\ WebCopies /\ CronCopy /\ BusyIsHandled
  BY DEF SyncInv
<1>1. CASE CronFetch \/ CronFetchAll
  <2>1. cron' \in CronType /\ CronCopy'
    BY <1>1 DEF CronFetch, CronFetchAll, Eligible, CronType, CronCopy
  <2> QED
    BY <1>1, <2>1, CronAlone DEF CronFetch, CronFetchAll, limitVars
<1>2. ASSUME NEW s \in Sync, CronPick(s) PROVE SyncInv'
  <2>1. cron' \in CronType /\ CronCopy'
    BY <1>0, <1>2 DEF CronPick, SyncTypeOK, CronType, CronCopy, NoPass
  <2> QED
    BY <1>2, <2>1, CronAlone DEF CronPick
<1>3. CASE CronEnqueue
  <2>1. cron' \in CronType
    BY <1>0, <1>3 DEF CronEnqueue, SyncTypeOK, CronType
  <2>2. queue' \in [Sync -> 0..MaxJobs]
    BY <1>0, <1>3, EnqueueTyped DEF CronEnqueue, CronCopy
  <2>3. SyncTypeOK'
    BY <1>0, <1>3, <2>1, <2>2 DEF CronEnqueue, SyncTypeOK, rowVars
  <2>4. JobCopies' /\ WebCopies' /\ BusyIsHandled'
    BY <1>0, <1>3, RowsAlone DEF CronEnqueue, JobCopies, WebCopies, Handled
  <2>5. CronCopy'
    BY <1>0, <1>3 DEF CronEnqueue, CronCopy, SyncTypeOK, CronType
  <2> QED
    BY <2>3, <2>4, <2>5 DEF SyncInv
<1>4. CASE CronMark
  <2>1. cron' \in CronType /\ CronCopy'
    BY <1>0, <1>4 DEF CronMark, CronNextRecord, NoPass, SyncTypeOK, CronType, CronCopy
  <2>2. cron.sync \in Sync
    BY <1>0, <1>4 DEF CronMark, CronCopy
  <2>3. /\ row' \in [Sync -> Row \cup {Nothing}]
        /\ left' \subseteq Sync
        /\ BusyIsHandled'
    <3>1. CASE row[cron.sync] = Nothing
      BY <1>0, <1>4, <3>1, RowsAlone DEF CronMark, rowVars, SyncTypeOK, Handled
    <3>2. CASE row[cron.sync] # Nothing
      <4> DEFINE r == [row[cron.sync] EXCEPT !.state = "queued"]
      <4>1. r \in Row /\ r.state \notin Busy
        BY <1>0, <2>2, <3>2 DEF SyncTypeOK, Row, States, Busy
      <4>2. Store(cron.sync, r) /\ UNCHANGED <<job, web>>
        BY <1>4, <3>2 DEF CronMark
      <4>3. \A x \in Sync : Handled(x) => Handled(x)'
        BY <4>2 DEF Handled
      <4> HIDE DEF r
      <4> QED
        BY <1>0, <2>2, <4>1, <4>2, <4>3, StoreAtRest
    <3> QED
      BY <3>1, <3>2
  <2>4. SyncTypeOK'
    BY <1>0, <1>4, <2>1, <2>3 DEF CronMark, SyncTypeOK, resque
  <2>5. JobCopies' /\ WebCopies'
    BY <1>0, <1>4 DEF CronMark, JobCopies, WebCopies
  <2> QED
    BY <2>1, <2>3, <2>4, <2>5 DEF SyncInv
<1>5. CASE CronIncrease
  <2>1. cron' \in CronType
    BY <1>0, <1>5 DEF CronIncrease, CronNextRecord, NoPass, SyncTypeOK, CronType
  <2>2. CronCopy'
    BY <1>0, <1>5 DEF CronIncrease, CronNextRecord, NoPass, SyncTypeOK, CronType, CronCopy
  <2> QED
    BY <1>5, <2>1, <2>2, CronAlone DEF CronIncrease
<1>6. CASE CronPush
  <2>1. cron' \in CronType /\ CronCopy'
    BY <1>0, <1>6 DEF CronPush, CronNextRecord, NoPass, SyncTypeOK, CronType, CronCopy
  <2> QED
    BY <1>6, <2>1, CronAlone DEF CronPush
<1>7. CASE CronDies
  <2>1. cron' = NoPass /\ UNCHANGED <<rowVars, resque, job, web, told, deleted>>
    BY <1>7 DEF CronDies
  <2>2. cron' \in CronType /\ CronCopy'
    BY <2>1 DEF NoPass, CronType, CronCopy
  <2>3. deaths' \in 0..MaxDeaths
    <3>1. deaths \in 0..MaxDeaths /\ deaths < MaxDeaths /\ deaths' = deaths + 1
      BY <1>0, <1>7 DEF CronDies, SyncTypeOK
    <3> QED
      BY <3>1, SynchronizationAssumption
  <2>6. unmarked' \in [Sync -> Nat]
    <3>1. /\ unmarked \in [Sync -> Nat]
          /\ unmarked' \in {unmarked, [unmarked EXCEPT ![cron.sync] = @ + 1]}
      BY <1>0, <1>7 DEF CronDies, SyncTypeOK
    <3> QED
      BY <3>1
  <2>4. SyncTypeOK'
    BY <1>0, <2>1, <2>2, <2>3, <2>6 DEF SyncTypeOK, rowVars, resque
  <2>5. JobCopies' /\ WebCopies' /\ BusyIsHandled'
    BY <1>0, <2>1, RowsAlone DEF JobCopies, WebCopies, Handled
  <2> QED
    BY <2>2, <2>4, <2>5 DEF SyncInv
<1> QED
  BY <1>1, <1>2, <1>3, <1>4, <1>5, <1>6, <1>7 DEF CronPass

LEMMA WorkersKeepInv ==
  ASSUME SyncInv, LimitTypeOK', NEW w \in Worker,
         \/ JobStep(w) \/ WorkerDies(w)
         \/ \E s \in Sync : TakeJob(w, s) \/ TakeImport(w, s)
  PROVE  SyncInv'
<1>0. SyncTypeOK /\ JobCopies /\ WebCopies /\ CronCopy /\ BusyIsHandled
  BY DEF SyncInv
<1>1. ASSUME NEW s \in Sync, TakeJob(w, s) PROVE SyncInv'
  <2>1. queue' \in [Sync -> 0..MaxJobs]
    BY <1>0, <1>1, SynchronizationAssumption DEF TakeJob, SyncTypeOK
  <2>2. CASE row[s] = Nothing
    BY <1>0, <1>1, <2>1, <2>2, RowsAlone
       DEF TakeJob, SyncInv, SyncTypeOK, JobCopies, WebCopies, CronCopy, rowVars, Handled
  <2>3. CASE row[s] # Nothing
    <3>1. As(row[s], "syncing") \in Row /\ As(row[s], "syncing").state = "syncing"
      BY <1>0, <2>3 DEF SyncTypeOK, As, Row, States
    <3> DEFINE r == As(row[s], "syncing")
    <3>2. job' = [job EXCEPT ![w] = [at |-> "start", sync |-> s, row |-> r]]
      BY <1>1, <2>3 DEF TakeJob
    <3> HIDE DEF r
    <3>3. job' \in [Worker -> JobType]
      BY <1>0, <3>1, <3>2 DEF SyncTypeOK, JobType, r
    <3>4. JobCopies'
      BY <1>0, <3>1, <3>2 DEF SyncTypeOK, JobCopies, r
    <3>5. BusyIsHandled'
      <4>1. \A x \in Sync : Handled(x) => Handled(x)'
        BY <1>0, <1>1, <3>2 DEF TakeJob, JobAt, SyncTypeOK, Handled
      <4> QED
        BY <1>0, <1>1, <4>1, RowsAlone DEF TakeJob
    <3> QED
      BY <1>0, <1>1, <2>1, <3>3, <3>4, <3>5
         DEF TakeJob, SyncInv, SyncTypeOK, WebCopies, CronCopy, rowVars
  <2> QED
    BY <2>2, <2>3
<1>2. CASE StoreSyncing(w)
  <2>1. PICK s0 \in Sync : s0 = job[w].sync /\ job[w].row \in Row /\ job[w].row.state = "syncing"
    BY <1>0, <1>2 DEF StoreSyncing, JobAt, JobCopies
  <2>2. row' = [row EXCEPT ![s0] = job[w].row] /\ left' = left
    BY <1>2, <2>1 DEF StoreSyncing, Store, Busy
  <2>3. job' \in [Worker -> JobType]
    BY <1>0, <1>2 DEF StoreSyncing, JobGo, SyncTypeOK, JobType
  <2>4. SyncTypeOK'
    BY <1>0, <1>2, <2>1, <2>2, <2>3 DEF StoreSyncing, SyncTypeOK, resque
  <2>5. JobCopies' /\ WebCopies' /\ CronCopy'
    BY <1>0, <1>2 DEF StoreSyncing, JobAt, JobGo, JobCopies, WebCopies, CronCopy, SyncTypeOK, JobType
  <2>6. BusyIsHandled'
    <3>1. job'[w].sync = s0 /\ job'[w].at = "syncing" /\ \A v \in Worker \ {w} : job'[v] = job[v]
      BY <1>0, <1>2, <2>1 DEF StoreSyncing, JobGo, SyncTypeOK, JobType
    <3>2. Handled(s0)' /\ \A x \in Sync : Handled(x) => Handled(x)'
      BY <1>2, <3>1 DEF StoreSyncing, JobAt, Handled
    <3>3. \A x \in Sync \ {s0} : row'[x] = row[x]
      BY <1>0, <2>2 DEF SyncTypeOK
    <3> QED
      BY <1>0, <2>2, <3>2, <3>3 DEF BusyIsHandled, IsBusy
  <2> QED
    BY <2>4, <2>5, <2>6 DEF SyncInv
<1>3. CASE Succeed(w) \/ Fail(w)
  <2>1. PICK s0 \in Sync : s0 = job[w].sync /\ job[w].row \in Row
    BY <1>0, <1>3 DEF Succeed, Fail, JobAt, JobCopies
  <2>2. PICK r \in Row : r.state \in {"success", "failure"} /\ Store(s0, r)
    <3>1. CASE Succeed(w)
      <4>1. [state |-> "success", retries |-> 0] \in Row
        BY SynchronizationAssumption DEF Row, States
      <4> QED
        BY <2>1, <3>1, <4>1 DEF Succeed
    <3>2. CASE Fail(w)
      <4>1. job[w].row.retries \in Nat /\ MaxRetries \in Nat
        BY <2>1, SynchronizationAssumption DEF Row
      <4>2. PICK n \in Nat : n <= MaxRetries /\ Store(s0, [state |-> "failure", retries |-> n])
        BY <2>1, <3>2, <4>1 DEF Fail
      <4>3. [state |-> "failure", retries |-> n] \in Row
        BY <4>1, <4>2 DEF Row, States
      <4> QED
        BY <4>2, <4>3
    <3> QED
      BY <1>3, <3>1, <3>2
  <2>3. /\ job' = [job EXCEPT ![w] = [at |-> "release", sync |-> s0, row |-> Nothing]]
        /\ told' \subseteq Sync
        /\ UNCHANGED <<resque, web, cron, deleted, deathVars>>
    BY <1>0, <1>3, <2>1 DEF Succeed, Fail, JobResult, SyncTypeOK
  <2>4. job' \in [Worker -> JobType] /\ JobCopies' /\ WebCopies' /\ CronCopy'
    BY <1>0, <2>1, <2>3 DEF SyncTypeOK, JobType, JobCopies, WebCopies, CronCopy
  <2>5. \A x \in Sync \ {s0} : Handled(x) => Handled(x)'
    BY <1>0, <2>1, <2>3 DEF SyncTypeOK, Handled
  <2>6. row' \in [Sync -> Row \cup {Nothing}] /\ left' \subseteq Sync /\ BusyIsHandled'
    <3>1. r.state \notin Busy
      BY <2>2 DEF Busy
    <3> QED
      BY <1>0, <2>1, <2>2, <2>5, <3>1, StoreAtRest
  <2> QED
    BY <1>0, <2>3, <2>4, <2>6 DEF SyncInv, SyncTypeOK, resque
<1>4. CASE ResultLost(w)
  <2>1. PICK s0 \in Sync : s0 = job[w].sync /\ job[w].row \in Row
    BY <1>0, <1>4 DEF ResultLost, JobAt, JobCopies
  <2>2. /\ job' = [job EXCEPT ![w] = [at |-> "release", sync |-> s0, row |-> Nothing]]
        /\ UNCHANGED <<resque, web, cron, told, deleted, deathVars>>
    BY <1>4, <2>1 DEF ResultLost, JobResult
  <2>3. job' \in [Worker -> JobType] /\ JobCopies' /\ WebCopies' /\ CronCopy'
    BY <1>0, <2>1, <2>2 DEF SyncTypeOK, JobType, JobCopies, WebCopies, CronCopy
  <2>4. /\ row' \in [Sync -> Row \cup {Nothing}]
        /\ left \subseteq left' /\ left' \subseteq Sync
        /\ \A x \in Sync \ {s0} : row'[x] = row[x]
        /\ IsBusy(s0)' => s0 \in left'
    BY <1>0, <1>4, <2>1 DEF ResultLost, SyncTypeOK, IsBusy
  <2>5. BusyIsHandled'
    <3>1. \A x \in Sync \ {s0} : Handled(x) => Handled(x)'
      BY <1>0, <2>1, <2>2 DEF SyncTypeOK, Handled
    <3> QED
      BY <1>0, <2>4, <3>1 DEF BusyIsHandled, IsBusy
  <2> QED
    BY <1>0, <2>2, <2>3, <2>4, <2>5 DEF SyncInv, SyncTypeOK, resque
<1>5. CASE Release(w) \/ ImportWithoutResult(w)
  <2>1. /\ job' = [job EXCEPT ![w] = Idle]
        /\ UNCHANGED <<rowVars, resque, web, cron, told, deleted, deathVars>>
    BY <1>5 DEF Release, ImportWithoutResult, JobDone
  <2>2. job' \in [Worker -> JobType] /\ JobCopies' /\ WebCopies' /\ CronCopy'
    BY <1>0, <2>1 DEF SyncTypeOK, JobType, JobCopies, WebCopies, CronCopy, Idle
  <2>3. \A x \in Sync : Handled(x) => Handled(x)'
    BY <1>0, <1>5, <2>1 DEF Release, ImportWithoutResult, JobAt, SyncTypeOK, Handled
  <2>4. BusyIsHandled'
    BY <1>0, <2>1, <2>3, RowsAlone
  <2> QED
    BY <1>0, <2>1, <2>2, <2>4 DEF SyncInv, SyncTypeOK, rowVars, resque
<1>6. ASSUME NEW s \in Sync, TakeImport(w, s) PROVE SyncInv'
  <2>1. /\ job' = [job EXCEPT ![w] = [at |-> "importing", sync |-> s, row |-> Nothing]]
        /\ imports' \subseteq Sync
        /\ UNCHANGED <<rowVars, queue, web, cron, told, deleted, deathVars>>
    BY <1>0, <1>6 DEF TakeImport, SyncTypeOK
  <2>2. job' \in [Worker -> JobType] /\ JobCopies' /\ WebCopies' /\ CronCopy'
    BY <1>0, <2>1 DEF SyncTypeOK, JobType, JobCopies, WebCopies, CronCopy
  <2>3. \A x \in Sync : Handled(x) => Handled(x)'
    BY <1>0, <1>6, <2>1 DEF TakeImport, JobAt, SyncTypeOK, Handled
  <2>4. BusyIsHandled'
    BY <1>0, <2>1, <2>3, RowsAlone
  <2> QED
    BY <1>0, <2>1, <2>2, <2>4 DEF SyncInv, SyncTypeOK, rowVars
<1>7. CASE ImportFetch(w)
  <2>1. PICK s0 \in Sync : s0 = job[w].sync /\ row[s0] \in Row
    BY <1>0, <1>7 DEF ImportFetch, JobAt, JobCopies, SyncTypeOK
  <2>2. PICK state \in {"success", "failure"} :
          job' = [job EXCEPT ![w] = [at |-> "imported", sync |-> s0, row |-> As(row[s0], state)]]
    BY <1>7, <2>1 DEF ImportFetch
  <2>3. As(row[s0], state) \in Row /\ As(row[s0], state).state = state
    BY <2>1 DEF As, Row, States
  <2> DEFINE r == As(row[s0], state)
  <2> HIDE DEF r
  <2>4. job' \in [Worker -> JobType] /\ JobCopies'
    BY <1>0, <2>2, <2>3 DEF SyncTypeOK, JobType, JobCopies, r
  <2>5. \A x \in Sync : Handled(x) => Handled(x)'
    BY <1>0, <1>7, <2>2 DEF ImportFetch, JobAt, SyncTypeOK, Handled
  <2>6. BusyIsHandled'
    BY <1>0, <1>7, <2>5, RowsAlone DEF ImportFetch
  <2> QED
    BY <1>0, <1>7, <2>4, <2>6
       DEF ImportFetch, SyncInv, SyncTypeOK, WebCopies, CronCopy, rowVars, resque
<1>8. CASE ImportStore(w)
  <2>1. PICK s0 \in Sync : /\ s0 = job[w].sync /\ job[w].row \in Row
                           /\ job[w].row.state \in {"success", "failure"}
    BY <1>0, <1>8 DEF ImportStore, JobAt, JobCopies
  <2>2. PICK r \in Row : r.state \in {"success", "failure"} /\ Store(s0, r)
    BY <1>8, <2>1 DEF ImportStore
  <2>3. /\ job' = [job EXCEPT ![w] = Idle]
        /\ UNCHANGED <<resque, web, cron, told, deleted, deathVars>>
    BY <1>8 DEF ImportStore, JobDone
  <2>4. job' \in [Worker -> JobType] /\ JobCopies' /\ WebCopies' /\ CronCopy'
    BY <1>0, <2>3 DEF SyncTypeOK, JobType, JobCopies, WebCopies, CronCopy, Idle
  <2>5. \A x \in Sync \ {s0} : Handled(x) => Handled(x)'
    BY <1>0, <2>1, <2>3 DEF SyncTypeOK, Handled
  <2>6. row' \in [Sync -> Row \cup {Nothing}] /\ left' \subseteq Sync /\ BusyIsHandled'
    BY <1>0, <2>2, <2>5, StoreAtRest DEF Busy
  <2> QED
    BY <1>0, <2>3, <2>4, <2>6 DEF SyncInv, SyncTypeOK, resque
<1>9. CASE WorkerDies(w)
  <2>1. PICK s0 \in Sync : s0 = job[w].sync
    BY <1>0, <1>9 DEF WorkerDies, JobAt, JobCopies
  <2>2. /\ job' = [job EXCEPT ![w] = Idle]
        /\ left' = IF IsBusy(s0) THEN left \cup {s0} ELSE left
        /\ UNCHANGED <<row, resque, web, cron, told, deleted, unmarked>>
    BY <1>9, <2>1 DEF WorkerDies, JobDone
  <2>3. deaths' \in 0..MaxDeaths
    BY <1>0, <1>9, SynchronizationAssumption DEF WorkerDies, SyncTypeOK
  <2>4. job' \in [Worker -> JobType] /\ JobCopies' /\ WebCopies' /\ CronCopy'
    BY <1>0, <2>2 DEF SyncTypeOK, JobType, JobCopies, WebCopies, CronCopy, Idle
  <2>5. \A x \in Sync \ {s0} : Handled(x) => Handled(x)'
    BY <1>0, <2>1, <2>2 DEF SyncTypeOK, Handled
  <2>6. BusyIsHandled'
    BY <1>0, <2>2, <2>5 DEF BusyIsHandled, IsBusy
  <2> QED
    BY <1>0, <2>2, <2>3, <2>4, <2>6 DEF SyncInv, SyncTypeOK, resque
<1> QED
  BY <1>1, <1>2, <1>3, <1>4, <1>5, <1>6, <1>7, <1>8, <1>9 DEF JobStep

(* Steps of a web process that touch neither the rows nor what the workers *)
(* and the rake task do, and do not give up a row it handles.              *)
LEMMA WebAlone ==
  ASSUME SyncInv, LimitTypeOK', NEW h \in Web, web[h].at \notin {"import", "mark"},
         NEW r \in WebType, web' = [web EXCEPT ![h] = r],
         r.at # "idle" => r.sync \in Sync,
         r.at \in {"import", "mark", "check", "enqueue", "store"} =>
           r.row \in Row /\ r.row.state = "queued",
         r.at = "update" => r.row \in Row,
         queue' \in [Sync -> 0..MaxJobs],
         UNCHANGED <<rowVars, imports, job, cron, told, deleted, deathVars>>
  PROVE  SyncInv'
<1>0. SyncTypeOK /\ JobCopies /\ WebCopies /\ CronCopy /\ BusyIsHandled
  BY DEF SyncInv
<1>1. web' \in [Web -> WebType] /\ web'[h] = r /\ \A g \in Web \ {h} : web'[g] = web[g]
  BY <1>0 DEF SyncTypeOK
<1>2. WebCopies'
  BY <1>0, <1>1 DEF WebCopies
<1>3. \A x \in Sync : Handled(x) => Handled(x)'
  BY <1>1 DEF Handled
<1>4. BusyIsHandled'
  BY <1>0, <1>3, RowsAlone
<1> QED
  BY <1>0, <1>1, <1>2, <1>4 DEF SyncInv, SyncTypeOK, JobCopies, CronCopy, rowVars

LEMMA WebKeepsInv ==
  ASSUME SyncInv, LimitTypeOK', NEW h \in Web,
         \/ WebStep(h) \/ WebDies(h)
         \/ \E s \in Sync : Create(h, s) \/ SyncNow(h, s) \/ FetchToUpdate(h, s)
  PROVE  SyncInv'
<1>0. SyncTypeOK /\ JobCopies /\ WebCopies /\ CronCopy /\ BusyIsHandled
  BY DEF SyncInv
<1>1. Idle \in WebType
  BY DEF Idle, WebType
<1>2. ASSUME NEW s \in Sync, SyncNow(h, s) PROVE SyncInv'
  <2> DEFINE q == As(row[s], "queued")
             r == [at |-> "check", sync |-> s, row |-> q]
  <2>1. q \in Row /\ q.state = "queued"
    BY <1>0, <1>2 DEF SyncNow, SyncTypeOK, As, Row, States
  <2> HIDE DEF q
  <2>2. /\ r \in WebType /\ r.at = "check" /\ r.sync = s /\ r.row = q
    BY <2>1 DEF WebType
  <2>3. /\ web[h].at \notin {"import", "mark"}
        /\ web' = [web EXCEPT ![h] = r]
        /\ UNCHANGED <<rowVars, resque, job, cron, told, deleted, deathVars>>
    BY <1>2 DEF SyncNow, WebAt, q
  <2>4. queue' \in [Sync -> 0..MaxJobs] /\ imports' = imports
    BY <1>0, <2>3 DEF SyncTypeOK, resque
  <2> HIDE DEF r
  <2> QED
    BY <2>1, <2>2, <2>3, <2>4, WebAlone
<1>3. ASSUME NEW s \in Sync, FetchToUpdate(h, s) PROVE SyncInv'
  <2> DEFINE r == [at |-> "update", sync |-> s, row |-> row[s]]
  <2>1. row[s] \in Row
    BY <1>0, <1>3 DEF FetchToUpdate, SyncTypeOK
  <2>2. r \in WebType /\ r.at = "update" /\ r.sync = s /\ r.row = row[s]
    BY <2>1 DEF WebType
  <2>3. /\ web[h].at \notin {"import", "mark"}
        /\ web' = [web EXCEPT ![h] = r]
        /\ UNCHANGED <<rowVars, resque, job, cron, told, deleted, deathVars>>
    BY <1>3 DEF FetchToUpdate, WebAt
  <2>4. queue' \in [Sync -> 0..MaxJobs] /\ imports' = imports
    BY <1>0, <2>3 DEF SyncTypeOK, resque
  <2> HIDE DEF r
  <2> QED
    BY <2>1, <2>2, <2>3, <2>4, WebAlone
<1>4. ASSUME CheckLimit(h) \/ EnqueueSync(h) PROVE SyncInv'
  <2>1. /\ web[h].at \in {"check", "enqueue"} /\ web[h].sync \in Sync
        /\ web[h].row \in Row /\ web[h].row.state = "queued"
    BY <1>0, <1>4 DEF CheckLimit, EnqueueSync, WebAt, WebCopies
  <2>2. PICK at \in {"enqueue", "store", "idle"} :
          web' = IF at = "idle" THEN [web EXCEPT ![h] = Idle] ELSE [web EXCEPT ![h].at = at]
    BY <1>4 DEF CheckLimit, EnqueueSync, WebGo, WebDone
  <2>3. PICK r \in WebType :
          /\ web' = [web EXCEPT ![h] = r]
          /\ r.at = at
          /\ at # "idle" => r.sync = web[h].sync /\ r.row = web[h].row
    <3>1. CASE at = "idle"
      BY <1>1, <2>2, <3>1 DEF Idle
    <3>2. CASE at # "idle"
      <4> DEFINE r == [web[h] EXCEPT !.at = at]
      <4>1. r \in WebType /\ r.at = at /\ r.sync = web[h].sync /\ r.row = web[h].row
        BY <1>0, <2>2 DEF SyncTypeOK, WebType
      <4>2. web' = [web EXCEPT ![h] = r]
        BY <2>2, <3>2
      <4> HIDE DEF r
      <4> QED
        BY <4>1, <4>2
    <3> QED
      BY <3>1, <3>2
  <2>4. queue' \in [Sync -> 0..MaxJobs] /\ UNCHANGED <<rowVars, imports, job, cron, told, deleted, deathVars>>
    <3>1. CASE CheckLimit(h)
      BY <1>0, <3>1 DEF CheckLimit, SyncTypeOK, resque
    <3>2. CASE EnqueueSync(h)
      BY <1>0, <2>1, <3>2, EnqueueTyped DEF EnqueueSync
    <3> QED
      BY <1>4, <3>1, <3>2
  <2> QED
    BY <2>1, <2>3, <2>4, WebAlone
<1>5. ASSUME WebIncrease(h) \/ WebPush(h) PROVE SyncInv'
  <2>1. web[h].at \in {"count", "push"} /\ web[h].sync \in Sync
    BY <1>0, <1>5 DEF WebIncrease, WebPush, WebAt, WebCopies
  <2>2. /\ web' \in {web, [web EXCEPT ![h] = Idle], [web EXCEPT ![h].at = "push"]}
        /\ UNCHANGED <<rowVars, resque, job, cron, told, deleted, deathVars>>
    BY <1>5 DEF WebIncrease, WebPush, WebGo, WebDone
  <2>3. web' \in [Web -> WebType] /\ WebCopies'
    BY <1>0, <1>1, <2>1, <2>2 DEF SyncTypeOK, WebType, WebCopies, Idle
  <2>4. \A x \in Sync : Handled(x) => Handled(x)'
    BY <1>0, <2>1, <2>2 DEF Handled, SyncTypeOK
  <2>5. BusyIsHandled'
    BY <1>0, <2>2, <2>4, RowsAlone
  <2> QED
    BY <1>0, <2>2, <2>3, <2>5 DEF SyncInv, SyncTypeOK, JobCopies, CronCopy, rowVars, resque
<1>6. ASSUME NEW s \in Sync, Create(h, s) PROVE SyncInv'
  <2> DEFINE q == As(Fresh, "queued")
  <2>1. Fresh \in Row /\ Fresh.state = "created" /\ q \in Row /\ q.state = "queued"
    BY SynchronizationAssumption DEF Fresh, As, Row, States
  <2>2. /\ row' = [row EXCEPT ![s] = Fresh] /\ left' = left
        /\ web[h].at = "idle"
        /\ web' = [web EXCEPT ![h] = [at |-> "import", sync |-> s, row |-> q]]
        /\ UNCHANGED <<resque, job, cron, told, deleted, deathVars>>
    BY <1>6, <2>1 DEF Create, Store, WebAt, Busy
  <2> HIDE DEF q
  <2>3. web' \in [Web -> WebType] /\ WebCopies'
    BY <1>0, <2>1, <2>2 DEF SyncTypeOK, WebType, WebCopies
  <2>4. Handled(s)' /\ \A x \in Sync : Handled(x) => Handled(x)'
    BY <1>0, <2>2 DEF SyncTypeOK, Handled
  <2>5. row' \in [Sync -> Row \cup {Nothing}] /\ \A x \in Sync \ {s} : row'[x] = row[x]
    BY <1>0, <2>1, <2>2 DEF SyncTypeOK
  <2>6. BusyIsHandled'
    BY <1>0, <2>2, <2>4, <2>5 DEF BusyIsHandled, IsBusy
  <2> QED
    BY <1>0, <2>2, <2>3, <2>5, <2>6 DEF SyncInv, SyncTypeOK, JobCopies, CronCopy, resque
<1>7. CASE EnqueueImport(h)
  <2>1. web[h].at = "import" /\ web[h].sync \in Sync
    BY <1>0, <1>7 DEF EnqueueImport, WebAt, WebCopies
  <2>2. web' = [web EXCEPT ![h].at = "mark"] /\ imports' \subseteq Sync
    BY <1>0, <1>7, <2>1 DEF EnqueueImport, WebGo, SyncTypeOK
  <2>3. web' \in [Web -> WebType] /\ WebCopies'
    BY <1>0, <2>1, <2>2 DEF SyncTypeOK, WebType, WebCopies
  <2>4. \A x \in Sync : Handled(x) => Handled(x)'
    BY <1>0, <1>7, <2>1, <2>2 DEF EnqueueImport, Handled, SyncTypeOK, WebType
  <2>5. BusyIsHandled'
    BY <1>0, <1>7, <2>4, RowsAlone DEF EnqueueImport
  <2> QED
    BY <1>0, <1>7, <2>2, <2>3, <2>5
       DEF EnqueueImport, SyncInv, SyncTypeOK, JobCopies, CronCopy, rowVars
<1>8. CASE RefuseImport(h) \/ WebDies(h)
  <2>1. PICK s0 \in Sync : s0 = web[h].sync
    BY <1>0, <1>8 DEF RefuseImport, WebDies, WebAt, WebCopies
  <2>2. /\ web' = [web EXCEPT ![h] = Idle]
        /\ left' = IF IsBusy(s0) THEN left \cup {s0} ELSE left
        /\ deaths' \in 0..MaxDeaths
        /\ UNCHANGED <<row, resque, job, cron, told, deleted, unmarked>>
    BY <1>0, <1>8, <2>1, SynchronizationAssumption DEF RefuseImport, WebDies, WebDone, SyncTypeOK
  <2>3. web' \in [Web -> WebType] /\ WebCopies'
    BY <1>0, <1>1, <2>2 DEF SyncTypeOK, WebCopies, Idle
  <2>4. \A x \in Sync \ {s0} : Handled(x) => Handled(x)'
    BY <1>0, <2>1, <2>2 DEF SyncTypeOK, Handled
  <2>5. BusyIsHandled'
    BY <1>0, <2>2, <2>4 DEF BusyIsHandled, IsBusy
  <2> QED
    BY <1>0, <2>2, <2>3, <2>5 DEF SyncInv, SyncTypeOK, JobCopies, CronCopy, resque
<1>9. CASE MarkQueued(h) \/ StoreQueued(h)
  <2>1. PICK s0 \in Sync : /\ s0 = web[h].sync /\ web[h].row \in Row
                           /\ web[h].row.state = "queued"
    BY <1>0, <1>9 DEF MarkQueued, StoreQueued, WebAt, WebCopies
  <2>2. PICK r \in Row : r.state = "queued" /\ Store(s0, r)
    BY <1>9, <2>1 DEF MarkQueued, StoreQueued
  <2>3. /\ web' \in {[web EXCEPT ![h] = Idle],
                     [web EXCEPT ![h] = [at |-> "count", sync |-> s0, row |-> Nothing]]}
        /\ UNCHANGED <<resque, job, cron, told, deleted, deathVars>>
    BY <1>9, <2>1 DEF MarkQueued, StoreQueued, WebDone
  <2>4. web' \in [Web -> WebType] /\ WebCopies'
    <3>1. [at |-> "count", sync |-> s0, row |-> Nothing] \in WebType
      BY DEF WebType
    <3>2. PICK next \in WebType :
            /\ web' = [web EXCEPT ![h] = next]
            /\ next.at = "idle" \/ (next.at = "count" /\ next.sync \in Sync)
      BY <1>1, <2>3, <3>1 DEF Idle
    <3> QED
      BY <1>0, <3>2 DEF SyncTypeOK, WebCopies
  <2>5. \A x \in Sync \ {s0} : Handled(x) => Handled(x)'
    BY <1>0, <2>1, <2>3 DEF SyncTypeOK, Handled
  <2>6. row' \in [Sync -> Row \cup {Nothing}] /\ left' \subseteq Sync /\ BusyIsHandled'
    BY <1>0, <2>2, <2>5, StoreAtRest DEF Busy
  <2> QED
    BY <1>0, <2>3, <2>4, <2>6 DEF SyncInv, SyncTypeOK, JobCopies, CronCopy, resque
<1>10. CASE StoreUpdate(h)
  <2>1. PICK s0 \in Sync : s0 = web[h].sync /\ web[h].row \in Row
    BY <1>0, <1>10 DEF StoreUpdate, WebAt, WebCopies
  <2>2. /\ web' = [web EXCEPT ![h] = Idle]
        /\ row' = [row EXCEPT ![s0] = web[h].row]
        /\ left' = IF web[h].row.state \notin Busy THEN left \ {s0}
                   ELSE IF IsBusy(s0) THEN left ELSE left \cup {s0}
        /\ UNCHANGED <<resque, job, cron, told, deleted, deathVars>>
    BY <1>10, <2>1 DEF StoreUpdate, WebDone
  <2>3. web' \in [Web -> WebType] /\ WebCopies'
    BY <1>0, <1>1, <2>2 DEF SyncTypeOK, WebCopies, Idle
  <2>4. \A x \in Sync : Handled(x) => Handled(x)'
    BY <1>0, <1>10, <2>2 DEF StoreUpdate, WebAt, SyncTypeOK, Handled
  <2>5. /\ row' \in [Sync -> Row \cup {Nothing}]
        /\ row'[s0] = web[h].row
        /\ \A x \in Sync \ {s0} : row'[x] = row[x]
    BY <1>0, <2>1, <2>2 DEF SyncTypeOK
  <2>6. BusyIsHandled'
    BY <1>0, <2>2, <2>4, <2>5 DEF BusyIsHandled, IsBusy
  <2> QED
    BY <1>0, <2>2, <2>3, <2>5, <2>6 DEF SyncInv, SyncTypeOK, JobCopies, CronCopy, resque
<1> QED
  BY <1>2, <1>3, <1>4, <1>5, <1>6, <1>7, <1>8, <1>9, <1>10 DEF WebStep

LEMMA SyncStep == SyncInv /\ [SyncNext]_syncVars => SyncInv'
<1> SUFFICES ASSUME SyncInv, [SyncNext]_syncVars PROVE SyncInv'
  OBVIOUS
<1>0. SyncTypeOK /\ JobCopies /\ WebCopies /\ CronCopy /\ BusyIsHandled
  BY DEF SyncInv
<1>1. LimitTypeOK'
  BY <1>0, StepUsesLimit, LimitTyped DEF SyncTypeOK
<1>2. CASE CronFetch \/ CronPass \/ CronDies \/ CronFetchAll
  BY <1>1, <1>2, CronKeepsInv
<1>3. CASE \E w \in Worker :
             \/ JobStep(w) \/ WorkerDies(w)
             \/ \E s \in Sync : TakeJob(w, s) \/ TakeImport(w, s)
  BY <1>1, <1>3, WorkersKeepInv
<1>4. CASE \E h \in Web :
             \/ WebStep(h) \/ WebDies(h)
             \/ \E s \in Sync : Create(h, s) \/ SyncNow(h, s) \/ FetchToUpdate(h, s)
  BY <1>1, <1>4, WebKeepsInv
<1>5. ASSUME NEW s \in Sync, Destroy(s) PROVE SyncInv'
  <2>1. SyncTypeOK'
    BY <1>0, <1>1, <1>5 DEF Destroy, SyncTypeOK, resque
  <2>2. JobCopies' /\ WebCopies' /\ CronCopy'
    BY <1>0, <1>5 DEF Destroy, JobCopies, WebCopies, CronCopy
  <2>3. BusyIsHandled'
    BY <1>0, <1>5 DEF Destroy, BusyIsHandled, IsBusy, Handled, SyncTypeOK
  <2> QED
    BY <2>1, <2>2, <2>3 DEF SyncInv
<1>6. CASE SlotsExpire \/ UNCHANGED syncVars
  <2>1. UNCHANGED <<row, left, queue, imports, job, web, cron, told, deleted, deathVars>>
    BY <1>6 DEF SlotsExpire, syncVars, rowVars, resque
  <2>2. SyncTypeOK'
    BY <1>0, <1>1, <2>1 DEF SyncTypeOK
  <2>3. JobCopies' /\ WebCopies' /\ CronCopy' /\ BusyIsHandled'
    BY <1>0, <2>1 DEF JobCopies, WebCopies, CronCopy, BusyIsHandled, IsBusy, Handled
  <2> QED
    BY <2>2, <2>3 DEF SyncInv
<1> QED
  BY <1>2, <1>3, <1>4, <1>5, <1>6 DEF SyncNext, ScheduledNext

(* The rows, the queues and every copy in memory keep their types; a state *)
(* in particular is never read back from a process that holds no row, and  *)
(* retried_times never passes MAX_RETRIES.                                 *)
THEOREM SyncTypeCorrect == SyncSpec => []SyncTypeOK
<1>1. SyncSpec => []SyncInv
  BY SyncInitHolds, SyncStep, PTL DEF SyncSpec
<1>2. SyncInv => SyncTypeOK
  BY DEF SyncInv
<1> QED
  BY <1>1, <1>2, PTL

(* A row in created or syncing, which nobody can start by hand, is always  *)
(* on its way to another state, unless a death, an error while its result  *)
(* was being recorded, a refused import or a stale update left it there.   *)
THEOREM BusyTheorem == SyncSpec => []BusyIsHandled
<1>1. SyncSpec => []SyncInv
  BY SyncInitHolds, SyncStep, PTL DEF SyncSpec
<1>2. SyncInv => BusyIsHandled
  BY DEF SyncInv
<1> QED
  BY <1>1, <1>2, PTL

-----------------------------------------------------------------------------
(* The rake task and the workers alone.                                    *)

Resting(s) == row[s] # Nothing /\ row[s].state \in {"success", "failure"}

(* The jobs of a row, those in Resque and those that run.                  *)
Jobs(s) == queue[s] + Cardinality(Running(s))

(* The rake task has read the row and will push a job of it.               *)
ToPush(s) == s \in cron.todo \/ (cron.at = "enqueue" /\ cron.sync = s)

(* It may still push one, now or in a later pass: the row is at rest, and  *)
(* it is not the one that it has pushed and not marked yet.                *)
Offered(s) == ToPush(s) \/ (Resting(s) /\ ~(cron.at = "mark" /\ cron.sync = s))

NoImports == \A w \in Worker : job[w].at \notin {"importing", "imported"}

(* What may still be pushed has no job, but for one for each time that it  *)
(* was left unmarked.                                                      *)
OfferedIsFree == \A s \in Sync : Offered(s) => Jobs(s) <= unmarked[s]

TodoOnce == cron.at \in {"enqueue", "mark", "count", "push"} => cron.sync \notin cron.todo

(* What the task will not push again, now or after this pass.              *)
ToldIsOut ==
  \A s \in told : unmarked[s] = 0 => Jobs(s) = 0 /\ ~Eligible(s) /\ ~ToPush(s)

ScheduledInv == SyncInv /\ NoImports /\ OneRunAtATime /\ OfferedIsFree /\ TodoOnce /\ ToldIsOut

LEMMA WorkerSets ==
  ASSUME NEW S \in SUBSET Worker
  PROVE  IsFiniteSet(S) /\ Cardinality(S) \in Nat
BY SynchronizationAssumption, FS_Subset, FS_CardinalityType

LEMMA JobsTyped ==
  ASSUME SyncTypeOK, NEW s \in Sync
  PROVE  Jobs(s) \in Nat /\ unmarked[s] \in Nat /\ (Jobs(s) = 0 <=> ~Active(s))
<1>1. Running(s) \in SUBSET Worker
  BY DEF Running
<1>2. Cardinality(Running(s)) \in Nat /\ (Cardinality(Running(s)) = 0 <=> Running(s) = {})
  BY <1>1, WorkerSets, FS_EmptySet
<1>3. queue[s] \in Nat /\ unmarked[s] \in Nat
  BY SynchronizationAssumption DEF SyncTypeOK
<1> QED
  BY <1>2, <1>3 DEF Jobs, Active

LEMMA JobsTypedNext ==
  ASSUME SyncTypeOK', NEW s \in Sync
  PROVE  Jobs(s)' \in Nat /\ unmarked'[s] \in Nat
<1>1. Running(s)' \in SUBSET Worker
  BY DEF Running
<1>2. Cardinality(Running(s)') \in Nat
  BY <1>1, WorkerSets
<1>3. queue'[s] \in Nat /\ unmarked'[s] \in Nat
  BY SynchronizationAssumption DEF SyncTypeOK
<1> QED
  BY <1>2, <1>3 DEF Jobs

LEMMA ScheduledInitHolds == SyncInit => ScheduledInv
<1> SUFFICES ASSUME SyncInit PROVE ScheduledInv
  OBVIOUS
<1>1. /\ \A s \in Sync : queue[s] = 0 /\ unmarked[s] = 0 /\ Running(s) = {}
      /\ NoImports /\ cron = NoPass /\ told = {}
  BY DEF SyncInit, Running, Idle, NoImports
<1>2. \A s \in Sync : Jobs(s) = 0
  BY <1>1, FS_EmptySet DEF Jobs
<1>3. OneRunAtATime /\ OfferedIsFree
  BY <1>1, <1>2 DEF OneRunAtATime, OfferedIsFree, Jobs
<1>4. TodoOnce /\ ToldIsOut
  BY <1>1 DEF TodoOnce, NoPass, ToldIsOut
<1> QED
  BY <1>1, <1>3, <1>4, SyncInitHolds DEF ScheduledInv

(* A step of the rake task that pushes and marks nothing, and after which  *)
(* it may push only what it might before.                                  *)
LEMMA OffersFall ==
  ASSUME ScheduledInv, SyncInv', UNCHANGED <<row, queue, job, told>>,
         \A s \in Sync : unmarked'[s] \in Nat /\ unmarked'[s] >= unmarked[s],
         \A s \in Sync : Offered(s)' => Offered(s) \/ unmarked'[s] > unmarked[s],
         \A s \in Sync : ToPush(s)' => Eligible(s) \/ ToPush(s),
         TodoOnce'
  PROVE  ScheduledInv'
<1>0. /\ SyncTypeOK /\ NoImports /\ OneRunAtATime /\ OfferedIsFree /\ ToldIsOut
      /\ told \subseteq Sync
  BY DEF ScheduledInv, SyncInv, SyncTypeOK
<1>1. \A s \in Sync : /\ Jobs(s)' = Jobs(s) /\ Jobs(s) \in Nat /\ unmarked[s] \in Nat
                      /\ Eligible(s)' = Eligible(s)
  BY <1>0, JobsTyped DEF Jobs, Running, Eligible
<1>2. \A s \in Sync : Jobs(s) <= 1 + unmarked[s]
  BY <1>0 DEF OneRunAtATime, Jobs
<1>3. OneRunAtATime'
  BY <1>1, <1>2 DEF OneRunAtATime, Jobs
<1>4. OfferedIsFree'
  BY <1>0, <1>1, <1>2 DEF OfferedIsFree
<1>5. ToldIsOut'
  BY <1>0, <1>1 DEF ToldIsOut
<1> QED
  BY <1>0, <1>3, <1>4, <1>5 DEF ScheduledInv, NoImports

LEMMA CronKeepsOrder ==
  ASSUME ScheduledInv, SyncInv', CronFetch \/ CronPass \/ CronDies
  PROVE  ScheduledInv'
<1>0. /\ SyncTypeOK /\ CronCopy /\ NoImports /\ OneRunAtATime /\ OfferedIsFree /\ TodoOnce
      /\ ToldIsOut /\ told \subseteq Sync /\ cron \in CronType
  BY DEF ScheduledInv, SyncInv, SyncTypeOK
<1>1. \A s \in Sync : Jobs(s) \in Nat /\ unmarked[s] \in Nat /\ Jobs(s) <= 1 + unmarked[s]
  BY <1>0, JobsTyped DEF OneRunAtATime, Jobs
<1>2. CASE CronFetch
  <2>1. PICK todo \in SUBSET {s \in Sync : Eligible(s)} :
          cron' = [at |-> "each", sync |-> Nothing, todo |-> todo, pass |-> "due"]
    BY <1>2 DEF CronFetch
  <2>2. cron.at = "idle" /\ UNCHANGED <<row, queue, job, told, unmarked>>
    BY <1>2 DEF CronFetch, rowVars, resque
  <2>3. \A s \in Sync : Offered(s)' => Offered(s)
    BY <2>1, <2>2 DEF Offered, ToPush, Resting, Eligible
  <2>4. TodoOnce'
    BY <2>1 DEF TodoOnce
  <2> QED
    BY <1>1, <2>1, <2>2, <2>3, <2>4, OffersFall DEF ToPush
<1>3. ASSUME NEW s \in Sync, CronPick(s) PROVE ScheduledInv'
  <2>1. /\ cron.at = "each" /\ s \in cron.todo /\ UNCHANGED <<row, queue, job, told, unmarked>>
    BY <1>3 DEF CronPick, rowVars, resque
  <2>2. \/ cron' = NoPass
        \/ cron' = [cron EXCEPT !.todo = cron.todo \ {s}]
        \/ cron' = [at |-> "enqueue", sync |-> s, todo |-> cron.todo \ {s}, pass |-> cron.pass]
    BY <1>3 DEF CronPick
  <2>3. /\ cron'.todo \subseteq cron.todo \ {s}
        /\ cron'.at = "enqueue" => cron'.sync = s
        /\ cron'.at \in {"idle", "each", "enqueue"}
    BY <1>0, <2>1, <2>2 DEF NoPass, CronType
  <2>4. \A x \in Sync : Offered(x)' => Offered(x)
    BY <2>1, <2>3 DEF Offered, ToPush, Resting
  <2>5. TodoOnce'
    BY <2>3 DEF TodoOnce
  <2> QED
    BY <1>1, <2>1, <2>3, <2>4, <2>5, OffersFall DEF ToPush
<1>4. CASE CronEnqueue
  <2>1. PICK s0 \in Sync : s0 = cron.sync /\ s0 \notin cron.todo /\ Offered(s0)
    BY <1>0, <1>4 DEF CronEnqueue, CronCopy, TodoOnce, Offered, ToPush
  <2>2. /\ queue' = [queue EXCEPT ![s0] = @ + 1]
        /\ cron' = [cron EXCEPT !.at = "mark"]
        /\ cron.at = "enqueue"
        /\ UNCHANGED <<row, job, told, unmarked>>
    BY <1>4, <2>1 DEF CronEnqueue, Enqueue, rowVars
  <2>3. cron'.at = "mark" /\ cron'.sync = s0 /\ cron'.todo = cron.todo
    BY <1>0, <2>1, <2>2 DEF CronType
  <2>4. /\ Jobs(s0)' = Jobs(s0) + 1
        /\ \A x \in Sync \ {s0} : Jobs(x)' = Jobs(x)
    <3>1. queue'[s0] = queue[s0] + 1 /\ queue[s0] \in Nat
          /\ \A x \in Sync \ {s0} : queue'[x] = queue[x]
      BY <1>0, <2>1, <2>2, SynchronizationAssumption DEF SyncTypeOK
    <3>2. \A x \in Sync : Running(x)' = Running(x)
      BY <2>2 DEF Running
    <3>3. Cardinality(Running(s0)) \in Nat
      BY WorkerSets DEF Running
    <3> QED
      BY <3>1, <3>2, <3>3 DEF Jobs
  <2>5. Jobs(s0) <= unmarked[s0]
    BY <1>0, <2>1 DEF OfferedIsFree
  <2>6. \A x \in Sync : Jobs(x)' <= 1 + unmarked[x]
    BY <1>1, <2>4, <2>5
  <2>7. OneRunAtATime'
    BY <2>2, <2>6 DEF OneRunAtATime, Jobs
  <2>8. \A x \in Sync : Offered(x)' => x # s0 /\ Offered(x)
    BY <2>1, <2>2, <2>3 DEF Offered, ToPush, Resting
  <2>9. OfferedIsFree'
    BY <1>0, <2>2, <2>4, <2>8 DEF OfferedIsFree
  <2>10. ToldIsOut'
    BY <1>0, <2>1, <2>2, <2>3, <2>4 DEF ToldIsOut, ToPush, Eligible
  <2>11. TodoOnce' /\ NoImports'
    BY <1>0, <2>1, <2>2, <2>3 DEF TodoOnce, NoImports
  <2> QED
    BY <2>7, <2>9, <2>10, <2>11 DEF ScheduledInv
<1>5. CASE CronMark
  <2>1. PICK s0 \in Sync : s0 = cron.sync /\ s0 \notin cron.todo
    BY <1>0, <1>5 DEF CronMark, CronCopy, TodoOnce
  <2>2. /\ UNCHANGED <<queue, job, told, unmarked>> /\ cron.at = "mark"
        /\ cron'.at \in {"idle", "each", "count"} /\ cron'.todo \subseteq cron.todo
        /\ cron'.at = "count" => cron'.sync = s0
    BY <1>0, <1>5, <2>1 DEF CronMark, CronNextRecord, NoPass, resque, CronType
  <2>3. ~Resting(s0)' /\ ~Eligible(s0)' /\ \A x \in Sync \ {s0} : row'[x] = row[x]
    <3>1. CASE row[s0] = Nothing
      BY <1>5, <2>1, <3>1 DEF CronMark, rowVars, Resting, Eligible
    <3>2. CASE row[s0] # Nothing
      BY <1>0, <1>5, <2>1, <3>2 DEF CronMark, Store, SyncTypeOK, Resting, Eligible, Row
    <3> QED
      BY <3>1, <3>2
  <2>4. \A x \in Sync : Jobs(x)' = Jobs(x)
    BY <2>2 DEF Jobs, Running
  <2>5. OneRunAtATime' /\ NoImports'
    BY <1>0, <2>2, <2>4 DEF OneRunAtATime, NoImports, Jobs
  <2>6. \A x \in Sync : Offered(x)' => Offered(x)
    BY <2>1, <2>2, <2>3 DEF Offered, ToPush, Resting
  <2>7. OfferedIsFree'
    BY <1>0, <2>2, <2>4, <2>6 DEF OfferedIsFree
  <2>8. TodoOnce'
    BY <2>1, <2>2 DEF TodoOnce
  <2>9. ToldIsOut'
    <3>1. \A x \in Sync : Eligible(x)' => Eligible(x)
      BY <2>3 DEF Eligible
    <3>2. \A x \in Sync : ToPush(x)' => ToPush(x)
      BY <2>2 DEF ToPush
    <3> QED
      BY <1>0, <2>2, <2>4, <3>1, <3>2 DEF ToldIsOut
  <2> QED
    BY <2>5, <2>7, <2>8, <2>9 DEF ScheduledInv
<1>6. CASE CronIncrease \/ CronPush
  <2>1. UNCHANGED <<row, queue, job, told, unmarked>> /\ cron.at \in {"count", "push"}
    BY <1>6 DEF CronIncrease, CronPush, rowVars, resque
  <2>2. cron' \in {cron, NoPass, [cron EXCEPT !.at = "push"],
                   [at |-> "each", sync |-> Nothing, todo |-> cron.todo, pass |-> cron.pass]}
    BY <1>6 DEF CronIncrease, CronPush, CronNextRecord
  <2>3. /\ cron'.todo \subseteq cron.todo /\ cron'.at \in {"idle", "each", "count", "push"}
        /\ cron'.at \in {"count", "push"} => cron'.sync = cron.sync
    BY <1>0, <2>1, <2>2 DEF NoPass, CronType
  <2>4. \A x \in Sync : Offered(x)' => Offered(x)
    BY <2>1, <2>3 DEF Offered, ToPush, Resting
  <2>5. TodoOnce'
    BY <1>0, <2>1, <2>3 DEF TodoOnce
  <2> QED
    BY <1>1, <2>1, <2>3, <2>4, <2>5, OffersFall DEF ToPush
<1>7. CASE CronDies
  <2>1. cron' = NoPass /\ UNCHANGED <<row, queue, job, told>>
    BY <1>7 DEF CronDies, rowVars, resque
  <2>2. unmarked' = IF cron.at = "mark" THEN [unmarked EXCEPT ![cron.sync] = @ + 1] ELSE unmarked
    BY <1>7 DEF CronDies
  <2>3. \A s \in Sync : unmarked'[s] \in Nat /\ unmarked'[s] >= unmarked[s]
    BY <1>0, <1>1, <2>2 DEF SyncTypeOK
  <2>4. \A s \in Sync : cron.at = "mark" /\ cron.sync = s => unmarked'[s] > unmarked[s]
    BY <1>0, <1>1, <2>2 DEF SyncTypeOK
  <2>5. cron'.at = "idle" /\ cron'.todo = {}
    BY <2>1 DEF NoPass
  <2>6. \A s \in Sync : Offered(s)' => Offered(s) \/ unmarked'[s] > unmarked[s]
    BY <2>1, <2>4, <2>5 DEF Offered, ToPush, Resting
  <2>7. TodoOnce'
    BY <2>5 DEF TodoOnce
  <2> QED
    BY <2>1, <2>3, <2>5, <2>6, <2>7, OffersFall DEF ToPush
<1> QED
  BY <1>2, <1>3, <1>4, <1>5, <1>6, <1>7 DEF CronPass

(* A step of a worker adds no job; a row that it leaves at rest, or whose  *)
(* owner it tells, has one job less.                                       *)
LEMMA JobsFall ==
  ASSUME ScheduledInv, SyncInv', NoImports', UNCHANGED <<cron, unmarked>>,
         \A s \in Sync : Jobs(s)' <= Jobs(s),
         \A s \in Sync : Resting(s)' => Resting(s) \/ Jobs(s)' < Jobs(s),
         \A s \in told' :
           \/ s \in told /\ (Jobs(s) = 0 => row'[s] = row[s])
           \/ Jobs(s)' < Jobs(s) /\ ~Eligible(s)'
  PROVE  ScheduledInv'
<1>0. /\ SyncTypeOK /\ OneRunAtATime /\ OfferedIsFree /\ TodoOnce /\ ToldIsOut
      /\ SyncTypeOK' /\ told' \subseteq Sync
  BY DEF ScheduledInv, SyncInv, SyncTypeOK
<1>1. \A s \in Sync : Jobs(s) \in Nat /\ unmarked[s] \in Nat /\ Jobs(s) <= 1 + unmarked[s]
  BY <1>0, JobsTyped DEF OneRunAtATime, Jobs
<1>2. \A s \in Sync : Jobs(s)' \in Nat
  BY <1>0, JobsTypedNext
<1>3. \A s \in Sync : Jobs(s)' <= 1 + unmarked'[s]
  BY <1>1, <1>2
<1>4. OneRunAtATime' /\ TodoOnce'
  BY <1>0, <1>3 DEF OneRunAtATime, TodoOnce, Jobs
<1>5. OfferedIsFree'
  <2> SUFFICES ASSUME NEW s \in Sync, Offered(s)' PROVE Jobs(s)' <= unmarked[s]
    BY DEF OfferedIsFree
  <2>1. CASE Offered(s)
    BY <1>0, <1>1, <1>2, <2>1 DEF OfferedIsFree
  <2>2. CASE ~Offered(s)
    <3>1. Jobs(s)' < Jobs(s)
      BY <2>2 DEF Offered, ToPush
    <3> QED
      BY <1>1, <1>2, <3>1
  <2> QED
    BY <2>1, <2>2
<1>6. ToldIsOut'
  <2> SUFFICES ASSUME NEW s \in told', unmarked[s] = 0
               PROVE  Jobs(s)' = 0 /\ ~Eligible(s)' /\ ~ToPush(s)
    BY DEF ToldIsOut, ToPush
  <2>0. s \in Sync
    BY <1>0
  <2>1. CASE s \in told /\ (Jobs(s) = 0 => row'[s] = row[s])
    <3>1. Jobs(s) = 0 /\ ~Eligible(s) /\ ~ToPush(s)
      BY <1>0, <2>1 DEF ToldIsOut
    <3>2. ~Eligible(s)'
      BY <2>1, <3>1 DEF Eligible
    <3>3. Jobs(s)' = 0
      BY <1>2, <2>0, <3>1
    <3> QED
      BY <3>1, <3>2, <3>3
  <2>2. CASE Jobs(s)' < Jobs(s) /\ ~Eligible(s)'
    <3>1. Jobs(s)' = 0 /\ ~(Jobs(s) <= unmarked[s])
      BY <1>1, <1>2, <2>0, <2>2
    <3>2. ~Offered(s)
      BY <1>0, <2>0, <3>1 DEF OfferedIsFree
    <3> QED
      BY <2>2, <3>1, <3>2 DEF Offered
  <2> QED
    BY <2>1, <2>2
<1> QED
  BY <1>4, <1>5, <1>6 DEF ScheduledInv

(* Jobs that a worker no longer runs.                                      *)
LEMMA RunsFall ==
  ASSUME SyncTypeOK, NEW w \in Worker, UNCHANGED queue,
         NEW r, job' = [job EXCEPT ![w] = r], r.at \notin {"start", "syncing"}
  PROVE  \A s \in Sync : /\ Jobs(s)' <= Jobs(s)
                         /\ w \in Running(s) => Jobs(s)' < Jobs(s)
<1> SUFFICES ASSUME NEW s \in Sync
             PROVE  Jobs(s)' <= Jobs(s) /\ (w \in Running(s) => Jobs(s)' < Jobs(s))
  OBVIOUS
<1>1. job'[w] = r /\ \A v \in Worker \ {w} : job'[v] = job[v]
  BY DEF SyncTypeOK
<1>2. Running(s)' = Running(s) \ {w} /\ Running(s) \in SUBSET Worker
  BY <1>1 DEF Running
<1>3. /\ Cardinality(Running(s)) \in Nat
      /\ Cardinality(Running(s)') =
           IF w \in Running(s) THEN Cardinality(Running(s)) - 1 ELSE Cardinality(Running(s))
  BY <1>2, WorkerSets, FS_RemoveElement
<1>4. queue[s] \in Nat
  BY SynchronizationAssumption DEF SyncTypeOK
<1> QED
  BY <1>3, <1>4 DEF Jobs

LEMMA WorkersKeepOrder ==
  ASSUME ScheduledInv, SyncInv', NEW w \in Worker,
         (\E s \in Sync : TakeJob(w, s)) \/ JobStep(w) \/ WorkerDies(w)
  PROVE  ScheduledInv'
<1>0. SyncTypeOK /\ JobCopies /\ NoImports /\ told \subseteq Sync
  BY DEF ScheduledInv, SyncInv, SyncTypeOK
<1>1. \A s \in Sync : Jobs(s) \in Nat /\ (w \in Running(s) => Jobs(s) # 0)
  BY <1>0, JobsTyped DEF Active
<1>2. ASSUME NEW s \in Sync, TakeJob(w, s) PROVE ScheduledInv'
  <2>1. /\ queue[s] \in Nat \ {0} /\ queue'[s] = queue[s] - 1 /\ w \notin Running(s)
        /\ \A x \in Sync \ {s} : queue'[x] = queue[x]
        /\ UNCHANGED <<row, cron, told, unmarked>>
    BY <1>0, <1>2, SynchronizationAssumption DEF TakeJob, SyncTypeOK, rowVars, JobAt, Running
  <2>2. /\ Running(s)' \subseteq Running(s) \cup {w}
        /\ \A x \in Sync \ {s} : Running(x)' = Running(x)
        /\ NoImports'
    <3>1. CASE row[s] = Nothing
      BY <1>0, <1>2, <2>1, <3>1 DEF TakeJob, Running, NoImports
    <3>2. CASE row[s] # Nothing
      <4>1. PICK r : job' = [job EXCEPT ![w] = [at |-> "start", sync |-> s, row |-> r]]
        BY <1>2, <3>2 DEF TakeJob
      <4>2. /\ job'[w].at = "start" /\ job'[w].sync = s
            /\ \A v \in Worker \ {w} : job'[v] = job[v]
        BY <1>0, <4>1 DEF SyncTypeOK
      <4> QED
        BY <1>0, <1>2, <2>1, <4>2 DEF TakeJob, JobAt, Running, NoImports
    <3> QED
      BY <3>1, <3>2
  <2>3. Cardinality(Running(s)') <= Cardinality(Running(s)) + 1
    <3>1. Running(s) \in SUBSET Worker /\ Running(s)' \in SUBSET Worker
      BY DEF Running
    <3>2. IsFiniteSet(Running(s) \cup {w})
          /\ Cardinality(Running(s) \cup {w}) = Cardinality(Running(s)) + 1
      BY <2>1, <3>1, WorkerSets, FS_AddElement
    <3> QED
      BY <2>2, <3>2, FS_Subset
  <2>4. \A x \in Sync : Jobs(x)' <= Jobs(x)
    <3>1. /\ Cardinality(Running(s)) \in Nat /\ Cardinality(Running(s)') \in Nat
      BY WorkerSets DEF Running
    <3>2. Jobs(s)' <= Jobs(s)
      BY <2>1, <2>3, <3>1 DEF Jobs
    <3>3. \A x \in Sync \ {s} : Jobs(x)' = Jobs(x)
      BY <2>1, <2>2 DEF Jobs
    <3> QED
      BY <1>1, <3>2, <3>3
  <2> QED
    BY <2>1, <2>2, <2>4, JobsFall DEF Resting
<1>3. CASE StoreSyncing(w)
  <2>1. PICK s0 \in Sync : s0 = job[w].sync /\ job[w].row \in Row /\ job[w].row.state = "syncing"
    BY <1>0, <1>3 DEF StoreSyncing, JobAt, JobCopies
  <2>2. /\ w \in Running(s0) /\ UNCHANGED <<queue, cron, told, unmarked>>
        /\ job' = [job EXCEPT ![w].at = "syncing"] /\ job[w].at = "start"
        /\ row' = [row EXCEPT ![s0] = job[w].row]
    BY <1>3, <2>1 DEF StoreSyncing, JobAt, JobGo, Store, Running, resque
  <2>3. ~Resting(s0)' /\ \A x \in Sync \ {s0} : row'[x] = row[x]
    BY <1>0, <2>1, <2>2 DEF SyncTypeOK, Resting
  <2>4. /\ job'[w].at = "syncing" /\ job'[w].sync = job[w].sync
        /\ \A v \in Worker \ {w} : job'[v] = job[v]
    BY <1>0, <2>2 DEF SyncTypeOK, JobType
  <2>5. NoImports' /\ \A x \in Sync : Running(x)' = Running(x)
    BY <1>0, <2>2, <2>4 DEF NoImports, Running
  <2>6. \A x \in Sync : Jobs(x)' = Jobs(x)
    BY <2>2, <2>5 DEF Jobs
  <2> QED
    BY <1>0, <1>1, <2>2, <2>3, <2>5, <2>6, JobsFall DEF Resting
<1>4. CASE Succeed(w) \/ Fail(w) \/ ResultLost(w)
  <2>1. PICK s0 \in Sync : s0 = job[w].sync
    BY <1>0, <1>4 DEF Succeed, Fail, ResultLost, JobAt, JobCopies
  <2> DEFINE r == [at |-> "release", sync |-> s0, row |-> Nothing]
  <2>2. /\ w \in Running(s0) /\ UNCHANGED <<queue, cron, unmarked>>
        /\ job' = [job EXCEPT ![w] = r]
    BY <1>4, <2>1 DEF Succeed, Fail, ResultLost, JobAt, JobResult, Running, resque
  <2>3. r.at = "release"
    OBVIOUS
  <2> HIDE DEF r
  <2>4. \A x \in Sync : Jobs(x)' <= Jobs(x)
    BY <1>0, <2>2, <2>3, RunsFall
  <2>5. Jobs(s0)' < Jobs(s0)
    BY <1>0, <2>2, <2>3, RunsFall
  <2>6. \A x \in Sync \ {s0} : row'[x] = row[x]
    BY <1>0, <1>4, <2>1 DEF Succeed, Fail, ResultLost, Store, SyncTypeOK
  <2>7. NoImports'
    BY <1>0, <2>2, <2>3 DEF NoImports, SyncTypeOK
  <2>8. told' \subseteq told \/ (told' = told \cup {s0} /\ ~Eligible(s0)')
    <3>1. CASE Succeed(w) \/ ResultLost(w)
      BY <3>1 DEF Succeed, ResultLost
    <3>2. CASE Fail(w)
      <4>1. \/ told' = told
            \/ /\ told' = told \cup {s0}
               /\ Store(s0, [state |-> "failure", retries |-> MaxRetries])
        BY <2>1, <3>2 DEF Fail
      <4>2. ASSUME Store(s0, [state |-> "failure", retries |-> MaxRetries]) PROVE ~Eligible(s0)'
        <5>1. row'[s0] = [state |-> "failure", retries |-> MaxRetries]
          BY <1>0, <4>2 DEF Store, SyncTypeOK
        <5> QED
          BY <5>1, SynchronizationAssumption DEF Eligible
      <4> QED
        BY <4>1, <4>2
    <3> QED
      BY <1>4, <3>1, <3>2
  <2>9. \A x \in told' : \/ x \in told /\ (Jobs(x) = 0 => row'[x] = row[x])
                         \/ Jobs(x)' < Jobs(x) /\ ~Eligible(x)'
    BY <1>0, <1>1, <2>2, <2>5, <2>6, <2>8
  <2>10. \A x \in Sync : Resting(x)' => Resting(x) \/ Jobs(x)' < Jobs(x)
    BY <2>5, <2>6 DEF Resting
  <2> QED
    BY <2>2, <2>4, <2>7, <2>9, <2>10, JobsFall
<1>5. CASE Release(w) \/ WorkerDies(w)
  <2>1. job' = [job EXCEPT ![w] = Idle] /\ UNCHANGED <<row, queue, cron, told, unmarked>>
    BY <1>5 DEF Release, WorkerDies, JobDone, rowVars, resque
  <2>2. Idle.at = "idle"
    BY DEF Idle
  <2>3. \A x \in Sync : Jobs(x)' <= Jobs(x)
    BY <1>0, <2>1, <2>2, RunsFall
  <2>4. NoImports'
    BY <1>0, <2>1, <2>2 DEF NoImports, SyncTypeOK
  <2> QED
    BY <2>1, <2>3, <2>4, JobsFall DEF Resting
<1>6. ~(ImportWithoutResult(w) \/ ImportFetch(w) \/ ImportStore(w))
  BY <1>0 DEF ImportWithoutResult, ImportFetch, ImportStore, JobAt, NoImports
<1> QED
  BY <1>2, <1>3, <1>4, <1>5, <1>6 DEF JobStep

LEMMA ScheduledStep == ScheduledInv /\ [ScheduledNext]_syncVars => ScheduledInv'
<1> SUFFICES ASSUME ScheduledInv, [ScheduledNext]_syncVars PROVE ScheduledInv'
  OBVIOUS
<1>1. SyncInv'
  BY SyncStep DEF SyncNext, ScheduledInv
<1>2. CASE CronFetch \/ CronPass \/ CronDies
  BY <1>1, <1>2, CronKeepsOrder
<1>3. CASE \E w \in Worker : (\E s \in Sync : TakeJob(w, s)) \/ JobStep(w) \/ WorkerDies(w)
  BY <1>1, <1>3, WorkersKeepOrder
<1>4. CASE UNCHANGED syncVars
  <2>1. UNCHANGED <<row, queue, job, cron, told, unmarked>>
    BY <1>4 DEF syncVars
  <2> QED
    BY <1>1, <2>1
       DEF ScheduledInv, NoImports, OneRunAtATime, OfferedIsFree, TodoOnce, ToldIsOut,
           Offered, ToPush, Resting, Eligible, Jobs, Running
<1> QED
  BY <1>2, <1>3, <1>4 DEF ScheduledNext

LEMMA ScheduledSafety == ScheduledSpec => []ScheduledInv
BY ScheduledInitHolds, ScheduledStep, PTL DEF ScheduledSpec

(* One rake task at a time needs no lock on the rows: though it reads them *)
(* all before it enqueues the first, marks each only after enqueueing it,  *)
(* dies and raises anywhere, and workers take, run, lose and retry jobs    *)
(* meanwhile, a synchronization has at most one job, waiting or running,   *)
(* and one more for each time that the task ended between the push of its  *)
(* job and its mark.                                                       *)
THEOREM OneRunTheorem == ScheduledSpec => []OneRunAtATime
<1>1. ScheduledInv => OneRunAtATime
  BY DEF ScheduledInv
<1> QED
  BY <1>1, ScheduledSafety, PTL

(* The mail is the last that is heard of a synchronization: whatever the   *)
(* task had read, pushed or marked when it was sent, the row has no job and*)
(* gets none from the task, unless it was left unmarked.                   *)
THEOREM ToldIsLastTheorem == ScheduledSpec => []ToldIsLast
<1>1. ScheduledInv => ToldIsLast
  <2> SUFFICES ASSUME ScheduledInv, NEW s \in told, unmarked[s] = 0 PROVE ~Active(s)
    BY DEF ToldIsLast
  <2>1. SyncTypeOK /\ s \in Sync /\ Jobs(s) = 0
    BY DEF ScheduledInv, SyncInv, SyncTypeOK, ToldIsOut
  <2> QED
    BY <2>1, JobsTyped
<1> QED
  BY <1>1, ScheduledSafety, PTL

=============================================================================
