# A TLA+ verification of CartoDB

CartoDB is a Rails application (`app/`, `lib/`) with Ruby services under
`services/`, Resque workers, rake tasks run by cron, PostgreSQL databases for
metadata and for each user's tables, Redis for locks, limits, queues and caches,
and a large JavaScript client under `lib/assets/javascripts`. What is hard in it
is not any single algorithm. On the server, web processes, workers and cron tasks
read rows and Redis keys, go away to do something long, and write back what they
decided with no lock between. In the browser, models answer each other's events
while requests are under way whose answers come in any order, or not at all. These
modules are about that.

1. [Inventory](#inventory)
2. [Modules](#modules)
3. [Runs](#runs)
4. [Proofs](#proofs)
5. [Deviations](#deviations)
6. [Not modelled](#not-modelled)
7. [Plan](#plan)

## Inventory

`PROJECT.json` lists every component with its sources and status, and every
hazard at the line where it bites. The components with state of their own:

| Component | State | Operations | Hard behaviour | What makes it correct |
|---|---|---|---|---|
| **Bolt** (`lib/carto/bolt.rb`) | a Redis key with a TTL and a retry flag beside it | `run_locked`: attempts, `retried`, the block, `unlock`, `fail_function` | leases that end under their holder, `DEL` by whoever unlocks, dead holders | mutual exclusion while leases last, bounded damage when they do not; the key goes |
| **Ghost tables** (`lib/carto/ghost_tables_manager.rb`) | rows of `user_tables` against the tables of the user's database | link in the request or in a job, under Bolt | decisions taken outside the mutex, callers that go on without it, SQL at any time | rows and tables agree in the end; no map is destroyed whose table is there |
| **Importer and adapter** (`app/connectors/importer.rb`, `synchronization/adapter.rb`) | the user's tables, their oids and rows | register, overwrite, swap | swap, cartodbfication and metadata in separate steps, with the mutex or without | as ghost tables |
| **Synchronizations** (`app/models/synchronization/`, `services/synchronizer`) | rows of `synchronizations` (state, `retried_times`), jobs in Resque, copies of rows in memory | rake passes, create, sync now, update, destroy, the job's run, the first import's store | whole rows written back from older copies; jobs enqueued before rows are marked; dead workers and rake tasks | no table synchronized twice at once; no attempt after the owner is told that there are no more; no row busy in nobody's hands; a run stores a result |
| **Concurrent synchronizations limit** (`services/platform-limits`) | a Redis list with an expiry | check, increase (`EXISTS`, push), decrease | three commands that others get in between; expiry whatever is in use | bounded excess |
| **Data imports** (`app/models/data_import.rb`, its controller, service, job and upload task) | rows of `data_imports`, jobs in Resque | create, upload, run, success, failure, retry, stuck checks | polls that declare an import stuck while its worker goes on; retries of what has failed; errors inside the handlers of errors; uploads that fail | slots returned, nothing forgotten, final states final, jobs end |
| **Concurrent imports limit** (`services/platform-limits`) | a Redis list with an expiry | increase, then check, decrease | as above, and two processes giving one slot back | the list counts nothing twice |
| **Layers, analyses and widgets of the builder** (`builder/data/user-actions.js` and the collections it changes) | a graph of nodes named by layer letter and number, layers on it, saved analyses, widgets | add, edit, delete an analysis; drag a node out; create, move, delete a layer; add a widget | renaming half a graph while others refer to it; answers that come after the letters have changed hands | no reference dangles; rearranging changes nothing that is shown; ids are fresh |
| **Import polling** (`dashboard/data/background-polling`, `builder/data/background-importer`) | items, their pollers and timers, the timer of the list | add, close, poll, poll the list, pause, resume | late and lost answers, two pollers of one import, timers that outlive their stop | each import is shown to its true end |
| **Query objects** (`builder/data/query-*.js`) | status and contents of the schema, geometry and rows of a node; requests under way | apply a query, alter data, fetch all, abort | a new request aborts the old one, whose handlers run inside the new fetch | what is shown is of the query applied; nothing loads for ever; who waits is answered |
| **Privacy and permissions** | privacy of the table, of its visualization, grants, caches | change, propagate, revert, invalidate | a revert that fails, caches filled between commit and purge | the database never shows what the metadata hides |
| **OAuth provider** | codes, access and refresh tokens, roles | authorize, exchange, refresh, revoke | checks outside the transaction | a code is exchanged once, tokens are bounded |
| **User creation, user migration** | state machines of long jobs | transitions, rollback | failing from inside a transition, dying between steps | no half user after a failure |
| **Connection pool** (`lib/cartodb/connection_pool.rb`) | open connections of a process | fetch, evict, close | evicting what is in use | bounded, nothing leaks |

The last four are not modelled (see [Plan](#plan)).

They interact through shared state. Ghost tables, importer and adapter share the
user's tables and one Bolt per user: the importer registers under it, and
without it when it cannot get it. Synchronizations, imports and ghost tables queue
jobs in Resque; a synchronization makes its first import through a `DataImport`,
whose `handle_success` and `handle_failure` give back an import slot. The
controllers answer polls by asking the Resque workers and writing `data_imports`;
the pollers of the browser read the same states as answers. In the builder, user
actions make and destroy nodes, and the query objects of a source node feed the
editor, the table and the layer.

## Modules

```
LeasedMutex   <- refined by -  Bolt  <-  BoltProofs, MCBolt
                               Bolt  <-  GhostTables  <-  GhostTablesProofs, MCGhostTables
SyncLimit     <- Synchronization     <-  SynchronizationProofs, MCSynchronization
ImportLimit   <- DataImports         <-  DataImportsProofs, MCDataImports
AnalysisNodes <- UserActions         <-  UserActionsProofs <- UserActionsNodesProofs, MCUserActions
                 ImportPolling       <-  ImportPollingProofs, MCImportPolling
                 QueryObjects        <-  QueryObjectsProofs, MCQueryObjects
```

On the server an action is what a process does between two points where others
can get in: a Redis command, a save of a row, a statement or transaction of SQL, a
command to Resque, the end of a download or of a block. What Ruby does with its own
memory in between is part of the action. In the browser an action is one event, a
click, a timer or an answer, with every handler that runs before it returns.
`PROJECT.json`, "map", names the lines of every definition.

**Bolt** (`Bolt.tla`, `LeasedMutex.tla`). Each Redis command is a step: `SET key
true PX ttl NX` (`GetLock`, `MissLock`), `DEL key:retry` (`Retried`), `DEL key`
(`Unlock`), `GETSET key:retry true` (`SetRetry`); then `sleep` (`Wake`), the
block (`Finish`) and the caller's `fail_function`. Redis expires the key at any
time (`Expire`) and a process may die anywhere (`Crash`). The key has no owner in
Redis: `lock` records who created it so that properties can speak of it, and no
action of the code reads the owner. `LeasedMutex` is the promise: one caller
inside, plus one for each lease that ended under its holder.

**GhostTables** extends `Bolt` and takes every action of it: `Acquire`, `Denied`,
`Enqueue` (the `fail_function`), `EndSync`, `EndRegister` and `Release` are Bolt's
actions with what the caller does at that point. `tables`, `linkable` and `made` are the
user's database (an oid is never used again; a table is seen by ghost tables once it is
cartodbfied), `rows` the `user_tables` with the identity of the map each belongs to. A
*linker* is a request that lists the visualizations (`Visit`, `Look`: the decision
outside the mutex) or a worker (`Perform`); inside it fetches the tables, then the rows
(`FetchTables`, `FetchRows`), and applies the four kinds of change one statement at a
time (`Regenerate`, `RenameRow`, `CreateRow`, `DropRow`). `AlteredTables` is
`fetch_altered_tables`: the walk along two sorted lists is stated as the sets it
computes, with a choice where rows share an oid, and it raises where a row has lost its
(`Incomparable`). A *registrar* is an import, a synchronization, or one that takes no
lock (a new table, an import from a query): `MoveTable`/`SwapIn`/`Replace`, then
`Cartodbfy`, then `Insert` or `FixOid`, each a transaction of its own as in the code.
What a synchronization brings in has a name that no other run has (`importer_<id>`,
`TempName`) until it is swapped. The user's SQL makes, renames and drops tables at any
time. `spoilt` is history: who has changed what a linker had fetched.

**SyncLimit, Synchronization.** `row` is the table, `queue` the
`SynchronizationJobs` in Resque, `imports` the first imports. `job`, `web` and
`cron` hold what each process does and the row *as it fetched it*, since
`Member#store` writes every column: a store is `row' = copy`. `Store` is the
upsert of `sequel.rb`. The rake task reads all its rows before it enqueues the
first (`CronFetch`, `CronPick`), and pushes a job before it marks its row
(`CronEnqueue`, `CronMark`). `SyncLimit` has the commands of
`UserConcurrentSyncsAmount` one by one. There is no clock: a row whose `run_at`
has passed is any row, so a step that waits for a time may happen at any time.
Workers, web processes and the rake task may die anywhere, and the rake task, whose
commands nothing rescues, ends in the same way when one of them raises (`CronDies`).
`left`, `told` and `unmarked` are history: rows that a death or an error left busy,
rows whose owner was mailed that the attempts are exhausted, and how often the rake
task ended between the push of a row's job and the mark of the row. `Fail` counts a
failure as the code does: once, twice when something raises after the first count
(the rescue of `run` calls the handler again), or anew when a success could not be stored.

**ImportLimit, DataImports.** `row` is the state of each row of `data_imports`, `jobs`
the jobs of `ImporterJobs`. `req` is `ImportsController#create` (increase, then look at
the length, then create, then enqueue; the rescue gives the slot back) and the create of
synchronizations, which takes no slot; `run` is `BaseJob.run_action` around
`DataImport#run_import!` with its handlers, `check` the two stuck checks of
`DataImportsService`, `upload` the rake task `upload_to_s3`, whose rescue saves the
failure itself (`UploadFails`) and which may die on its way (`UploadDies`). `Decrement`
is the `decrement!` of the handlers: each logs an exception of it and goes on, so that
it may leave the list as it is. Every save writes the whole row whatever the row says by
then. The states reported while an import goes on (uploading, unpacking, importing,
guessing, geocoding) are one, `running`: no guard tells them apart. `held`, `stalled`,
`kept` and `faults` are history: imports that took a slot and have not given it back;
imports that a process left behind by dying or raising; imports whose slot the code that
ended them leaves taken (a failed upload, a `decrement!` that raised); and how many
processes died or slots Redis refused to take back, which `MaxFaults` bounds.

**AnalysisNodes, UserActions.** A node is named by a letter and a number (`b2` is
`<<2, 2>>`) and reads at most two others, so a collection of nodes is a function
from ids, and `AnalysisNodes` has the pure operations on it: what a node contains,
the list of its letter, renaming with all that refers to it. `Meaning` forgets the
names: it is what a node computes, and what the properties compare. `UserActions`
has one action per function of `user-actions.js`, up to the first request it waits
for; the answers (`LayerCreated`, `DragSaved`, `WidgetCreated`, `Refused`) are
actions of their own. `CarefulSpec` restricts the user, not the code: it excludes,
by name, the histories for which the code is known to go wrong (`Independent`,
`LetterIsFresh`, `OnlyHere`, `NodeGoesAlone`, `LayerGoesAlone`,
`FoldsUnderItsHead`; see [Deviations](#deviations)).

**ImportPolling.** An item has a POST, the id of its import, the state it shows, and a
poller with its two flags (`timeout`, which keeps the id of a timer that has fired, and
`polling`; `builder/data/background-importer/poller.js`, of which
`dashboard/data/background-polling/poller.js` is a copy). The collection has the timer
of the list and the three seconds between `startPollings` and `pollCheck`. Requests
reach the server (`PostTaken`, `ServerAnswers`, `ListAnswered`) and come back
(`PostAnswered`, `GetDone`, `ListDone`) in separate steps, several lists at once and in
any order, and each may fail.

**QueryObjects.** A handler calls others in the middle of its own, so that each is
a function from a record of the variables to the next (`FetchRows`, `ClearErrors`,
`SetSchemaQuery`...) and an event composes them in the order of the code. A request
is aborted when its model sends another, and the `error` handler of the rows, the
only one of the three that does not look for an abort, runs in the middle of the new
fetch. `AfterBoth` is the continuation of the promise of `fetchAllQueryObjects`.

Definitions after a comment "Mutant:" are not part of the specification: each is
a plausible bug in the action below it, used to see that a property can fail.

## Runs

| Run | Specification and bounds | Shows |
|---|---|---|
| `bolt` | `BoltFairSpec`; three callers, two attempts for one, two of them with a `fail_function`; two overruns, any crashes | `OrphansBounded`, `ClaimsBounded`, the refinement `KeepsPromise`, `KeyFreed` |
| `ghost_tables` | `Spec`; a request, a worker and one registrar of each of the three kinds, one of them at a time; two names, one table at first; one statement of SQL or one lease that ends | `Apart`, `UnlinksGone`, `Converges` |
| `ghost_unlinks` | a request and an import from a query, no SQL, no overrun | violation of `UnlinksOnlyGone`: a map is destroyed whose table is there |
| `sync_scheduled` | `ScheduledSpec`; three rows, two workers, limit two, two retries, one death, of a worker or of the rake task | `OneRunAtATime`, `ToldIsLast` |
| `sync` | `SyncFairSpec`; one row, one worker, one web process, the rake task with both passes, limit one, one retry, one death, expiry | `SlotsBounded`, `BusyIsHandled`, `SyncingEnds` |
| `imports` | `ImportFairSpec`; one import, two web processes, a worker with one retry, one poll, the upload task, limit one, one death or one `decrement!` that raises, expiry; uploads may fail at any point | `SlotsAccounted`, `OverIsReturned`, `PendingIsCarried`, `SettledStays`, `JobsEnd` |
| `analyses` | `CarefulSpec`; three layers, three nodes, two tables, one kind of analysis, one widget | `SourcesExist`, `AnalysesOfLayers`, `WidgetsRead`, `MeaningKept`, `AddedAsAsked` |
| `analyses_fold` | `FoldSpec`; three layers, three nodes, no widget | violation of `DeletionKeeps`: nodes folded under the wrong layer |
| `import_polling` | `FairSpec`; two items, one import, two lists under way, one delayed start | `OneGet`, `EndIsTrue`, `OneAddedByList`, `OwnWithinQuota`, `EndStays`, `EndShown` |
| `polling_dies` | `Spec`; two imports | violation of `KeepsPolling`: one lost GET and the item is running for ever |
| `query_objects` | `Spec`; two queries, two things that the user does, any answers | `SchemaOfQuery`, `LoadingEnds`, `RowsOfQuery`, `AllServed` |
| `fetch_all_hangs` | the same | violation of `FinalServed`: a promise that nothing resolves |

Each passing run also checks the type invariant of its module. The type invariant
of `UserActions` says too that no two layers have one letter, and that of
`GhostTables` that names are unique. The violations are the "findings" of
`PROJECT.json`, each with the sentence of the code, a comment or a test that it
contradicts; their runs leave out whatever they do not need (deaths, expiry, SQL,
other processes), so that the counterexample cannot be blamed on it.

What the properties are about:

- **Bolt.** A lease may end under its holder, and then others enter; `OrphansBounded`
  says by how many, `ClaimsBounded` how often a `fail_function` may run, and
  `KeyFreed` that a dead holder does not keep the key.
- **Ghost tables.** `Apart`: what a sync has fetched is not changed beside it, unless
  a lease has ended or somebody works without the lock. `UnlinksGone`: a sync that was
  not disturbed destroys a row only when each table with its name or its oid keeps
  one; a disturbed one does not promise it, and `ghost_unlinks` shows how. `Converges`:
  after the last change rows and tables become the same and stay so, but for names
  that wait for each other and rows without an oid (`Tangled`). It is about the whole
  composition: the decision outside the mutex, the job, its reschedule when the lock
  is denied, and the retry flag.
- **Synchronizations.** `OneRunAtATime` for the rake task, which reads rows, enqueues
  and then marks: a row has one job, waiting or running, and one more for each time that
  the task ended between the two (`unmarked`). `ToldIsLast`: after the mail that the
  attempts are exhausted (`max_retries_reached.html.erb`) there is none, although the
  mail, the counting and the task's filter are in three places. `BusyIsHandled`: a row
  that says it is busy has a job, a process or a first import, or a death has left it
  so.
- **Imports.** `SlotsAccounted`: the list of slots is never longer than the requests
  under way, the slots held and the faults (deaths, and `decrement!` that raised);
  `OverIsReturned`: what is over holds no slot, nor owes one to a process that ends it,
  but for what a death or an unsaved failure left behind (`stalled`) and for what the
  code itself leaves taken (`kept`: failed uploads, refused `decrement!`);
  `PendingIsCarried`: a pending import is in somebody's hands, and a failed upload does
  not leave it pending; `SettledStays`:
  a final state whose run is over stays.
- **Analyses.** `MeaningKept` is the one the module is for: dragging, moving, deleting
  and folding rename, split and merge lists of nodes, and what each remaining layer and
  widget computes is the same before and after. `SourcesExist`, `AnalysesOfLayers` and
  `WidgetsRead` are about the three collections that must follow a renaming,
  `AddedAsAsked` about ids that are used again.
- **Polling.** `OneGet`, `EndStays` and `EndIsTrue`: no late answer replaces the end of
  an import, although `stop` does not abort the GET under way, which restarts the poller
  when it answers. `EndShown` is the liveness, and excuses only an item that is closed
  or one of whose GETs has failed.
- **Query objects.** With requests that are aborted inside the fetch of the next and
  handlers that ask again, `SchemaOfQuery` and `RowsOfQuery` say that what shows is of
  the last query, `LoadingEnds` that a spinner has a request behind it, `AllServed`
  that a promise is kept when everything has been fetched.

*Why the bounds are enough.* The interesting cases need few processes: with Bolt, a
holder that overran, one that has the key and one that is denied; with the limits, two
processes between check and push; with the imports, a worker and a poll on one row while
another request moves the list (the second web process makes the request that is
refused, or whose push is lost). `sync` has one row because rows meet only in the limit
and in `sync_scheduled`, which has three. One death is enough to reach what a death
leaves behind; `sync_scheduled` was also checked with two (over twelve million states).
`MaxJobs` caps the jobs in Resque for one row, `MaxOverruns`, `MaxDeaths` and
`MaxFaults` the events they name. In the ghost tables `MaxUpsets` caps statements of SQL
and ended leases together, and `MaxRegistrars` the registrars that begin; two names are
enough for a table that takes another's name, one table at first for a swap, and a
linker that decides in the request beside one that works in a job for the mutex to
matter. `MaxUserTables` and `MaxTables` are the thresholds of the code at sizes where
both sides occur. `UnlinksGone` and `Apart` were also checked with two upsets (two
million states). In the browser, three layers are what folding and dragging between
layers takes, three nodes a list of two under another layer's; `MaxSequence` and
`MaxNodes` cap what a user adds. The view of `analyses` takes for one the states that
differ in the ids of layers or in the order of the saved analyses, which no property
reads. `MaxLists` lets two lists overtake each other, `MaxStarts` has one
`startPollings` pending beside the timer. `MaxActs` caps what the user does, each act
starting up to three requests and as many retries; one `fetchAllQueryObjects` waits at a
time. What the runs show for small sets the theorems show for all, where there is one.

*Deadlock* is checked but for two: the synchronizations may stop, with no rows
left, or none that anything will pick, and so does a node whose user is done.

*Fairness.* `BoltFairness`: a process inside `run_locked` goes on (`sleep`
returns, blocks end, Redis answers) and Redis expires keys; nobody has to call
or to die. `GhostTables!Fairness`: a process that has begun goes on, the list of
visualizations is asked for again and again (it is what the dashboard shows, and
each time the ghost tables are linked), and a worker takes a job that keeps coming
(strong fairness: a visit dequeues the job and enqueues it again, so that the
queue is empty for an instant each time). `SyncFairness`: a worker with a job in its
hands goes on with it; neither cron nor owner nor worker has to
begin anything. `ImportFairness`: the workers of the queue go on taking jobs and a
worker goes on with the one it has. Every step of a run is under a timeout
(connection, statement, script), so that a run that goes on is what the code
provides; `Track`, the progress reports of a running import, is left out of the fair
part because a run may report as often as it likes but not for ever. The fairness of
`ImportPolling`: timers fire, the server answers, POSTs end and imports end; no list
and nothing of the user has to happen. All of it is weak fairness but for the
strong one named.

## Proofs

Theorems hold for every value of the constants under the named assumptions of the
modules: `BoltAssumption` (finitely many processes, at least one attempt each),
`GhostAssumption` (linkers and registrars make up the processes and none is both,
initial tables have distinct names, and so have the tables that different
synchronizations bring in, which are none of the user's), `SyncLimitAssumption` and
`SynchronizationAssumption` (finitely many clients, which are the web processes and the
task, and finitely many workers), `ImportLimitAssumption` and `DataImportsAssumption`
(finitely many web processes and imports, `Nothing` distinct from ids and states, a
retry bound of at least one), `ImportPollingAssumption` (finitely many items, `NoImport`
not an import), `QueryObjectsAssumption` (the default query is a query and `NoQuery` is
not) and `UserActionsAssumption` (there are ids for layers and more letters than layers;
`NoNode` is neither an id, a table nor a kind of analysis).

**`BoltProofs`.** `TypeCorrect`, `OrphansTheorem`, `MutexTheorem`,
`ClaimsTheorem` and `Refinement` (`Bolt` implements `LeasedMutex`, with
`holders <- Inside`). `OrphansBounded` is not inductive: an unlock by a caller
who has no key makes an orphan of the one who has. `BoltInv` says that whoever is
inside without the key is matched by an overrun, and `ClaimsInv` counts the
`fail_function` calls by who can still make one: the flag absent before
`retried`, the claims after it, and the overruns in between.

**`GhostTablesProofs`.** `KeepsBolt`: every behaviour of the ghost tables is one of
`BoltSpec`, each action one of Bolt's or a stutter, so that what `BoltProofs` proves
holds inside the composition (`GhostMutex`). `ApartTheorem` combines it with
`WorksInside`, an invariant of places: whoever fetches or applies runs inside the
lock, and a registrar that works is inside or is in `unlocked`. With no overrun two
of them cannot be inside together, and so none works beside a sync.

`GhostTypes` and `UnlinksGoneTheorem` need more than places. `GhostInv` adds to the type
invariant what each process has in hand: `Places` (who may be where, with which name
and at which point of `run_locked`), `Temporaries` (a table has the name of what a
synchronization brings in only while that one is about to swap it, so that none is
brought in twice), `OidsLeft` (the oids not yet given are enough for the registrars that
have yet to make a table and for the user's statements; it is why `made` stays in
range) and `Fetched` (what a linker has fetched and has to do are facades, and nothing
outside a sync). Uniqueness of names is inductive because each statement tests what it
writes: the theorem says that it needs no lock. `UnlinksGone` does need one.
`LinksWhatThereIs` says it for a linker nobody has worked beside: what it has fetched is
what there is, and what it has to drop (`DropsWhatIsGone`) leaves a row to each
cartodbfied table with the same name or oid, which the statements before it will not take
away. `AlteredDrops` shows that `fetch_altered_tables` computes such lists, and one
lemma for each kind of change (`RegenerateDrops`, `RenameDrops`, `CreateDrops`,
`DropDrops`) that applying the head of one keeps the rest so. That renamed rows precede
dropped ones matters here, and so does the refusal of a name that is taken: a row to be
dropped keeps its name from the table that would be renamed to it. A step of anybody else
either changes nothing that was fetched or ends the premise (`OthersStep`).

**`SynchronizationProofs`.** `LimitTheorem` bounds the list, for any clients,
from `PushesBounded`: the length and the pushes on their way together exceed the
maximum by at most one per client after the first. `UsesLimit` shows that every
behaviour of the synchronizations is one of the limit, which gives
`SlotsTheorem`. `SyncTypeCorrect` and `BusyTheorem` share `SyncInv`, whose
conjuncts `JobCopies`, `WebCopies` and `CronCopy` say what a process at each
point holds in memory: a row where the code has fetched one, and with the state
it is about to store. `OneRunTheorem` and `ToldIsLastTheorem` are about the rake task
and the workers alone, either of which may die. Their invariant is `ScheduledInv`. A row
is `Offered` when a pass may still push its job: it is eligible, or the task has read it
and not yet enqueued it. `OfferedIsFree` says that such a row has no more jobs, waiting
or running, than `unmarked` counts, so that the push makes one more at most; it needs
that the list of the task has a row once (`TodoOnce`) and that jobs only fall
otherwise (`JobsFall`, `RunsFall`, `OffersFall`). `ToldIsOut` says that a row whose
owner has been told is neither offered nor, unless `unmarked`, has a job: the run that
mailed was its only one, and left a count that the task's filter refuses.

**`DataImportsProofs`.** `Hands` says what each process has in hand at each point
(nothing, an import, an import that it left behind), that the upload task has
fetched a row that is not pending, and that what holds a slot exists. It is
inductive, one lemma for each kind of process, and with it
`OverIsReturnedAlways`, `PendingIsCarriedAlways` and `SlotsAccountedAlways` are
inductive as they stand: what a worker or a poll still owes is passed from step
to step (`RunOwes`, `CheckOwes`, `RequestCarries`, `RunCarries`), and each
command on the list changes the sum of requests under way, slots held and faults
by at least as much as it changes the list (`RequestCounts`, `GiveBackCounts`; a
`decrement!` that raises adds a fault where it would have taken an element off).
`SettledStaysAlways` is an action property: from `Hands`, no action can begin
with an import that is over and in nobody's hands.

**`ImportPollingProofs`.** `PollInv` is the type invariant with `ItemInv`, what the
places of an item say of each other: one GET at most, no timer beside a GET, nothing
beside a POST, nothing asked for an item that has ended, and an end that is the
import's. It is inductive by itself, one lemma for each action on an item, and
`OneGetTheorem`, `EndIsTrueTheorem` and the action property `EndStaysTheorem` are read
off it. `OneAddedTheorem` and `QuotaTheorem` rest on it together with what a list may
add (`ListAdds`) and on counting the user's own imports (`ItemEnds`).

**`QueryObjectsProofs`.** Each handler is a function on the record of the variables,
so that each has a lemma about what it leaves and one about what it keeps, and an event
composes them in the order of the code. `QueryInv` says of that record that a
fetched schema has the columns of its query, that the schema has one request at most,
which it knows and which is for the query applied, and that each of the three that
shows as fetching has a request. The order matters in two places: while a query is
applied the request of the earlier one is still under way (`Core` leaves it out, and
`FetchSchemaKeeps` restores it by aborting), and the answer of the schema sets the columns
before the status (`ColumnsResetLeaves`). Rows may fail in the middle of either, with
what `RowsOnly` allows them to touch. `SchemaOfQueryTheorem`, `LoadingEndsTheorem` and
`QueryTypes` follow, for any number of queries, acts and answers.

The second part of the module has what the other two properties need. `RowsInv`: the rows, too,
have one request at most, which is for the query applied while they show as fetching;
and if the schema is fetched, either fetching the rows is due or what is shown, or still
to arrive, is of its query (`UpToDate`). `Serves`: who waits for a part waits for
something that is still to come. Most handlers leave both alone (`Calm`, `SameRows`,
two relations that compose); the rest is `FetchRows`, whose abort makes the new request
the only one, a query that is applied, and the answers: rows of an earlier query may
arrive last, but only while the rows are due (`RowsAnsweredSealed`). `RowsOfQueryTheorem`
and `AllServedTheorem` are what is left of it when nothing is under way nor due.

**`UserActionsProofs`** proves `AnalysesOfLayers` for any letters, layers, tables,
widgets and nodes, for the careful user and (`AnalysesOfFoldsTheorem`) for the one whose
layer is folded in the way that `DeletionKeeps` refutes: what goes wrong there is not
what is saved. The property is not inductive. An edit saves the analysis of the layer
that `findOwnerOfAnalysisNode` answers, which is the first with the node's letter, so
that layers need letters of their own; a layer that the server is still asked to create
needs its place, id and letter to be free when the answer comes; and a folded node must
not take the letter of a layer that stays. `Collections` says this: `Layered` (ids and
letters apart, between one and `MaxLayers` layers, each with a source that could be a
node; saved analyses have different letters, and each has for head the source of a layer
that owns it), what widgets there are, and `Pending` (the layer under way).
`CollectionsTheorem` states it; it has the conjuncts of `TypeOK` that are about layers
and widgets. It says nothing of what a node contains, and needs nothing: an action that
ends in `deleteOrphanedAnalyses` may lose any nodes (`SavedAtEnd`), one that renames a
list of nodes moves sources between the two letters it renames and touches no other
(`Folding`), and a fold along a list is a chain of single renamings (`FoldSteps`,
`FoldMoveNode`, `FoldRenamed`). That some layer stays when one is deleted
(`SomeLayerStays`) comes from the guard of the deletion. Where an argument goes by
induction, along a list or by cardinality, it goes through a set of naturals
(`NatSet`, from the well-foundedness of `<`), not through the library's theorems for
predicates.

**`UserActionsNodesProofs`** proves the other properties of the careful user, again for
any constants: `TypeTheorem`, `SourcesTheorem`, `WidgetsTheorem`, and of the steps
`MeaningTheorem`, `AddedTheorem` and `DeletionTheorem` (`DeletionKeeps` holds of
`CarefulSpec`; only the fold that `FoldsUnderItsHead` excludes breaks it). None of them is
inductive: whether a renaming loses a node depends on which ids are in use, on who
reads them, and on what requests under way will do with them. The invariant is `Meant`:
`Collections`, and

- `Tidy(nodes)`: finitely many nodes, every source there, no cycle (`Ranked`), and numbers
  that fall from a node to the primary source of its letter (`Descends`);
- `Headed(nodes, layers)`: a layer's own nodes are its source and those below one of them.
  From the two, `LinkedListBySameLetter` of the head lists exactly the nodes of the
  letter, each once (`OwnIs`), and a new id, one over the head, is no node's (`FormIdIs`);
- `ReadsOwned`, `OneRead`, `PendingNode`: who reads, now or once the server has answered,
  reads one node, of a layer that is there; a layer under way has its source node;
- `Numbered(nodes)`: no number is greater than the way down the primary sources to the
  table is long. A fold renames the list of two letters one node at a time, and an id
  that is given could still be that of a node that waits for its turn, which `RenameNode`
  would overwrite. The code starts from the length of the list when the list ends in a
  table, and that is over the number of its head (`FoldStarts`) only because of this conjunct;
  then each number that is given is at least that of the node it replaces, and is free or has
  just been freed (`FoldNamed`).

Each action that renames is stated as a function `sigma` from the ids that it keeps to
their new names: the graph after it is a copy (`Copied`), numbers still fall (`Lowered`),
layers are still headed (`Led`), and whoever reads follows (`ReadsFollow`,
`LayersFollow`). `EndGrounds` draws the conclusion once for all of them, with
`deleteOrphanedAnalyses` at the end. That a copy computes the same is `MeaningFollows`: it needs
that the steps of `Meaning` are enough, which they are because a node has
fewer than `Cardinality(DOMAIN nodes)` others below it (`MeansSettle`). The three
folds along a list (a drag from the middle, a fold, its new ids) are chains of
single renamings with what holds after the first k of them (`MovedSome`, `FoldedSome`).
`AnalyseMeant` keeps the invariant through the actions that do change what is shown.

Only model-checked: the liveness properties (`KeyFreed`, `Converges`,
`SyncingEnds`, `JobsEnd`, `EndShown`), because fairness and ENABLED are
beyond the proof system.
The violations are counterexamples of TLC.

## Deviations

Where the program does something that its authors say it does not, or that a
reader would not expect, beside the violations above. The properties take these as
given: each excuses them by name, or the run leaves the history out by name.

Server:

- `bolt.rb:69` deletes the key whoever created it, although `bolt.rb:16` promises to run
  the block "with the lock acquired" and `bolt_spec.rb:25` tests that access is not
  allowed if locked: a holder that overran deletes its successor's key. `OrphansBounded`
  counts each overrun for this reason.
- `bolt.rb:34`: two callers denied before and after the holder's `retried` both run
  their `fail_function`; the comment at `bolt.rb:19-22` allows one per lock. `ClaimsBounded`
  has the true bound.
- `visualizations_controller.rb:454-460` and the job: a job that is denied while the holder
  that denied the request is still inside finds the retry flag claimed, and is not
  queued again. What the holder had already fetched is linked at the next visit.
- `ghost_tables_manager.rb`: `fix_oid` after the user has dropped the table stores a
  null `table_id`, and from then on `fetch_altered_tables` raises at the comparison, in
  the request and in the job; two tables that have been given each other's names by
  SQL are never relinked, since each update meets the other's name. Both are `Tangled`.
- `table.rb`, `data_import.rb:463`: a table made by the application and an import from a
  query register without the lock. `unlocked` records it.
- `member.rb`, `sync_tables.rake:3`: the task says that this version does not mark the
  rows as enqueued; `collection.rb:119-120` does mark them, after the push, so that a
  job may have run before its row is marked: the row then stays queued with no job, and
  is picked again all the same. With one rake task that goes on nothing is picked
  twice (`OneRunTheorem`), but not because of the mark; two tasks at once, or a forced
  pass beside a scheduled one, can enqueue a row twice.
- `collection.rb:119-123`: when the rake task dies, or the `UPDATE` raises, after the push,
  the row is due as before with its job in Resque, and the next pass enqueues it
  again: two workers may then synchronize the table at once. `OneRunAtATime` counts
  these (`unmarked`), and nothing makes them fewer.
- `member.rb:397`: an error while a result is recorded leaves the row `syncing`,
  which `member.rb:40` explains as "Actually syncing". `BusyIsHandled` excuses
  such rows through `left`, and those that an `update` wrote from an older copy.
- `member.rb:417`: the failure that exhausts the retries counts them and mails nobody;
  the mail of `MaxRetriesReached` waits for one more failure, which the rake task does
  not make, since it skips rows with no retries left. A scheduled row reaches the mail
  only when one run counts its failure twice, because something raises after the first
  count (`:196-246`).
- `synchronizations_controller.rb:28`: a create that is refused leaves its row
  `created`, which nothing picks; the comment at `:46-48` fears
  this very state, in which a synchronization can never be kicked off again.
- `sequel.rb:68`: `store` inserts the row when the update finds none, so that a
  job or a request that fetched a row before its deletion brings it back. No
  property says that deleted rows stay deleted, for it would fail.
- `user_concurrent_syncs_amount.rb:81`, `user_concurrent_imports_amount.rb:97`: the push
  is `RPUSHX` after an `EXISTS`; a list that is emptied in between makes it a push to
  nothing, and one more than the maximum gets in later. `LimitTheorem` has the bound
  that holds for the list, not for what runs.
- The import of a synchronization takes no slot but gives one back when it ends
  (`synchronizations_controller.rb:44`, `data_import.rb:296`): the list may count
  less than there is. `SlotsAccounted` therefore bounds it from above only.
- `data_import.rb:390`: a poll reads the row before it asks for the workers, so that an
  import that ends in between is declared stuck; the comment at `:386` asks that it
  should not be finished.
- `data_imports_service.rb:21`: the index fails imports that wait for a worker
  longer than the time given, although they have not started; when they start
  they run all the same, and the state goes from failure to running.
- `data_import.rb`: an import over a quota or without results saves a final state
  before the handler saves its own, so that a poll may read one after the other.
  `SettledStays` begins when the run is over.
- `import.rake:84-85`: the task that uploads a file saves the failure of the upload
  itself and does not call `handle_failure`, so that nobody gives the slot of that
  import back: it counts against its owner until the list expires (`kept` in
  `OverIsReturned`).
- `import.rake:39`: the task looks for enqueued rows only. When it is killed after it
  has marked a row pending, or its rescue raises, the row stays pending (`stalled` in
  `PendingIsCarried`), and so it does when a request cannot enqueue its job
  (`imports_controller.rb:95`).
- `data_import.rb:279`, `:304`: an exception of `decrement!` is logged and the import
  is over with its slot taken (`kept`).

Builder, analyses (what `CarefulSpec` excludes; paths under
`lib/assets/javascripts/builder`):

- `data/user-actions.js:586-679`: a node dragged from the middle of a layer is
  destroyed, and a third layer that shows it keeps a source that is gone; the other kind
  of drag re-points such layers, as its comment (`:463`) says (`OnlyHere`).
- `data/user-actions.js:57`: saving a layer deletes the nodes of no layer, among them the
  source of a layer whose POST is under way (requests are waited for).
- `base-analysis-form-model.js:154-199`: the second sources that a form offers include
  nodes made of the one that is edited, and a cycle can be chosen (`Independent`).
- `deleteAnalysisNode` and `deleteLayer` destroy layers whose nodes another layer or a
  widget still reads (`NodeGoesAlone`, `LayerGoesAlone`).
- `createLayerFromTable`: when the server refuses the layer its source node stays, and
  the next layer of that letter finds the id taken (`LetterIsFresh`).
- `data/user-actions.js:502`: `$.when(saveAnalysisForLayer(...))` is given a model, not
  a request (`analysis-definitions-collection.js:59`), and waits for nothing.

Polling:

- `dashboard/data/imports-collection.js:42`: a list that is answered
  while the POST of an item is not gives the same import a second item.
  `OneAddedByList` is about what lists add.
- `stopPollings` does not cancel a `startPollings` whose three seconds last, so that a
  dialog may find the list polled; and an item that is closed with its GET under way
  goes on polling.
- A list without imports ends the polling of the list, that of an import just begun too.

Query objects:

- `query-geometry-model.js`: the second request (`the_geom_webmercator`) is sent from
  the error handler of the first, whose `always` (`sync-abort.js:18`) then forgets it: it
  cannot be aborted, two requests may be under way, and an older geometry type may stay,
  although `sync-abort.js:3-5` says that ongoing requests are aborted. No property is
  about the geometry type for this reason.
- `query-rows-collection.js:231`: a rows request that fails or is aborted makes the schema
  unavailable, with a function for `query_errors`.
- `fetchAllQueryObjects` waits for rows that nobody fetches when the schema has failed.
- `data-view.js:215`, `:233`: the answer that saves the query saves what the editor shows by
  then, and the success of the geometry alone counts twice for `_.after(2)`.
- `analyses-integration.js:136` sets the query and `unfetched` while a request for the old
  one is under way (analysis nodes, not modelled).

## Not modelled

In what is modelled: times (only the order of things is kept), authorization and
parameters of requests, the data of imports and what the importer does with it (one
outcome), logs, mails and metrics, Redis and database failures other than those that the
code rescues and those that end the rake task, `BaseJob`'s retry for synchronization
jobs (`base_job.rb:29`: a connection lost while the row is fetched or its result is
stored), and an error in `notify` of a run (`member.rb:211`) after its result was
stored. A command that raises has not been executed; one that was executed before its
client saw an error is the death of the process at its next step. Of ghost tables:
deaths of linkers between two statements (Bolt has the death of a holder). Of importer
and adapter: quotas, indexes, support tables, several results of one import,
`overwrite_sync`. Of the builder: styles, orders and forms of widgets, base maps,
notifications, what the server keeps; query objects of analysis nodes, pages and order
of the table. Of the polling: geocodings and the validation of files.

Outside: every component whose status in `PROJECT.json` is `not_modelled`, with
the reason there. The ones that are worth modelling are in the plan; the others
are I/O (importer runners, datasources, geocoders), single saves (maps, layers,
Central commands), pure comparisons (size limits), views and forms of one window
(styles, dashboard, `deep-insights`, the editor that came before the builder), or not
this project's (vendored code). The browser code is by far the largest part of the
repository and most of it draws; what is modelled of it is where answers meet state.

## Plan

What is left, in this order; each step is one module with its MC module, its run,
its mutants and then its proofs.

1. `TablePrivacy`: table, canonical visualization, grants and caches, with
   `revertable_privacy_change`; what the public role can read is never more than
   the metadata says once a change has returned.
2. `OauthGrants`: codes, refresh and access tokens.
3. `UserCreation` and `UserMigration`: state machines with their rollbacks.
4. `ConnectionPool`.
5. `overwrite_sync` of the adapter in `GhostTables`, and the deaths of linkers.
6. Query objects of analysis nodes, which the map's own analyses set.
7. Proofs: the refinement of an abstract list of slots by both limits; a refinement
   of `DataImports` by the life of one import as its owner sees it; how much of
   `Meant` the user of `FoldSpec` keeps.

The violations of the limits (a lost `RPUSHX`) and of Bolt (the owner-blind `DEL`) are
told above and have no run: a bound that holds is checked and proved in their place.
