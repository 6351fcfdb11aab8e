------------------------------ MODULE ImportPolling ------------------------------
(* The imports that the dashboard and the builder show while they run:         *)
(* dashboard/data/imports-collection.js and imports-model.js, on builder's     *)
(* import-model.js and its poller. Each item asks for its own import until the *)
(* import has ended; the collection asks now and then for the imports that run *)
(* and adds those that it does not know, started in another window or tab.     *)
EXTENDS Naturals, FiniteSets, Bags

CONSTANTS Items,      \* ImportsModel objects, added by the user or by the collection
          Imports,    \* imports on the server: item_queue_id
          NoImport,   \* an item that has no item_queue_id yet
          Quota,      \* userModel.getMaxConcurrentImports()
          MaxLists,   \* bound: GETs of the list of imports under way
          MaxStarts   \* bound: delayed starts of the collection's polling

ASSUME ImportPollingAssumption ==
    /\ IsFiniteSet(Items)
    /\ NoImport \notin Imports
    /\ {"none", "sent"} \cap Imports = {}
    /\ Quota \in Nat /\ MaxLists \in Nat /\ MaxStarts \in Nat

ServerStates == {"none", "running", "complete", "failure"}
Ended == {"complete", "failure"}
Kinds == {"none", "file", "url", "list"}
ItemStates == {"none", "running", "complete", "failure", "error"}

VARIABLES imports,    \* server: the state of each import
          kind,       \* how an item came to be, "none" before
          listed,     \* importsCollection
          post,       \* POST of an item: under way, or the import that it has created
          id,         \* _importModel's item_queue_id
          state,      \* state of an item, as it is shown
          timeout,    \* poller.timeout: a timer that is set, or one that has fired
          polling,    \* poller.polling
          asked,      \* GETs of an item that the server has not answered
          answers,    \* answers on their way to an item
          layers,     \* layers that the editor has added for an item
          pollTimer,  \* importsCollection.pollTimer is set
          starts,     \* calls of startPollings whose three seconds last
          listsAsked, \* GETs of the list that the server has not answered
          lists       \* answers to them under way, by the imports that ran

server == <<imports>>
item == <<kind, listed, post, id, state, layers>>
poller == <<timeout, polling, asked, answers>>
collection == <<pollTimer, starts, listsAsked, lists>>
vars == <<imports, kind, listed, post, id, state, timeout, polling, asked, answers,
          layers, pollTimer, starts, listsAsked, lists>>

Running == {n \in Imports : imports[n] = "running"}
Unfinished(i) == state[i] \notin {"complete", "failure", "error"}
\* Mutant: one import more than the quota.
CanImportAlsoFull == Cardinality({i \in listed : Unfinished(i)}) <= Quota

CanImport == Cardinality({i \in listed : Unfinished(i)}) < Quota
Unused == {i \in Items : kind[i] = "none"}

\* startPollings, three seconds before it does something.
Starts == IF starts < MaxStarts THEN starts + 1 ELSE starts

---------------------------------------------------------------------------------
ImportPollingInit ==
    /\ imports \in [Imports -> {"none", "running"}]
    /\ kind = [i \in Items |-> "none"]
    /\ listed = {}
    /\ post = [i \in Items |-> "none"]
    /\ id = [i \in Items |-> NoImport]
    /\ state = [i \in Items |-> "none"]
    /\ timeout = [i \in Items |-> "none"]
    /\ polling = [i \in Items |-> FALSE]
    /\ asked = [i \in Items |-> 0]
    /\ answers = [i \in Items |-> {}]
    /\ layers = [i \in Items |-> 0]
    /\ pollTimer = FALSE
    /\ starts = IF MaxStarts > 0 THEN 1 ELSE 0
    /\ listsAsked = 0
    /\ lists = EmptyBag

(* The server. *)

ImportStarts(n) ==
    /\ imports[n] = "none"
    /\ imports' = [imports EXCEPT ![n] = "running"]
    /\ UNCHANGED <<item, poller, collection>>

ImportEnds(n) ==
    /\ imports[n] = "running"
    /\ \E s \in Ended : imports' = [imports EXCEPT ![n] = s]
    /\ UNCHANGED <<item, poller, collection>>

---------------------------------------------------------------------------------
(* An import that the user starts: its POST carries the file, or the parameters. *)

AddImport(i, how) ==
    /\ i \in Unused
    /\ CanImport
    /\ kind' = [kind EXCEPT ![i] = how]
    /\ listed' = listed \cup {i}
    /\ post' = [post EXCEPT ![i] = "sent"]
    /\ starts' = Starts
    /\ UNCHANGED <<server, poller, id, state, layers, pollTimer, listsAsked, lists>>

\* The server takes the POST and creates the import.
PostTaken(i) ==
    /\ post[i] = "sent"
    /\ \E n \in Imports :
         /\ imports[n] = "none"
         /\ imports' = [imports EXCEPT ![n] = "running"]
         /\ post' = [post EXCEPT ![i] = n]
    /\ UNCHANGED <<kind, listed, id, state, layers, poller, collection>>

\* poller.start: nothing when there has been a timer since the last stop.
Start(i) == timeout' = [timeout EXCEPT ![i] = IF @ = "none" THEN "set" ELSE @]

PostAnswered(i) ==
    /\ post[i] \in Imports
    /\ id' = [id EXCEPT ![i] = post[i]]
    /\ post' = [post EXCEPT ![i] = "none"]
    /\ Start(i)
    /\ UNCHANGED <<server, kind, listed, state, layers, polling, asked, answers, collection>>

\* Mutant: the state is the status text of the request.
PostErrorText(i) == IF kind[i] = "file" THEN "abort" ELSE "failure"

\* The state of the upload, or of the import, when its POST has an error.
PostError(i) == IF kind[i] = "file" THEN "error" ELSE "failure"

\* The server refuses the POST, or its answer is lost and the import runs.
PostFails(i) ==
    /\ post[i] # "none"
    /\ post' = [post EXCEPT ![i] = "none"]
    /\ state' = [state EXCEPT ![i] = PostError(i)]
    /\ UNCHANGED <<server, kind, listed, id, layers, poller, collection>>

\* Mutant: the upload of a closed item goes on.
RemoveItemUploading(i) ==
    /\ i \in listed
    /\ listed' = listed \ {i}
    /\ IF kind[i] = "file" /\ post[i] # "none"
       THEN state' = [state EXCEPT ![i] = "error"]
       ELSE UNCHANGED state
    /\ polling' = [polling EXCEPT ![i] = FALSE]
    /\ timeout' = [timeout EXCEPT ![i] = "none"]
    /\ UNCHANGED <<server, kind, post, id, layers, asked, answers, collection>>

\* The user closes an item, ended or not: removeImportItem, then pause.
RemoveItem(i) ==
    /\ i \in listed
    /\ listed' = listed \ {i}
    /\ IF kind[i] = "file" /\ post[i] # "none"
       THEN /\ post' = [post EXCEPT ![i] = "none"]
            /\ state' = [state EXCEPT ![i] = "error"]
       ELSE UNCHANGED <<post, state>>
    /\ polling' = [polling EXCEPT ![i] = FALSE]
    /\ timeout' = [timeout EXCEPT ![i] = "none"]
    /\ UNCHANGED <<server, kind, id, layers, asked, answers, collection>>

---------------------------------------------------------------------------------
(* The poller of an item. *)

\* Mutant: setInterval, and no look at whether a GET is under way.
TimerFiresAgain(i) ==
    /\ timeout[i] = "set"
    /\ asked[i] < 2
    /\ asked' = [asked EXCEPT ![i] = @ + 1]
    /\ polling' = [polling EXCEPT ![i] = TRUE]
    /\ UNCHANGED <<server, item, timeout, answers, collection>>

TimerFires(i) ==
    /\ timeout[i] = "set"
    /\ timeout' = [timeout EXCEPT ![i] = "fired"]
    /\ IF polling[i] THEN UNCHANGED <<polling, asked>>
       ELSE /\ polling' = [polling EXCEPT ![i] = TRUE]
            /\ asked' = [asked EXCEPT ![i] = @ + 1]
    /\ UNCHANGED <<server, item, answers, collection>>

ServerAnswers(i) ==
    /\ asked[i] > 0
    /\ asked' = [asked EXCEPT ![i] = @ - 1]
    /\ answers' = [answers EXCEPT ![i] = @ \cup {imports[id[i]]}]
    /\ UNCHANGED <<server, item, timeout, polling, collection>>

\* Mutant: no stopWhen, and a layer for each answer that says complete.
GetDoneNoStop(i) ==
    \E s \in answers[i] :
        /\ answers' = [answers EXCEPT ![i] = @ \ {s}]
        /\ state' = [state EXCEPT ![i] = s]
        /\ layers' = [layers EXCEPT ![i] =
                        IF i \in listed /\ s = "complete" /\ @ < 2 THEN @ + 1 ELSE @]
        /\ polling' = [polling EXCEPT ![i] = FALSE]
        /\ timeout' = [timeout EXCEPT ![i] = "set"]
        /\ UNCHANGED <<server, kind, listed, post, id, asked, collection>>

\* Mutant: start instead of _scheduleFetch, which sees the timer that has fired.
GetDoneStart(i) ==
    \E s \in answers[i] :
        /\ answers' = [answers EXCEPT ![i] = @ \ {s}]
        /\ state' = [state EXCEPT ![i] = s]
        /\ layers' = [layers EXCEPT ![i] =
                        IF i \in listed /\ state[i] # s /\ s = "complete" THEN @ + 1 ELSE @]
        /\ polling' = [polling EXCEPT ![i] = FALSE]
        /\ IF s \in Ended THEN UNCHANGED timeout ELSE Start(i)
        /\ UNCHANGED <<server, kind, listed, post, id, asked, collection>>

\* An item of the collection that becomes complete gets a layer in the editor.
GetDone(i) ==
    \E s \in answers[i] :
        /\ answers' = [answers EXCEPT ![i] = @ \ {s}]
        /\ state' = [state EXCEPT ![i] = s]
        /\ layers' = [layers EXCEPT ![i] =
                        IF i \in listed /\ state[i] # s /\ s = "complete" THEN @ + 1 ELSE @]
        /\ polling' = [polling EXCEPT ![i] = FALSE]
        /\ timeout' = [timeout EXCEPT ![i] = IF s \in Ended THEN @ ELSE "set"]
        /\ UNCHANGED <<server, kind, listed, post, id, asked, collection>>

\* A GET that fails: opts.error, if there is one, and nothing else.
GetFails(i) ==
    /\ asked[i] > 0
    /\ asked' = [asked EXCEPT ![i] = @ - 1]
    /\ UNCHANGED <<server, item, timeout, polling, answers, collection>>

---------------------------------------------------------------------------------
(* The collection: a GET of the list at once and every thirty seconds. *)

SendList ==
    /\ listsAsked + BagCardinality(lists) < MaxLists
    /\ listsAsked' = listsAsked + 1

\* pollCheck, three seconds after startPollings: nothing when the timer is set.
PollCheck ==
    /\ starts > 0
    /\ starts' = starts - 1
    /\ IF pollTimer THEN UNCHANGED <<pollTimer, listsAsked>>
       ELSE pollTimer' = TRUE /\ SendList
    /\ UNCHANGED <<server, item, poller, lists>>

ListTick ==
    /\ pollTimer
    /\ SendList
    /\ UNCHANGED <<server, item, poller, pollTimer, starts, lists>>

ListAnswered ==
    /\ listsAsked > 0
    /\ listsAsked' = listsAsked - 1
    /\ lists' = lists (+) SetToBag({Running})
    /\ UNCHANGED <<server, item, poller, pollTimer, starts>>

\* Mutant: only imports that are shown as running are known.
UnknownNotRunning(ran) == {n \in ran : \A i \in listed : id[i] # n \/ state[i] # "running"}

\* parse: the imports that no item of the collection has.
Unknown(ran) == {n \in ran : \A i \in listed : id[i] # n}

\* Nothing runs: destroyCheck. Otherwise each unknown import gets an item, whose poller starts.
ListDone(ran) ==
    /\ lists' = lists (-) SetToBag({ran})
    /\ IF ran = {}
       THEN /\ pollTimer' = FALSE
            /\ UNCHANGED <<kind, listed, id, timeout, starts>>
       ELSE \E new \in [Unknown(ran) -> Unused] :
              LET added == {new[n] : n \in Unknown(ran)}
                  of(i) == CHOOSE n \in Unknown(ran) : new[n] = i
              IN /\ \A n, m \in Unknown(ran) : n # m => new[n] # new[m]
                 /\ kind' = [i \in Items |-> IF i \in added THEN "list" ELSE kind[i]]
                 /\ listed' = listed \cup added
                 /\ id' = [i \in Items |-> IF i \in added THEN of(i) ELSE id[i]]
                 /\ timeout' = [i \in Items |-> IF i \in added THEN "set" ELSE timeout[i]]
                 /\ starts' = IF added = {} THEN starts ELSE Starts
                 /\ UNCHANGED pollTimer
    /\ UNCHANGED <<server, post, state, layers, polling, asked, answers, listsAsked>>

\* A GET of the list that fails, before or after the server has read the imports.
ListFails ==
    /\ \/ /\ listsAsked > 0
          /\ listsAsked' = listsAsked - 1
          /\ UNCHANGED lists
       \/ \E ran \in BagToSet(lists) :
            /\ lists' = lists (-) SetToBag({ran})
            /\ UNCHANGED listsAsked
    /\ UNCHANGED <<server, item, poller, pollTimer, starts>>

\* A dialog opens: stopPollings; when it closes: startPollings.
StopPollings ==
    /\ pollTimer
    /\ pollTimer' = FALSE
    /\ UNCHANGED <<server, item, poller, starts, listsAsked, lists>>

StartPollings ==
    /\ starts' = Starts /\ starts' # starts
    /\ UNCHANGED <<server, item, poller, pollTimer, listsAsked, lists>>

---------------------------------------------------------------------------------
User ==
    \/ \E i \in Items, how \in {"file", "url"} : AddImport(i, how)
    \/ \E i \in Items : RemoveItem(i)
    \/ StopPollings
    \/ StartPollings

Network ==
    \/ \E i \in Items :
         \/ PostTaken(i) \/ PostAnswered(i) \/ PostFails(i)
         \/ TimerFires(i) \/ ServerAnswers(i) \/ GetDone(i) \/ GetFails(i)
    \/ PollCheck
    \/ ListTick
    \/ ListAnswered
    \/ \E ran \in BagToSet(lists) : ListDone(ran)
    \/ ListFails

Next ==
    \/ User
    \/ Network
    \/ \E n \in Imports : ImportStarts(n) \/ ImportEnds(n)

Spec == ImportPollingInit /\ [][Next]_vars

\* Timers fire, requests are answered and imports end; lists need not be asked for.
Fairness ==
    /\ \A i \in Items :
         /\ WF_vars(PostTaken(i) \/ PostAnswered(i) \/ PostFails(i))
         /\ WF_vars(TimerFires(i)) /\ WF_vars(ServerAnswers(i)) /\ WF_vars(GetDone(i))
    /\ \A n \in Imports : WF_vars(ImportEnds(n))

FairSpec == Spec /\ Fairness

---------------------------------------------------------------------------------
(* Properties. *)

\* The variables keep their types.
TypeOK ==
    /\ imports \in [Imports -> ServerStates]
    /\ kind \in [Items -> Kinds]
    /\ listed \in SUBSET Items
    /\ post \in [Items -> {"none", "sent"} \cup Imports]
    /\ id \in [Items -> Imports \cup {NoImport}]
    /\ state \in [Items -> ItemStates]
    /\ timeout \in [Items -> {"none", "set", "fired"}]
    /\ polling \in [Items -> BOOLEAN]
    /\ asked \in [Items -> Nat]
    /\ answers \in [Items -> SUBSET ServerStates]
    /\ layers \in [Items -> Nat]
    /\ pollTimer \in BOOLEAN
    /\ starts \in Nat
    /\ listsAsked \in Nat
    /\ IsABag(lists) /\ BagToSet(lists) \subseteq SUBSET Imports

\* "It waits for ongoing fetch requests before trying to fetch again": an item never has
\* two GETs under way, although stop forgets the one under way and its answer starts the
\* poller again; with two, an older answer could come last.
OneGet ==
    \A i \in Items :
        /\ asked[i] + (IF answers[i] = {} THEN 0 ELSE 1) <= 1
        /\ \A s, t \in answers[i] : s = t

\* What an item shows of an ended import is how the import has ended, and its layer in
\* the editor is added once, for an import that is complete.
EndIsTrue ==
    \A i \in Items :
        /\ id[i] \in Imports /\ state[i] \in Ended => imports[id[i]] = state[i]
        /\ layers[i] <= 1
        /\ layers[i] = 1 => state[i] = "complete"

\* Lists answered in any order never add two items for one import.
OneAddedByList ==
    \A i, j \in listed :
        kind[i] = "list" /\ kind[j] = "list" /\ id[i] = id[j] => i = j

\* Counting what is in the collection keeps the user's own imports within the quota.
OwnWithinQuota == Cardinality({i \in listed : kind[i] # "list" /\ Unfinished(i)}) <= Quota

\* An item that has ended stays as it is, whatever answer is late.
EndStays ==
    [][\A i \in Items : ~Unfinished(i) => state'[i] = state[i]]_vars

\* An error callback leaves poller.polling as it was, with no GET under way and no timer.
GetHasFailed(i) == polling[i] /\ asked[i] = 0 /\ answers[i] = {}

\* Each import of the collection is shown to its end, unless the user closes it or one of
\* its GETs fails: timers, answers and lists in any order never leave it without a timer.
EndShown ==
    \A i \in Items :
        i \in listed ~> (~Unfinished(i) \/ i \notin listed \/ GetHasFailed(i))

\* "Periodically fetches a model/collection": an item of the collection that has not ended
\* and knows its import has a timer or a GET under way.
KeepsPolling ==
    \A i \in listed :
        id[i] \in Imports /\ Unfinished(i) =>
            timeout[i] = "set" \/ asked[i] > 0 \/ answers[i] # {}
=================================================================================
