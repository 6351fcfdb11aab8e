--------------------------- MODULE ImportPollingProofs ---------------------------
(* The items and the pollers of ImportPolling, for any items and imports, and  *)
(* however many lists are under way: type correctness, OneGet, EndIsTrue,      *)
(* EndStays, OneAddedByList and OwnWithinQuota. All but the last two follow    *)
(* from what each item may be like, ItemInv.                                   *)
EXTENDS ImportPolling, FiniteSetTheorems, TLAPS

\* No GET of the item is under way.
Quiet(i) == asked[i] = 0 /\ answers[i] = {}

\* At most one GET: none, one that the server has not answered, or one answer.
Gets(i) ==
    \/ Quiet(i)
    \/ asked[i] = 1 /\ answers[i] = {}
    \/ asked[i] = 0 /\ \E s \in ServerStates : answers[i] = {s}

\* A timer or a GET is for an import that is known, and there are never both.
Polls(i) ==
    /\ timeout[i] = "set" => Quiet(i) /\ id[i] \in Imports
    /\ ~Quiet(i) => id[i] \in Imports
    /\ \A s \in answers[i] \cap Ended : imports[id[i]] = s

\* While its POST is under way the item does nothing else.
Posts(i) ==
    post[i] # "none" =>
        /\ kind[i] \in {"file", "url"}
        /\ Quiet(i) /\ timeout[i] = "none"
        /\ id[i] = NoImport /\ state[i] = "none"

\* An item that is not in use.
Rests(i) ==
    kind[i] = "none" =>
        /\ i \notin listed /\ post[i] = "none"
        /\ Quiet(i) /\ timeout[i] = "none"
        /\ id[i] = NoImport /\ state[i] = "none" /\ layers[i] = 0

\* An item that has ended asks for nothing any more.
Ends(i) ==
    /\ ~Unfinished(i) => Quiet(i) /\ timeout[i] # "set" /\ post[i] = "none"
    /\ id[i] \in Imports /\ state[i] \in Ended => imports[id[i]] = state[i]
    /\ layers[i] \in {0, 1}
    /\ layers[i] = 1 => state[i] = "complete"

ItemInv == \A i \in Items : Gets(i) /\ Polls(i) /\ Posts(i) /\ Rests(i) /\ Ends(i)

PollInv == TypeOK /\ ItemInv

---------------------------------------------------------------------------------
(* Types. *)

LEMMA BagAdds ==
    ASSUME NEW B, IsABag(B), NEW e
    PROVE  /\ IsABag(B (+) SetToBag({e}))
           /\ BagToSet(B (+) SetToBag({e})) = BagToSet(B) \cup {e}
BY DEF IsABag, BagToSet, SetToBag, (+)

LEMMA BagTakes ==
    ASSUME NEW B, IsABag(B), NEW e
    PROVE  /\ IsABag(B (-) SetToBag({e}))
           /\ BagToSet(B (-) SetToBag({e})) \subseteq BagToSet(B)
BY DEF IsABag, BagToSet, SetToBag, (-)

LEMMA InitTypes == ImportPollingInit => TypeOK
<1> SUFFICES ASSUME ImportPollingInit PROVE TypeOK
  OBVIOUS
<1>1. IsABag(EmptyBag) /\ BagToSet(EmptyBag) = {}
  BY DEF EmptyBag, SetToBag, IsABag, BagToSet
<1>2. starts \in Nat
  BY ImportPollingAssumption DEF ImportPollingInit
<1> QED
  BY <1>1, <1>2 DEF ImportPollingInit, TypeOK, ServerStates, Kinds, ItemStates

LEMMA ItemTypes ==
    ASSUME PollInv, NEW i \in Items,
           \/ \E how \in {"file", "url"} : AddImport(i, how)
           \/ PostTaken(i) \/ PostAnswered(i) \/ PostFails(i) \/ RemoveItem(i)
           \/ TimerFires(i) \/ ServerAnswers(i) \/ GetDone(i) \/ GetFails(i)
    PROVE  TypeOK'
<1> USE DEF PollInv, TypeOK, ServerStates, Kinds, ItemStates, server, item, poller, collection
<1>1. CASE \E how \in {"file", "url"} : AddImport(i, how)
  BY <1>1, ImportPollingAssumption DEF AddImport, Unused, Starts
<1>2. CASE PostTaken(i)
  BY <1>2 DEF PostTaken
<1>3. CASE PostAnswered(i)
  BY <1>3 DEF PostAnswered, Start
<1>4. CASE PostFails(i)
  <2>1. PostError(i) \in ItemStates
    BY DEF PostError
  <2> QED
    BY <1>4, <2>1 DEF PostFails
<1>5. CASE RemoveItem(i)
  BY <1>5 DEF RemoveItem
<1>6. CASE TimerFires(i)
  <2>1. polling' = polling \/ polling' = [polling EXCEPT ![i] = TRUE]
    BY <1>6, Zenon DEF TimerFires
  <2>2. polling' \in [Items -> BOOLEAN]
    BY <2>1
  <2>3. asked' = asked \/ asked' = [asked EXCEPT ![i] = @ + 1]
    BY <1>6, Zenon DEF TimerFires
  <2>4. asked' \in [Items -> Nat]
    BY <2>3
  <2> QED
    BY <1>6, <2>2, <2>4 DEF TimerFires
<1>7. CASE ServerAnswers(i)
  BY <1>7 DEF ServerAnswers, ItemInv, Polls, Quiet
<1>8. CASE GetDone(i)
  BY <1>8 DEF GetDone, Ended
<1>9. CASE GetFails(i)
  BY <1>9 DEF GetFails
<1> QED
  BY <1>1, <1>2, <1>3, <1>4, <1>5, <1>6, <1>7, <1>8, <1>9

\* What an answer adds to the collection.
Adds(ran, added, of) ==
    /\ \A i, j \in added : of[i] = of[j] => i = j
    /\ listed' = listed \cup added
    /\ kind' = [i \in Items |-> IF i \in added THEN "list" ELSE kind[i]]
    /\ id' = [i \in Items |-> IF i \in added THEN of[i] ELSE id[i]]
    /\ timeout' = [i \in Items |-> IF i \in added THEN "set" ELSE timeout[i]]

LEMMA ListAdds ==
    ASSUME TypeOK, NEW ran \in BagToSet(lists), ListDone(ran)
    PROVE  \E added \in SUBSET Unused : \E of \in [added -> Unknown(ran)] : Adds(ran, added, of)
<1>1. CASE ran = {}
  <2> DEFINE none == [i \in {} |-> i]
  <2>1. none \in [{} -> Unknown(ran)] /\ Adds(ran, {}, none)
    BY <1>1 DEF ListDone, Adds, TypeOK
  <2> QED
    BY <2>1
<1>2. CASE ran # {}
  <2>1. PICK new \in [Unknown(ran) -> Unused] :
          LET added == {new[n] : n \in Unknown(ran)}
              of(i) == CHOOSE n \in Unknown(ran) : new[n] = i
          IN /\ \A n, m \in Unknown(ran) : n # m => new[n] # new[m]
             /\ kind' = [i \in Items |-> IF i \in added THEN "list" ELSE kind[i]]
             /\ listed' = listed \cup added
             /\ id' = [i \in Items |-> IF i \in added THEN of(i) ELSE id[i]]
             /\ timeout' = [i \in Items |-> IF i \in added THEN "set" ELSE timeout[i]]
    BY <1>2 DEF ListDone
  <2> DEFINE added == {new[n] : n \in Unknown(ran)}
             of == [i \in added |-> CHOOSE n \in Unknown(ran) : new[n] = i]
  <2>2. \A i \in added : of[i] \in Unknown(ran) /\ new[of[i]] = i
    OBVIOUS
  <2>3. added \in SUBSET Unused /\ of \in [added -> Unknown(ran)]
    BY <2>2
  <2>4. \A i, j \in added : of[i] = of[j] => i = j
    BY <2>2
  <2>5. id' = [i \in Items |-> IF i \in added THEN of[i] ELSE id[i]]
    BY <2>1
  <2>6. Adds(ran, added, of)
    <3> HIDE DEF of
    <3> QED
      BY <2>1, <2>4, <2>5 DEF Adds
  <2> QED
    BY <2>3, <2>6
<1> QED
  BY <1>1, <1>2

LEMMA ListTypes ==
    ASSUME TypeOK, NEW ran \in BagToSet(lists), ListDone(ran)
    PROVE  TypeOK'
<1>1. PICK added \in SUBSET Unused : \E of \in [added -> Unknown(ran)] : Adds(ran, added, of)
  BY ListAdds
<1>2. PICK of \in [added -> Unknown(ran)] : Adds(ran, added, of)
  BY <1>1
<1>3. Unknown(ran) \subseteq Imports
  BY DEF Unknown, TypeOK
<1>4. kind' \in [Items -> Kinds] /\ listed' \in SUBSET Items
  BY <1>2 DEF Adds, TypeOK, Kinds, Unused
<1>5. id' \in [Items -> Imports \cup {NoImport}] /\ timeout' \in [Items -> {"none", "set", "fired"}]
  BY <1>2, <1>3 DEF Adds, TypeOK
<1>6. IsABag(lists') /\ BagToSet(lists') \subseteq SUBSET Imports
  BY BagTakes DEF ListDone, TypeOK
<1>7. starts' \in Nat
  <2>1. starts' \in {starts, Starts}
    BY DEF ListDone
  <2> QED
    BY <2>1 DEF TypeOK, Starts
<1>8. pollTimer' \in BOOLEAN
  <2>1. CASE ran = {}
    BY <2>1 DEF ListDone
  <2>2. CASE ran # {}
    BY <2>2 DEF ListDone, TypeOK
  <2> QED
    BY <2>1, <2>2
<1> QED
  BY <1>4, <1>5, <1>6, <1>7, <1>8 DEF ListDone, TypeOK, server

LEMMA OtherTypes ==
    ASSUME TypeOK,
           \/ PollCheck \/ ListTick \/ ListAnswered \/ ListFails
           \/ StopPollings \/ StartPollings
           \/ \E n \in Imports : ImportStarts(n) \/ ImportEnds(n)
           \/ UNCHANGED vars
    PROVE  TypeOK'
<1>1. CASE PollCheck \/ ListTick
  <2>1. /\ UNCHANGED pollTimer \/ pollTimer' = TRUE
        /\ listsAsked' \in {listsAsked, listsAsked + 1}
    BY <1>1 DEF PollCheck, ListTick, SendList
  <2>2. UNCHANGED starts \/ (starts > 0 /\ starts' = starts - 1)
    BY <1>1 DEF PollCheck, ListTick
  <2>3. pollTimer' \in BOOLEAN
    BY <2>1, Zenon DEF TypeOK
  <2>4. listsAsked' \in Nat /\ starts' \in Nat
    <3>1. listsAsked \in Nat /\ starts \in Nat
      BY DEF TypeOK
    <3> QED
      BY <2>1, <2>2, <3>1
  <2> QED
    BY <1>1, <2>3, <2>4 DEF PollCheck, ListTick, TypeOK, server, item, poller
<1>2. CASE ListAnswered
  <2>1. Running \in SUBSET Imports
    BY DEF Running
  <2>2. listsAsked' \in Nat /\ lists' = lists (+) SetToBag({Running})
    BY <1>2 DEF ListAnswered, TypeOK
  <2>3. IsABag(lists') /\ BagToSet(lists') = BagToSet(lists) \cup {Running}
    BY <2>2, BagAdds DEF TypeOK
  <2>4. BagToSet(lists') \subseteq SUBSET Imports
    BY <2>1, <2>3 DEF TypeOK
  <2> QED
    BY <1>2, <2>2, <2>3, <2>4 DEF ListAnswered, TypeOK, server, item, poller
<1>3. CASE ListFails
  <2>1. listsAsked' \in Nat
    <3>1. UNCHANGED listsAsked \/ (listsAsked > 0 /\ listsAsked' = listsAsked - 1)
      BY <1>3, Zenon DEF ListFails
    <3>2. listsAsked \in Nat
      BY DEF TypeOK
    <3> QED
      BY <3>1, <3>2
  <2>2. UNCHANGED lists \/ \E ran \in BagToSet(lists) : lists' = lists (-) SetToBag({ran})
    BY <1>3 DEF ListFails
  <2>3. IsABag(lists') /\ BagToSet(lists') \subseteq BagToSet(lists)
    <3>1. IsABag(lists)
      BY DEF TypeOK
    <3>2. CASE UNCHANGED lists
      BY <3>1, <3>2
    <3>3. ASSUME NEW ran, lists' = lists (-) SetToBag({ran})
          PROVE  IsABag(lists') /\ BagToSet(lists') \subseteq BagToSet(lists)
      BY <3>1, <3>3, BagTakes
    <3> QED
      BY <2>2, <3>2, <3>3
  <2>4. BagToSet(lists') \subseteq SUBSET Imports
    BY <2>3 DEF TypeOK
  <2> QED
    BY <1>3, <2>1, <2>3, <2>4 DEF ListFails, TypeOK, server, item, poller
<1>4. CASE StopPollings \/ StartPollings
  <2>1. starts' \in {starts, Starts} /\ (UNCHANGED pollTimer \/ pollTimer' = FALSE)
    BY <1>4 DEF StopPollings, StartPollings
  <2>2. starts' \in Nat
    <3>1. starts \in Nat /\ Starts \in Nat
      BY DEF TypeOK, Starts
    <3> QED
      BY <2>1, <3>1
  <2>3. pollTimer' \in BOOLEAN
    BY <2>1, Zenon DEF TypeOK
  <2> QED
    BY <1>4, <2>2, <2>3 DEF StopPollings, StartPollings, TypeOK, server, item, poller
<1>5. CASE \E n \in Imports : ImportStarts(n) \/ ImportEnds(n)
  BY <1>5 DEF ImportStarts, ImportEnds, Ended, ServerStates, TypeOK, item, poller, collection
<1>6. CASE UNCHANGED vars
  BY <1>6 DEF vars, TypeOK
<1> QED
  BY <1>1, <1>2, <1>3, <1>4, <1>5, <1>6

---------------------------------------------------------------------------------
(* Items. *)

LEMMA InitItems == ImportPollingInit => ItemInv
BY ImportPollingAssumption
   DEF ImportPollingInit, ItemInv, Gets, Polls, Posts, Rests, Ends, Quiet, Unfinished, Ended

LEMMA ItemSteps ==
    ASSUME PollInv, NEW i \in Items,
           \/ \E how \in {"file", "url"} : AddImport(i, how)
           \/ PostTaken(i) \/ PostAnswered(i) \/ PostFails(i) \/ RemoveItem(i)
           \/ TimerFires(i) \/ ServerAnswers(i) \/ GetDone(i) \/ GetFails(i)
    PROVE  ItemInv'
<1> SUFFICES ASSUME NEW j \in Items
             PROVE  (Gets(j) /\ Polls(j) /\ Posts(j) /\ Rests(j) /\ Ends(j))'
  BY DEF ItemInv
<1>0. Gets(j) /\ Polls(j) /\ Posts(j) /\ Rests(j) /\ Ends(j)
  BY DEF PollInv, ItemInv
<1> USE DEF PollInv, TypeOK, Gets, Polls, Posts, Rests, Ends, Quiet, Unfinished,
            server, item, poller, collection
<1>1. CASE \E how \in {"file", "url"} : AddImport(i, how)
  BY <1>0, <1>1 DEF AddImport, Unused
<1>2. CASE PostTaken(i)
  BY <1>0, <1>2, ImportPollingAssumption DEF PostTaken, Ended
<1>3. CASE PostAnswered(i)
  BY <1>0, <1>3, ImportPollingAssumption DEF PostAnswered, Start, Ended
<1>4. CASE PostFails(i)
  BY <1>0, <1>4, ImportPollingAssumption DEF PostFails, PostError, Ended
<1>5. CASE RemoveItem(i)
  BY <1>0, <1>5 DEF RemoveItem, Ended
<1>6. CASE TimerFires(i)
  BY <1>0, <1>6 DEF TimerFires
<1>7. CASE ServerAnswers(i)
  BY <1>0, <1>7 DEF ServerAnswers
<1>8. CASE GetDone(i)
  <2>1. PICK s \in answers[i] :
          /\ answers' = [answers EXCEPT ![i] = @ \ {s}]
          /\ state' = [state EXCEPT ![i] = s]
          /\ layers' = [layers EXCEPT ![i] =
                          IF i \in listed /\ state[i] # s /\ s = "complete" THEN @ + 1 ELSE @]
          /\ timeout' = [timeout EXCEPT ![i] = IF s \in Ended THEN @ ELSE "set"]
    BY <1>8 DEF GetDone
  <2>2. answers[i] = {s} /\ asked[i] = 0
    BY <2>1 DEF ItemInv
  <2>3. UNCHANGED <<imports, kind, listed, post, id, asked>>
    BY <1>8 DEF GetDone
  <2>4. CASE j = i
    <3>1. answers'[i] = {} /\ state'[i] = s /\ Unfinished(i) /\ layers[i] = 0
      BY <2>1, <2>2 DEF ItemInv
    <3>2. layers'[i] \in {0, 1} /\ (layers'[i] = 1 => s = "complete")
      BY <2>1, <3>1
    <3>3. timeout'[i] = IF s \in Ended THEN timeout[i] ELSE "set"
      BY <2>1
    <3>4. Gets(i)' /\ Posts(i)' /\ Rests(i)'
      BY <1>0, <2>2, <2>3, <2>4, <3>1
    <3>5. Polls(i)'
      BY <1>0, <2>2, <2>3, <2>4, <3>1
    <3>6. Ends(i)'
      <4>1. ~Unfinished(i)' => Quiet(i)' /\ timeout'[i] # "set" /\ post'[i] = "none"
        <5>1. post[i] = "none" /\ timeout[i] # "set"
          BY <1>0, <2>2, <2>4
        <5>2. s # "error"
          BY <2>1 DEF ServerStates
        <5> QED
          BY <2>2, <2>3, <3>1, <3>3, <5>1, <5>2 DEF Ended
      <4>2. id'[i] \in Imports /\ state'[i] \in Ended => imports'[id'[i]] = state'[i]
        BY <1>0, <2>2, <2>3, <2>4, <3>1
      <4> QED
        BY <3>1, <3>2, <4>1, <4>2
    <3> QED
      BY <2>4, <3>4, <3>5, <3>6
  <2>5. CASE j # i
    BY <1>0, <2>1, <2>3, <2>5
  <2> QED
    BY <2>4, <2>5
<1>9. CASE GetFails(i)
  BY <1>0, <1>9 DEF GetFails
<1> QED
  BY <1>1, <1>2, <1>3, <1>4, <1>5, <1>6, <1>7, <1>8, <1>9

LEMMA ListSteps ==
    ASSUME PollInv, NEW ran \in BagToSet(lists), ListDone(ran)
    PROVE  ItemInv'
<1>1. PICK added \in SUBSET Unused : \E of \in [added -> Unknown(ran)] : Adds(ran, added, of)
  BY ListAdds DEF PollInv
<1>2. PICK of \in [added -> Unknown(ran)] : Adds(ran, added, of)
  BY <1>1
<1>3. Unknown(ran) \subseteq Imports
  BY DEF Unknown, PollInv, TypeOK
<1> SUFFICES ASSUME NEW j \in Items
             PROVE  (Gets(j) /\ Polls(j) /\ Posts(j) /\ Rests(j) /\ Ends(j))'
  BY DEF ItemInv
<1>4. Gets(j) /\ Polls(j) /\ Posts(j) /\ Rests(j) /\ Ends(j)
  BY DEF PollInv, ItemInv
<1>5. UNCHANGED <<imports, post, state, layers, polling, asked, answers>>
  BY DEF ListDone, server
<1> USE DEF Gets, Polls, Posts, Rests, Ends, Quiet, Unfinished
<1>6. CASE j \in added
  BY <1>2, <1>3, <1>4, <1>5, <1>6 DEF Adds, Unused, Ended
<1>7. CASE j \notin added
  BY <1>2, <1>4, <1>5, <1>7 DEF Adds
<1> QED
  BY <1>6, <1>7

LEMMA OtherSteps ==
    ASSUME PollInv,
           \/ PollCheck \/ ListTick \/ ListAnswered \/ ListFails
           \/ StopPollings \/ StartPollings
           \/ \E n \in Imports : ImportStarts(n) \/ ImportEnds(n)
           \/ UNCHANGED vars
    PROVE  ItemInv'
<1> SUFFICES ASSUME NEW j \in Items
             PROVE  (Gets(j) /\ Polls(j) /\ Posts(j) /\ Rests(j) /\ Ends(j))'
  BY DEF ItemInv
<1>0. Gets(j) /\ Polls(j) /\ Posts(j) /\ Rests(j) /\ Ends(j)
  BY DEF PollInv, ItemInv
<1> USE DEF Gets, Polls, Posts, Rests, Ends, Quiet, Unfinished
<1>1. CASE \E n \in Imports : ImportStarts(n) \/ ImportEnds(n)
  BY <1>0, <1>1 DEF PollInv, TypeOK, ImportStarts, ImportEnds, Ended, item, poller
<1>2. CASE UNCHANGED <<imports, kind, listed, post, id, state, layers, timeout, asked, answers>>
  BY <1>0, <1>2
<1> QED
  BY <1>1, <1>2 DEF PollCheck, ListTick, ListAnswered, ListFails, StopPollings, StartPollings,
                    server, item, poller, vars

LEMMA PollStep == PollInv /\ [Next]_vars => PollInv'
<1> SUFFICES ASSUME PollInv, [Next]_vars PROVE PollInv'
  OBVIOUS
<1>1. ASSUME NEW i \in Items,
             \/ \E how \in {"file", "url"} : AddImport(i, how)
             \/ PostTaken(i) \/ PostAnswered(i) \/ PostFails(i) \/ RemoveItem(i)
             \/ TimerFires(i) \/ ServerAnswers(i) \/ GetDone(i) \/ GetFails(i)
      PROVE  PollInv'
  BY <1>1, ItemTypes, ItemSteps DEF PollInv
<1>2. ASSUME NEW ran \in BagToSet(lists), ListDone(ran) PROVE PollInv'
  BY <1>2, ListTypes, ListSteps DEF PollInv
<1>3. ASSUME \/ PollCheck \/ ListTick \/ ListAnswered \/ ListFails
             \/ StopPollings \/ StartPollings
             \/ \E n \in Imports : ImportStarts(n) \/ ImportEnds(n)
             \/ UNCHANGED vars
      PROVE  PollInv'
  BY <1>3, OtherTypes, OtherSteps DEF PollInv
<1> QED
  BY <1>1, <1>2, <1>3 DEF Next, User, Network

THEOREM PollInvAlways == Spec => []PollInv
<1>1. ImportPollingInit => PollInv
  BY InitTypes, InitItems DEF PollInv
<1> QED
  BY <1>1, PollStep, PTL DEF Spec

---------------------------------------------------------------------------------
(* What follows from it. *)

\* Every item, timer, request and answer keeps its type, whatever fails or is late.
THEOREM TypesTheorem == Spec => []TypeOK
BY PollInvAlways, PTL DEF PollInv

\* However the timers, the stops and the late answers of a poller fall, its item never
\* has two GETs under way (poller.js:4-6).
THEOREM OneGetTheorem == Spec => []OneGet
<1>1. PollInv => OneGet
  BY DEF PollInv, TypeOK, ItemInv, Gets, Quiet, OneGet
<1> QED
  BY <1>1, PollInvAlways, PTL

\* An item that shows an end shows that of its import, and its layer is added once.
THEOREM EndIsTrueTheorem == Spec => []EndIsTrue
<1>1. PollInv => EndIsTrue
  BY DEF PollInv, ItemInv, Ends, EndIsTrue
<1> QED
  BY <1>1, PollInvAlways, PTL

LEMMA ItemEnds ==
    ASSUME PollInv, [Next]_vars, NEW i \in Items, ~Unfinished(i)
    PROVE  state'[i] = state[i]
<1>1. Quiet(i) /\ post[i] = "none" /\ state \in [Items -> ItemStates]
  BY DEF PollInv, TypeOK, ItemInv, Ends
<1>2. UNCHANGED state \/ \E j \in Items : PostFails(j) \/ RemoveItem(j) \/ GetDone(j)
  BY DEF Next, User, Network, AddImport, PostTaken, PostAnswered, TimerFires, ServerAnswers,
         GetFails, PollCheck, ListTick, ListAnswered, ListDone, ListFails, StopPollings,
         StartPollings, ImportStarts, ImportEnds, server, item, poller, collection, vars
<1>3. ASSUME NEW j \in Items, PostFails(j) \/ RemoveItem(j) \/ GetDone(j)
      PROVE  state'[i] = state[i]
  BY <1>1, <1>3 DEF PostFails, RemoveItem, GetDone, Quiet
<1> QED
  BY <1>2, <1>3

\* No answer that is late, to a GET or to a POST, changes an item that has ended.
THEOREM EndStaysTheorem == Spec => EndStays
<1>1. PollInv /\ [Next]_vars => [\A i \in Items : ~Unfinished(i) => state'[i] = state[i]]_vars
  BY ItemEnds
<1> QED
  BY <1>1, PollInvAlways, PTL DEF Spec, EndStays

\* Lists that are answered in any order give one item to an import, not two.
THEOREM OneAddedTheorem == Spec => []OneAddedByList
<1>1. ImportPollingInit => OneAddedByList
  BY DEF ImportPollingInit, OneAddedByList
<1>2. PollInv /\ OneAddedByList /\ [Next]_vars => OneAddedByList'
  <2> SUFFICES ASSUME PollInv, OneAddedByList, [Next]_vars PROVE OneAddedByList'
    OBVIOUS
  <2>1. CASE \E ran \in BagToSet(lists) : ListDone(ran)
    <3>1. PICK ran \in BagToSet(lists) : ListDone(ran)
      BY <2>1
    <3>2. PICK added \in SUBSET Unused : \E of \in [added -> Unknown(ran)] : Adds(ran, added, of)
      BY <3>1, ListAdds DEF PollInv
    <3>3. PICK of \in [added -> Unknown(ran)] : Adds(ran, added, of)
      BY <3>2
    <3>4. listed \subseteq Items /\ added \subseteq Items
      BY DEF PollInv, TypeOK, Unused
    <3>5. \A i \in added, j \in listed : of[i] # id[j]
      BY DEF Unknown
    <3> QED
      BY <3>3, <3>4, <3>5 DEF Adds, OneAddedByList
  <2>2. CASE \E i \in Items : \E how \in {"file", "url"} : AddImport(i, how)
    BY <2>2 DEF PollInv, TypeOK, AddImport, OneAddedByList
  <2>3. CASE \E i \in Items : PostAnswered(i)
    BY <2>3, ImportPollingAssumption
       DEF PollInv, TypeOK, ItemInv, Posts, PostAnswered, OneAddedByList
  <2>4. CASE UNCHANGED <<kind, id>> /\ listed' \subseteq listed
    BY <2>4 DEF OneAddedByList
  <2> QED
    BY <2>1, <2>2, <2>3, <2>4
       DEF Next, User, Network, PostTaken, PostFails, RemoveItem, TimerFires, ServerAnswers,
           GetDone, GetFails, PollCheck, ListTick, ListAnswered, ListFails, StopPollings,
           StartPollings, ImportStarts, ImportEnds, server, item, poller, collection, vars
<1> QED
  BY <1>1, <1>2, PollInvAlways, PTL DEF Spec

\* The items of the user's own that count against the quota.
Own == {i \in listed : kind[i] # "list" /\ Unfinished(i)}

\* With any quota and any items of other windows, the user's own stay within it.
THEOREM QuotaTheorem == Spec => []OwnWithinQuota
<1>1. ImportPollingInit => OwnWithinQuota
  <2> SUFFICES ASSUME ImportPollingInit PROVE OwnWithinQuota
    OBVIOUS
  <2>1. {i \in listed : kind[i] # "list" /\ Unfinished(i)} = {}
    BY DEF ImportPollingInit
  <2> QED
    BY <2>1, FS_EmptySet, ImportPollingAssumption DEF OwnWithinQuota
<1>2. PollInv /\ OwnWithinQuota /\ [Next]_vars => OwnWithinQuota'
  <2> SUFFICES ASSUME PollInv, OwnWithinQuota, [Next]_vars PROVE OwnWithinQuota'
    OBVIOUS
  <2>1. IsFiniteSet(listed) /\ listed \subseteq Items
    BY FS_Subset, ImportPollingAssumption DEF PollInv, TypeOK
  <2>2. IsFiniteSet(Own) /\ Cardinality(Own) \in Nat /\ Cardinality(Own) <= Quota
    BY <2>1, FS_Subset, FS_CardinalityType DEF Own, OwnWithinQuota
  <2>3. CASE \E i \in Items : \E how \in {"file", "url"} : AddImport(i, how)
    <3>1. PICK i \in Items, how \in {"file", "url"} : AddImport(i, how)
      BY <2>3
    <3> DEFINE all == {j \in listed : Unfinished(j)}
    <3>2. IsFiniteSet(all) /\ Cardinality(all) \in Nat /\ Cardinality(all) < Quota
      BY <2>1, <3>1, FS_Subset, FS_CardinalityType DEF AddImport, CanImport
    <3>3. Cardinality(Own) <= Cardinality(all)
      BY <3>2, FS_Subset DEF Own
    <3>4. Own' \subseteq Own \cup {i}
      BY <2>1, <3>1 DEF AddImport, Own, Unfinished, PollInv, TypeOK
    <3>5. IsFiniteSet(Own \cup {i}) /\ Cardinality(Own \cup {i}) <= Cardinality(Own) + 1
          /\ Cardinality(Own \cup {i}) \in Nat
      <4>1. IsFiniteSet(Own \cup {i})
        BY <2>2, FS_AddElement
      <4>2. Cardinality(Own \cup {i}) = IF i \in Own THEN Cardinality(Own) ELSE Cardinality(Own) + 1
        BY <2>2, FS_AddElement, Zenon
      <4> HIDE DEF Own
      <4> QED
        BY <2>2, <4>1, <4>2
    <3>6. Cardinality(Own') <= Cardinality(Own \cup {i}) /\ Cardinality(Own') \in Nat
      BY <3>4, <3>5, FS_Subset, FS_CardinalityType
    <3>7. Cardinality(Own') <= Quota
      BY <2>2, <3>2, <3>3, <3>5, <3>6, ImportPollingAssumption
    <3> QED
      BY <3>7 DEF Own, OwnWithinQuota
  <2>4. CASE Own' \subseteq Own
    <3>1. Cardinality(Own') <= Cardinality(Own) /\ Cardinality(Own') \in Nat
      BY <2>2, <2>4, FS_Subset, FS_CardinalityType
    <3>2. Cardinality(Own') <= Quota
      BY <2>2, <3>1, ImportPollingAssumption
    <3> QED
      BY <3>2 DEF Own, OwnWithinQuota
  <2>5. \A i \in Items : ~Unfinished(i) => state'[i] = state[i]
    BY ItemEnds
  <2>6. CASE \E ran \in BagToSet(lists) : ListDone(ran)
    <3>1. PICK ran \in BagToSet(lists) : ListDone(ran)
      BY <2>6
    <3>2. PICK added \in SUBSET Unused : \E of \in [added -> Unknown(ran)] : Adds(ran, added, of)
      BY <3>1, ListAdds DEF PollInv
    <3>3. listed' = listed \cup added /\ added \subseteq Items
          /\ kind' = [i \in Items |-> IF i \in added THEN "list" ELSE kind[i]]
      BY <3>2 DEF Adds, Unused
    <3>4. Own' \subseteq Own
      BY <2>1, <2>5, <3>3 DEF Own, Unfinished
    <3> QED
      BY <2>4, <3>4
  <2>7. CASE UNCHANGED kind /\ listed' \subseteq listed
    <3>1. Own' \subseteq Own
      BY <2>1, <2>5, <2>7 DEF Own, Unfinished
    <3> QED
      BY <2>4, <3>1
  <2> QED
    BY <2>3, <2>6, <2>7
       DEF Next, User, Network, PostTaken, PostAnswered, PostFails, RemoveItem, TimerFires,
           ServerAnswers, GetDone, GetFails, PollCheck, ListTick, ListAnswered, ListFails,
           StopPollings, StartPollings, ImportStarts, ImportEnds, server, item, poller,
           collection, vars
<1> QED
  BY <1>1, <1>2, PollInvAlways, PTL DEF Spec
=================================================================================
