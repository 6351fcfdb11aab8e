------------------------ MODULE UserActionsNodesProofs ------------------------
(* Proofs about the graph of the nodes in UserActions, for a user who is        *)
(* careful as CarefulSpec says: nothing reads what is not there, and what the    *)
(* layers and widgets show does not change unless an analysis does.              *)
EXTENDS UserActionsProofs

(* What a node is made of: the least set with it that has the sources of   *)
(* each of its nodes.                                                      *)

WithSources(g, ids) == ids \cup UNION {Sources(g, i) : i \in ids}

\* within has what is found after each number of steps.
Closes(within, g, id, n) ==
    within = [k \in 0 .. n |-> IF k = 0 THEN {id} \cap DOMAIN g ELSE WithSources(g, within[k - 1])]

\* What containsNode answers true for is found step by step.
LEMMA ContainedSteps ==
  ASSUME NEW g, IsFiniteSet(DOMAIN g), NEW id
  PROVE  \E within : /\ Closes(within, g, id, Cardinality(DOMAIN g))
                     /\ Contained(g, id) = within[Cardinality(DOMAIN g)]
<1> DEFINE m == Cardinality(DOMAIN g)
           T == {n \in Nat : \E h : Closes(h, g, id, n)}
<1>0. m \in Nat
  BY FS_CardinalityType
<1>1. 0 \in T
  <2>1. Closes([k \in 0 .. 0 |-> {id} \cap DOMAIN g], g, id, 0)
    BY DEF Closes
  <2> QED
    BY <2>1
<1>2. ASSUME NEW n \in Nat, n \in T PROVE n + 1 \in T
  <2>1. PICK h : Closes(h, g, id, n)
    BY <1>2
  <2> DEFINE more == [k \in 0 .. (n + 1) |-> IF k # n + 1 THEN h[k] ELSE WithSources(g, h[n])]
  <2>2. ASSUME NEW k \in 0 .. (n + 1)
        PROVE  more[k] = IF k = 0 THEN {id} \cap DOMAIN g ELSE WithSources(g, more[k - 1])
    <3>1. CASE k = n + 1
      <4>1. k # 0 /\ k - 1 = n /\ n \in 0 .. (n + 1) /\ n # n + 1
        BY <3>1
      <4>2. more[n] = h[n] /\ more[k] = WithSources(g, h[n])
        BY <3>1, <4>1
      <4> QED
        BY <4>1, <4>2
    <3>2. CASE k # n + 1
      <4>1. k \in 0 .. n /\ (k # 0 => k - 1 \in 0 .. (n + 1) /\ k - 1 # n + 1)
        BY <3>2
      <4>2. more[k] = h[k] /\ (k # 0 => more[k - 1] = h[k - 1])
        BY <3>2, <4>1
      <4>3. h[k] = IF k = 0 THEN {id} \cap DOMAIN g ELSE WithSources(g, h[k - 1])
        BY <2>1, <4>1 DEF Closes
      <4> HIDE DEF more
      <4> QED
        BY <4>2, <4>3
    <3> QED
      BY <3>1, <3>2
  <2>3. Closes(more, g, id, n + 1)
    <3>1. more = [k \in 0 .. (n + 1) |-> more[k]]
      OBVIOUS
    <3> HIDE DEF more
    <3> QED
      BY <2>2, <3>1 DEF Closes
  <2>4. n + 1 \in Nat
    OBVIOUS
  <2> HIDE DEF more
  <2> QED
    BY <2>3, <2>4
<1>3. \E h : Closes(h, g, id, m)
  <2>1. \A n \in Nat : n \in T
    <3> HIDE DEF T
    <3> QED
      BY <1>1, <1>2, NatSet
  <2> HIDE DEF m
  <2> QED
    BY <1>0, <2>1
<1> DEFINE within == CHOOSE h : Closes(h, g, id, m)
<1>4. Closes(within, g, id, m)
  <2> HIDE DEF m
  <2> QED
    BY <1>3
<1>5. Contained(g, id) = within[m]
  BY DEF Contained, WithSources, Closes
<1> QED
  BY <1>4, <1>5

\* What a node is made of: itself, and the sources of all that it is made of.
LEMMA ContainedIs ==
  ASSUME NEW g, IsFiniteSet(DOMAIN g), NEW id
  PROVE  /\ Contained(g, id) \subseteq DOMAIN g
         /\ id \in DOMAIN g => id \in Contained(g, id)
         /\ \A i \in Contained(g, id) : Sources(g, i) \subseteq Contained(g, id)
<1> DEFINE m == Cardinality(DOMAIN g)
<1>0. m \in Nat
  BY FS_CardinalityType
<1>1. PICK h : Closes(h, g, id, m) /\ Contained(g, id) = h[m]
  BY ContainedSteps
<1> DEFINE Ready(s) == \A i \in s : Sources(g, i) \subseteq s
           U == {n \in Nat : n <= m =>
                   /\ h[n] \subseteq DOMAIN g
                   /\ id \in DOMAIN g => id \in h[n]
                   /\ Ready(h[n]) \/ Cardinality(h[n]) >= n + 1}
<1>2. 0 \in U
  <2>1. h[0] = {id} \cap DOMAIN g
    BY <1>0, <1>1 DEF Closes
  <2>2. CASE id \in DOMAIN g
    <3>1. h[0] = {id} /\ Cardinality({id}) = 1
      BY <2>1, <2>2, FS_Singleton
    <3> QED
      BY <2>2, <3>1
  <2>3. CASE id \notin DOMAIN g
    <3>1. h[0] = {}
      BY <2>1, <2>3
    <3> QED
      BY <2>3, <3>1
  <2> QED
    BY <2>2, <2>3
<1>3. ASSUME NEW n \in Nat, n \in U PROVE n + 1 \in U
  <2>0. SUFFICES ASSUME n + 1 <= m
                 PROVE  /\ h[n + 1] \subseteq DOMAIN g
                        /\ id \in DOMAIN g => id \in h[n + 1]
                        /\ Ready(h[n + 1]) \/ Cardinality(h[n + 1]) >= (n + 1) + 1
    OBVIOUS
  <2>1. /\ h[n] \subseteq DOMAIN g
        /\ id \in DOMAIN g => id \in h[n]
        /\ Ready(h[n]) \/ Cardinality(h[n]) >= n + 1
    BY <1>0, <1>3, <2>0
  <2>2. n + 1 \in 0 .. m /\ n + 1 # 0 /\ (n + 1) - 1 = n
    BY <1>0, <2>0
  <2>3. h[n + 1] = WithSources(g, h[n])
    BY <1>1, <2>2 DEF Closes
  <2>4. h[n] \subseteq h[n + 1] /\ h[n + 1] \subseteq DOMAIN g
    BY <2>1, <2>3 DEF WithSources, Sources
  <2>5. CASE h[n + 1] = h[n]
    <3>1. Ready(h[n + 1])
      BY <2>3, <2>5 DEF WithSources
    <3> QED
      BY <2>1, <2>4, <3>1
  <2>6. CASE h[n + 1] # h[n]
    <3>1. ~Ready(h[n])
      BY <2>3, <2>6 DEF WithSources
    <3>2. IsFiniteSet(h[n + 1])
      BY <2>4, FS_Subset
    <3>3. IsFiniteSet(h[n]) /\ Cardinality(h[n]) <= Cardinality(h[n + 1])
          /\ Cardinality(h[n]) # Cardinality(h[n + 1])
      BY <2>4, <2>6, <3>2, FS_Subset
    <3>4. Cardinality(h[n]) \in Nat /\ Cardinality(h[n + 1]) \in Nat
      BY <3>2, <3>3, FS_CardinalityType
    <3> HIDE DEF Ready
    <3>5. Cardinality(h[n + 1]) >= (n + 1) + 1
      BY <2>1, <3>1, <3>3, <3>4
    <3> QED
      BY <2>1, <2>4, <3>5
  <2> QED
    BY <2>5, <2>6
<1>4. m \in U
  <2>1. \A n \in Nat : n \in U
    <3> HIDE DEF U
    <3> QED
      BY <1>2, <1>3, NatSet
  <2> QED
    BY <1>0, <2>1
<1>5. /\ h[m] \subseteq DOMAIN g
      /\ id \in DOMAIN g => id \in h[m]
      /\ Ready(h[m]) \/ Cardinality(h[m]) >= m + 1
  BY <1>0, <1>4
<1>6. Cardinality(h[m]) <= m /\ Cardinality(h[m]) \in Nat
  BY <1>5, FS_Subset, FS_CardinalityType
<1> HIDE DEF m, Ready
<1>7. Ready(h[m])
  BY <1>0, <1>5, <1>6
<1> QED
  BY <1>1, <1>5, <1>7 DEF Ready

\* And nothing else.
LEMMA ContainedLeast ==
  ASSUME NEW g, IsFiniteSet(DOMAIN g), NEW id, NEW S,
         id \in DOMAIN g => id \in S, \A i \in S : i \in DOMAIN g => Sources(g, i) \subseteq S
  PROVE  Contained(g, id) \subseteq S
<1> DEFINE m == Cardinality(DOMAIN g)
<1>0. m \in Nat
  BY FS_CardinalityType
<1>1. PICK h : Closes(h, g, id, m) /\ Contained(g, id) = h[m]
  BY ContainedSteps
<1> DEFINE U == {n \in Nat : n <= m => h[n] \subseteq S \cap DOMAIN g}
<1>2. 0 \in U
  <2>1. h[0] = {id} \cap DOMAIN g
    BY <1>0, <1>1 DEF Closes
  <2> QED
    BY <2>1
<1>3. ASSUME NEW n \in Nat, n \in U PROVE n + 1 \in U
  <2>0. SUFFICES ASSUME n + 1 <= m PROVE h[n + 1] \subseteq S \cap DOMAIN g
    OBVIOUS
  <2>1. h[n] \subseteq S \cap DOMAIN g
    BY <1>0, <1>3, <2>0
  <2>2. n + 1 \in 0 .. m /\ n + 1 # 0 /\ (n + 1) - 1 = n
    BY <1>0, <2>0
  <2>3. h[n + 1] = WithSources(g, h[n])
    BY <1>1, <2>2 DEF Closes
  <2> QED
    BY <2>1, <2>3 DEF WithSources, Sources
<1>4. m \in U
  <2>1. \A n \in Nat : n \in U
    <3> HIDE DEF U
    <3> QED
      BY <1>2, <1>3, NatSet
  <2> QED
    BY <1>0, <2>1
<1> QED
  BY <1>0, <1>1, <1>4

(* The graph of the nodes.                                                 *)

NodeType == [what : Tables \cup Kinds, prim : AnyId \cup {NoNode}, sec : AnyId \cup {NoNode}]

\* No node of ids has a source outside.
Closed(g, ids) ==
    \A i \in ids : g[i].prim \in ids \cup {NoNode} /\ g[i].sec \in ids \cup {NoNode}

\* Sources have lower ranks: there is no cycle.
Ranked(g, rank) ==
    \A i \in DOMAIN g : /\ g[i].prim # NoNode => rank[g[i].prim] < rank[i]
                        /\ g[i].sec # NoNode => rank[g[i].sec] < rank[i]

\* Down the nodes of a letter the numbers get lower.
Descends(g) ==
    \A i \in DOMAIN g :
        /\ Letter(i) \in 1 .. MaxLetter
        /\ g[i].prim # NoNode
        /\ Letter(g[i].prim) = Letter(i)
        => Sequence(g[i].prim) < Sequence(i)

\* A layer's own nodes are its source and those below one of them.
Headed(g, ls) ==
    \A q \in DOMAIN ls, i \in DOMAIN g :
        Owns(ls[q], i) =>
            i = ls[q].source \/ \E j \in DOMAIN g : Letter(j) = Letter(i) /\ g[j].prim = i

Tidy(g) ==
    /\ IsFiniteSet(DOMAIN g) /\ DOMAIN g \subseteq AnyId /\ g \in [DOMAIN g -> NodeType]
    /\ Closed(g, DOMAIN g)
    /\ \E rank \in [DOMAIN g -> Nat] : Ranked(g, rank)
    /\ Descends(g)

\* No node has the name of an absent source.
LEMMA NoNodeIsNone ==
  ASSUME NEW g, DOMAIN g \subseteq AnyId
  PROVE  NoNode \notin DOMAIN g
BY UserActionsAssumption DEF UserActionsAssumption, AnyId

\* In a graph that is closed the sources of a node are those that it has.
LEMMA SourcesAre ==
  ASSUME NEW g, Tidy(g), NEW i \in DOMAIN g
  PROVE  /\ g[i].prim # NoNode => g[i].prim \in DOMAIN g /\ g[i].prim \in Sources(g, i)
         /\ g[i].sec # NoNode => g[i].sec \in DOMAIN g /\ g[i].sec \in Sources(g, i)
         /\ \A s \in Sources(g, i) : s # NoNode /\ s \in DOMAIN g /\ (s = g[i].prim \/ s = g[i].sec)
BY NoNodeIsNone DEF Tidy, Closed, Sources, SourceIds

\* A node is made of what its sources are made of.
LEMMA ContainedBelow ==
  ASSUME NEW g, Tidy(g), NEW i \in DOMAIN g, NEW j \in Contained(g, i)
  PROVE  j \in DOMAIN g /\ Contained(g, j) \subseteq Contained(g, i)
<1>1. IsFiniteSet(DOMAIN g)
  BY DEF Tidy
<1>2. j \in DOMAIN g
  BY <1>1, ContainedIs
<1>3. \A k \in Contained(g, i) : Sources(g, k) \subseteq Contained(g, i)
  BY <1>1, ContainedIs
<1>4. Contained(g, j) \subseteq Contained(g, i)
  BY <1>1, <1>3, ContainedLeast
<1> QED
  BY <1>2, <1>4

\* A node is made of itself and of its sources.
LEMMA ContainedSources ==
  ASSUME NEW g, Tidy(g), NEW i \in DOMAIN g
  PROVE  /\ i \in Contained(g, i)
         /\ g[i].prim # NoNode => g[i].prim \in Contained(g, i)
         /\ g[i].sec # NoNode => g[i].sec \in Contained(g, i)
         /\ Closed(g, Contained(g, i))
<1>1. IsFiniteSet(DOMAIN g)
  BY DEF Tidy
<1>2. /\ i \in Contained(g, i) /\ Contained(g, i) \subseteq DOMAIN g
      /\ \A k \in Contained(g, i) : Sources(g, k) \subseteq Contained(g, i)
  BY <1>1, ContainedIs
<1>3. ASSUME NEW k \in Contained(g, i)
      PROVE  /\ g[k].prim # NoNode => g[k].prim \in Contained(g, i)
             /\ g[k].sec # NoNode => g[k].sec \in Contained(g, i)
  <2>1. k \in DOMAIN g /\ Sources(g, k) \subseteq Contained(g, i)
    BY <1>2
  <2> QED
    BY <2>1, SourcesAre
<1> QED
  BY <1>2, <1>3 DEF Closed

\* There is no cycle.
LEMMA ContainedLower ==
  ASSUME NEW g, Tidy(g), NEW rank \in [DOMAIN g -> Nat], Ranked(g, rank),
         NEW i \in DOMAIN g, NEW j \in Contained(g, i)
  PROVE  j = i \/ rank[j] < rank[i]
<1>1. IsFiniteSet(DOMAIN g)
  BY DEF Tidy
<1> DEFINE S == {k \in DOMAIN g : k = i \/ rank[k] < rank[i]}
<1>2. ASSUME NEW k \in S PROVE Sources(g, k) \subseteq S
  <2>1. SUFFICES ASSUME NEW s \in Sources(g, k) PROVE s \in S
    OBVIOUS
  <2>2. s \in DOMAIN g /\ s # NoNode /\ (s = g[k].prim \/ s = g[k].sec)
    BY SourcesAre
  <2>3. rank[s] < rank[k]
    BY <2>2 DEF Ranked
  <2>4. rank[s] \in Nat /\ rank[k] \in Nat /\ rank[i] \in Nat
    BY <2>2
  <2> QED
    BY <2>2, <2>3, <2>4
<1>3. Contained(g, i) \subseteq S
  <2>1. i \in S
    OBVIOUS
  <2> HIDE DEF S
  <2> QED
    BY <1>1, <1>2, <2>1, ContainedLeast
<1> QED
  BY <1>3

\* No node is made of one that is made of it.
LEMMA NotBelowItself ==
  ASSUME NEW g, Tidy(g), NEW i \in DOMAIN g
  PROVE  /\ g[i].prim # NoNode => i \notin Contained(g, g[i].prim)
         /\ \A j \in Contained(g, i) : j # i => i \notin Contained(g, j)
<1>1. PICK rank \in [DOMAIN g -> Nat] : Ranked(g, rank)
  BY DEF Tidy
<1>2. ASSUME NEW j \in Contained(g, i), j # i, i \in Contained(g, j)
      PROVE  FALSE
  <2>1. j \in DOMAIN g
    BY ContainedBelow
  <2>2. rank[j] < rank[i] /\ rank[i] < rank[j]
    BY <1>1, <1>2, <2>1, ContainedLower
  <2>3. rank[j] \in Nat /\ rank[i] \in Nat
    BY <2>1
  <2> QED
    BY <2>2, <2>3
<1>3. ASSUME g[i].prim # NoNode
      PROVE  g[i].prim \in Contained(g, i) /\ g[i].prim # i
  <2>1. rank[g[i].prim] < rank[i]
    BY <1>1, <1>3 DEF Ranked
  <2>2. g[i].prim \in Contained(g, i)
    BY <1>3, ContainedSources
  <2> QED
    BY <2>1, <2>2
<1> QED
  BY <1>2, <1>3

\* Upwards through the nodes of its letter each own node reaches the layer's source.
LEMMA Climb ==
  ASSUME NEW g, Tidy(g), NEW ls, Headed(g, ls), NEW q \in DOMAIN ls,
         ls[q].letter \in 1 .. MaxLetter, NEW S,
         ls[q].source \in S,
         \A j \in DOMAIN g : j \in S /\ Owns(ls[q], j) /\ Letter(g[j].prim) = Letter(j) => g[j].prim \in S
  PROVE  \A i \in DOMAIN g : Owns(ls[q], i) => i \in S
<1> DEFINE B == {i \in DOMAIN g : Owns(ls[q], i) /\ i \notin S}
<1>1. SUFFICES ASSUME B # {} PROVE FALSE
  OBVIOUS
<1> DEFINE f == [i \in B |-> Sequence(i)]
<1>2. \A i \in B : Sequence(i) \in Nat
  <2>1. \A i \in B : i \in AnyId /\ Letter(i) \in 1 .. MaxLetter
    BY DEF Tidy, Owns
  <2> HIDE DEF B
  <2> QED
    BY <2>1, NumberedIds
<1>3. f \in [B -> Nat]
  <2> HIDE DEF B
  <2> QED
    BY <1>2
<1>4. IsFiniteSet(B)
  BY FS_Subset DEF Tidy
<1>5. PICK i \in B : \A j \in B : f[j] <= f[i]
  <2> HIDE DEF B, f
  <2> QED
    BY <1>1, <1>3, <1>4, Greatest
<1>6. i # ls[q].source
  OBVIOUS
<1>7. PICK j \in DOMAIN g : Letter(j) = Letter(i) /\ g[j].prim = i
  BY <1>6 DEF Headed
<1>8. Owns(ls[q], j)
  BY <1>7 DEF Owns
<1>9. j \in B
  BY <1>7, <1>8
<1>10. Sequence(i) < Sequence(j)
  <2>1. i # NoNode
    BY NoNodeIsNone DEF Tidy
  <2>2. Letter(j) \in 1 .. MaxLetter
    BY <1>8 DEF Owns
  <2> QED
    BY <1>7, <2>1, <2>2 DEF Tidy, Descends
<1>11. Sequence(j) <= Sequence(i)
  BY <1>5, <1>9
<1> HIDE DEF B
<1> QED
  BY <1>2, <1>9, <1>10, <1>11

\* A layer on another layer's node has none of its own.
LEMMA NoneOwned ==
  ASSUME NEW g, Tidy(g), NEW ls, Headed(g, ls), NEW q \in DOMAIN ls,
         ls[q].letter \in 1 .. MaxLetter, ~Owns(ls[q], ls[q].source)
  PROVE  \A i \in DOMAIN g : ~Owns(ls[q], i)
<1> DEFINE S == {i \in DOMAIN g \cup {ls[q].source} : ~Owns(ls[q], i)}
<1>1. \A j \in DOMAIN g : j \in S /\ Owns(ls[q], j) /\ Letter(g[j].prim) = Letter(j) => g[j].prim \in S
  OBVIOUS
<1>2. ls[q].source \in S
  OBVIOUS
<1>3. \A i \in DOMAIN g : Owns(ls[q], i) => i \in S
  <2> HIDE DEF S
  <2> QED
    BY <1>1, <1>2, Climb
<1> QED
  BY <1>3

(* The list of a letter, in a graph without cycles.                        *)

Chain(g, list) ==
    /\ list \in Seq(DOMAIN g)
    /\ \A k \in 1 .. Len(list) :
         /\ Letter(list[k]) = Letter(list[1]) /\ Letter(list[k]) \in 1 .. MaxLetter
         /\ Sequence(list[k]) \in Nat
    /\ \A k \in 1 .. (Len(list) - 1) : g[list[k]].prim = list[k + 1]
    /\ \A k, m \in 1 .. Len(list) : k < m => Sequence(list[m]) <= Sequence(list[k]) - (m - k)
    /\ \A k, m \in 1 .. Len(list) : k <= m => list[m] \in Contained(g, list[k])
    /\ Len(list) # 0 => \/ g[list[Len(list)]].prim = NoNode
                        \/ Letter(g[list[Len(list)]].prim) # Letter(list[1])

\* linkedListBySameLetter answers such a list.
LEMMA ChainIs ==
  ASSUME NEW g, Tidy(g), NEW id \in DOMAIN g, Letter(id) \in 1 .. MaxLetter
  PROVE  LET list == LinkedListBySameLetter(g, id)
         IN  Chain(g, list) /\ Len(list) >= 1 /\ list[1] = id
<1> DEFINE list == LinkedListBySameLetter(g, id)
           len == Len(list)
<1>1. IsFiniteSet(DOMAIN g)
  BY DEF Tidy
<1>2. /\ list \in Seq(DOMAIN g)
      /\ len \in 1 .. (Cardinality(DOMAIN g) + 1)
      /\ list[1] = id
      /\ \A k \in 1 .. len : Letter(list[k]) = Letter(id)
      /\ \A k \in 1 .. (len - 1) : list[k + 1] = g[list[k]].prim
      /\ \/ len = Cardinality(DOMAIN g) + 1
         \/ g[Last(list)].prim \notin DOMAIN g
         \/ Letter(g[Last(list)].prim) # Letter(id)
  BY <1>1, ListOfLetter
<1>3. Cardinality(DOMAIN g) \in Nat
  BY <1>1, FS_CardinalityType
<1>4. len \in Nat /\ len >= 1 /\ Last(list) = list[len]
  BY <1>2, <1>3 DEF Last
<1> HIDE DEF list, len
<1>5. ASSUME NEW k \in 1 .. len
      PROVE  list[k] \in DOMAIN g /\ list[k] \in AnyId /\ Sequence(list[k]) \in Nat
  <2>1. list[k] \in DOMAIN g
    BY <1>2, <1>4 DEF len
  <2>2. list[k] \in AnyId /\ Letter(list[k]) \in 1 .. MaxLetter
    BY <1>2, <2>1 DEF Tidy
  <2> QED
    BY <2>1, <2>2, NumberedIds
<1>6. ASSUME NEW k \in 1 .. (len - 1)
      PROVE  Sequence(list[k + 1]) < Sequence(list[k])
  <2>1. k \in 1 .. len /\ k + 1 \in 1 .. len
    BY <1>4
  <2>2. list[k] \in DOMAIN g /\ list[k + 1] \in DOMAIN g
    BY <1>5, <2>1
  <2>3. list[k + 1] # NoNode
    BY <2>2, NoNodeIsNone DEF Tidy
  <2>4. g[list[k]].prim = list[k + 1] /\ Letter(list[k + 1]) = Letter(list[k]) /\ Letter(list[k]) \in 1 .. MaxLetter
    BY <1>2, <2>1
  <2> QED
    BY <2>2, <2>3, <2>4 DEF Tidy, Descends
<1> DEFINE Below(k, m) == /\ Sequence(list[m]) <= Sequence(list[k]) - (m - k)
                          /\ list[m] \in Contained(g, list[k])
<1>7. ASSUME NEW k \in 1 .. len
      PROVE  \A m \in 1 .. len : k <= m => Below(k, m)
  <2> DEFINE T == {n \in Nat : k + n <= len => Below(k, k + n)}
  <2>1. 0 \in T
    <3>1. Sequence(list[k]) \in Nat /\ list[k] \in DOMAIN g
      BY <1>5
    <3>2. list[k] \in Contained(g, list[k])
      BY <3>1, ContainedSources
    <3>3. k + 0 = k
      OBVIOUS
    <3>4. Below(k, k)
      BY <3>1, <3>2
    <3> HIDE DEF Below
    <3> QED
      BY <3>3, <3>4
  <2>2. ASSUME NEW n \in Nat, n \in T PROVE n + 1 \in T
    <3>1. SUFFICES ASSUME k + (n + 1) <= len PROVE Below(k, k + (n + 1))
      OBVIOUS
    <3> DEFINE m == k + n
    <3>2. m \in 1 .. (len - 1) /\ m \in 1 .. len /\ m + 1 \in 1 .. len /\ k + (n + 1) = m + 1
      BY <1>4, <3>1
    <3>3. Sequence(list[m]) <= Sequence(list[k]) - (m - k) /\ list[m] \in Contained(g, list[k])
      BY <1>4, <2>2, <3>1
    <3> HIDE DEF m
    <3>4. Sequence(list[m + 1]) < Sequence(list[m])
      BY <1>6, <3>2
    <3>5. Sequence(list[m]) \in Nat /\ Sequence(list[m + 1]) \in Nat /\ Sequence(list[k]) \in Nat
      BY <1>5, <3>2
    <3>6. Sequence(list[m + 1]) <= Sequence(list[k]) - ((m + 1) - k)
      BY <3>2, <3>3, <3>4, <3>5
    <3>7. list[m + 1] \in Contained(g, list[k])
      <4>1. list[k] \in DOMAIN g /\ list[m] \in DOMAIN g /\ list[m + 1] \in DOMAIN g
        BY <1>5, <3>2
      <4>2. g[list[m]].prim = list[m + 1] /\ list[m + 1] # NoNode
        BY <1>2, <3>2, <4>1, NoNodeIsNone DEF Tidy
      <4>3. Closed(g, Contained(g, list[k]))
        BY <4>1, ContainedSources
      <4> QED
        BY <3>3, <4>2, <4>3 DEF Closed
    <3> QED
      BY <3>2, <3>6, <3>7
  <2>3. \A n \in Nat : n \in T
    <3> HIDE DEF T
    <3> QED
      BY <2>1, <2>2, NatSet
  <2>4. ASSUME NEW m \in 1 .. len, k <= m PROVE Below(k, m)
    <3>1. m - k \in Nat /\ k + (m - k) = m /\ m <= len
      BY <1>4, <2>4
    <3>2. m - k \in T
      BY <2>3, <3>1
    <3> HIDE DEF Below
    <3> QED
      BY <3>1, <3>2
  <2> QED
    BY <2>4
<1>8. len # Cardinality(DOMAIN g) + 1
  <2>1. SUFFICES ASSUME len = Cardinality(DOMAIN g) + 1 PROVE FALSE
    OBVIOUS
  <2>2. IsFiniteSet(1 .. len) /\ Cardinality(1 .. len) = len
    BY <1>4, FS_Interval
  <2>3. list \in [1 .. len -> DOMAIN g]
    BY <1>2 DEF len
  <2>4. PICK k, m \in 1 .. len : k # m /\ list[k] = list[m]
    <3>1. Cardinality(DOMAIN g) < Cardinality(1 .. len)
      BY <1>3, <2>1, <2>2
    <3> QED
      BY <1>1, <2>2, <2>3, <3>1, FS_PigeonHole
  <2>5. Sequence(list[k]) \in Nat /\ Sequence(list[m]) \in Nat
    BY <1>5
  <2>6. CASE k < m
    BY <1>7, <2>4, <2>5, <2>6
  <2>7. CASE m < k
    BY <1>7, <2>4, <2>5, <2>7
  <2> QED
    BY <2>4, <2>6, <2>7
<1>9. g[list[len]].prim = NoNode \/ Letter(g[list[len]].prim) # Letter(id)
  <2>1. len \in 1 .. len
    BY <1>4
  <2>2. list[len] \in DOMAIN g
    BY <1>5, <2>1
  <2>3. g[list[len]].prim # NoNode => g[list[len]].prim \in DOMAIN g
    BY <2>2, SourcesAre
  <2> QED
    BY <1>2, <1>4, <1>8, <2>3
<1>10. \A k \in 1 .. len : Letter(list[k]) = Letter(list[1]) /\ Letter(list[k]) \in 1 .. MaxLetter
                           /\ Sequence(list[k]) \in Nat
  BY <1>2, <1>5
<1>11. \A k, m \in 1 .. len : k < m => Sequence(list[m]) <= Sequence(list[k]) - (m - k)
  BY <1>7
<1>12. \A k, m \in 1 .. len : k <= m => list[m] \in Contained(g, list[k])
  BY <1>7
<1>13. \A k \in 1 .. (len - 1) : g[list[k]].prim = list[k + 1]
  BY <1>2
<1>14. Chain(g, list)
  BY <1>2, <1>9, <1>10, <1>11, <1>12, <1>13 DEF Chain, len
<1> QED
  BY <1>2, <1>4, <1>14 DEF list, len

\* The own nodes of a layer are those with its letter, from its source down.
LEMMA OwnIs ==
  ASSUME NEW g, Tidy(g), NEW ls, Headed(g, ls), NEW q \in DOMAIN ls,
         ls[q].letter \in 1 .. MaxLetter, ls[q].source \in DOMAIN g
  PROVE  LET own == OwnedPrimaryNodes(g, ls[q])
         IN  /\ Chain(g, own)
             /\ ToSet(own) = {i \in DOMAIN g : Owns(ls[q], i)}
             /\ Len(own) # 0 => own[1] = ls[q].source /\ Owns(ls[q], ls[q].source)
             /\ Len(own) = 0 => ~Owns(ls[q], ls[q].source)
<1> DEFINE source == ls[q].source
           own == OwnedPrimaryNodes(g, ls[q])
<1>1. CASE ~Owns(ls[q], source)
  <2>1. own = << >>
    BY <1>1 DEF OwnedPrimaryNodes
  <2>2. \A i \in DOMAIN g : ~Owns(ls[q], i)
    BY <1>1, NoneOwned
  <2>3. Chain(g, << >>)
    BY DEF Chain
  <2>4. ToSet(<< >>) = {}
    BY DEF ToSet
  <2> QED
    BY <1>1, <2>1, <2>2, <2>3, <2>4
<1>2. CASE Owns(ls[q], source)
  <2>1. own = LinkedListBySameLetter(g, source)
    BY <1>2 DEF OwnedPrimaryNodes
  <2>2. Letter(source) \in 1 .. MaxLetter
    BY <1>2 DEF Owns
  <2>3. Chain(g, own) /\ Len(own) >= 1 /\ own[1] = source
    BY <2>1, <2>2, ChainIs
  <2> HIDE DEF own
  <2>4. /\ own \in Seq(DOMAIN g) /\ Len(own) \in Nat
        /\ \A k \in 1 .. Len(own) : Letter(own[k]) = Letter(source)
        /\ \A k \in 1 .. (Len(own) - 1) : g[own[k]].prim = own[k + 1]
        /\ \/ g[own[Len(own)]].prim = NoNode
           \/ Letter(g[own[Len(own)]].prim) # Letter(source)
    BY <2>3 DEF Chain
  <2>5. ToSet(own) = {own[k] : k \in 1 .. Len(own)}
    BY <2>4 DEF ToSet
  <2> DEFINE S == ToSet(own) \cup {NoNode}
  <2>6. ASSUME NEW j \in DOMAIN g, j \in S, Owns(ls[q], j), Letter(g[j].prim) = Letter(j)
        PROVE  g[j].prim \in S
    <3>1. PICK k \in 1 .. Len(own) : j = own[k]
      BY <2>5, <2>6, NoNodeIsNone DEF Tidy
    <3>2. CASE k < Len(own)
      <4>1. k \in 1 .. (Len(own) - 1) /\ k + 1 \in 1 .. Len(own)
        BY <2>4, <3>2
      <4>2. g[j].prim = own[k + 1]
        BY <2>4, <3>1, <4>1
      <4> QED
        BY <2>5, <4>1, <4>2
    <3>3. CASE k = Len(own)
      <4>1. g[j].prim = NoNode \/ Letter(g[j].prim) # Letter(source)
        BY <2>4, <3>1, <3>3
      <4>2. Letter(j) = Letter(source)
        BY <2>4, <3>1
      <4> QED
        BY <2>6, <4>1, <4>2
    <3> QED
      BY <2>4, <3>2, <3>3
  <2>7. source \in S
    <3>1. 1 \in 1 .. Len(own)
      BY <2>3, <2>4
    <3> QED
      BY <2>3, <2>5, <3>1
  <2>8. \A i \in DOMAIN g : Owns(ls[q], i) => i \in S
    <3> HIDE DEF S
    <3> QED
      BY <2>6, <2>7, Climb
  <2>9. \A i \in ToSet(own) : i \in DOMAIN g /\ Owns(ls[q], i)
    <3>1. SUFFICES ASSUME NEW k \in 1 .. Len(own) PROVE own[k] \in DOMAIN g /\ Owns(ls[q], own[k])
      BY <2>5
    <3>2. own[k] \in DOMAIN g
      BY <2>4
    <3>3. Letter(own[k]) = Letter(source)
      BY <2>4
    <3> QED
      BY <1>2, <3>2, <3>3 DEF Owns
  <2>10. ToSet(own) = {i \in DOMAIN g : Owns(ls[q], i)}
    BY <2>8, <2>9, NoNodeIsNone DEF Tidy
  <2> QED
    BY <1>2, <2>3, <2>4, <2>10 DEF own
<1> QED
  BY <1>1, <1>2

(* What a node computes.                                                   *)

\* One step further down, when what the sources compute is known.
Unrolled(g, i, prim, sec) ==
    [what |-> g[i].what,
     prim |-> IF g[i].prim \in DOMAIN g THEN prim ELSE NoNode,
     sec |-> IF g[i].sec \in DOMAIN g THEN sec ELSE NoNode]

MeansNext(means, g) ==
    [i \in DOMAIN g \cup {NoNode} |->
        IF i \notin DOMAIN g THEN NoNode
        ELSE Unrolled(g, i, means[g[i].prim], means[g[i].sec])]

Means(means, g, n) ==
    means = [k \in 0 .. n |-> IF k = 0 THEN [i \in DOMAIN g \cup {NoNode} |-> NoNode]
                              ELSE MeansNext(means[k - 1], g)]

\* What nodes compute, step by step.
LEMMA MeaningSteps ==
  ASSUME NEW g, IsFiniteSet(DOMAIN g)
  PROVE  \E means :
            /\ Means(means, g, Cardinality(DOMAIN g) + 1)
            /\ \A i \in DOMAIN g \cup {NoNode} : Meaning(g, i) = means[Cardinality(DOMAIN g)][i]
<1> DEFINE m == Cardinality(DOMAIN g) + 1
           D == DOMAIN g \cup {NoNode}
           T == {n \in Nat : \E h : Means(h, g, n)}
<1>0. m \in Nat
  BY FS_CardinalityType
<1>1. 0 \in T
  <2>1. Means([k \in 0 .. 0 |-> [i \in D |-> NoNode]], g, 0)
    BY DEF Means
  <2> QED
    BY <2>1
<1>2. ASSUME NEW n \in Nat, n \in T PROVE n + 1 \in T
  <2>1. PICK h : Means(h, g, n)
    BY <1>2
  <2> DEFINE more == [k \in 0 .. (n + 1) |-> IF k # n + 1 THEN h[k] ELSE MeansNext(h[n], g)]
  <2>2. ASSUME NEW k \in 0 .. (n + 1)
        PROVE  more[k] = IF k = 0 THEN [i \in D |-> NoNode] ELSE MeansNext(more[k - 1], g)
    <3>1. CASE k = n + 1
      <4>1. k # 0 /\ k - 1 = n /\ n \in 0 .. (n + 1) /\ n # n + 1
        BY <3>1
      <4>2. more[n] = h[n] /\ more[k] = MeansNext(h[n], g)
        BY <3>1, <4>1
      <4> QED
        BY <4>1, <4>2
    <3>2. CASE k # n + 1
      <4>1. k \in 0 .. n /\ (k # 0 => k - 1 \in 0 .. (n + 1) /\ k - 1 # n + 1)
        BY <3>2
      <4>2. more[k] = h[k] /\ (k # 0 => more[k - 1] = h[k - 1])
        BY <3>2, <4>1
      <4>3. h[k] = IF k = 0 THEN [i \in D |-> NoNode] ELSE MeansNext(h[k - 1], g)
        BY <2>1, <4>1 DEF Means
      <4> HIDE DEF more
      <4> QED
        BY <4>2, <4>3
    <3> QED
      BY <3>1, <3>2
  <2>3. Means(more, g, n + 1)
    <3>1. more = [k \in 0 .. (n + 1) |-> more[k]]
      OBVIOUS
    <3> HIDE DEF more
    <3> QED
      BY <2>2, <3>1 DEF Means
  <2>4. n + 1 \in Nat
    OBVIOUS
  <2> HIDE DEF more
  <2> QED
    BY <2>3, <2>4
<1>3. \E h : Means(h, g, m)
  <2>1. \A n \in Nat : n \in T
    <3> HIDE DEF T
    <3> QED
      BY <1>1, <1>2, NatSet
  <2> HIDE DEF m
  <2> QED
    BY <1>0, <2>1
<1> DEFINE Is(h) == h = [k \in 0 .. m |-> [i \in D |->
                            IF k = 0 \/ i \notin DOMAIN g THEN NoNode
                            ELSE [what |-> g[i].what,
                                  prim |-> IF g[i].prim \in DOMAIN g THEN h[k - 1][g[i].prim] ELSE NoNode,
                                  sec |-> IF g[i].sec \in DOMAIN g THEN h[k - 1][g[i].sec] ELSE NoNode]]]
<1>4. ASSUME NEW h, Means(h, g, m) PROVE Is(h)
  <2>1. h = [k \in 0 .. m |-> IF k = 0 THEN [i \in D |-> NoNode] ELSE MeansNext(h[k - 1], g)]
    BY <1>4 DEF Means
  <2>2. ASSUME NEW k \in 0 .. m
        PROVE  (IF k = 0 THEN [i \in D |-> NoNode] ELSE MeansNext(h[k - 1], g))
               = [i \in D |->
                    IF k = 0 \/ i \notin DOMAIN g THEN NoNode
                    ELSE [what |-> g[i].what,
                          prim |-> IF g[i].prim \in DOMAIN g THEN h[k - 1][g[i].prim] ELSE NoNode,
                          sec |-> IF g[i].sec \in DOMAIN g THEN h[k - 1][g[i].sec] ELSE NoNode]]
    BY DEF MeansNext, Unrolled
  <2> HIDE DEF m, D
  <2> QED
    BY <2>1, <2>2
<1>5. ASSUME NEW h, Is(h) PROVE Means(h, g, m)
  <2>1. ASSUME NEW k \in 0 .. m
        PROVE  (IF k = 0 THEN [i \in D |-> NoNode] ELSE MeansNext(h[k - 1], g))
               = [i \in D |->
                    IF k = 0 \/ i \notin DOMAIN g THEN NoNode
                    ELSE [what |-> g[i].what,
                          prim |-> IF g[i].prim \in DOMAIN g THEN h[k - 1][g[i].prim] ELSE NoNode,
                          sec |-> IF g[i].sec \in DOMAIN g THEN h[k - 1][g[i].sec] ELSE NoNode]]
    BY DEF MeansNext, Unrolled
  <2> HIDE DEF m, D
  <2> QED
    BY <1>5, <2>1 DEF Means, D
<1> DEFINE means == CHOOSE h : Is(h)
<1>6. Is(means)
  <2> HIDE DEF Is
  <2> QED
    BY <1>3, <1>4
<1>7. ASSUME NEW i \in D PROVE Meaning(g, i) = means[Cardinality(DOMAIN g)][i]
  <2>1. DOMAIN g \cup {NoNode, i} = D
    OBVIOUS
  <2> QED
    BY <2>1 DEF Meaning
<1>8. Means(means, g, m)
  <2> HIDE DEF Is, means
  <2> QED
    BY <1>5, <1>6
<1> HIDE DEF means
<1> QED
  BY <1>7, <1>8

\* A node of low rank is known after few steps: more of them change nothing.
LEMMA MeansSettle ==
  ASSUME NEW g, Tidy(g), NEW rank \in [DOMAIN g -> Nat], Ranked(g, rank),
         NEW means, Means(means, g, Cardinality(DOMAIN g) + 1),
         NEW n \in 0 .. Cardinality(DOMAIN g), NEW i \in DOMAIN g,
         Cardinality({j \in DOMAIN g : rank[j] < rank[i]}) < n
  PROVE  means[n + 1][i] = means[n][i]
<1> DEFINE N == Cardinality(DOMAIN g)
           lower(k) == {j \in DOMAIN g : rank[j] < rank[k]}
           P(k) == \A x \in DOMAIN g : Cardinality(lower(x)) < k => means[k + 1][x] = means[k][x]
           T == {k \in Nat : k <= N => P(k)}
<1>0. IsFiniteSet(DOMAIN g) /\ N \in Nat
  BY FS_CardinalityType DEF Tidy
<1>1. \A x \in DOMAIN g : IsFiniteSet(lower(x)) /\ Cardinality(lower(x)) \in Nat
  <2>1. \A x \in DOMAIN g : IsFiniteSet(lower(x))
    BY <1>0, FS_Subset
  <2> HIDE DEF lower
  <2> QED
    BY <2>1, FS_CardinalityType
<1>2. ASSUME NEW x \in DOMAIN g, NEW s \in DOMAIN g, rank[s] < rank[x]
      PROVE  Cardinality(lower(s)) < Cardinality(lower(x))
  <2>1. lower(s) \subseteq lower(x) /\ s \in lower(x) /\ s \notin lower(s)
    <3>1. \A j \in DOMAIN g : rank[j] \in Nat
      OBVIOUS
    <3> QED
      BY <1>2, <3>1
  <2>2. IsFiniteSet(lower(x)) /\ Cardinality(lower(x)) \in Nat /\ Cardinality(lower(s)) \in Nat
    BY <1>1
  <2> HIDE DEF lower
  <2>3. Cardinality(lower(s)) <= Cardinality(lower(x)) /\ Cardinality(lower(s)) # Cardinality(lower(x))
    BY <2>1, <2>2, FS_Subset
  <2> QED
    BY <2>2, <2>3
<1>3. \A k \in 0 .. N, x \in DOMAIN g :
        means[k + 1][x] = Unrolled(g, x, means[k][g[x].prim], means[k][g[x].sec])
  <2>1. SUFFICES ASSUME NEW k \in 0 .. N, NEW x \in DOMAIN g
                 PROVE  means[k + 1][x] = Unrolled(g, x, means[k][g[x].prim], means[k][g[x].sec])
    OBVIOUS
  <2>2. k + 1 \in 0 .. (N + 1) /\ k + 1 # 0 /\ (k + 1) - 1 = k
    BY <1>0
  <2>3. means[k + 1] = MeansNext(means[k], g)
    BY <2>2 DEF Means
  <2> QED
    BY <2>3 DEF MeansNext
<1>4. 0 \in T
  <2>1. ASSUME NEW x \in DOMAIN g PROVE ~(Cardinality(lower(x)) < 0)
    <3>1. Cardinality(lower(x)) \in Nat
      BY <1>1
    <3> HIDE DEF lower
    <3> QED
      BY <3>1
  <2> HIDE DEF lower
  <2> QED
    BY <2>1
<1>5. ASSUME NEW k \in Nat, k \in T PROVE k + 1 \in T
  <2>1. SUFFICES ASSUME k + 1 <= N PROVE P(k + 1)
    OBVIOUS
  <2>2. P(k) /\ k \in 0 .. N /\ k + 1 \in 0 .. N
    BY <1>0, <1>5, <2>1
  <2>3. SUFFICES ASSUME NEW x \in DOMAIN g, Cardinality(lower(x)) < k + 1
                 PROVE  means[(k + 1) + 1][x] = means[k + 1][x]
    OBVIOUS
  <2>4. ASSUME NEW s \in DOMAIN g, rank[s] < rank[x]
        PROVE  means[k + 1][s] = means[k][s]
    <3>1. Cardinality(lower(s)) < Cardinality(lower(x))
      BY <1>2, <2>4
    <3>2. Cardinality(lower(s)) \in Nat /\ Cardinality(lower(x)) \in Nat
      BY <1>1
    <3> HIDE DEF lower
    <3>3. Cardinality(lower(s)) < k
      BY <2>3, <3>1, <3>2
    <3> QED
      BY <2>2, <3>3
  <2>5. means[(k + 1) + 1][x] = Unrolled(g, x, means[k + 1][g[x].prim], means[k + 1][g[x].sec])
    BY <1>3, <2>2
  <2>6. means[k + 1][x] = Unrolled(g, x, means[k][g[x].prim], means[k][g[x].sec])
    BY <1>3, <2>2
  <2>7. /\ g[x].prim \in DOMAIN g => rank[g[x].prim] < rank[x]
        /\ g[x].sec \in DOMAIN g => rank[g[x].sec] < rank[x]
    BY NoNodeIsNone DEF Tidy, Ranked
  <2>8. /\ g[x].prim \in DOMAIN g => means[k + 1][g[x].prim] = means[k][g[x].prim]
        /\ g[x].sec \in DOMAIN g => means[k + 1][g[x].sec] = means[k][g[x].sec]
    BY <2>4, <2>7
  <2> QED
    BY <2>5, <2>6, <2>8 DEF Unrolled
<1>6. \A k \in Nat : k \in T
  <2> HIDE DEF T
  <2> QED
    BY <1>4, <1>5, NatSet
<1>7. n \in Nat /\ n <= N
  BY <1>0
<1>8. P(n)
  <2> HIDE DEF P, N
  <2> QED
    BY <1>6, <1>7
<1> QED
  BY <1>8

\* A node computes what it is of what its sources compute.
LEMMA MeaningUnrolls ==
  ASSUME NEW g, Tidy(g), NEW i \in DOMAIN g
  PROVE  Meaning(g, i) = Unrolled(g, i, Meaning(g, g[i].prim), Meaning(g, g[i].sec))
<1> DEFINE N == Cardinality(DOMAIN g)
<1>0. IsFiniteSet(DOMAIN g) /\ N \in Nat
  BY FS_CardinalityType DEF Tidy
<1>1. PICK rank \in [DOMAIN g -> Nat] : Ranked(g, rank)
  BY DEF Tidy
<1>2. PICK means : /\ Means(means, g, N + 1)
                   /\ \A x \in DOMAIN g \cup {NoNode} : Meaning(g, x) = means[N][x]
  BY <1>0, MeaningSteps
<1> DEFINE low == {j \in DOMAIN g : rank[j] < rank[i]}
<1>3. Cardinality(low) \in Nat /\ Cardinality(low) < N
  <2>1. low \subseteq DOMAIN g /\ i \notin low
    <3>1. rank[i] \in Nat
      BY <1>1
    <3> QED
      BY <3>1
  <2> HIDE DEF low
  <2>2. IsFiniteSet(low) /\ Cardinality(low) <= N /\ Cardinality(low) # N
    BY <1>0, <2>1, FS_Subset
  <2>3. Cardinality(low) \in Nat
    BY <2>2, FS_CardinalityType
  <2> QED
    BY <1>0, <2>2, <2>3
<1>4. means[N + 1][i] = means[N][i]
  <2>1. N \in 0 .. N
    BY <1>0
  <2> HIDE DEF N
  <2> QED
    BY <1>1, <1>2, <1>3, <2>1, MeansSettle DEF N
<1>5. means[N + 1][i] = Unrolled(g, i, means[N][g[i].prim], means[N][g[i].sec])
  <2>1. N + 1 \in 0 .. (N + 1) /\ N + 1 # 0 /\ (N + 1) - 1 = N
    BY <1>0
  <2>2. means[N + 1] = MeansNext(means[N], g)
    BY <1>2, <2>1 DEF Means
  <2> QED
    BY <2>2 DEF MeansNext
<1>6. Unrolled(g, i, means[N][g[i].prim], means[N][g[i].sec])
      = Unrolled(g, i, Meaning(g, g[i].prim), Meaning(g, g[i].sec))
  BY <1>2 DEF Unrolled
<1> QED
  BY <1>2, <1>4, <1>5, <1>6

\* An absent source computes nothing.
LEMMA MeaningOfNone ==
  ASSUME NEW g, IsFiniteSet(DOMAIN g), NoNode \notin DOMAIN g
  PROVE  Meaning(g, NoNode) = NoNode
<1> DEFINE N == Cardinality(DOMAIN g)
<1>0. N \in Nat
  BY FS_CardinalityType
<1>1. PICK means : /\ Means(means, g, N + 1)
                   /\ \A x \in DOMAIN g \cup {NoNode} : Meaning(g, x) = means[N][x]
  BY MeaningSteps
<1>2. N \in 0 .. (N + 1)
  BY <1>0
<1>3. means[N] = IF N = 0 THEN [x \in DOMAIN g \cup {NoNode} |-> NoNode] ELSE MeansNext(means[N - 1], g)
  BY <1>1, <1>2 DEF Means
<1> HIDE DEF N
<1>4. means[N][NoNode] = NoNode
  BY <1>3 DEF MeansNext
<1> QED
  BY <1>1, <1>4

\* Each node of h is one of g, with a name of its own and sources that are those of g.
Follows(h, g, back) ==
    \A x \in DOMAIN h :
        /\ h[x].what = g[back[x]].what
        /\ g[back[x]].prim = IF h[x].prim = NoNode THEN NoNode ELSE back[h[x].prim]
        /\ g[back[x]].sec = IF h[x].sec = NoNode THEN NoNode ELSE back[h[x].sec]

\* What a node computes does not depend on names.
LEMMA MeaningFollows ==
  ASSUME NEW g, Tidy(g), NEW h, Tidy(h), NEW back \in [DOMAIN h -> DOMAIN g], Follows(h, g, back)
  PROVE  \A x \in DOMAIN h : Meaning(h, x) = Meaning(g, back[x])
<1>1. PICK rank \in [DOMAIN h -> Nat] : Ranked(h, rank)
  BY DEF Tidy
<1> DEFINE Same(x) == Meaning(h, x) = Meaning(g, back[x])
           T == {n \in Nat : \A x \in DOMAIN h : rank[x] < n => Same(x)}
<1>2. 0 \in T
  BY <1>1
<1>3. ASSUME NEW n \in Nat, n \in T PROVE n + 1 \in T
  <2>1. SUFFICES ASSUME NEW x \in DOMAIN h, rank[x] < n + 1 PROVE Same(x)
    OBVIOUS
  <2>2. ASSUME NEW s \in DOMAIN h, rank[s] < rank[x] PROVE Same(s)
    <3>1. rank[s] \in Nat /\ rank[x] \in Nat
      BY <1>1
    <3>2. rank[s] < n
      BY <2>1, <2>2, <3>1
    <3> HIDE DEF Same
    <3> QED
      BY <1>3, <3>2
  <2>3. /\ h[x].prim # NoNode => h[x].prim \in DOMAIN h /\ rank[h[x].prim] < rank[x]
        /\ h[x].sec # NoNode => h[x].sec \in DOMAIN h /\ rank[h[x].sec] < rank[x]
    BY <1>1, SourcesAre DEF Ranked
  <2> DEFINE y == back[x]
  <2>4. y \in DOMAIN g
    OBVIOUS
  <2>5. NoNode \notin DOMAIN h /\ NoNode \notin DOMAIN g
    BY NoNodeIsNone DEF Tidy
  <2>6. /\ h[x].what = g[y].what
        /\ g[y].prim = IF h[x].prim = NoNode THEN NoNode ELSE back[h[x].prim]
        /\ g[y].sec = IF h[x].sec = NoNode THEN NoNode ELSE back[h[x].sec]
    BY DEF Follows
  <2> HIDE DEF y
  <2>7. /\ h[x].prim \in DOMAIN h <=> g[y].prim \in DOMAIN g
        /\ h[x].sec \in DOMAIN h <=> g[y].sec \in DOMAIN g
    BY <2>3, <2>5, <2>6
  <2>8. /\ h[x].prim \in DOMAIN h => Meaning(h, h[x].prim) = Meaning(g, g[y].prim)
        /\ h[x].sec \in DOMAIN h => Meaning(h, h[x].sec) = Meaning(g, g[y].sec)
    BY <2>2, <2>3, <2>5, <2>6
  <2>9. Unrolled(h, x, Meaning(h, h[x].prim), Meaning(h, h[x].sec))
        = Unrolled(g, y, Meaning(g, g[y].prim), Meaning(g, g[y].sec))
    BY <2>6, <2>7, <2>8 DEF Unrolled
  <2>10. /\ Meaning(h, x) = Unrolled(h, x, Meaning(h, h[x].prim), Meaning(h, h[x].sec))
         /\ Meaning(g, y) = Unrolled(g, y, Meaning(g, g[y].prim), Meaning(g, g[y].sec))
    BY <2>4, MeaningUnrolls
  <2> QED
    BY <2>9, <2>10 DEF y
<1>4. \A n \in Nat : n \in T
  <2> HIDE DEF T
  <2> QED
    BY <1>2, <1>3, NatSet
<1>5. ASSUME NEW x \in DOMAIN h PROVE Same(x)
  <2>1. rank[x] \in Nat /\ rank[x] + 1 \in Nat /\ rank[x] < rank[x] + 1
    BY <1>1
  <2> HIDE DEF Same
  <2> QED
    BY <1>4, <2>1
<1> QED
  BY <1>5

(* What an action leaves of the graph, under other names perhaps.          *)

Name(sigma, s) == IF s = NoNode THEN NoNode ELSE sigma[s]
Names(sigma, ids) == {sigma[x] : x \in ids}

\* g has each of these nodes of h, under the name that sigma gives it.
Copied(h, ids, sigma, g) ==
    /\ ids \subseteq DOMAIN h /\ Closed(h, ids)
    /\ sigma \in [ids -> AnyId]
    /\ \A x, y \in ids : sigma[x] = sigma[y] => x = y
    /\ \A x \in ids :
         /\ sigma[x] \in DOMAIN g
         /\ g[sigma[x]] = [what |-> h[x].what, prim |-> Name(sigma, h[x].prim),
                           sec |-> Name(sigma, h[x].sec)]

\* The numbers get lower down a letter under the new names as well.
Lowered(h, ids, sigma) ==
    \A x \in ids :
        /\ Letter(sigma[x]) \in 1 .. MaxLetter
        /\ h[x].prim # NoNode
        /\ Letter(sigma[h[x].prim]) = Letter(sigma[x])
        => Sequence(sigma[h[x].prim]) < Sequence(sigma[x])

\* A layer's own nodes, under the new names, are its source and those below one of them.
Led(h, ids, sigma, ls) ==
    \A q \in DOMAIN ls, x \in ids :
        Owns(ls[q], sigma[x]) =>
            sigma[x] = ls[q].source
              \/ \E y \in ids : Letter(sigma[y]) = Letter(sigma[x]) /\ h[y].prim = x

\* Some nodes with their sources are such a graph as well.
LEMMA Restricted ==
  ASSUME NEW g, Tidy(g), NEW ids \in SUBSET DOMAIN g, Closed(g, ids)
  PROVE  Tidy(Restrict(g, ids))
<1> DEFINE r == Restrict(g, ids)
<1>1. r = [i \in ids |-> g[i]]
  BY DEF Restrict
<1>2. DOMAIN r = ids /\ \A i \in ids : r[i] = g[i]
  BY <1>1
<1> HIDE DEF r
<1>3. IsFiniteSet(ids)
  BY FS_Subset DEF Tidy
<1>4. r \in [ids -> NodeType] /\ ids \subseteq AnyId
  BY <1>1 DEF Tidy
<1>5. Closed(r, ids)
  BY <1>2 DEF Closed
<1>6. PICK rank \in [DOMAIN g -> Nat] : Ranked(g, rank)
  BY DEF Tidy
<1> DEFINE low == [i \in ids |-> rank[i]]
<1>7. low \in [ids -> Nat] /\ Ranked(r, low)
  <2>1. ASSUME NEW i \in ids
        PROVE  /\ r[i].prim # NoNode => low[r[i].prim] < low[i]
               /\ r[i].sec # NoNode => low[r[i].sec] < low[i]
    <3>1. r[i] = g[i] /\ i \in DOMAIN g
      BY <1>2
    <3>2. /\ g[i].prim # NoNode => g[i].prim \in ids /\ rank[g[i].prim] < rank[i]
          /\ g[i].sec # NoNode => g[i].sec \in ids /\ rank[g[i].sec] < rank[i]
      BY <1>6, <3>1 DEF Ranked, Closed
    <3> QED
      BY <3>1, <3>2
  <2> QED
    BY <1>2, <2>1 DEF Ranked
<1>8. Descends(r)
  BY <1>2 DEF Descends, Tidy
<1>9. \E rk \in [DOMAIN r -> Nat] : Ranked(r, rk)
  BY <1>2, <1>7
<1> QED
  BY <1>2, <1>3, <1>4, <1>5, <1>8, <1>9 DEF Tidy, r

\* The nodes under their new names are a graph without cycles.
LEMMA CopyTidy ==
  ASSUME NEW h, Tidy(h), NEW ids, NEW sigma, NEW g, Copied(h, ids, sigma, g), Lowered(h, ids, sigma)
  PROVE  Tidy(Restrict(g, Names(sigma, ids)))
<1> DEFINE D == Names(sigma, ids)
           r == Restrict(g, D)
           back == [i \in D |-> CHOOSE x \in ids : sigma[x] = i]
<1>1. DOMAIN r = D /\ \A i \in D : r[i] = g[i]
  BY DEF Restrict
<1> HIDE DEF r
<1>2. \A x \in ids : sigma[x] \in D /\ sigma[x] \in AnyId
  BY DEF Copied, Names
<1>3. \A i \in D : back[i] \in ids /\ sigma[back[i]] = i
  BY DEF Names
<1>4. \A x \in ids : back[sigma[x]] = x
  BY <1>2, <1>3 DEF Copied
<1> HIDE DEF back
<1>5. IsFiniteSet(D)
  <2>1. IsFiniteSet(ids)
    BY FS_Subset DEF Tidy, Copied
  <2>2. sigma \in Surjection(ids, D)
    BY <1>2 DEF Copied, Names, Surjection
  <2> QED
    BY <2>1, <2>2, FS_Surjection
<1>6. D \subseteq AnyId
  BY <1>2 DEF Names
<1>7. ASSUME NEW i \in D
      PROVE  /\ r[i] \in NodeType
             /\ r[i].prim \in D \cup {NoNode} /\ r[i].sec \in D \cup {NoNode}
             /\ h[back[i]].prim = NoNode => r[i].prim = NoNode
             /\ h[back[i]].prim # NoNode => h[back[i]].prim \in ids /\ r[i].prim = sigma[h[back[i]].prim]
             /\ h[back[i]].sec = NoNode => r[i].sec = NoNode
             /\ h[back[i]].sec # NoNode => h[back[i]].sec \in ids /\ r[i].sec = sigma[h[back[i]].sec]
  <2> DEFINE x == back[i]
  <2>1. x \in ids /\ sigma[x] = i
    BY <1>3
  <2> HIDE DEF x
  <2>2. h[x] \in NodeType /\ h[x].prim \in ids \cup {NoNode} /\ h[x].sec \in ids \cup {NoNode}
    BY <2>1 DEF Tidy, Copied, Closed
  <2>3. r[i] = [what |-> h[x].what, prim |-> Name(sigma, h[x].prim), sec |-> Name(sigma, h[x].sec)]
    BY <1>1, <2>1 DEF Copied
  <2>4. h[x].what \in Tables \cup Kinds
    BY <2>2 DEF NodeType
  <2>5. /\ h[x].prim = NoNode => r[i].prim = NoNode
        /\ h[x].prim # NoNode => h[x].prim \in ids /\ r[i].prim = sigma[h[x].prim]
        /\ h[x].sec = NoNode => r[i].sec = NoNode
        /\ h[x].sec # NoNode => h[x].sec \in ids /\ r[i].sec = sigma[h[x].sec]
    BY <2>2, <2>3 DEF Name
  <2>6. r[i].prim \in D \cup {NoNode} /\ r[i].sec \in D \cup {NoNode}
    BY <1>2, <2>5
  <2>7. r[i] \in NodeType
    <3>1. r[i].prim \in AnyId \cup {NoNode} /\ r[i].sec \in AnyId \cup {NoNode}
      BY <1>6, <2>6
    <3>2. r[i] = [what |-> h[x].what, prim |-> r[i].prim, sec |-> r[i].sec]
      BY <2>3
    <3> QED
      BY <2>4, <3>1, <3>2 DEF NodeType
  <2> QED
    BY <2>5, <2>6, <2>7 DEF x
<1>8. PICK rank \in [DOMAIN h -> Nat] : Ranked(h, rank)
  BY DEF Tidy
<1> DEFINE low == [i \in D |-> rank[back[i]]]
<1>9. low \in [D -> Nat] /\ Ranked(r, low)
  <2>0. \A i \in D : back[i] \in DOMAIN h
    BY <1>3 DEF Copied
  <2>1. ASSUME NEW i \in D
        PROVE  /\ r[i].prim # NoNode => low[r[i].prim] < low[i]
               /\ r[i].sec # NoNode => low[r[i].sec] < low[i]
    <3> DEFINE x == back[i]
    <3>1. x \in DOMAIN h
      BY <2>0
    <3>2. /\ h[x].prim # NoNode => rank[h[x].prim] < rank[x]
          /\ h[x].sec # NoNode => rank[h[x].sec] < rank[x]
      BY <1>8, <3>1 DEF Ranked
    <3>3. /\ h[x].prim # NoNode => back[r[i].prim] = h[x].prim
          /\ h[x].sec # NoNode => back[r[i].sec] = h[x].sec
      BY <1>4, <1>7
    <3> QED
      BY <1>7, <3>2, <3>3
  <2> QED
    BY <1>1, <2>0, <2>1 DEF Ranked
<1>10. Descends(r)
  <2>1. ASSUME NEW i \in D, Letter(i) \in 1 .. MaxLetter, r[i].prim # NoNode,
               Letter(r[i].prim) = Letter(i)
        PROVE  Sequence(r[i].prim) < Sequence(i)
    <3> DEFINE x == back[i]
    <3>1. x \in ids /\ sigma[x] = i
      BY <1>3
    <3>2. h[x].prim # NoNode /\ r[i].prim = sigma[h[x].prim]
      BY <1>7, <2>1
    <3> HIDE DEF x
    <3> QED
      BY <2>1, <3>1, <3>2 DEF Lowered
  <2> QED
    BY <1>1, <2>1 DEF Descends
<1>11. r \in [DOMAIN r -> NodeType]
  <2>1. r = [i \in D |-> r[i]]
    BY DEF r, Restrict
  <2> QED
    BY <1>1, <1>7, <2>1
<1>12. Closed(r, DOMAIN r)
  BY <1>1, <1>7 DEF Closed
<1>13. \E rk \in [DOMAIN r -> Nat] : Ranked(r, rk)
  BY <1>1, <1>9
<1> QED
  BY <1>1, <1>5, <1>6, <1>10, <1>11, <1>12, <1>13 DEF Tidy, r

\* A node computes the same under its new name.
LEMMA CopyMeans ==
  ASSUME NEW h, Tidy(h), NEW ids, NEW sigma, NEW g, Copied(h, ids, sigma, g), Lowered(h, ids, sigma)
  PROVE  \A x \in ids : Meaning(Restrict(g, Names(sigma, ids)), sigma[x]) = Meaning(h, x)
<1> DEFINE D == Names(sigma, ids)
           r == Restrict(g, D)
           back == [i \in D |-> CHOOSE x \in ids : sigma[x] = i]
<1>1. DOMAIN r = D /\ \A i \in D : r[i] = g[i]
  BY DEF Restrict
<1>2. \A x \in ids : sigma[x] \in D /\ sigma[x] \in AnyId
  BY DEF Copied, Names
<1>3. \A i \in D : back[i] \in ids /\ sigma[back[i]] = i
  BY DEF Names
<1>4. \A x \in ids : back[sigma[x]] = x
  BY <1>2, <1>3 DEF Copied
<1>5. back \in [DOMAIN r -> DOMAIN h]
  <2>1. \A i \in D : back[i] \in DOMAIN h
    BY <1>3 DEF Copied
  <2> QED
    BY <1>1, <2>1
<1>6. Tidy(r)
  BY CopyTidy
<1> HIDE DEF r, back
<1>7. ASSUME NEW i \in D
      PROVE  /\ r[i].what = h[back[i]].what
             /\ h[back[i]].prim = IF r[i].prim = NoNode THEN NoNode ELSE back[r[i].prim]
             /\ h[back[i]].sec = IF r[i].sec = NoNode THEN NoNode ELSE back[r[i].sec]
  <2> DEFINE x == back[i]
  <2>1. x \in ids /\ sigma[x] = i
    BY <1>3
  <2> HIDE DEF x
  <2>2. h[x].prim \in ids \cup {NoNode} /\ h[x].sec \in ids \cup {NoNode}
    BY <2>1 DEF Copied, Closed
  <2>3. r[i] = [what |-> h[x].what, prim |-> Name(sigma, h[x].prim), sec |-> Name(sigma, h[x].sec)]
    BY <1>1, <2>1 DEF Copied
  <2>4. \A y \in ids : sigma[y] # NoNode
    BY <1>2, UserActionsAssumption DEF UserActionsAssumption, AnyId
  <2> QED
    BY <1>4, <2>2, <2>3, <2>4 DEF Name, x
<1>8. Follows(r, h, back)
  BY <1>1, <1>7 DEF Follows
<1>9. \A i \in DOMAIN r : Meaning(r, i) = Meaning(h, back[i])
  BY <1>5, <1>6, <1>8, MeaningFollows
<1> QED
  BY <1>1, <1>2, <1>4, <1>9 DEF r

\* deleteOrphanedAnalyses: of some nodes with their sources what the layers own stays.
LEMMA CleanedUp ==
  ASSUME NEW g, IsFiniteSet(DOMAIN g), DOMAIN g \subseteq AnyId, NEW ids \in SUBSET DOMAIN g,
         Tidy(Restrict(g, ids)), NEW ls \in Seq(LayerType), Headed(Restrict(g, ids), ls),
         \A q \in DOMAIN ls : ls[q].source \in ids
  PROVE  LET r == Unorphaned(g, ls)
         IN  /\ DOMAIN r \subseteq ids /\ Tidy(r) /\ Headed(r, ls)
             /\ \A q \in DOMAIN ls : ls[q].source \in DOMAIN r
             /\ \A i \in ids : Owners(ls, i) # {} => i \in DOMAIN r
             /\ \A i \in DOMAIN r : Meaning(r, i) = Meaning(Restrict(g, ids), i)
<1> DEFINE k == Restrict(g, ids)
           used == UNION {Contained(g, ls[q].source) : q \in DOMAIN ls}
           r == Unorphaned(g, ls)
<1>1. DOMAIN k = ids /\ \A i \in ids : k[i] = g[i]
  BY DEF Restrict
<1> HIDE DEF k
<1>2. Tidy(k) /\ Headed(k, ls) /\ NoNode \notin ids
  <2>1. NoNode \notin DOMAIN g
    BY NoNodeIsNone
  <2> QED
    BY <2>1 DEF k
<1>3. \A i \in ids : /\ g[i].prim \in ids \cup {NoNode} /\ g[i].sec \in ids \cup {NoNode}
                     /\ Sources(g, i) \subseteq ids
  <2>1. \A i \in ids : k[i].prim \in ids \cup {NoNode} /\ k[i].sec \in ids \cup {NoNode}
    BY <1>1, <1>2 DEF Tidy, Closed
  <2>2. NoNode \notin DOMAIN g
    BY NoNodeIsNone
  <2> QED
    BY <1>1, <2>1, <2>2 DEF Sources, SourceIds
<1>4. ASSUME NEW q \in DOMAIN ls
      PROVE  /\ Contained(g, ls[q].source) \subseteq ids
             /\ ls[q].source \in Contained(g, ls[q].source)
             /\ \A i \in Contained(g, ls[q].source) : Sources(g, i) \subseteq Contained(g, ls[q].source)
  <2>1. ls[q].source \in ids
    OBVIOUS
  <2> QED
    BY <1>3, <2>1, ContainedLeast, ContainedIs
<1>5. used \subseteq ids /\ \A q \in DOMAIN ls : ls[q].source \in used
  BY <1>4
<1>6. \A i \in used : Sources(g, i) \subseteq used
  <2>1. ASSUME NEW q \in DOMAIN ls, NEW i \in Contained(g, ls[q].source) PROVE Sources(g, i) \subseteq used
    BY <1>4
  <2> QED
    BY <2>1
<1> HIDE DEF used
<1>7. \A i \in used : g[i].prim \in used \cup {NoNode} /\ g[i].sec \in used \cup {NoNode}
  BY <1>3, <1>5, <1>6 DEF Sources, SourceIds
<1>8. r = Restrict(k, used)
  <2>1. DOMAIN g \ (DOMAIN g \ used) = used
    BY <1>5
  <2>2. r = [i \in used |-> g[i]]
    BY <2>1 DEF Unorphaned, RemoveNodes, used
  <2>3. \A i \in used : g[i] = k[i]
    BY <1>1, <1>5
  <2> QED
    BY <2>2, <2>3 DEF Restrict
<1>9. DOMAIN r = used /\ \A i \in used : r[i] = k[i]
  BY <1>8 DEF Restrict
<1>10. Closed(k, used)
  BY <1>1, <1>5, <1>7 DEF Closed
<1>11. Tidy(r)
  BY <1>1, <1>2, <1>5, <1>8, <1>10, Restricted
<1> HIDE DEF r
<1>12. ASSUME NEW q \in DOMAIN ls
       PROVE  \A i \in ids : Owns(ls[q], i) => i \in used
  <2> DEFINE S == used \cup {NoNode}
  <2>1. ls[q].letter \in 1 .. MaxLetter
    <3>1. ls[q] \in LayerType
      OBVIOUS
    <3> QED
      BY <3>1 DEF LayerType
  <2>2. ls[q].source \in S
    BY <1>5
  <2>3. ASSUME NEW j \in DOMAIN k, j \in S, Owns(ls[q], j), Letter(k[j].prim) = Letter(j)
        PROVE  k[j].prim \in S
    <3>1. j \in used
      BY <1>1, <1>2, <2>3
    <3> QED
      BY <1>10, <3>1 DEF Closed
  <2> HIDE DEF S
  <2>4. \A i \in DOMAIN k : Owns(ls[q], i) => i \in S
    BY <1>2, <2>1, <2>2, <2>3, Climb
  <2> QED
    BY <1>1, <1>2, <2>4 DEF S
<1>13. \A i \in ids : Owners(ls, i) # {} => i \in used
  BY <1>12 DEF Owners
<1>14. Headed(r, ls)
  <2>1. SUFFICES ASSUME NEW q \in DOMAIN ls, NEW i \in used, Owns(ls[q], i), i # ls[q].source
                 PROVE  \E j \in used : Letter(j) = Letter(i) /\ r[j].prim = i
    BY <1>9 DEF Headed
  <2>2. PICK j \in ids : Letter(j) = Letter(i) /\ k[j].prim = i
    BY <1>1, <1>2, <1>5, <2>1 DEF Headed
  <2>3. j \in used
    BY <1>12, <2>1, <2>2 DEF Owns
  <2> QED
    BY <1>9, <2>2, <2>3
<1>15. \A i \in used : Meaning(r, i) = Meaning(k, i)
  <2> DEFINE back == [i \in used |-> i]
  <2>1. back \in [DOMAIN r -> DOMAIN k]
    BY <1>1, <1>5, <1>9
  <2>2. Follows(r, k, back)
    <3>1. \A i \in used : r[i].prim \in used \cup {NoNode} /\ r[i].sec \in used \cup {NoNode}
      BY <1>9, <1>10 DEF Closed
    <3> QED
      BY <1>9, <3>1 DEF Follows
  <2> HIDE DEF back
  <2>3. \A i \in DOMAIN r : Meaning(r, i) = Meaning(k, back[i])
    BY <1>2, <1>11, <2>1, <2>2, MeaningFollows
  <2> QED
    BY <1>9, <2>3 DEF back
<1> QED
  BY <1>5, <1>9, <1>11, <1>13, <1>14, <1>15 DEF r, k

\* Primary sources end in a table, and no number is greater than the way to it is long.
Deep(g, depth) ==
    \A i \in DOMAIN g :
        /\ depth[i] = IF g[i].prim = NoNode THEN 0 ELSE depth[g[i].prim] + 1
        /\ Letter(i) \in 1 .. MaxLetter => Sequence(i) <= depth[i]
Numbered(g) ==
    /\ \A i \in DOMAIN g : g[i].what \in Tables <=> g[i].prim = NoNode
    /\ \E depth \in [DOMAIN g -> Nat] : Deep(g, depth)

\* What the collections are after an action that ends with deleteOrphanedAnalyses.
LEMMA Settles ==
  ASSUME Tidy(nodes), NEW g, IsFiniteSet(DOMAIN g), DOMAIN g \subseteq AnyId,
         NEW ids, NEW sigma, Copied(nodes, ids, sigma, g), Lowered(nodes, ids, sigma),
         NEW ls \in Seq(LayerType), Led(nodes, ids, sigma, ls),
         \A q \in DOMAIN ls : ls[q].source \in Names(sigma, ids),
         NEW hs, EndWithout(g, ls, hs)
  PROVE  /\ Tidy(nodes') /\ Headed(nodes', layers') /\ layers' = ls
         /\ \A q \in DOMAIN ls : ls[q].source \in DOMAIN nodes'
         /\ \A x \in ids : Owners(ls, sigma[x]) # {} => sigma[x] \in DOMAIN nodes'
         /\ \A x \in ids : sigma[x] \in DOMAIN nodes' => Meaning(nodes', sigma[x]) = Meaning(nodes, x)
         /\ DOMAIN nodes' \subseteq Names(sigma, ids)
<1> DEFINE D == Names(sigma, ids)
           k == Restrict(g, D)
<1>1. nodes' = Unorphaned(g, ls) /\ layers' = ls
  BY DEF EndWithout
<1>2. D \subseteq DOMAIN g /\ \A x \in ids : sigma[x] \in D
  BY DEF Names, Copied
<1>3. DOMAIN k = D /\ \A i \in D : k[i] = g[i]
  BY DEF Restrict
<1>4. Tidy(k)
  BY CopyTidy
<1>5. Headed(k, ls)
  <2>1. SUFFICES ASSUME NEW q \in DOMAIN ls, NEW i \in D, Owns(ls[q], i), i # ls[q].source
                 PROVE  \E j \in D : Letter(j) = Letter(i) /\ k[j].prim = i
    BY <1>3 DEF Headed
  <2>2. PICK x \in ids : sigma[x] = i
    BY DEF Names
  <2>3. PICK y \in ids : Letter(sigma[y]) = Letter(sigma[x]) /\ nodes[y].prim = x
    BY <2>1, <2>2 DEF Led
  <2>4. x # NoNode
    BY NoNodeIsNone DEF Copied, Tidy
  <2>5. k[sigma[y]].prim = sigma[x] /\ sigma[y] \in D
    <3>1. k[sigma[y]] = [what |-> nodes[y].what, prim |-> Name(sigma, nodes[y].prim),
                         sec |-> Name(sigma, nodes[y].sec)]
      BY <1>2, <1>3 DEF Copied
    <3>2. Name(sigma, nodes[y].prim) = sigma[x]
      BY <2>3, <2>4 DEF Name
    <3> QED
      BY <1>2, <3>1, <3>2
  <2> QED
    BY <2>2, <2>3, <2>5
<1>6. \A x \in ids : Meaning(k, sigma[x]) = Meaning(nodes, x)
  BY CopyMeans
<1> HIDE DEF D
<1> DEFINE r == Unorphaned(g, ls)
<1>7. /\ DOMAIN r \subseteq D /\ Tidy(r) /\ Headed(r, ls)
      /\ \A q \in DOMAIN ls : ls[q].source \in DOMAIN r
      /\ \A i \in D : Owners(ls, i) # {} => i \in DOMAIN r
      /\ \A i \in DOMAIN r : Meaning(r, i) = Meaning(k, i)
  <2>1. \A q \in DOMAIN ls : ls[q].source \in D
    BY DEF D
  <2> QED
    BY <1>2, <1>4, <1>5, <2>1, CleanedUp
<1> HIDE DEF r, k
<1> QED
  BY <1>1, <1>2, <1>6, <1>7 DEF r, D

\* No name has a greater number than the way from its node is long.
NumbersFollow(ids, sigma) ==
    \A depth \in [DOMAIN nodes -> Nat] : Deep(nodes, depth) =>
        \A x \in ids : Letter(sigma[x]) \in 1 .. MaxLetter => Sequence(sigma[x]) <= depth[x]

NumbersKept == Numbered(nodes) => Numbered(nodes')

\* deleteOrphanedAnalyses leaves numbers that are not greater than the way to the table.
LEMMA EndNumbers ==
  ASSUME Tidy(nodes), Numbered(nodes), NEW g, NEW ids, NEW sigma, Copied(nodes, ids, sigma, g),
         NumbersFollow(ids, sigma), NEW ls, NEW hs, EndWithout(g, ls, hs),
         Tidy(nodes'), DOMAIN nodes' \subseteq Names(sigma, ids)
  PROVE  Numbered(nodes')
<1> DEFINE h == nodes'
           at(i) == CHOOSE x \in ids : sigma[x] = i
<1>1. \A i \in DOMAIN h : i \in DOMAIN g /\ h[i] = g[i]
  BY DEF EndWithout, Unorphaned, RemoveNodes
<1>2. /\ ids \subseteq DOMAIN nodes /\ Closed(nodes, ids) /\ \A x \in ids : sigma[x] \in AnyId
      /\ \A x, y \in ids : sigma[x] = sigma[y] => x = y
      /\ \A x \in ids : g[sigma[x]] = [what |-> nodes[x].what, prim |-> Name(sigma, nodes[x].prim),
                                      sec |-> Name(sigma, nodes[x].sec)]
  BY DEF Copied
<1>3. ASSUME NEW i \in DOMAIN h PROVE at(i) \in ids /\ sigma[at(i)] = i
  <2>1. \E x \in ids : sigma[x] = i
    BY DEF Names
  <2> QED
    BY <2>1
<1>4. NoNode \notin DOMAIN nodes /\ NoNode \notin AnyId
  BY NoNodeIsNone, UserActionsAssumption DEF Tidy, UserActionsAssumption, AnyId
<1>5. \A i \in DOMAIN h : h[i].prim # NoNode => h[i].prim \in DOMAIN h
  BY SourcesAre
<1> HIDE DEF h, at
<1>6. PICK depth \in [DOMAIN nodes -> Nat] : Deep(nodes, depth)
  BY DEF Numbered
<1>7. \A i \in DOMAIN nodes : nodes[i].what \in Tables <=> nodes[i].prim = NoNode
  BY DEF Numbered
<1> DEFINE far == [i \in DOMAIN h |-> depth[at(i)]]
<1>8. ASSUME NEW i \in DOMAIN h
      PROVE  /\ at(i) \in DOMAIN nodes /\ h[i].what = nodes[at(i)].what
             /\ h[i].prim = NoNode <=> nodes[at(i)].prim = NoNode
             /\ h[i].prim # NoNode => h[i].prim \in DOMAIN h /\ at(h[i].prim) = nodes[at(i)].prim
  <2> DEFINE x == at(i)
  <2>1. x \in ids /\ sigma[x] = i /\ x \in DOMAIN nodes
    BY <1>2, <1>3
  <2> HIDE DEF x
  <2>2. h[i].what = nodes[x].what /\ h[i].prim = Name(sigma, nodes[x].prim)
    <3> DEFINE prim == Name(sigma, nodes[x].prim)
               sec == Name(sigma, nodes[x].sec)
    <3>1. h[i] = g[i] /\ g[i] = [what |-> nodes[x].what, prim |-> prim, sec |-> sec]
      BY <1>1, <1>2, <2>1
    <3> HIDE DEF prim, sec
    <3>2. h[i].what = nodes[x].what /\ h[i].prim = prim
      BY <3>1
    <3> QED
      BY <3>2 DEF prim
  <2>3. nodes[x].prim = NoNode \/ nodes[x].prim \in ids
    BY <1>2, <2>1 DEF Closed
  <2>4. CASE nodes[x].prim = NoNode
    BY <2>1, <2>2, <2>4 DEF Name, x
  <2>5. CASE nodes[x].prim \in ids
    <3>1. nodes[x].prim # NoNode
      BY <1>2, <1>4, <2>5
    <3>2. h[i].prim = sigma[nodes[x].prim]
      BY <2>2, <3>1 DEF Name
    <3>3. h[i].prim # NoNode /\ h[i].prim \in DOMAIN h
      BY <1>2, <1>4, <1>5, <2>5, <3>2
    <3>4. at(h[i].prim) = nodes[x].prim
      BY <1>2, <1>3, <2>5, <3>2, <3>3
    <3> QED
      BY <2>1, <2>2, <3>1, <3>3, <3>4 DEF x
  <2> QED
    BY <2>3, <2>4, <2>5
<1>9. far \in [DOMAIN h -> Nat]
  BY <1>8
<1>10. Deep(h, far)
  <2>1. SUFFICES ASSUME NEW i \in DOMAIN h
                 PROVE  /\ far[i] = IF h[i].prim = NoNode THEN 0 ELSE far[h[i].prim] + 1
                        /\ Letter(i) \in 1 .. MaxLetter => Sequence(i) <= far[i]
    BY DEF Deep
  <2>2. depth[at(i)] = IF nodes[at(i)].prim = NoNode THEN 0 ELSE depth[nodes[at(i)].prim] + 1
    BY <1>6, <1>8 DEF Deep
  <2>3. Letter(i) \in 1 .. MaxLetter => Sequence(i) <= depth[at(i)]
    BY <1>3, <1>6 DEF NumbersFollow
  <2> QED
    BY <1>8, <2>2, <2>3
<1> HIDE DEF far
<1>11. \A i \in DOMAIN h : h[i].what \in Tables <=> h[i].prim = NoNode
  BY <1>7, <1>8
<1>12. Numbered(h)
  BY <1>9, <1>10, <1>11 DEF Numbered
<1> QED
  BY <1>12 DEF h

(* The inductive invariant: the graph, and who reads it.                   *)

ReadsOwned == \A read \in Reads : read[2] \in DOMAIN nodes /\ Owners(layers, read[2]) # {}

OneRead == \A a, b \in Reads : a[1] = b[1] => a = b

\* A layer that has been asked for has its source node, the only one of its letter.
PendingNode ==
    \A r \in requests : r.kind = "layer" =>
        /\ Id(r.letter, 0) \in DOMAIN nodes
        /\ \A i \in DOMAIN nodes : Letter(i) = r.letter => i = Id(r.letter, 0)

LayersStand ==
    /\ Tidy(nodes) /\ Headed(nodes, layers)
    /\ \A p \in DOMAIN layers : layers[p].source \in DOMAIN nodes

Grounded == LayersStand /\ ReadsOwned /\ OneRead /\ PendingNode

WidgetReads(ws) == {<<w, ws[w]>> : w \in DOMAIN ws}

\* Without requests the widgets of the map are all who read.
LEMMA PlainReads ==
  ASSUME requests = {}
  PROVE  Reads = WidgetReads(widgets) /\ OneRead
<1>1. Reads = WidgetReads(widgets)
  BY DEF Reads, WidgetReads
<1> QED
  BY <1>1 DEF OneRead, WidgetReads

\* After an action without requests, before and after it.
LEMMA StillPlain ==
  ASSUME requests = {}, requests' = requests
  PROVE  Reads' = WidgetReads(widgets') /\ OneRead' /\ PendingNode'
<1>1. requests' = {}
  OBVIOUS
<1>2. Reads' = WidgetReads(widgets')
  BY <1>1 DEF Reads, WidgetReads
<1>3. OneRead'
  BY <1>2 DEF OneRead, WidgetReads
<1> QED
  BY <1>1, <1>2, <1>3 DEF PendingNode

\* Widgets that are to be created again are read for as long.
LEMMA RecreateReads ==
  ASSUME requests = {}, NEW lid, NEW again, Recreate(lid, again)
  PROVE  /\ Reads' = WidgetReads([w \in DOMAIN widgets \ DOMAIN again |-> widgets[w]]) \cup WidgetReads(again)
         /\ OneRead' /\ PendingNode'
<1> DEFINE r == [kind |-> "drag", lid |-> lid, widgets |-> again]
           left == [w \in DOMAIN widgets \ DOMAIN again |-> widgets[w]]
<1>1. requests' = {r} /\ widgets' = left
  BY DEF Recreate
<1>2. r.kind = "drag" /\ r.widgets = again
  OBVIOUS
<1> HIDE DEF r, left
<1>3. {q \in requests' : q.kind = "widget"} = {} /\ {q \in requests' : q.kind = "drag"} = {r}
  BY <1>1, <1>2
<1>4. Reads' = WidgetReads(left) \cup WidgetReads(again)
  BY <1>1, <1>2, <1>3 DEF Reads, WidgetReads
<1>5. OneRead'
  BY <1>4 DEF OneRead, WidgetReads, left
<1>6. PendingNode'
  BY <1>1, <1>2 DEF PendingNode
<1> QED
  BY <1>4, <1>5, <1>6 DEF left

\* What the widgets read after the action is what they read before it, under the new names.
ReadsFollow(ids, sigma) ==
    \A new \in Reads' : \E old \in Reads :
        old[1] = new[1] /\ old[2] \in ids /\ new[2] = sigma[old[2]] /\ Owners(layers', new[2]) # {}

LayersFollow(ids, sigma, ls) ==
    \A p \in Positions, q \in DOMAIN ls : layers[p].lid = ls[q].lid =>
        layers[p].source \in ids /\ ls[q].source = sigma[layers[p].source]

\* What an action that ends with deleteOrphanedAnalyses leaves, when it gives the nodes
\* that it keeps other names and whoever reads them follows.
LEMMA EndGrounds ==
  ASSUME Tidy(nodes), NEW g, IsFiniteSet(DOMAIN g), DOMAIN g \subseteq AnyId,
         NEW ids, NEW sigma, Copied(nodes, ids, sigma, g), Lowered(nodes, ids, sigma),
         NEW ls \in Seq(LayerType), Led(nodes, ids, sigma, ls),
         \A q \in DOMAIN ls : ls[q].source \in Names(sigma, ids),
         NEW hs, EndWithout(g, ls, hs),
         ReadsFollow(ids, sigma), OneRead', PendingNode', OneRead
  PROVE  /\ Grounded' /\ ReadsKept /\ (LayersFollow(ids, sigma, ls) => LayersKept)
         /\ NumbersFollow(ids, sigma) => NumbersKept
<1>1. /\ Tidy(nodes') /\ Headed(nodes', layers') /\ layers' = ls
      /\ \A q \in DOMAIN ls : ls[q].source \in DOMAIN nodes'
      /\ \A x \in ids : Owners(ls, sigma[x]) # {} => sigma[x] \in DOMAIN nodes'
      /\ \A x \in ids : sigma[x] \in DOMAIN nodes' => Meaning(nodes', sigma[x]) = Meaning(nodes, x)
      /\ DOMAIN nodes' \subseteq Names(sigma, ids)
  BY Settles
<1>2. LayersStand'
  BY <1>1 DEF LayersStand
<1>3. ASSUME NEW new \in Reads'
      PROVE  \E old \in Reads : /\ old[1] = new[1] /\ old[2] \in ids /\ new[2] = sigma[old[2]]
                                /\ Owners(layers', new[2]) # {} /\ new[2] \in DOMAIN nodes'
                                /\ Meaning(nodes', new[2]) = Meaning(nodes, old[2])
  <2>1. PICK old \in Reads :
           old[1] = new[1] /\ old[2] \in ids /\ new[2] = sigma[old[2]] /\ Owners(layers', new[2]) # {}
    BY DEF ReadsFollow
  <2>2. new[2] \in DOMAIN nodes'
    BY <1>1, <2>1
  <2> QED
    BY <1>1, <2>1, <2>2
<1>4. ReadsOwned'
  BY <1>3 DEF ReadsOwned
<1>5. ReadsKept
  <2>1. SUFFICES ASSUME NEW old \in Reads, NEW new \in Reads', old[1] = new[1]
                 PROVE  Meaning(nodes', new[2]) = Meaning(nodes, old[2])
    BY DEF ReadsKept
  <2>2. PICK was \in Reads : was[1] = new[1] /\ Meaning(nodes', new[2]) = Meaning(nodes, was[2])
    BY <1>3
  <2>3. was = old
    BY <2>1, <2>2 DEF OneRead
  <2> QED
    BY <2>2, <2>3
<1>6. ASSUME LayersFollow(ids, sigma, ls) PROVE LayersKept
  <2>1. SUFFICES ASSUME NEW p \in Positions, NEW q \in DOMAIN ls, layers[p].lid = ls[q].lid
                 PROVE  Meaning(nodes', ls[q].source) = Meaning(nodes, layers[p].source)
    BY <1>1 DEF LayersKept
  <2>2. layers[p].source \in ids /\ ls[q].source = sigma[layers[p].source]
    BY <1>6, <2>1 DEF LayersFollow
  <2>3. ls[q].source \in DOMAIN nodes'
    BY <1>1
  <2> QED
    BY <1>1, <2>2, <2>3
<1>7. ASSUME NumbersFollow(ids, sigma) PROVE NumbersKept
  BY <1>1, <1>7, EndNumbers DEF NumbersKept
<1> QED
  BY <1>2, <1>4, <1>5, <1>6, <1>7 DEF Grounded

(* The names that stay as they are.                                        *)

Same(ids) == [i \in ids |-> i]

\* No node changes its name.
LEMMA SameNames ==
  ASSUME Tidy(nodes), NEW ids \in SUBSET DOMAIN nodes, Closed(nodes, ids),
         NEW g, ids \subseteq DOMAIN g, \A i \in ids : g[i] = nodes[i]
  PROVE  /\ Copied(nodes, ids, Same(ids), g) /\ Lowered(nodes, ids, Same(ids))
         /\ Names(Same(ids), ids) = ids /\ (\A i \in ids : Same(ids)[i] = i) /\ NumbersFollow(ids, Same(ids))
<1> DEFINE sigma == Same(ids)
<1>1. \A i \in ids : sigma[i] = i
  BY DEF Same
<1>2. sigma \in [ids -> AnyId]
  BY DEF Same, Tidy
<1> HIDE DEF sigma
<1>3. ASSUME NEW i \in ids
      PROVE  /\ nodes[i].prim \in ids \cup {NoNode} /\ nodes[i].sec \in ids \cup {NoNode}
             /\ g[i] = [what |-> nodes[i].what, prim |-> Name(sigma, nodes[i].prim), sec |-> Name(sigma, nodes[i].sec)]
  <2>1. nodes[i].prim \in ids \cup {NoNode} /\ nodes[i].sec \in ids \cup {NoNode}
    BY DEF Closed
  <2>2. Name(sigma, nodes[i].prim) = nodes[i].prim /\ Name(sigma, nodes[i].sec) = nodes[i].sec
    BY <1>1, <2>1 DEF Name
  <2>3. nodes[i] \in NodeType /\ g[i] = nodes[i]
    BY DEF Tidy
  <2>4. nodes[i] = [what |-> nodes[i].what, prim |-> nodes[i].prim, sec |-> nodes[i].sec]
    BY <2>3 DEF NodeType
  <2> QED
    BY <2>1, <2>2, <2>3, <2>4
<1>4. Copied(nodes, ids, sigma, g)
  BY <1>1, <1>2, <1>3 DEF Copied
<1>5. Lowered(nodes, ids, sigma)
  <2>1. SUFFICES ASSUME NEW x \in ids, Letter(sigma[x]) \in 1 .. MaxLetter, nodes[x].prim # NoNode,
                        Letter(sigma[nodes[x].prim]) = Letter(sigma[x])
                 PROVE  Sequence(sigma[nodes[x].prim]) < Sequence(sigma[x])
    BY DEF Lowered
  <2>2. sigma[x] = x /\ sigma[nodes[x].prim] = nodes[x].prim
    BY <1>1, <1>3, <2>1
  <2> QED
    BY <2>1, <2>2 DEF Tidy, Descends
<1>6. Names(sigma, ids) = ids
  BY <1>1 DEF Names
<1>n. NumbersFollow(ids, sigma)
  BY <1>1 DEF NumbersFollow, Deep
<1> QED
  BY <1>n, <1>1, <1>4, <1>5, <1>6 DEF sigma

(* The actions that leave the nodes as they are.                           *)

\* Layers and readers on nodes that are as they were.
LEMMA NodesStay ==
  ASSUME Grounded, nodes' = nodes, Headed(nodes, layers'),
         \A q \in DOMAIN layers' : layers'[q].source \in DOMAIN nodes,
         \A p \in DOMAIN layers : \E q \in DOMAIN layers' : layers'[q].letter = layers[p].letter,
         \A new \in Reads' :
            \/ new \in Reads
            \/ /\ new[2] \in DOMAIN nodes /\ Owners(layers, new[2]) # {}
               /\ \A old \in Reads : old[1] # new[1],
         OneRead', PendingNode'
  PROVE  /\ Grounded' /\ ReadsKept
         /\ (\A p \in Positions, q \in DOMAIN layers' :
                layers[p].lid = layers'[q].lid => layers'[q].source = layers[p].source) => LayersKept
<1>1. LayersStand'
  BY DEF Grounded, LayersStand
<1>2. \A id : Owners(layers, id) # {} => Owners(layers', id) # {}
  BY DEF Owners, Owns
<1>3. ReadsOwned'
  BY <1>2 DEF Grounded, ReadsOwned
<1>4. ReadsKept
  BY DEF ReadsKept, Grounded, OneRead
<1> QED
  BY <1>1, <1>3, <1>4 DEF Grounded, LayersKept

\* Two layers of one id have one source.
LEMMA SameLayer ==
  ASSUME Layered, NEW ls,
         \A q \in DOMAIN ls : \E p \in DOMAIN layers : ls[q] = layers[p]
  PROVE  \A p \in Positions, q \in DOMAIN ls : layers[p].lid = ls[q].lid => ls[q] = layers[p]
BY DEF Layered, Apart, Positions

\* A map that is opened has one layer on one node.
LEMMA InitGrounded ==
  ASSUME UserActionsInit
  PROVE  Grounded
<1>1. PICK t \in Tables : nodes = [i \in {Id(1, 0)} |-> SourceNode(t)]
  BY DEF UserActionsInit
<1> DEFINE id == Id(1, 0)
           node == SourceNode(t)
           lid == CHOOSE l \in Layers : TRUE
           first == Layer(lid, 1, id)
<1>2. layers = <<first>> /\ widgets = << >> /\ requests = {}
  BY DEF UserActionsInit
<1>3. DOMAIN nodes = {id} /\ nodes[id] = node /\ IsFiniteSet(DOMAIN nodes)
  BY <1>1, FS_Singleton
<1>4. 1 \in 1 .. MaxLetter
  BY UserActionsAssumption DEF UserActionsAssumption
<1>5. id \in AnyId /\ Letter(id) = 1
  BY <1>4, NewIds
<1>6. node \in NodeType /\ node.prim = NoNode /\ node.sec = NoNode
  BY DEF SourceNode, NodeType
<1>7. first.source = id
  BY DEF Layer
<1>8. DOMAIN layers = {1} /\ layers[1] = first
  BY <1>2
<1> HIDE DEF id, node, first
<1>9. nodes \in [DOMAIN nodes -> NodeType]
  BY <1>1, <1>3, <1>6 DEF id, node
<1>10. Ranked(nodes, [i \in DOMAIN nodes |-> 0]) /\ [i \in DOMAIN nodes |-> 0] \in [DOMAIN nodes -> Nat]
  BY <1>3, <1>6 DEF Ranked
<1>11. \E rank \in [DOMAIN nodes -> Nat] : Ranked(nodes, rank)
  BY <1>10
<1>12. Closed(nodes, DOMAIN nodes) /\ Descends(nodes)
  BY <1>3, <1>6 DEF Closed, Descends
<1>13. Tidy(nodes)
  BY <1>3, <1>5, <1>9, <1>11, <1>12 DEF Tidy
<1>14. Headed(nodes, layers)
  BY <1>3, <1>7, <1>8 DEF Headed
<1>15. LayersStand
  BY <1>3, <1>7, <1>8, <1>13, <1>14 DEF LayersStand
<1>16. Reads = {} /\ OneRead
  <2>1. DOMAIN widgets = {}
    BY <1>2
  <2> QED
    BY <1>2, <2>1, PlainReads DEF WidgetReads
<1>17. ReadsOwned /\ PendingNode
  BY <1>2, <1>16 DEF ReadsOwned, PendingNode
<1> QED
  BY <1>15, <1>16, <1>17 DEF Grounded

\* moveLayer leaves every layer on its source.
LEMMA MoveGrounds ==
  ASSUME Layered, Grounded, NEW from \in Positions, NEW to \in Positions, MoveLayer(from, to)
  PROVE  Grounded' /\ ReadsKept /\ LayersKept
<1> DEFINE fewer == RemoveAt(layers, from)
           ls == InsertAt(fewer, to, layers[from])
<1>1. nodes' = nodes /\ layers' = ls /\ widgets' = widgets /\ requests' = requests
  BY DEF MoveLayer
<1>2. layers \in Seq(LayerType) /\ Apart(layers) /\ Positions = DOMAIN layers
  BY DEF Layered, Positions
<1>3. layers[from] \in LayerType /\ Len(layers) \in Nat /\ DOMAIN layers = 1 .. Len(layers)
  BY <1>2
<1>4. /\ fewer \in Seq(LayerType) /\ Len(fewer) = Len(layers) - 1 /\ Apart(fewer)
      /\ \A q \in DOMAIN fewer : \E p \in DOMAIN layers : p # from /\ fewer[q] = layers[p]
      /\ \A p \in DOMAIN layers : p # from => \E q \in DOMAIN fewer : fewer[q] = layers[p]
  BY <1>2, LayerRemoved
<1> HIDE DEF fewer
<1>5. to \in 1 .. (Len(fewer) + 1)
  BY <1>2, <1>3, <1>4
<1>6. \A q \in DOMAIN fewer : fewer[q].lid # layers[from].lid /\ fewer[q].letter # layers[from].letter
  BY <1>2, <1>4 DEF Apart
<1>7. /\ ls \in Seq(LayerType)
      /\ \A q \in DOMAIN ls : ls[q] = layers[from] \/ \E p \in DOMAIN fewer : ls[q] = fewer[p]
      /\ \A q \in DOMAIN fewer : \E r \in DOMAIN ls : ls[r] = fewer[q]
      /\ \E r \in DOMAIN ls : ls[r] = layers[from]
  BY <1>3, <1>4, <1>5, <1>6, LayerInserted
<1> HIDE DEF ls
<1>8. \A p \in DOMAIN layers : \E r \in DOMAIN ls : ls[r] = layers[p]
  BY <1>4, <1>7
<1>9. \A q \in DOMAIN ls : \E p \in DOMAIN layers : ls[q] = layers[p]
  BY <1>2, <1>4, <1>7
<1>10. Headed(nodes, ls) /\ \A q \in DOMAIN ls : ls[q].source \in DOMAIN nodes
  BY <1>9 DEF Grounded, LayersStand, Headed
<1>11. Reads' = Reads
  BY <1>1 DEF Reads
<1>12. OneRead' /\ PendingNode'
  BY <1>1, <1>11 DEF Grounded, OneRead, PendingNode
<1>13. \A p \in DOMAIN layers : \E q \in DOMAIN ls : ls[q].letter = layers[p].letter
  BY <1>8
<1>14. \A p \in Positions, q \in DOMAIN ls : layers[p].lid = ls[q].lid => ls[q].source = layers[p].source
  BY <1>9, SameLayer
<1> QED
  BY <1>1, <1>10, <1>11, <1>12, <1>13, <1>14, NodesStay

\* The new layer has nothing of its own but its source.
LEMMA CreatedGrounds ==
  ASSUME Collections, Grounded, NEW r \in requests, LayerCreated(r)
  PROVE  Grounded' /\ ReadsKept /\ LayersKept
<1> DEFINE layer == Layer(r.lid, r.letter, Id(r.letter, 0))
           n == Len(layers)
<1>1. /\ r.kind = "layer"
      /\ layers' = Append(layers, layer)
      /\ requests' = requests \ {r}
      /\ nodes' = nodes /\ widgets' = widgets
  BY DEF LayerCreated
<1>2. /\ requests = {r}
      /\ \A p \in DOMAIN layers : layers[p].lid # r.lid /\ layers[p].letter # r.letter
  BY <1>1 DEF Collections, Pending
<1>3. layer.lid = r.lid /\ layer.letter = r.letter /\ layer.source = Id(r.letter, 0)
  BY DEF Layer
<1>4. /\ Id(r.letter, 0) \in DOMAIN nodes
      /\ \A i \in DOMAIN nodes : Letter(i) = r.letter => i = Id(r.letter, 0)
  BY <1>1 DEF Grounded, PendingNode
<1> HIDE DEF layer
<1>5. n \in Nat /\ DOMAIN layers = 1 .. n
  BY DEF Collections, Layered
<1>6. /\ DOMAIN layers' = 1 .. (n + 1)
      /\ \A q \in 1 .. (n + 1) : layers'[q] = IF q = n + 1 THEN layer ELSE layers[q]
  BY <1>1, <1>5 DEF Collections, Layered
<1>7. ASSUME NEW q \in DOMAIN layers'
      PROVE  layers'[q] = layer \/ \E p \in DOMAIN layers : layers'[q] = layers[p]
  <2>1. q = n + 1 \/ q \in 1 .. n
    BY <1>5, <1>6
  <2> QED
    BY <1>5, <1>6, <2>1
<1>8. \A q \in DOMAIN layers' : layers'[q].source \in DOMAIN nodes
  BY <1>3, <1>4, <1>7 DEF Grounded, LayersStand
<1>9. Headed(nodes, layers')
  <2>1. SUFFICES ASSUME NEW q \in DOMAIN layers', NEW i \in DOMAIN nodes, Owns(layers'[q], i)
                 PROVE  i = layers'[q].source
                          \/ \E j \in DOMAIN nodes : Letter(j) = Letter(i) /\ nodes[j].prim = i
    BY DEF Headed
  <2>2. CASE layers'[q] = layer
    BY <1>3, <1>4, <2>1, <2>2 DEF Owns
  <2>3. ASSUME NEW p \in DOMAIN layers, layers'[q] = layers[p]
        PROVE  i = layers'[q].source
                 \/ \E j \in DOMAIN nodes : Letter(j) = Letter(i) /\ nodes[j].prim = i
    BY <2>1, <2>3 DEF Grounded, LayersStand, Headed
  <2> QED
    BY <1>7, <2>2, <2>3
<1>10. \A p \in DOMAIN layers : \E q \in DOMAIN layers' : layers'[q].letter = layers[p].letter
  <2>1. ASSUME NEW p \in DOMAIN layers PROVE p \in DOMAIN layers' /\ layers'[p] = layers[p]
    BY <1>5, <1>6
  <2> QED
    BY <2>1
<1>11. requests' = {}
  BY <1>1, <1>2
<1>12. Reads' = WidgetReads(widgets)
  BY <1>1, <1>11 DEF Reads, WidgetReads
<1>13. WidgetReads(widgets) \subseteq Reads
  BY DEF Reads, WidgetReads
<1>14. OneRead' /\ PendingNode'
  BY <1>11, <1>12, <1>13 DEF OneRead, PendingNode, Grounded
<1>15. \A p \in Positions, q \in DOMAIN layers' :
          layers[p].lid = layers'[q].lid => layers'[q].source = layers[p].source
  <2>1. \A p, q \in DOMAIN layers : layers[p].lid = layers[q].lid => p = q
    BY DEF Collections, Layered, Apart
  <2> QED
    BY <1>2, <1>3, <1>7, <2>1 DEF Positions
<1> QED
  BY <1>1, <1>8, <1>9, <1>10, <1>12, <1>13, <1>14, <1>15, NodesStay

\* The answers about widgets, and no answer.
LEMMA LayersStay ==
  ASSUME Layered, Grounded, nodes' = nodes, layers' = layers,
         \A new \in Reads' :
            \/ new \in Reads
            \/ /\ new[2] \in DOMAIN nodes /\ Owners(layers, new[2]) # {}
               /\ \A old \in Reads : old[1] # new[1],
         OneRead', PendingNode'
  PROVE  Grounded' /\ ReadsKept /\ LayersKept
<1>1. /\ Headed(nodes, layers') /\ \A q \in DOMAIN layers' : layers'[q].source \in DOMAIN nodes
      /\ \A p \in DOMAIN layers : \E q \in DOMAIN layers' : layers'[q].letter = layers[p].letter
  BY DEF Grounded, LayersStand
<1>2. \A p \in Positions, q \in DOMAIN layers' :
         layers[p].lid = layers'[q].lid => layers'[q].source = layers[p].source
  BY SameLayer
<1> QED
  BY <1>1, <1>2, NodesStay

\* Somebody reads no more.
LEMMA FewerReads ==
  ASSUME Layered, Grounded, nodes' = nodes, layers' = layers, Reads' \subseteq Reads, PendingNode'
  PROVE  Grounded' /\ ReadsKept /\ LayersKept
<1>1. OneRead'
  BY DEF Grounded, OneRead
<1> QED
  BY <1>1, LayersStay

\* An error leaves all as it was, and forgets who was about to be created.
LEMMA RefusedGrounds ==
  ASSUME Layered, Grounded, NEW r \in requests, Refused(r)
  PROVE  Grounded' /\ ReadsKept /\ LayersKept
<1>1. requests' = requests \ {r} /\ nodes' = nodes /\ layers' = layers /\ widgets' = widgets
  BY DEF Refused
<1>2. Reads' \subseteq Reads
  BY <1>1 DEF Reads
<1>3. PendingNode'
  BY <1>1 DEF Grounded, PendingNode
<1> QED
  BY <1>1, <1>2, <1>3, FewerReads

\* A widget that was about to be created is.
LEMMA WidgetCreatedGrounds ==
  ASSUME Layered, Grounded, NEW r \in requests, WidgetCreated(r)
  PROVE  Grounded' /\ ReadsKept /\ LayersKept
<1>1. /\ r.kind = "widget" /\ requests' = requests \ {r} /\ nodes' = nodes /\ layers' = layers
      /\ widgets' = [w \in DOMAIN widgets \cup {r.w} |-> IF w = r.w THEN r.source ELSE widgets[w]]
  BY DEF WidgetCreated
<1>2. /\ \A w \in DOMAIN widgets : <<w, widgets[w]>> \in Reads
      /\ \A q \in requests : q.kind = "widget" => <<q.w, q.source>> \in Reads
      /\ \A q \in requests : q.kind = "drag" => \A w \in DOMAIN q.widgets : <<w, q.widgets[w]>> \in Reads
  BY DEF Reads
<1>3. \A w \in DOMAIN widgets' : <<w, widgets'[w]>> \in Reads
  BY <1>1, <1>2
<1>4. Reads' \subseteq Reads
  BY <1>1, <1>2, <1>3 DEF Reads
<1>5. PendingNode'
  BY <1>1 DEF Grounded, PendingNode
<1> QED
  BY <1>1, <1>4, <1>5, FewerReads

\* The widgets of a drag are asked for one by one.
LEMMA DragSavedGrounds ==
  ASSUME Layered, Grounded, NEW r \in requests, DragSaved(r)
  PROVE  Grounded' /\ ReadsKept /\ LayersKept
<1> DEFINE req(w) == [kind |-> "widget", lid |-> r.lid, w |-> w, source |-> r.widgets[w]]
<1>1. /\ r.kind = "drag" /\ nodes' = nodes /\ layers' = layers /\ widgets' = widgets
      /\ requests' = (requests \ {r}) \cup {req(w) : w \in DOMAIN r.widgets}
  BY DEF DragSaved
<1>2. /\ \A w \in DOMAIN widgets : <<w, widgets[w]>> \in Reads
      /\ \A q \in requests : q.kind = "widget" => <<q.w, q.source>> \in Reads
      /\ \A q \in requests : q.kind = "drag" => \A w \in DOMAIN q.widgets : <<w, q.widgets[w]>> \in Reads
  BY DEF Reads
<1>3. \A q \in requests' : q \in requests \/ \E w \in DOMAIN r.widgets : q = req(w)
  BY <1>1
<1>4. \A w : req(w).kind = "widget" /\ req(w).w = w /\ req(w).source = r.widgets[w]
  OBVIOUS
<1> HIDE DEF req
<1>5. \A q \in requests' : q.kind = "widget" => <<q.w, q.source>> \in Reads
  BY <1>1, <1>2, <1>3, <1>4
<1>6. \A q \in requests' : q.kind # "widget" => q \in requests
  BY <1>3, <1>4
<1>7. Reads' \subseteq Reads
  <2>1. \A q \in requests' : q.kind = "drag" => \A w \in DOMAIN q.widgets : <<w, q.widgets[w]>> \in Reads
    BY <1>2, <1>6
  <2> QED
    BY <1>1, <1>2, <1>5, <2>1 DEF Reads
<1>8. PendingNode'
  BY <1>1, <1>6 DEF Grounded, PendingNode
<1> QED
  BY <1>1, <1>7, <1>8, FewerReads

\* A widget that nobody else is about to create reads a node of a layer.
LEMMA AddWidgetGrounds ==
  ASSUME Layered, Grounded, requests = {}, NEW w, NEW i \in DOMAIN nodes, AddWidget(w, i)
  PROVE  Grounded' /\ ReadsKept /\ LayersKept
<1> DEFINE r == [kind |-> "widget", lid |-> layers[FindOwner(layers, i)].lid, w |-> w, source |-> i]
<1>1. /\ w \notin {read[1] : read \in Reads} /\ Owners(layers, i) # {}
      /\ requests' = requests \cup {r}
      /\ nodes' = nodes /\ layers' = layers /\ widgets' = widgets
  BY DEF AddWidget
<1>2. r.kind = "widget" /\ r.w = w /\ r.source = i
  OBVIOUS
<1> HIDE DEF r
<1>3. requests' = {r}
  BY <1>1
<1>4. Reads' = WidgetReads(widgets) \cup {<<w, i>>}
  <2>1. {q \in requests' : q.kind = "widget"} = {r} /\ {q \in requests' : q.kind = "drag"} = {}
    BY <1>2, <1>3
  <2> QED
    BY <1>1, <1>2, <2>1 DEF Reads, WidgetReads
<1>5. Reads = WidgetReads(widgets) /\ OneRead
  BY PlainReads
<1>6. \A old \in Reads : old[1] # w
  BY <1>1
<1>7. OneRead'
  BY <1>4, <1>5, <1>6 DEF OneRead
<1>8. PendingNode'
  BY <1>2, <1>3 DEF PendingNode
<1>9. \A new \in Reads' :
         \/ new \in Reads
         \/ /\ new[2] \in DOMAIN nodes /\ Owners(layers, new[2]) # {}
            /\ \A old \in Reads : old[1] # new[1]
  BY <1>1, <1>4, <1>5, <1>6
<1> QED
  BY <1>1, <1>7, <1>8, <1>9, LayersStay

(* The layers saved, and one more layer on the same source.                *)

\* deleteOrphanedAnalyses on nodes that have not changed.
LEMMA EndSame ==
  ASSUME Layered, Grounded, requests = {}, requests' = requests, widgets' = widgets,
         NEW ls \in Seq(LayerType), NEW hs, EndWithout(nodes, ls, hs), Headed(nodes, ls),
         \A q \in DOMAIN ls : ls[q].source \in DOMAIN nodes,
         \A p \in DOMAIN layers : \E q \in DOMAIN ls : ls[q].letter = layers[p].letter
  PROVE  /\ Grounded' /\ ReadsKept /\ NumbersKept
         /\ (\A p \in Positions, q \in DOMAIN ls :
                layers[p].lid = ls[q].lid => ls[q].source = layers[p].source) => LayersKept
<1> DEFINE ids == DOMAIN nodes
           sigma == Same(ids)
<1>1. Tidy(nodes) /\ IsFiniteSet(ids) /\ ids \subseteq AnyId /\ Closed(nodes, ids)
  BY DEF Grounded, LayersStand, Tidy
<1>2. /\ Copied(nodes, ids, sigma, nodes) /\ Lowered(nodes, ids, sigma)
      /\ Names(sigma, ids) = ids /\ (\A i \in ids : sigma[i] = i) /\ NumbersFollow(ids, sigma)
  BY <1>1, SameNames
<1> HIDE DEF sigma
<1>3. Led(nodes, ids, sigma, ls)
  BY <1>2 DEF Led, Headed
<1>4. \A q \in DOMAIN ls : ls[q].source \in Names(sigma, ids)
  BY <1>2
<1>5. Reads = WidgetReads(widgets) /\ OneRead
  BY PlainReads
<1>6. Reads' = WidgetReads(widgets') /\ OneRead' /\ PendingNode'
  BY StillPlain
<1>7. layers' = ls
  BY DEF EndWithout
<1>8. ReadsFollow(ids, sigma)
  <2>1. SUFFICES ASSUME NEW new \in Reads
                 PROVE  new[2] \in ids /\ new[2] = sigma[new[2]] /\ Owners(layers', new[2]) # {}
    BY <1>5, <1>6 DEF ReadsFollow
  <2>2. new[2] \in ids /\ Owners(layers, new[2]) # {}
    BY DEF Grounded, ReadsOwned
  <2>3. Owners(layers', new[2]) # {}
    BY <1>7, <2>2 DEF Owners, Owns
  <2> QED
    BY <1>2, <2>2, <2>3
<1>9. Grounded' /\ ReadsKept /\ NumbersKept /\ (LayersFollow(ids, sigma, ls) => LayersKept)
  <2> HIDE DEF ids
  <2> QED
    BY <1>1, <1>2, <1>3, <1>4, <1>5, <1>6, <1>8, EndGrounds DEF ids
<1>10. ASSUME \A p \in Positions, q \in DOMAIN ls : layers[p].lid = ls[q].lid => ls[q].source = layers[p].source
       PROVE  LayersFollow(ids, sigma, ls)
  BY <1>2, <1>10 DEF LayersFollow, Grounded, LayersStand, Positions
<1> QED
  BY <1>9, <1>10

\* saveLayer deletes orphaned nodes only.
LEMMA SaveLayerGrounds ==
  ASSUME Layered, Grounded, requests = {}, NEW p \in Positions, SaveLayer(p)
  PROVE  Grounded' /\ ReadsKept /\ LayersKept /\ NumbersKept
<1> DEFINE hs == SaveAnalysis(nodes, analyses, layers[p])
<1>1. EndWithout(nodes, layers, hs) /\ widgets' = widgets /\ requests' = requests
  BY DEF SaveLayer
<1> HIDE DEF hs
<1>2. /\ layers \in Seq(LayerType) /\ Headed(nodes, layers)
      /\ \A q \in DOMAIN layers : layers[q].source \in DOMAIN nodes
  BY DEF Layered, Grounded, LayersStand
<1>3. \A q, s \in DOMAIN layers : layers[q].lid = layers[s].lid => layers[q].source = layers[s].source
  BY DEF Layered, Apart
<1>4. \A q \in DOMAIN layers : \E s \in DOMAIN layers : layers[s].letter = layers[q].letter
  OBVIOUS
<1> QED
  BY <1>1, <1>2, <1>3, <1>4, EndSame DEF Positions

\* Movement 2: one more layer on a node that another one shows.
LEMMA DragSourceGrounds ==
  ASSUME Layered, Grounded, requests = {}, Len(layers) < MaxLayers, FreeLayers # {}, LetterIsFresh,
         NEW p \in Positions, NEW i \in DraggableNodes(p), NEW at \in 1 .. (Len(layers) + 1),
         DragSource(p, i, at)
  PROVE  Grounded' /\ ReadsKept /\ LayersKept /\ NumbersKept
<1> DEFINE letter == NextLetter(TakenLetters)
           lid == CHOOSE l \in FreeLayers : TRUE
           layer == NewLayerOf(letter, i)
           ls == InsertAt(layers, at, layer)
<1>1. EndWithout(nodes, ls, analyses) /\ widgets' = widgets /\ requests' = requests
  BY DEF DragSource
<1>2. /\ lid \in Layers /\ letter \in 1 .. MaxLetter
      /\ \A q \in DOMAIN layers : layers[q].lid # lid /\ layers[q].letter # letter
  BY FreshLayer
<1>3. layer = Layer(lid, letter, i)
  BY DEF NewLayerOf
<1>4. \A j \in DOMAIN nodes : Letter(j) # letter
  BY DEF LetterIsFresh
<1> HIDE DEF letter, lid
<1>5. i \in DOMAIN nodes /\ i \in AnyId
  BY DraggableOwned
<1>6. layer \in LayerType /\ layer.lid = lid /\ layer.letter = letter /\ layer.source = i
  BY <1>2, <1>3, <1>5 DEF Layer, LayerType
<1> HIDE DEF layer
<1>7. /\ ls \in Seq(LayerType)
      /\ \A q \in DOMAIN ls : ls[q] = layer \/ \E s \in DOMAIN layers : ls[q] = layers[s]
      /\ \A s \in DOMAIN layers : \E q \in DOMAIN ls : ls[q] = layers[s]
  BY <1>2, <1>6, LayerInserted DEF Layered
<1> HIDE DEF ls
<1>8. \A q \in DOMAIN ls : ls[q].source \in DOMAIN nodes
  BY <1>5, <1>6, <1>7 DEF Grounded, LayersStand
<1>9. Headed(nodes, ls)
  <2>1. SUFFICES ASSUME NEW q \in DOMAIN ls, NEW j \in DOMAIN nodes, Owns(ls[q], j)
                 PROVE  j = ls[q].source \/ \E k \in DOMAIN nodes : Letter(k) = Letter(j) /\ nodes[k].prim = j
    BY DEF Headed
  <2>2. CASE ls[q] = layer
    BY <1>4, <1>6, <2>1, <2>2 DEF Owns
  <2>3. ASSUME NEW s \in DOMAIN layers, ls[q] = layers[s]
        PROVE  j = ls[q].source \/ \E k \in DOMAIN nodes : Letter(k) = Letter(j) /\ nodes[k].prim = j
    BY <2>1, <2>3 DEF Grounded, LayersStand, Headed
  <2> QED
    BY <1>7, <2>2, <2>3
<1>10. \A s \in DOMAIN layers : \E q \in DOMAIN ls : ls[q].letter = layers[s].letter
  BY <1>7
<1>11. \A s \in Positions, q \in DOMAIN ls : layers[s].lid = ls[q].lid => ls[q].source = layers[s].source
  <2>1. \A s, q \in DOMAIN layers : layers[s].lid = layers[q].lid => s = q
    BY DEF Layered, Apart
  <2>2. SUFFICES ASSUME NEW s \in DOMAIN layers, NEW q \in DOMAIN ls, layers[s].lid = ls[q].lid
                 PROVE  ls[q].source = layers[s].source
    BY DEF Positions
  <2>3. ls[q] # layer
    BY <1>2, <1>6, <2>2
  <2>4. PICK k \in DOMAIN layers : ls[q] = layers[k]
    BY <1>7, <2>3
  <2>5. k = s
    BY <2>1, <2>2, <2>4
  <2> QED
    BY <2>4, <2>5
<1> QED
  BY <1>1, <1>7, <1>8, <1>9, <1>10, <1>11, EndSame

(* A node added.                                                           *)

\* A node added over nodes that are there changes none of them.
LEMMA AddedTidy ==
  ASSUME NEW g, Tidy(g), NEW id \in AnyId, id \notin DOMAIN g, NEW node \in NodeType,
         node.prim \in DOMAIN g \cup {NoNode}, node.sec \in DOMAIN g \cup {NoNode},
         /\ Letter(id) \in 1 .. MaxLetter /\ node.prim # NoNode /\ Letter(node.prim) = Letter(id)
         => Sequence(node.prim) < Sequence(id)
  PROVE  LET r == AddNode(g, id, node)
         IN  /\ Tidy(r) /\ DOMAIN r = DOMAIN g \cup {id} /\ r[id] = node
             /\ \A i \in DOMAIN g : r[i] = g[i] /\ Meaning(r, i) = Meaning(g, i)
<1> DEFINE r == AddNode(g, id, node)
           D == DOMAIN g \cup {id}
<1>1. DOMAIN r = D /\ r[id] = node /\ \A i \in DOMAIN g : r[i] = g[i]
  BY DEF AddNode
<1>2. r = [i \in D |-> r[i]]
  BY DEF AddNode
<1> HIDE DEF r
<1>3. D \subseteq AnyId /\ IsFiniteSet(D)
  BY FS_AddElement DEF Tidy
<1>4. \A i \in DOMAIN g : g[i] \in NodeType /\ g[i].prim \in DOMAIN g \cup {NoNode} /\ g[i].sec \in DOMAIN g \cup {NoNode}
  BY DEF Tidy, Closed
<1>5. r \in [D -> NodeType]
  BY <1>1, <1>2, <1>4
<1>6. Closed(r, D)
  BY <1>1, <1>4 DEF Closed
<1>7. PICK rank \in [DOMAIN g -> Nat] : Ranked(g, rank)
  BY DEF Tidy
<1> DEFINE above(s) == IF s = NoNode THEN 0 ELSE rank[s]
           low == [i \in D |-> IF i = id THEN above(node.prim) + above(node.sec) + 1 ELSE rank[i]]
<1>8. above(node.prim) \in Nat /\ above(node.sec) \in Nat
  OBVIOUS
<1>9. low \in [D -> Nat]
  <2> HIDE DEF above
  <2> QED
    BY <1>8
<1>10. Ranked(r, low)
  <2>1. ASSUME NEW i \in DOMAIN g
        PROVE  /\ r[i].prim # NoNode => low[r[i].prim] < low[i]
               /\ r[i].sec # NoNode => low[r[i].sec] < low[i]
    BY <1>1, <1>4, <1>7 DEF Ranked
  <2>2. /\ node.prim # NoNode => low[node.prim] < low[id]
        /\ node.sec # NoNode => low[node.sec] < low[id]
    <3>1. node.prim # NoNode => low[node.prim] = above(node.prim)
      OBVIOUS
    <3>2. node.sec # NoNode => low[node.sec] = above(node.sec)
      OBVIOUS
    <3>3. low[id] = above(node.prim) + above(node.sec) + 1
      OBVIOUS
    <3> HIDE DEF above, low
    <3> QED
      BY <1>8, <3>1, <3>2, <3>3
  <2> QED
    BY <1>1, <2>1, <2>2 DEF Ranked
<1>11. Descends(r)
  BY <1>1 DEF Descends, Tidy
<1>12. Tidy(r)
  <2>1. \E rk \in [DOMAIN r -> Nat] : Ranked(r, rk)
    BY <1>1, <1>9, <1>10
  <2> QED
    BY <1>1, <1>3, <1>5, <1>6, <1>11, <2>1 DEF Tidy
<1> DEFINE back == [i \in DOMAIN g |-> i]
<1>13. Follows(g, r, back) /\ back \in [DOMAIN g -> DOMAIN r]
  BY <1>1, <1>4 DEF Follows
<1> HIDE DEF back
<1>14. \A i \in DOMAIN g : Meaning(g, i) = Meaning(r, back[i])
  BY <1>12, <1>13, MeaningFollows
<1>15. \A i \in DOMAIN g : Meaning(r, i) = Meaning(g, i)
  BY <1>14 DEF back
<1> QED
  BY <1>1, <1>12, <1>15 DEF r

\* A table chosen as second source is a node of the map.
LEMMA TableAdded ==
  ASSUME Tidy(nodes), NEW p, NEW sec \in SourceOptions(p)
  PROVE  LET g == WithTable(nodes, sec)
         IN  /\ Tidy(g) /\ sec \in DOMAIN g
             /\ \A i \in DOMAIN nodes : i \in DOMAIN g /\ g[i] = nodes[i] /\ Meaning(g, i) = Meaning(nodes, i)
             /\ \A i \in DOMAIN g : i \in DOMAIN nodes \/ (i = sec /\ Letter(i) = 0 /\ g[i].prim = NoNode /\ g[i].sec = NoNode)
<1> DEFINE g == WithTable(nodes, sec)
<1>1. CASE sec \in DOMAIN nodes
  <2>1. g = nodes
    <3>1. DOMAIN nodes \cup {sec} = DOMAIN nodes
      BY <1>1
    <3>2. AddNode(nodes, sec, SourceNode(sec[2])) = [i \in DOMAIN nodes |-> nodes[i]]
      BY <3>1 DEF AddNode
    <3>3. nodes = [i \in DOMAIN nodes |-> nodes[i]]
      BY DEF Tidy
    <3> QED
      BY <3>2, <3>3 DEF WithTable
  <2> QED
    BY <1>1, <2>1
<1>2. CASE sec \notin DOMAIN nodes
  <2>1. PICK t \in Tables : sec = TableId(t)
    BY <1>2 DEF SourceOptions
  <2>2. sec \in AnyId /\ Letter(sec) = 0 /\ sec[2] = t
    BY <2>1 DEF AnyId, TableId, Letter
  <2>3. SourceNode(t) \in NodeType /\ SourceNode(t).prim = NoNode /\ SourceNode(t).sec = NoNode
    BY DEF SourceNode, NodeType
  <2>4. g = AddNode(nodes, sec, SourceNode(t))
    BY <2>2 DEF WithTable
  <2>5. ~(Letter(sec) \in 1 .. MaxLetter)
    BY <2>2
  <2>6. /\ Tidy(g) /\ DOMAIN g = DOMAIN nodes \cup {sec} /\ g[sec] = SourceNode(t)
        /\ \A i \in DOMAIN nodes : g[i] = nodes[i] /\ Meaning(g, i) = Meaning(nodes, i)
    <3> DEFINE node == SourceNode(t)
    <3>1. node \in NodeType /\ node.prim \in DOMAIN nodes \cup {NoNode} /\ node.sec \in DOMAIN nodes \cup {NoNode}
      BY <2>3
    <3> HIDE DEF node
    <3> DEFINE r == AddNode(nodes, sec, node)
    <3>2. /\ Tidy(r) /\ DOMAIN r = DOMAIN nodes \cup {sec} /\ r[sec] = node
          /\ \A i \in DOMAIN nodes : r[i] = nodes[i] /\ Meaning(r, i) = Meaning(nodes, i)
      BY <1>2, <2>2, <2>5, <3>1, AddedTidy
    <3> HIDE DEF r
    <3>3. g = r
      BY <2>4 DEF r, node
    <3> HIDE DEF g
    <3> QED
      BY <3>2, <3>3 DEF node
  <2> HIDE DEF g
  <2> QED
    BY <2>2, <2>3, <2>6 DEF g
<1> QED
  BY <1>1, <1>2

(* The actions that add nodes, and those that change one.                  *)

\* createLayerFromTable adds the source node of a letter that is free.
LEMMA CreateLayerGrounds ==
  ASSUME Layered, Grounded, requests = {}, LetterIsFresh, NEW table \in Tables, CreateLayerFromTable(table)
  PROVE  Grounded' /\ ReadsKept /\ LayersKept
<1> DEFINE letter == NextLetter(TakenLetters)
           lid == CHOOSE l \in FreeLayers : TRUE
           r == [kind |-> "layer", lid |-> lid, table |-> table, letter |-> letter]
           node == SourceNode(table)
           id == Id(letter, 0)
           g == AddNode(nodes, id, node)
<1>1. /\ FreeLayers # {} /\ nodes' = g /\ requests' = requests \cup {r}
      /\ layers' = layers /\ widgets' = widgets
  BY DEF CreateLayerFromTable
<1>2. /\ letter \in 1 .. MaxLetter
      /\ \A p \in DOMAIN layers : layers[p].letter # letter
  BY <1>1, FreshLayer
<1>3. \A i \in DOMAIN nodes : Letter(i) # letter
  BY DEF LetterIsFresh
<1>4. r.kind = "layer" /\ r.letter = letter
  OBVIOUS
<1>5. node \in NodeType /\ node.prim = NoNode /\ node.sec = NoNode
  BY DEF SourceNode, NodeType
<1> HIDE DEF r, node, letter
<1>6. id \in AnyId /\ Letter(id) = letter
  BY <1>2, NewIds
<1> HIDE DEF id
<1>7. id \notin DOMAIN nodes
  BY <1>3, <1>6
<1>8. Tidy(nodes)
  BY DEF Grounded, LayersStand
<1>9. /\ Tidy(g) /\ DOMAIN g = DOMAIN nodes \cup {id} /\ g[id] = node
      /\ \A i \in DOMAIN nodes : g[i] = nodes[i] /\ Meaning(g, i) = Meaning(nodes, i)
  BY <1>5, <1>6, <1>7, <1>8, AddedTidy
<1> HIDE DEF g
<1>10. Headed(g, layers)
  <2>1. SUFFICES ASSUME NEW q \in DOMAIN layers, NEW i \in DOMAIN g, Owns(layers[q], i)
                 PROVE  i = layers[q].source \/ \E j \in DOMAIN g : Letter(j) = Letter(i) /\ g[j].prim = i
    BY DEF Headed
  <2>2. i \in DOMAIN nodes
    BY <1>2, <1>6, <1>9, <2>1 DEF Owns
  <2>3. i = layers[q].source \/ \E j \in DOMAIN nodes : Letter(j) = Letter(i) /\ nodes[j].prim = i
    BY <2>1, <2>2 DEF Grounded, LayersStand, Headed
  <2> QED
    BY <1>9, <2>3
<1>11. LayersStand'
  BY <1>1, <1>9, <1>10 DEF Grounded, LayersStand
<1>12. requests' = {r}
  BY <1>1
<1>13. Reads' = WidgetReads(widgets)
  <2>1. {q \in requests' : q.kind = "widget"} = {} /\ {q \in requests' : q.kind = "drag"} = {}
    BY <1>4, <1>12
  <2> QED
    BY <1>1, <2>1 DEF Reads, WidgetReads
<1>14. Reads = WidgetReads(widgets) /\ OneRead
  BY PlainReads
<1>15. ReadsOwned'
  BY <1>1, <1>9, <1>13, <1>14 DEF Grounded, ReadsOwned
<1>16. OneRead'
  BY <1>13, <1>14 DEF OneRead
<1>17. PendingNode'
  <2>1. \A i \in DOMAIN g : Letter(i) = letter => i = id
    BY <1>3, <1>9
  <2> QED
    BY <1>1, <1>4, <1>9, <1>12, <2>1 DEF PendingNode, id
<1>18. ReadsKept
  BY <1>1, <1>9, <1>13, <1>14 DEF ReadsKept, Grounded, ReadsOwned, OneRead
<1>19. LayersKept
  <2>1. \A p, q \in DOMAIN layers : layers[p].lid = layers[q].lid => p = q
    BY DEF Layered, Apart
  <2> QED
    BY <1>1, <1>9, <2>1 DEF LayersKept, Positions, Grounded, LayersStand
<1> QED
  BY <1>11, <1>15, <1>16, <1>17, <1>18, <1>19 DEF Grounded

\* A graph with the same layers, widgets and requests.
LEMMA GraphGrounds ==
  ASSUME Grounded, requests = {}, requests' = requests, widgets' = widgets,
         LayersStand', DOMAIN nodes \subseteq DOMAIN nodes',
         \A id : Owners(layers, id) # {} => Owners(layers', id) # {}
  PROVE  Grounded'
<1>1. Reads' = WidgetReads(widgets') /\ OneRead' /\ PendingNode'
  BY StillPlain
<1>2. Reads = WidgetReads(widgets)
  BY PlainReads
<1>3. ReadsOwned'
  BY <1>1, <1>2 DEF Grounded, ReadsOwned
<1> QED
  BY <1>1, <1>3 DEF Grounded

\* Another query changes no source.
LEMMA QueryGrounds ==
  ASSUME Layered, Grounded, requests = {}, NEW p \in Positions, NEW table \in Tables,
         SaveAnalysisSourceQuery(p, table)
  PROVE  Grounded'
<1> DEFINE id == layers[p].source
           g == [nodes EXCEPT ![id].what = table]
<1>1. id \in DOMAIN nodes /\ nodes' = g /\ layers' = layers /\ widgets' = widgets /\ requests' = requests
  BY DEF SaveAnalysisSourceQuery
<1>2. Tidy(nodes) /\ nodes \in [DOMAIN nodes -> NodeType]
  BY DEF Grounded, LayersStand, Tidy
<1>3. DOMAIN g = DOMAIN nodes /\ g = [i \in DOMAIN nodes |-> g[i]]
  OBVIOUS
<1>4. ASSUME NEW i \in DOMAIN nodes
      PROVE  g[i] \in NodeType /\ g[i].prim = nodes[i].prim /\ g[i].sec = nodes[i].sec
  <2>1. nodes[i] \in NodeType
    BY <1>2
  <2>2. CASE i = id
    <3>1. g[i] = [nodes[i] EXCEPT !.what = table]
      BY <2>2
    <3> HIDE DEF g
    <3> QED
      BY <2>1, <3>1 DEF NodeType
  <2>3. CASE i # id
    <3>1. g[i] = nodes[i]
      BY <2>3
    <3> QED
      BY <2>1, <3>1
  <2> QED
    BY <2>2, <2>3
<1> HIDE DEF g
<1>5. g \in [DOMAIN g -> NodeType]
  BY <1>3, <1>4
<1>6. Closed(g, DOMAIN g) /\ Descends(g)
  BY <1>2, <1>3, <1>4 DEF Tidy, Closed, Descends
<1>7. PICK rank \in [DOMAIN nodes -> Nat] : Ranked(nodes, rank)
  BY <1>2 DEF Tidy
<1>8. Ranked(g, rank) /\ rank \in [DOMAIN g -> Nat]
  BY <1>3, <1>4, <1>7 DEF Ranked
<1>9. \E rk \in [DOMAIN g -> Nat] : Ranked(g, rk)
  BY <1>8
<1>10. Tidy(g)
  BY <1>2, <1>3, <1>5, <1>6, <1>9 DEF Tidy
<1>11. Headed(g, layers)
  BY <1>3, <1>4 DEF Grounded, LayersStand, Headed
<1>12. LayersStand' /\ DOMAIN nodes \subseteq DOMAIN nodes'
  BY <1>1, <1>3, <1>10, <1>11 DEF Grounded, LayersStand
<1> QED
  BY <1>1, <1>12, GraphGrounds

\* The id of a new node: over all those of its letter.
LEMMA FormIdIs ==
  ASSUME Layered, Grounded, NEW p \in Positions
  PROVE  LET id == FormId(layers[p])
             source == layers[p].source
         IN  /\ id \in AnyId /\ Letter(id) = layers[p].letter /\ Letter(id) \in 1 .. MaxLetter
             /\ id \notin DOMAIN nodes
             /\ Owns(layers[p], source) => Sequence(source) < Sequence(id)
             /\ ~Owns(layers[p], source) => \A i \in DOMAIN nodes : Letter(i) # Letter(id)
<1> DEFINE source == layers[p].source
           own == OwnedPrimaryNodes(nodes, layers[p])
<1>1. Tidy(nodes) /\ Headed(nodes, layers) /\ p \in DOMAIN layers /\ source \in DOMAIN nodes /\ source \in AnyId
  BY DEF Grounded, LayersStand, Positions, Tidy
<1>2. layers[p].letter \in 1 .. MaxLetter
  <2>1. layers[p] \in LayerType
    BY <1>1 DEF Layered
  <2> QED
    BY <2>1 DEF LayerType
<1>3. CASE ~Owns(layers[p], source)
  <2>1. FormId(layers[p]) = Id(layers[p].letter, 1)
    BY <1>3 DEF FormId
  <2>2. FormId(layers[p]) \in AnyId /\ Letter(FormId(layers[p])) = layers[p].letter
    BY <1>2, <2>1, NewIds
  <2>3. \A i \in DOMAIN nodes : ~Owns(layers[p], i)
    BY <1>1, <1>2, <1>3, NoneOwned
  <2> QED
    BY <1>2, <1>3, <2>2, <2>3 DEF Owns
<1>4. CASE Owns(layers[p], source)
  <2>1. Letter(source) = layers[p].letter
    BY <1>4 DEF Owns
  <2>2. Sequence(source) \in Nat
    BY <1>1, <1>2, <2>1, NumberedIds
  <2> DEFINE n == Sequence(source) + 1
  <2>3. n \in Nat
    BY <2>2
  <2>4. FormId(layers[p]) = Id(layers[p].letter, n)
    BY <1>4, <2>1 DEF FormId, NextId
  <2> HIDE DEF n
  <2>5. /\ FormId(layers[p]) \in AnyId /\ Letter(FormId(layers[p])) = layers[p].letter
        /\ Sequence(FormId(layers[p])) = n
    BY <1>2, <2>3, <2>4, NewIds DEF Sequence, Id
  <2>6. /\ Chain(nodes, own)
        /\ ToSet(own) = {i \in DOMAIN nodes : Owns(layers[p], i)}
        /\ Len(own) # 0 => own[1] = source
        /\ Len(own) = 0 => ~Owns(layers[p], source)
    BY <1>1, <1>2, OwnIs
  <2>7. ASSUME NEW i \in DOMAIN nodes, Owns(layers[p], i) PROVE Sequence(i) < n
    <3>1. own \in Seq(DOMAIN nodes) /\ Len(own) \in Nat /\ Len(own) # 0
      BY <1>4, <2>6 DEF Chain
    <3>2. ToSet(own) = {own[k] : k \in 1 .. Len(own)}
      BY <3>1 DEF ToSet
    <3>3. PICK k \in 1 .. Len(own) : i = own[k]
      BY <2>6, <2>7, <3>2
    <3>4. own[1] = source /\ 1 \in 1 .. Len(own)
      BY <2>6, <3>1
    <3>5. CASE k = 1
      BY <2>2, <3>3, <3>4, <3>5 DEF n
    <3>6. CASE k # 1
      <4>1. 1 < k
        BY <3>1, <3>6
      <4>2. Sequence(own[k]) <= Sequence(own[1]) - (k - 1) /\ Sequence(own[k]) \in Nat
        BY <2>6, <3>4, <4>1 DEF Chain
      <4> QED
        BY <2>2, <3>3, <3>4, <4>1, <4>2 DEF n
    <3> QED
      BY <3>5, <3>6
  <2>8. FormId(layers[p]) \notin DOMAIN nodes
    <3>1. SUFFICES ASSUME FormId(layers[p]) \in DOMAIN nodes PROVE FALSE
      OBVIOUS
    <3>2. Owns(layers[p], FormId(layers[p]))
      BY <2>5 DEF Owns
    <3>3. n < n
      BY <2>5, <2>7, <3>1, <3>2
    <3> QED
      BY <2>3, <3>3
  <2>9. Sequence(source) < n
    BY <2>2 DEF n
  <2> QED
    BY <1>2, <1>4, <2>5, <2>8, <2>9
<1> QED
  BY <1>3, <1>4

\* The graph with a new node on top of a layer.
LEMMA CreateGraph ==
  ASSUME Layered, Grounded, NEW p \in Positions, NEW kind \in Kinds, NEW sec, CreateAnalysisNode(p, kind, sec)
  PROVE  LET id == FormId(layers[p])
         IN  /\ Tidy(nodes') /\ id \in DOMAIN nodes'
             /\ nodes'[id] = [what |-> kind, prim |-> layers[p].source, sec |-> sec]
             /\ \A i \in DOMAIN nodes : /\ i \in DOMAIN nodes' /\ nodes'[i] = nodes[i]
                                        /\ Meaning(nodes', i) = Meaning(nodes, i)
             /\ \A i \in DOMAIN nodes' : i \in DOMAIN nodes \/ i = id \/ Letter(i) = 0
<1> DEFINE id == FormId(layers[p])
           source == layers[p].source
           chosen == IF sec = NoNode THEN nodes ELSE WithTable(nodes, sec)
           node == [what |-> kind, prim |-> source, sec |-> sec]
           g == AddNode(chosen, id, node)
<1>1. nodes' = g /\ (sec # NoNode => sec \in SourceOptions(p))
  BY DEF CreateAnalysisNode
<1>2. Tidy(nodes) /\ p \in DOMAIN layers /\ source \in DOMAIN nodes /\ source \in AnyId
  BY DEF Grounded, LayersStand, Positions, Tidy
<1>3. /\ id \in AnyId /\ Letter(id) = layers[p].letter /\ Letter(id) \in 1 .. MaxLetter
      /\ id \notin DOMAIN nodes
      /\ Owns(layers[p], source) => Sequence(source) < Sequence(id)
      /\ ~Owns(layers[p], source) => \A i \in DOMAIN nodes : Letter(i) # Letter(id)
  BY FormIdIs
<1>4. /\ Tidy(chosen) /\ sec \in DOMAIN chosen \cup {NoNode}
      /\ \A i \in DOMAIN nodes : i \in DOMAIN chosen /\ chosen[i] = nodes[i] /\ Meaning(chosen, i) = Meaning(nodes, i)
      /\ \A i \in DOMAIN chosen : i \in DOMAIN nodes \/ Letter(i) = 0
  <2>1. CASE sec = NoNode
    BY <1>2, <2>1
  <2>2. CASE sec # NoNode
    <3>1. chosen = WithTable(nodes, sec) /\ sec \in SourceOptions(p)
      BY <1>1, <2>2
    <3> HIDE DEF chosen
    <3> QED
      BY <1>2, <3>1, TableAdded
  <2> QED
    BY <2>1, <2>2
<1> HIDE DEF chosen, id
<1>5. id \notin DOMAIN chosen
  <2>1. Letter(id) # 0
    BY <1>3
  <2> QED
    BY <1>3, <1>4, <2>1
<1>6. node.prim = source /\ node.sec = sec /\ node \in NodeType
  <2>1. sec \in AnyId \cup {NoNode}
    BY <1>4 DEF Tidy
  <2> QED
    BY <1>2, <2>1 DEF NodeType
<1>7. Letter(source) = Letter(id) => Sequence(source) < Sequence(id)
  BY <1>2, <1>3 DEF Owns
<1> HIDE DEF node
<1>8. /\ Tidy(g) /\ DOMAIN g = DOMAIN chosen \cup {id} /\ g[id] = node
      /\ \A i \in DOMAIN chosen : g[i] = chosen[i] /\ Meaning(g, i) = Meaning(chosen, i)
  <2>1. node.prim \in DOMAIN chosen \cup {NoNode} /\ node.sec \in DOMAIN chosen \cup {NoNode}
    BY <1>2, <1>4, <1>6
  <2>2. /\ Letter(id) \in 1 .. MaxLetter /\ node.prim # NoNode /\ Letter(node.prim) = Letter(id)
        => Sequence(node.prim) < Sequence(id)
    BY <1>6, <1>7
  <2> QED
    BY <1>3, <1>4, <1>5, <1>6, <2>1, <2>2, AddedTidy
<1> HIDE DEF g
<1> QED
  BY <1>1, <1>4, <1>8 DEF id, node

\* An analysis added is the source of its layer, over what was its source.
LEMMA CreateGrounds ==
  ASSUME Layered, Grounded, requests = {}, NEW p \in Positions, NEW kind \in Kinds, NEW sec,
         CreateAnalysisNode(p, kind, sec)
  PROVE  Grounded'
<1> DEFINE id == FormId(layers[p])
           source == layers[p].source
           ls == [layers EXCEPT ![p].source = id]
<1>1. layers' = ls /\ widgets' = widgets /\ requests' = requests
  BY DEF CreateAnalysisNode
<1>2. /\ Tidy(nodes') /\ id \in DOMAIN nodes'
      /\ nodes'[id] = [what |-> kind, prim |-> source, sec |-> sec]
      /\ \A i \in DOMAIN nodes : i \in DOMAIN nodes' /\ nodes'[i] = nodes[i]
      /\ \A i \in DOMAIN nodes' : i \in DOMAIN nodes \/ i = id \/ Letter(i) = 0
  BY CreateGraph
<1>3. /\ id \in AnyId /\ Letter(id) = layers[p].letter /\ Letter(id) \in 1 .. MaxLetter
  BY FormIdIs
<1> HIDE DEF id
<1>4. layers \in Seq(LayerType) /\ Apart(layers) /\ p \in DOMAIN layers
  BY DEF Layered, Positions
<1>5. /\ DOMAIN ls = DOMAIN layers /\ Alike(ls, layers) /\ ls[p].source = id
      /\ \A q \in DOMAIN layers : q # p => ls[q] = layers[q]
  BY <1>3, <1>4, SourceMoved DEF Alike
<1> HIDE DEF ls
<1>6. Headed(nodes, layers) /\ \A q \in DOMAIN layers : layers[q].source \in DOMAIN nodes
  BY DEF Grounded, LayersStand
<1>7. Headed(nodes', ls)
  <2>1. SUFFICES ASSUME NEW q \in DOMAIN layers, NEW i \in DOMAIN nodes', Owns(ls[q], i), i # ls[q].source
                 PROVE  \E j \in DOMAIN nodes' : Letter(j) = Letter(i) /\ nodes'[j].prim = i
    BY <1>5 DEF Headed
  <2>2. Letter(i) = layers[q].letter /\ Owns(layers[q], i)
    BY <1>5, <2>1 DEF Owns, Alike
  <2>3. Letter(i) # 0
    <3>1. layers[q] \in LayerType
      BY <1>4
    <3> QED
      BY <2>2, <3>1 DEF LayerType
  <2>4. i # id
    <3>1. CASE q = p
      BY <1>5, <2>1, <3>1
    <3>2. CASE q # p
      BY <1>3, <1>4, <2>2, <3>2 DEF Apart
    <3> QED
      BY <3>1, <3>2
  <2>5. i \in DOMAIN nodes
    BY <1>2, <2>3, <2>4
  <2>6. CASE i = layers[q].source
    <3>1. q = p
      BY <1>5, <2>1, <2>6
    <3>2. Letter(id) = Letter(i) /\ nodes'[id].prim = i
      BY <1>2, <1>3, <2>2, <2>6, <3>1
    <3> QED
      BY <1>2, <3>2
  <2>7. CASE i # layers[q].source
    <3>1. PICK j \in DOMAIN nodes : Letter(j) = Letter(i) /\ nodes[j].prim = i
      BY <1>6, <2>2, <2>5, <2>7 DEF Headed
    <3> QED
      BY <1>2, <3>1
  <2> QED
    BY <2>6, <2>7
<1>8. \A q \in DOMAIN ls : ls[q].source \in DOMAIN nodes'
  BY <1>2, <1>5, <1>6
<1>9. LayersStand'
  BY <1>1, <1>2, <1>7, <1>8 DEF LayersStand
<1>10. \A i : Owners(layers, i) # {} => Owners(layers', i) # {}
  BY <1>1, <1>5 DEF Alike, Owners, Owns
<1>11. DOMAIN nodes \subseteq DOMAIN nodes'
  BY <1>2
<1> QED
  BY <1>1, <1>9, <1>10, <1>11, GraphGrounds

\* What an added analysis computes.
LEMMA CreateMeans ==
  ASSUME Layered, Grounded, NEW p \in Positions, NEW kind \in Kinds, NEW sec, CreateAnalysisNode(p, kind, sec)
  PROVE  Meaning(nodes', layers'[p].source) =
            [what |-> kind, prim |-> Meaning(nodes, layers[p].source), sec |-> Meaning(nodes', sec)]
<1> DEFINE id == FormId(layers[p])
           source == layers[p].source
           node == [what |-> kind, prim |-> source, sec |-> sec]
<1>1. layers' = [layers EXCEPT ![p].source = id]
  BY DEF CreateAnalysisNode
<1>2. /\ Tidy(nodes') /\ id \in DOMAIN nodes' /\ nodes'[id] = node
      /\ \A i \in DOMAIN nodes : i \in DOMAIN nodes' /\ Meaning(nodes', i) = Meaning(nodes, i)
  BY CreateGraph
<1>3. id \in AnyId
  BY FormIdIs
<1> HIDE DEF id
<1>4. p \in DOMAIN layers /\ source \in DOMAIN nodes
  BY DEF Grounded, LayersStand, Positions
<1>5. layers'[p].source = id
  BY <1>1, <1>3, <1>4, SourceMoved DEF Layered
<1>6. node.what = kind /\ node.prim = source /\ node.sec = sec
  OBVIOUS
<1> HIDE DEF node
<1>7. sec \in DOMAIN nodes' \cup {NoNode}
  BY <1>2, <1>6 DEF Tidy, Closed
<1>8. Meaning(nodes', id) = Unrolled(nodes', id, Meaning(nodes', source), Meaning(nodes', sec))
  <2> DEFINE g == nodes'
  <2>1. Tidy(g) /\ id \in DOMAIN g /\ g[id].prim = source /\ g[id].sec = sec
    BY <1>2, <1>6
  <2> HIDE DEF g
  <2>2. Meaning(g, id) = Unrolled(g, id, Meaning(g, source), Meaning(g, sec))
    BY <2>1, MeaningUnrolls
  <2> QED
    BY <2>2 DEF g
<1>9. sec \notin DOMAIN nodes' => Meaning(nodes', sec) = NoNode
  <2>1. IsFiniteSet(DOMAIN nodes') /\ NoNode \notin DOMAIN nodes'
    BY <1>2, NoNodeIsNone DEF Tidy
  <2>2. Meaning(nodes', NoNode) = NoNode
    BY <2>1, MeaningOfNone
  <2> QED
    BY <1>7, <2>2
<1>10. Unrolled(nodes', id, Meaning(nodes', source), Meaning(nodes', sec))
       = [what |-> kind, prim |-> Meaning(nodes', source), sec |-> Meaning(nodes', sec)]
  BY <1>2, <1>4, <1>6, <1>9 DEF Unrolled
<1> QED
  BY <1>2, <1>4, <1>5, <1>8, <1>10

\* What is made of another second source does not change, but for the node and what is over it.
LEMMA EditTidy ==
  ASSUME NEW c, Tidy(c), NEW i \in DOMAIN c, NEW sec \in DOMAIN c, i \notin Contained(c, sec)
  PROVE  LET g == [c EXCEPT ![i].sec = sec]
         IN  /\ Tidy(g) /\ DOMAIN g = DOMAIN c
             /\ \A j \in DOMAIN c : g[j].prim = c[j].prim
<1> DEFINE g == [c EXCEPT ![i].sec = sec]
<1>1. DOMAIN g = DOMAIN c /\ g = [j \in DOMAIN c |-> g[j]]
  BY DEF Tidy
<1>2. sec \in AnyId /\ sec # NoNode
  BY NoNodeIsNone DEF Tidy
<1>3. ASSUME NEW j \in DOMAIN c
      PROVE  /\ g[j] \in NodeType /\ g[j].prim = c[j].prim
             /\ g[j].sec = IF j = i THEN sec ELSE c[j].sec
  <2>1. c[j] \in NodeType
    BY DEF Tidy
  <2>2. CASE j = i
    <3>1. g[j] = [c[j] EXCEPT !.sec = sec]
      BY <2>2
    <3> HIDE DEF g
    <3> QED
      BY <1>2, <2>1, <2>2, <3>1 DEF NodeType
  <2>3. CASE j # i
    <3>1. g[j] = c[j]
      BY <2>3
    <3> HIDE DEF g
    <3> QED
      BY <2>1, <2>3, <3>1
  <2> QED
    BY <2>2, <2>3
<1> HIDE DEF g
<1>4. g \in [DOMAIN g -> NodeType]
  BY <1>1, <1>3
<1>5. Closed(g, DOMAIN g) /\ Descends(g)
  BY <1>1, <1>3 DEF Tidy, Closed, Descends
<1>6. PICK rank \in [DOMAIN c -> Nat] : Ranked(c, rank)
  BY DEF Tidy
<1> DEFINE over(j) == i \in Contained(c, j)
           low == [j \in DOMAIN c |-> IF over(j) THEN rank[j] + rank[sec] + 1 ELSE rank[j]]
<1>7. \A j \in DOMAIN c : rank[j] \in Nat
  OBVIOUS
<1>8. low \in [DOMAIN c -> Nat]
  <2> HIDE DEF over
  <2> QED
    BY <1>7
<1>9. over(i) /\ ~over(sec)
  BY ContainedSources
<1>10. ASSUME NEW j \in DOMAIN c, NEW s \in {c[j].prim, c[j].sec}, s # NoNode
       PROVE  low[s] < low[j] /\ s \in DOMAIN c
  <2>1. s \in DOMAIN c /\ rank[s] < rank[j]
    BY <1>6, <1>10, SourcesAre DEF Ranked
  <2>2. over(s) => over(j)
    <3>1. s \in Contained(c, j)
      BY <1>10, ContainedSources
    <3> QED
      BY <3>1, ContainedBelow
  <2> HIDE DEF over
  <2> QED
    BY <1>7, <2>1, <2>2
<1>11. low[sec] < low[i]
  <2> HIDE DEF over
  <2> QED
    BY <1>7, <1>9
<1> HIDE DEF low, over
<1>12. Ranked(g, low)
  <2>1. ASSUME NEW j \in DOMAIN c
        PROVE  /\ g[j].prim # NoNode => low[g[j].prim] < low[j]
               /\ g[j].sec # NoNode => low[g[j].sec] < low[j]
    BY <1>3, <1>10, <1>11
  <2> QED
    BY <1>1, <2>1 DEF Ranked
<1>13. \E rk \in [DOMAIN g -> Nat] : Ranked(g, rk)
  BY <1>1, <1>8, <1>12
<1>14. Tidy(g)
  BY <1>1, <1>4, <1>5, <1>13 DEF Tidy
<1> QED
  BY <1>1, <1>3, <1>14 DEF g

\* Another second source that is not made of the node makes no cycle.
LEMMA EditGrounds ==
  ASSUME Layered, Grounded, requests = {}, NEW p \in Positions, NEW i \in DOMAIN nodes, NEW sec,
         EditAnalysisNode(p, i, sec), Independent(i, sec)
  PROVE  Grounded'
<1> DEFINE c == WithTable(nodes, sec)
           g == [c EXCEPT ![i].sec = sec]
<1>1. /\ sec \in SourceOptions(p) /\ nodes' = g
      /\ layers' = layers /\ widgets' = widgets /\ requests' = requests
  BY DEF EditAnalysisNode
<1>2. Tidy(nodes)
  BY DEF Grounded, LayersStand
<1>3. /\ Tidy(c) /\ sec \in DOMAIN c
      /\ \A j \in DOMAIN nodes : j \in DOMAIN c /\ c[j] = nodes[j]
      /\ \A j \in DOMAIN c : \/ j \in DOMAIN nodes
                             \/ j = sec /\ Letter(j) = 0 /\ c[j].prim = NoNode /\ c[j].sec = NoNode
  BY <1>1, <1>2, TableAdded
<1> HIDE DEF c
<1>4. i \notin Contained(c, sec)
  <2>1. IsFiniteSet(DOMAIN c) /\ IsFiniteSet(DOMAIN nodes)
    BY <1>2, <1>3 DEF Tidy
  <2>2. CASE sec \in DOMAIN nodes
    <3> DEFINE S == Contained(nodes, sec)
    <3>1. /\ sec \in S /\ S \subseteq DOMAIN nodes /\ Closed(nodes, S) /\ i \notin S
      BY <1>2, <2>1, <2>2, ContainedSources, ContainedIs DEF Independent
    <3> HIDE DEF S
    <3>2. \A j \in S : Sources(c, j) \subseteq S
      <4>1. NoNode \notin DOMAIN c
        BY <1>3, NoNodeIsNone DEF Tidy
      <4> QED
        BY <1>3, <3>1, <4>1 DEF Closed, Sources, SourceIds
    <3>3. Contained(c, sec) \subseteq S
      BY <2>1, <3>1, <3>2, ContainedLeast
    <3> QED
      BY <3>1, <3>3
  <2>3. CASE sec \notin DOMAIN nodes
    <3>1. c[sec].prim = NoNode /\ c[sec].sec = NoNode /\ NoNode \notin DOMAIN c
      BY <1>3, <2>3, NoNodeIsNone DEF Tidy
    <3>2. Sources(c, sec) = {}
      BY <3>1 DEF Sources, SourceIds
    <3> DEFINE S == {sec}
    <3>3. \A j \in S : Sources(c, j) \subseteq S
      BY <3>2
    <3>4. sec \in S
      OBVIOUS
    <3> HIDE DEF S
    <3>5. Contained(c, sec) \subseteq S
      BY <2>1, <3>3, <3>4, ContainedLeast
    <3> QED
      BY <2>3, <3>5 DEF S
  <2> QED
    BY <2>2, <2>3
<1>5. i \in DOMAIN c
  BY <1>3
<1>6. Tidy(g) /\ DOMAIN g = DOMAIN c /\ \A j \in DOMAIN c : g[j].prim = c[j].prim
  BY <1>3, <1>4, <1>5, EditTidy
<1> HIDE DEF g
<1>7. Headed(g, layers)
  <2>1. SUFFICES ASSUME NEW q \in DOMAIN layers, NEW j \in DOMAIN g, Owns(layers[q], j)
                 PROVE  j = layers[q].source \/ \E k \in DOMAIN g : Letter(k) = Letter(j) /\ g[k].prim = j
    BY DEF Headed
  <2>2. layers[q].letter # 0
    <3>1. layers[q] \in LayerType
      BY DEF Layered
    <3> QED
      BY <3>1 DEF LayerType
  <2>3. j \in DOMAIN nodes
    BY <1>3, <1>6, <2>1, <2>2 DEF Owns
  <2>4. j = layers[q].source \/ \E k \in DOMAIN nodes : Letter(k) = Letter(j) /\ nodes[k].prim = j
    BY <2>1, <2>3 DEF Grounded, LayersStand, Headed
  <2> QED
    BY <1>3, <1>6, <2>4
<1>8. LayersStand' /\ DOMAIN nodes \subseteq DOMAIN nodes'
  BY <1>1, <1>3, <1>6, <1>7 DEF Grounded, LayersStand
<1> QED
  BY <1>1, <1>8, GraphGrounds

(* A node deleted, with all that is made of it.                            *)

\* What a layer has.
LEMMA LayersAre ==
  ASSUME Layered, NEW q \in Positions
  PROVE  /\ q \in DOMAIN layers /\ layers[q] \in LayerType
         /\ layers[q].letter \in 1 .. MaxLetter /\ layers[q].source \in AnyId
<1>1. q \in DOMAIN layers /\ layers[q] \in LayerType
  BY DEF Layered, Positions
<1> QED
  BY <1>1 DEF LayerType

\* The own nodes of a layer are the nodes of its letter, its source first.
LEMMA OwnNodesIs ==
  ASSUME Layered, LayersStand, NEW q \in Positions
  PROVE  LET own == OwnNodes(q)
         IN  /\ Chain(nodes, own) /\ own \in Seq(DOMAIN nodes) /\ Len(own) \in Nat
             /\ \A k \in 1 .. Len(own) : own[k] \in DOMAIN nodes /\ Owns(layers[q], own[k])
                                         /\ own[k] \in Contained(nodes, layers[q].source)
             /\ \A x \in DOMAIN nodes : Owns(layers[q], x) => \E k \in 1 .. Len(own) : own[k] = x
             /\ Len(own) # 0 => own[1] = layers[q].source /\ Owns(layers[q], layers[q].source)
             /\ Len(own) = 0 => ~Owns(layers[q], layers[q].source)
<1> DEFINE own == OwnNodes(q)
<1>1. q \in DOMAIN layers /\ layers[q].letter \in 1 .. MaxLetter
  BY LayersAre
<1>2. Tidy(nodes) /\ Headed(nodes, layers) /\ layers[q].source \in DOMAIN nodes
  BY <1>1 DEF LayersStand
<1>3. /\ Chain(nodes, own)
      /\ ToSet(own) = {i \in DOMAIN nodes : Owns(layers[q], i)}
      /\ Len(own) # 0 => own[1] = layers[q].source /\ Owns(layers[q], layers[q].source)
      /\ Len(own) = 0 => ~Owns(layers[q], layers[q].source)
  BY <1>1, <1>2, OwnIs DEF OwnNodes
<1> HIDE DEF own
<1>4. own \in Seq(DOMAIN nodes) /\ Len(own) \in Nat
  BY <1>3 DEF Chain
<1>5. ToSet(own) = {own[k] : k \in 1 .. Len(own)}
  BY <1>4 DEF ToSet
<1>6. ASSUME NEW k \in 1 .. Len(own) PROVE own[k] \in Contained(nodes, layers[q].source)
  <2>1. 1 \in 1 .. Len(own) /\ 1 <= k /\ Len(own) # 0
    BY <1>4
  <2>2. own[k] \in Contained(nodes, own[1])
    BY <1>3, <2>1 DEF Chain
  <2> QED
    BY <1>3, <2>1, <2>2
<1>7. \A k \in 1 .. Len(own) : own[k] \in DOMAIN nodes /\ Owns(layers[q], own[k])
  BY <1>3, <1>5
<1>8. \A x \in DOMAIN nodes : Owns(layers[q], x) => \E k \in 1 .. Len(own) : own[k] = x
  BY <1>3, <1>5
<1> QED
  BY <1>3, <1>4, <1>6, <1>7, <1>8 DEF own

\* In a list, what a node is made of comes after it.
LEMMA Among ==
  ASSUME NEW g, Tidy(g), NEW list, Chain(g, list), NEW a \in 1 .. Len(list), NEW b \in 1 .. Len(list)
  PROVE  /\ list[b] \in Contained(g, list[a]) <=> a <= b
         /\ list[a] = list[b] <=> a = b
<1>1. list \in Seq(DOMAIN g) /\ Len(list) \in Nat /\ list[a] \in DOMAIN g /\ list[b] \in DOMAIN g
  BY DEF Chain
<1>2. /\ a <= b => list[b] \in Contained(g, list[a])
      /\ b <= a => list[a] \in Contained(g, list[b])
  BY DEF Chain
<1>3. a # b => list[a] # list[b]
  <2>1. Sequence(list[a]) \in Nat /\ Sequence(list[b]) \in Nat
    BY DEF Chain
  <2>2. a < b => Sequence(list[b]) <= Sequence(list[a]) - (b - a)
    BY DEF Chain
  <2>3. b < a => Sequence(list[a]) <= Sequence(list[b]) - (a - b)
    BY DEF Chain
  <2> QED
    BY <1>1, <2>1, <2>2, <2>3
<1>4. b < a => list[b] \notin Contained(g, list[a])
  BY <1>1, <1>2, <1>3, NotBelowItself
<1> QED
  BY <1>1, <1>2, <1>3, <1>4

\* A node deleted with what is made of it: a layer that goes leaves no node that others read.
LEMMA DeleteNodeGrounds ==
  ASSUME Layered, Grounded, requests = {}, NEW p \in Positions, NEW i, DeleteAnalysisNode(p, i), NodeGoesAlone(i)
  PROVE  Grounded' /\ NumbersKept
<1> DEFINE owner == FindOwner(layers, i)
           destroyed == {j \in DOMAIN nodes : i \in Contained(nodes, j)}
           g == RemoveNodes(nodes, destroyed)
           folded == [layers EXCEPT ![owner].source = nodes[i].prim]
           P == {q \in Positions : q = owner \/ folded[q].source \notin destroyed}
           ls == Kept(folded, P)
           as == Kept(analyses, {k \in DOMAIN analyses : analyses[k] \notin destroyed})
           hs == SaveAnalysis(g, as, folded[owner])
           ids == DOMAIN nodes \ destroyed
           sigma == Same(ids)
<1>1. /\ i \in FormNodes(p) /\ Owners(layers, i) # {}
      /\ EndWithout(g, ls, hs)
      /\ widgets' = [w \in {v \in DOMAIN widgets : widgets[v] \notin destroyed} |-> widgets[w]]
      /\ requests' = requests
  BY DEF DeleteAnalysisNode
<1> HIDE DEF hs
<1>2. /\ Tidy(nodes) /\ LayersStand /\ IsFiniteSet(DOMAIN nodes) /\ NoNode \notin DOMAIN nodes
      /\ \A q \in Positions : layers[q].source \in DOMAIN nodes
      /\ layers \in Seq(LayerType) /\ Apart(layers) /\ Positions = DOMAIN layers
  BY NoNodeIsNone DEF Grounded, LayersStand, Tidy, Layered, Positions
<1>3. i \in DOMAIN nodes /\ nodes[i].prim \in DOMAIN nodes /\ nodes[i].prim # NoNode
  BY <1>1, <1>2 DEF FormNodes, HasPrimarySource
<1>4. owner \in Positions /\ Owns(layers[owner], i)
  BY <1>1, <1>2, OwnerIs
<1> HIDE DEF owner
<1>5. \A j \in DOMAIN nodes : j \in destroyed <=> i \in Contained(nodes, j)
  OBVIOUS
<1>6. ids \subseteq DOMAIN nodes /\ \A j \in DOMAIN nodes : j \in ids <=> i \notin Contained(nodes, j)
  OBVIOUS
<1>7. /\ DOMAIN g = ids /\ IsFiniteSet(DOMAIN g) /\ DOMAIN g \subseteq AnyId
      /\ \A j \in ids : g[j] = nodes[j]
  <2>1. DOMAIN g = ids /\ \A j \in ids : g[j] = nodes[j]
    BY DEF RemoveNodes
  <2> QED
    BY <1>2, <2>1, FS_Subset DEF Tidy
<1> HIDE DEF destroyed, g, ids
<1>8. Closed(nodes, ids)
  <2>1. ASSUME NEW j \in ids, NEW s \in {nodes[j].prim, nodes[j].sec}, s # NoNode
        PROVE  s \in ids
    <3>1. j \in DOMAIN nodes /\ i \notin Contained(nodes, j)
      BY <1>6
    <3>2. s \in Contained(nodes, j) /\ s \in DOMAIN nodes
      BY <1>2, <2>1, <3>1, ContainedSources, SourcesAre
    <3>3. Contained(nodes, s) \subseteq Contained(nodes, j)
      BY <1>2, <3>1, <3>2, ContainedBelow
    <3> QED
      BY <1>6, <3>1, <3>2, <3>3
  <2> QED
    BY <2>1 DEF Closed
<1>9. /\ Copied(nodes, ids, sigma, g) /\ Lowered(nodes, ids, sigma)
      /\ Names(sigma, ids) = ids /\ (\A x \in ids : sigma[x] = x) /\ NumbersFollow(ids, sigma)
  BY <1>2, <1>6, <1>7, <1>8, SameNames
<1> HIDE DEF sigma
<1>10. nodes[i].prim \in AnyId
  BY <1>2, <1>3 DEF Tidy
<1>11. /\ folded \in Seq(LayerType) /\ Alike(folded, layers) /\ folded[owner].source = nodes[i].prim
       /\ \A q \in DOMAIN layers : q # owner => folded[q] = layers[q]
  BY <1>2, <1>4, <1>10, SourceMoved
<1>12. Apart(folded)
  BY <1>2, <1>11, AlikeApart
<1>13. P = {q \in Positions : q = owner \/ layers[q].source \notin destroyed}
  BY <1>2, <1>11
<1> HIDE DEF folded, P
<1>14. /\ ls \in Seq(LayerType)
       /\ \A r \in DOMAIN ls : \E q \in DOMAIN folded : q \in P /\ ls[r] = folded[q]
       /\ \A q \in DOMAIN folded : q \in P => \E r \in DOMAIN ls : ls[r] = folded[q]
  BY <1>11, <1>12, KeptLayers
<1> HIDE DEF ls
<1>15. ASSUME NEW r \in DOMAIN ls
       PROVE  \E q \in Positions :
                 /\ ls[r] = folded[q] /\ ls[r].letter = layers[q].letter
                 /\ \/ q = owner /\ ls[r].source = nodes[i].prim
                    \/ q # owner /\ ls[r].source = layers[q].source /\ layers[q].source \notin destroyed
  <2>1. PICK q \in DOMAIN folded : q \in P /\ ls[r] = folded[q]
    BY <1>14
  <2>2. q \in Positions /\ ls[r].letter = layers[q].letter
    BY <1>11, <1>13, <2>1 DEF Alike
  <2> QED
    BY <1>2, <1>11, <1>13, <2>1, <2>2
<1>16. nodes[i].prim \in ids
  BY <1>2, <1>3, <1>6, NotBelowItself
<1>17. \A r \in DOMAIN ls : ls[r].source \in Names(sigma, ids)
  <2>1. SUFFICES ASSUME NEW r \in DOMAIN ls PROVE ls[r].source \in ids
    BY <1>9
  <2>2. \A q \in Positions : layers[q].source \notin destroyed => layers[q].source \in ids
    BY <1>2, <1>5, <1>6
  <2> QED
    BY <1>15, <1>16, <2>2
<1>18. ASSUME NEW r \in DOMAIN ls, NEW x \in ids, Owns(ls[r], x), x # ls[r].source
       PROVE  \E y \in ids : Letter(y) = Letter(x) /\ nodes[y].prim = x
  <2>1. PICK q \in Positions :
           /\ ls[r].letter = layers[q].letter
           /\ \/ q = owner /\ ls[r].source = nodes[i].prim
              \/ q # owner /\ ls[r].source = layers[q].source /\ layers[q].source \notin destroyed
    BY <1>15
  <2>2. Owns(layers[q], x) /\ x \in DOMAIN nodes
    BY <1>6, <1>18, <2>1 DEF Owns
  <2> DEFINE own == OwnNodes(q)
  <2>3. /\ Chain(nodes, own) /\ Len(own) \in Nat
        /\ \A k \in 1 .. Len(own) : own[k] \in DOMAIN nodes /\ Owns(layers[q], own[k])
                                    /\ own[k] \in Contained(nodes, layers[q].source)
        /\ \A z \in DOMAIN nodes : Owns(layers[q], z) => \E k \in 1 .. Len(own) : own[k] = z
        /\ Len(own) # 0 => own[1] = layers[q].source
    BY <1>2, OwnNodesIs
  <2> HIDE DEF own
  <2>4. CASE q # owner
    <3>1. x # layers[q].source /\ i \notin Contained(nodes, layers[q].source)
      BY <1>2, <1>5, <1>18, <2>1, <2>4
    <3>2. PICK j \in DOMAIN nodes : Letter(j) = Letter(x) /\ nodes[j].prim = x
      BY <1>2, <2>2, <3>1 DEF LayersStand, Headed
    <3>3. Owns(layers[q], j)
      BY <2>2, <3>2 DEF Owns
    <3>4. j \in Contained(nodes, layers[q].source)
      BY <2>3, <3>3
    <3>5. i \notin Contained(nodes, j)
      BY <1>2, <3>1, <3>4, ContainedBelow
    <3> QED
      BY <1>6, <3>2, <3>5
  <2>5. CASE q = owner
    <3>1. x # nodes[i].prim
      BY <1>18, <2>1, <2>5
    <3>2. PICK m \in 1 .. Len(own) : own[m] = i
      BY <1>3, <1>4, <2>3, <2>5
    <3>3. PICK k \in 1 .. Len(own) : own[k] = x
      BY <2>2, <2>3
    <3>4. m < k
      <4>1. own[m] \notin Contained(nodes, own[k])
        BY <1>6, <3>2, <3>3
      <4> QED
        BY <1>2, <2>3, <4>1, Among
    <3>5. k - 1 \in 1 .. Len(own) /\ k - 1 \in 1 .. (Len(own) - 1) /\ (k - 1) + 1 = k /\ m <= k - 1
      BY <2>3, <3>4
    <3> DEFINE y == own[k - 1]
    <3>6. nodes[y].prim = x /\ y \in DOMAIN nodes /\ Owns(layers[q], y)
      <4>1. nodes[own[k - 1]].prim = own[(k - 1) + 1]
        BY <2>3, <3>5 DEF Chain
      <4> QED
        BY <2>3, <3>3, <3>5, <4>1
    <3>7. m # k - 1
      BY <3>1, <3>2, <3>6
    <3>8. own[m] \notin Contained(nodes, y)
      <4>1. ~(k - 1 <= m)
        BY <2>3, <3>5, <3>7
      <4> QED
        BY <1>2, <2>3, <3>5, <4>1, Among
    <3>9. Letter(y) = Letter(x)
      BY <2>2, <3>6 DEF Owns
    <3> HIDE DEF y
    <3> QED
      BY <1>6, <3>2, <3>6, <3>8, <3>9
  <2> QED
    BY <2>4, <2>5
<1>19. Led(nodes, ids, sigma, ls)
  BY <1>9, <1>18 DEF Led
<1>20. /\ Reads = WidgetReads(widgets) /\ OneRead
       /\ Reads' = WidgetReads(widgets') /\ OneRead' /\ PendingNode'
  BY <1>1, PlainReads, StillPlain
<1>21. layers' = ls
  BY <1>1 DEF EndWithout
<1>22. ReadsFollow(ids, sigma)
  <2>1. SUFFICES ASSUME NEW w \in DOMAIN widgets, widgets[w] \notin destroyed
                 PROVE  LET x == widgets[w]
                        IN  <<w, x>> \in Reads /\ x \in ids /\ x = sigma[x] /\ Owners(ls, x) # {}
    BY <1>1, <1>20, <1>21 DEF ReadsFollow, WidgetReads
  <2> DEFINE x == widgets[w]
  <2>2. <<w, x>> \in Reads
    BY <1>20 DEF WidgetReads
  <2>3. x \in DOMAIN nodes /\ Owners(layers, x) # {}
    BY <2>2 DEF Grounded, ReadsOwned
  <2>4. x \in ids /\ i \notin Contained(nodes, x)
    BY <1>5, <1>6, <2>1, <2>3
  <2>5. PICK q \in Positions : Owns(layers[q], x)
    BY <1>2, <2>3 DEF Owners
  <2>6. q \in P
    <3>1. SUFFICES ASSUME q # owner, layers[q].source \in destroyed PROVE FALSE
      BY <1>13
    <3>2. LayerContains(nodes, layers[q], i)
      BY <1>2, <1>5, <3>1 DEF LayerContains
    <3> DEFINE going == {s \in Positions \ {owner} : LayerContains(nodes, layers[s], i)}
    <3>3. q \in going
      BY <3>1, <3>2
    <3>4. Contained(nodes, x) \cap {i} = {}
      BY <2>4
    <3>5. Strands({i}, going)
      BY <2>5, <3>3, <3>4 DEF Strands
    <3> QED
      BY <3>5 DEF NodeGoesAlone, owner
  <2>7. PICK r \in DOMAIN ls : ls[r] = folded[q]
    BY <1>2, <1>11, <1>14, <2>6 DEF Alike
  <2>8. Owns(ls[r], x)
    BY <1>2, <1>11, <2>5, <2>7 DEF Owns, Alike
  <2>9. Owners(ls, x) # {}
    BY <2>8 DEF Owners
  <2> QED
    BY <1>9, <2>2, <2>4, <2>9
<1> QED
  BY <1>1, <1>2, <1>7, <1>9, <1>14, <1>17, <1>19, <1>20, <1>22, EndGrounds

(* A head dragged out of its layer.                                        *)

OneRenamed(old, new) == [x \in DOMAIN nodes |-> IF x = old THEN new ELSE x]

\* Who reads a node that changes its name follows it.
To(s, old, new) == IF s = old THEN new ELSE s

\* changeSourceIds on one node.
LEMMA Retargeted ==
  ASSUME NEW g, NEW old, NEW new, NEW i \in DOMAIN g, g[i] \in NodeType
  PROVE  ChangeSourceIds(g, old, new)[i] =
            [what |-> g[i].what, prim |-> To(g[i].prim, old, new), sec |-> To(g[i].sec, old, new)]
         /\ DOMAIN ChangeSourceIds(g, old, new) = DOMAIN g
<1> DEFINE n == g[i]
           a == To(n.prim, old, new)
           b == To(n.sec, old, new)
<1>1. ChangeSourceIds(g, old, new)[i] = [n EXCEPT !.prim = To(n.prim, old, new), !.sec = To(n.sec, old, new)]
  BY DEF ChangeSourceIds, To
<1>2. n \in NodeType /\ ChangeSourceIds(g, old, new)[i] = [n EXCEPT !.prim = a, !.sec = b]
  BY <1>1
<1> HIDE DEF a, b, n
<1>3. ChangeSourceIds(g, old, new)[i] = [what |-> n.what, prim |-> a, sec |-> b]
  BY <1>2 DEF NodeType
<1>4. DOMAIN ChangeSourceIds(g, old, new) = DOMAIN g
  BY DEF ChangeSourceIds
<1> QED
  BY <1>3, <1>4 DEF a, b, n

\* The head under its new name, and all that are made of it, are as they were.
LEMMA OneCopied ==
  ASSUME Tidy(nodes), NEW i \in DOMAIN nodes, NEW new \in AnyId, new \notin DOMAIN nodes
  PROVE  LET g == ChangeSourceIds(AddNode(nodes, new, nodes[i]), i, new)
             sigma == OneRenamed(i, new)
         IN  /\ Copied(nodes, DOMAIN nodes, sigma, RemoveNodes(g, {i}))
             /\ DOMAIN RemoveNodes(g, {i}) \subseteq AnyId /\ IsFiniteSet(DOMAIN RemoveNodes(g, {i}))
             /\ DOMAIN g = DOMAIN nodes \cup {new} /\ IsFiniteSet(DOMAIN g)
<1> DEFINE more == AddNode(nodes, new, nodes[i])
           g == ChangeSourceIds(more, i, new)
           r == RemoveNodes(g, {i})
           sigma == OneRenamed(i, new)
           D == DOMAIN nodes
<1>1. /\ IsFiniteSet(D) /\ D \subseteq AnyId /\ NoNode \notin D /\ Closed(nodes, D)
      /\ \A x \in D : nodes[x] \in NodeType
  BY NoNodeIsNone DEF Tidy
<1>2. DOMAIN more = D \cup {new} /\ more[new] = nodes[i] /\ \A x \in D : more[x] = nodes[x]
  BY DEF AddNode
<1> HIDE DEF more
<1>3. /\ DOMAIN g = D \cup {new}
      /\ \A x \in D \cup {new} : more[x] \in NodeType =>
            g[x] = [what |-> more[x].what, prim |-> To(more[x].prim, i, new), sec |-> To(more[x].sec, i, new)]
  <2>1. DOMAIN g = D \cup {new}
    BY <1>2 DEF ChangeSourceIds
  <2> QED
    BY <1>2, <2>1, Retargeted
<1> HIDE DEF g
<1>4. DOMAIN r = (D \cup {new}) \ {i} /\ \A x \in (D \cup {new}) \ {i} : r[x] = g[x]
  BY <1>3 DEF RemoveNodes
<1> HIDE DEF r
<1>5. IsFiniteSet(D \cup {new}) /\ IsFiniteSet(DOMAIN r) /\ DOMAIN r \subseteq AnyId
  <2>1. IsFiniteSet(D \cup {new})
    BY <1>1, FS_AddElement
  <2> QED
    BY <1>1, <1>4, <2>1, FS_Subset
<1>6. \A x \in D : sigma[x] = To(x, i, new)
  BY DEF OneRenamed, To
<1>7. sigma \in [D -> AnyId] /\ \A x, y \in D : sigma[x] = sigma[y] => x = y
  <2>1. sigma \in [D -> AnyId]
    BY <1>1 DEF OneRenamed
  <2> QED
    BY <1>6, <2>1 DEF To
<1> HIDE DEF sigma
<1>8. ASSUME NEW x \in D
      PROVE  /\ sigma[x] \in DOMAIN r
             /\ r[sigma[x]] = [what |-> nodes[x].what, prim |-> Name(sigma, nodes[x].prim),
                               sec |-> Name(sigma, nodes[x].sec)]
  <2> DEFINE n == nodes[x]
  <2>1. n \in NodeType /\ n.prim \in D \cup {NoNode} /\ n.sec \in D \cup {NoNode}
    BY <1>1 DEF Closed
  <2>2. sigma[x] \in (D \cup {new}) \ {i} /\ more[sigma[x]] = n
    BY <1>2, <1>6 DEF To
  <2> HIDE DEF n
  <2>3. r[sigma[x]] = [what |-> n.what, prim |-> To(n.prim, i, new), sec |-> To(n.sec, i, new)]
    BY <1>3, <1>4, <2>1, <2>2
  <2>4. Name(sigma, n.prim) = To(n.prim, i, new) /\ Name(sigma, n.sec) = To(n.sec, i, new)
    BY <1>1, <1>6, <2>1 DEF Name, To
  <2>5. sigma[x] \in DOMAIN r
    BY <1>4, <2>2
  <2> QED
    BY <2>3, <2>4, <2>5 DEF n
<1>9. Copied(nodes, D, sigma, r)
  BY <1>1, <1>7, <1>8 DEF Copied
<1> QED
  BY <1>3, <1>5, <1>9 DEF r, g, more, sigma

\* A collection with one layer more.
LEMMA InsertedOnes ==
  ASSUME NEW ls \in Seq(LayerType), NEW at \in 1 .. (Len(ls) + 1), NEW layer \in LayerType
  PROVE  LET more == InsertAt(ls, at, layer)
         IN  /\ more \in Seq(LayerType)
             /\ \A q \in DOMAIN more : more[q] = layer \/ \E p \in DOMAIN ls : more[q] = ls[p]
             /\ \A p \in DOMAIN ls : \E q \in DOMAIN more : more[q] = ls[p]
             /\ \E q \in DOMAIN more : more[q] = layer
<1> DEFINE more == InsertAt(ls, at, layer)
           n == Len(ls)
<1>1. n \in Nat /\ DOMAIN ls = 1 .. n /\ at \in 1 .. (n + 1)
  OBVIOUS
<1>2. more \in Seq(LayerType) /\ Len(more) = n + 1
      /\ \A k \in 1 .. (n + 1) : more[k] = IF k < at THEN ls[k] ELSE IF k = at THEN layer ELSE ls[k - 1]
  <2> DEFINE S == LayerType
  <2>1. ls \in Seq(S) /\ layer \in S
    OBVIOUS
  <2> HIDE DEF S
  <2>2. /\ InsertAt(ls, at, layer) \in Seq(S)
        /\ Len(InsertAt(ls, at, layer)) = Len(ls) + 1
        /\ \A k \in 1 .. (Len(ls) + 1) :
             InsertAt(ls, at, layer)[k] = IF k < at THEN ls[k] ELSE IF k = at THEN layer ELSE ls[k - 1]
    BY <2>1, Inserted
  <2> QED
    BY <2>2 DEF S
<1>3. DOMAIN more = 1 .. (n + 1)
  BY <1>2
<1> HIDE DEF more, n
<1> DEFINE from(k) == IF k < at THEN k ELSE k - 1
<1>4. ASSUME NEW k \in 1 .. (n + 1), k # at PROVE from(k) \in 1 .. n /\ more[k] = ls[from(k)]
  BY <1>1, <1>2, <1>4
<1>5. at \in 1 .. (n + 1) /\ more[at] = layer
  BY <1>1, <1>2
<1>6. ASSUME NEW p \in 1 .. n PROVE \E q \in 1 .. (n + 1) : more[q] = ls[p]
  <2>1. CASE p < at
    <3>1. p \in 1 .. (n + 1) /\ more[p] = ls[p]
      BY <1>1, <1>2, <2>1
    <3> QED
      BY <3>1
  <2>2. CASE p >= at
    <3>1. p + 1 \in 1 .. (n + 1) /\ ~(p + 1 < at) /\ p + 1 # at /\ (p + 1) - 1 = p
      BY <1>1, <2>2
    <3>2. more[p + 1] = ls[p]
      BY <1>2, <3>1
    <3> QED
      BY <3>1, <3>2
  <2> QED
    BY <1>1, <2>1, <2>2
<1> HIDE DEF from
<1>7. \A q \in DOMAIN more : more[q] = layer \/ \E p \in DOMAIN ls : more[q] = ls[p]
  BY <1>1, <1>3, <1>4, <1>5
<1> QED
  BY <1>1, <1>2, <1>3, <1>5, <1>6, <1>7 DEF more, n

\* The layers after a head has been dragged: three kinds of them.
HeadDragged(ls, p, i, lid, letter, renamed) ==
    /\ ls \in Seq(LayerType)
    /\ \A r \in DOMAIN ls :
         \/ ls[r] = Layer(layers[p].lid, letter, renamed)
         \/ ls[r] = Layer(lid, layers[p].letter, nodes[i].prim)
         \/ \E q \in Positions : /\ q # p
                                 /\ ls[r].lid = layers[q].lid /\ ls[r].letter = layers[q].letter
                                 /\ ls[r].source = OneRenamed(i, renamed)[layers[q].source]
    /\ \E r \in DOMAIN ls : ls[r] = Layer(layers[p].lid, letter, renamed)
    /\ \E r \in DOMAIN ls : ls[r] = Layer(lid, layers[p].letter, nodes[i].prim)
    /\ \A q \in Positions : q # p => \E r \in DOMAIN ls : ls[r].letter = layers[q].letter

\* The head of a layer is its source: no other layer has its letter.
LEMMA HeadIs ==
  ASSUME Layered, LayersStand, NEW p \in Positions, NEW i \in DraggableNodes(p), HeadedBy(p, i) # {}
  PROVE  layers[p].source = i /\ (CHOOSE q \in HeadedBy(p, i) : TRUE) = p
         /\ i \in DOMAIN nodes /\ Owns(layers[p], i)
<1> DEFINE prev == CHOOSE q \in HeadedBy(p, i) : TRUE
<1>1. prev \in Positions /\ layers[prev].source = i /\ layers[prev].letter = layers[p].letter
  BY DEF HeadedBy
<1>2. prev = p
  <2> HIDE DEF prev
  <2> QED
    BY <1>1 DEF Layered, Apart, Positions
<1>3. i \in DOMAIN nodes /\ Owns(layers[p], i)
  BY DraggableOwned DEF Owns
<1> QED
  BY <1>1, <1>2, <1>3

\* The layers that a dragged head leaves, with the head's old name in no other layer.
LEMMA HeadLayers ==
  ASSUME Layered, LayersStand, FreeLayers # {}, NEW p \in Positions, NEW i \in DraggableNodes(p),
         NEW at \in 1 .. (Len(layers) + 1), HeadedBy(p, i) # {}, HasPrimarySource(nodes, i)
  PROVE  LET letter == NextLetter(TakenLetters)
             renamed == Id(letter, 1)
             lid == CHOOSE l \in FreeLayers : TRUE
             named == Append(analyses, renamed)
             repointed == [q \in Positions |->
                             IF AnalysesForLayer(named, layers[q]) = {} /\ layers[q].source = i
                             THEN [layers[q] EXCEPT !.source = renamed] ELSE layers[q]]
             without == [repointed EXCEPT ![p] = NewLayerOf(layers[p].letter, nodes[i].prim)]
             ls == InsertAt(without, at, Layer(layers[p].lid, letter, renamed))
         IN  HeadDragged(ls, p, i, lid, letter, renamed)
<1> DEFINE letter == NextLetter(TakenLetters)
           renamed == Id(letter, 1)
           lid == CHOOSE l \in FreeLayers : TRUE
           named == Append(analyses, renamed)
           repointed == [q \in Positions |->
                           IF AnalysesForLayer(named, layers[q]) = {} /\ layers[q].source = i
                           THEN [layers[q] EXCEPT !.source = renamed] ELSE layers[q]]
           newLayer == Layer(lid, layers[p].letter, nodes[i].prim)
           without == [repointed EXCEPT ![p] = newLayer]
           moved == Layer(layers[p].lid, letter, renamed)
           ls == InsertAt(without, at, moved)
           n == Len(layers)
           sigma == OneRenamed(i, renamed)
<1>1. NewLayerOf(layers[p].letter, nodes[i].prim) = newLayer
  BY DEF NewLayerOf
<1>2. /\ layers \in Seq(LayerType) /\ Apart(layers) /\ Positions = 1 .. n /\ n \in Nat
      /\ DOMAIN layers = 1 .. n /\ p \in 1 .. n
      /\ \A q \in 1 .. n : layers[q] \in LayerType /\ layers[q].source \in DOMAIN nodes
  BY DEF Layered, Positions, LayersStand
<1>3. layers[p].source = i /\ i \in DOMAIN nodes /\ Owns(layers[p], i)
  BY HeadIs
<1>4. /\ lid \in Layers /\ letter \in 1 .. MaxLetter
      /\ \A q \in 1 .. n : layers[q].lid # lid /\ layers[q].letter # letter
  BY <1>2, FreshLayer
<1> HIDE DEF letter, lid
<1>5. renamed \in AnyId /\ Letter(renamed) = letter
  BY <1>4, NewIds
<1> HIDE DEF renamed
<1>6. nodes[i].prim \in AnyId
  BY DEF HasPrimarySource, Layered
<1>7. newLayer \in LayerType /\ moved \in LayerType
  BY <1>2, <1>4, <1>5, <1>6 DEF Layer, LayerType
<1> HIDE DEF newLayer, moved
<1>8. \A h \in ToSet(named) : h = renamed \/ h \in ToSet(analyses)
  <2> DEFINE c == Len(analyses)
  <2>1. analyses \in Seq(AnyId) /\ c \in Nat /\ DOMAIN analyses = 1 .. c
    BY DEF Layered, Saved
  <2>2. DOMAIN named = 1 .. (c + 1)
        /\ \A k \in 1 .. (c + 1) : named[k] = IF k = c + 1 THEN renamed ELSE analyses[k]
    BY <1>5, <2>1
  <2>3. \A k \in 1 .. (c + 1) : k # c + 1 => k \in 1 .. c
    BY <2>1
  <2> HIDE DEF named, c
  <2> QED
    BY <2>1, <2>2, <2>3 DEF ToSet
<1> HIDE DEF named
<1>9. ASSUME NEW q \in 1 .. n, q # p, layers[q].source = i
      PROVE  AnalysesForLayer(named, layers[q]) = {}
  <2>1. SUFFICES ASSUME NEW k \in DOMAIN named, Letter(named[k]) = layers[q].letter PROVE FALSE
    BY DEF AnalysesForLayer
  <2>2. named[k] \in ToSet(named)
    BY DEF ToSet
  <2>3. named[k] # renamed
    BY <1>4, <1>5, <2>1
  <2>4. PICK s \in 1 .. n : layers[s].source = named[k] /\ Owns(layers[s], named[k])
    BY <1>2, <1>8, <2>2, <2>3 DEF Layered, Saved
  <2>5. s = q
    BY <1>2, <2>1, <2>4 DEF Owns, Apart
  <2>6. layers[q].letter = layers[p].letter
    BY <1>3, <1>9, <2>4, <2>5 DEF Owns
  <2> QED
    BY <1>2, <1>9, <2>6 DEF Apart
<1>10. DOMAIN repointed = 1 .. n
  BY <1>2
<1>11. ASSUME NEW q \in 1 .. n, q # p
       PROVE  /\ repointed[q] \in LayerType
              /\ repointed[q].lid = layers[q].lid /\ repointed[q].letter = layers[q].letter
              /\ repointed[q].source = sigma[layers[q].source]
  <2>1. repointed[q] = IF AnalysesForLayer(named, layers[q]) = {} /\ layers[q].source = i
                       THEN [layers[q] EXCEPT !.source = renamed] ELSE layers[q]
    BY <1>2
  <2>2. layers[q] \in LayerType /\ layers[q].source \in DOMAIN nodes
    BY <1>2
  <2>3. sigma[layers[q].source] = IF layers[q].source = i THEN renamed ELSE layers[q].source
    BY <2>2 DEF OneRenamed
  <2> HIDE DEF repointed, sigma
  <2>4. CASE layers[q].source = i
    <3>1. repointed[q] = [layers[q] EXCEPT !.source = renamed]
      BY <1>9, <1>11, <2>1, <2>4
    <3> QED
      BY <1>5, <2>2, <2>3, <2>4, <3>1 DEF LayerType
  <2>5. CASE layers[q].source # i
    BY <2>1, <2>2, <2>3, <2>5
  <2> QED
    BY <2>4, <2>5
<1>12. /\ DOMAIN without = 1 .. n /\ without[p] = newLayer
       /\ \A q \in 1 .. n : q # p => without[q] = repointed[q]
  BY <1>2, <1>10
<1> HIDE DEF repointed, sigma
<1>13. without \in Seq(LayerType) /\ Len(without) = n
  <2>1. \A q \in 1 .. n : without[q] \in LayerType
    BY <1>7, <1>11, <1>12
  <2>2. without = [q \in 1 .. n |-> without[q]]
    BY <1>12
  <2> HIDE DEF without
  <2> QED
    BY <1>2, <2>1, <2>2
<1> HIDE DEF without
<1>14. at \in 1 .. (Len(without) + 1)
  BY <1>13
<1>15. /\ ls \in Seq(LayerType)
       /\ \A r \in DOMAIN ls : ls[r] = moved \/ \E q \in DOMAIN without : ls[r] = without[q]
       /\ \A q \in DOMAIN without : \E r \in DOMAIN ls : ls[r] = without[q]
       /\ \E r \in DOMAIN ls : ls[r] = moved
  BY <1>7, <1>13, <1>14, InsertedOnes
<1> HIDE DEF ls
<1>16. ASSUME NEW r \in DOMAIN ls
       PROVE  \/ ls[r] = moved
              \/ ls[r] = newLayer
              \/ \E q \in Positions : /\ q # p
                                      /\ ls[r].lid = layers[q].lid /\ ls[r].letter = layers[q].letter
                                      /\ ls[r].source = sigma[layers[q].source]
  <2>1. CASE ls[r] = moved
    BY <2>1
  <2>2. CASE ls[r] # moved
    <3>1. PICK q \in 1 .. n : ls[r] = without[q]
      BY <1>12, <1>15, <2>2
    <3>2. CASE q = p
      BY <1>12, <3>1, <3>2
    <3>3. CASE q # p
      <4>1. ls[r].lid = layers[q].lid /\ ls[r].letter = layers[q].letter
            /\ ls[r].source = sigma[layers[q].source]
        BY <1>11, <1>12, <3>1, <3>3
      <4> QED
        BY <1>2, <3>3, <4>1
    <3> QED
      BY <3>2, <3>3
  <2> QED
    BY <2>1, <2>2
<1>17. \E r \in DOMAIN ls : ls[r] = newLayer
  BY <1>2, <1>12, <1>15
<1>18. \A q \in Positions : q # p => \E r \in DOMAIN ls : ls[r].letter = layers[q].letter
  <2>1. SUFFICES ASSUME NEW q \in 1 .. n, q # p PROVE \E r \in DOMAIN ls : ls[r].letter = layers[q].letter
    BY <1>2
  <2>2. PICK r \in DOMAIN ls : ls[r] = without[q]
    BY <1>12, <1>15
  <2> QED
    BY <1>11, <1>12, <2>1, <2>2
<1>19. HeadDragged(ls, p, i, lid, letter, renamed)
  BY <1>15, <1>16, <1>17, <1>18 DEF HeadDragged, moved, newLayer, sigma
<1> QED
  BY <1>1, <1>19 DEF ls, without, repointed, named, renamed, moved, lid, letter

\* A letter that no node has takes one node.
LEMMA HeadLowered ==
  ASSUME Tidy(nodes), NEW i \in DOMAIN nodes, NEW letter, NEW new, Letter(new) = letter,
         \A x \in DOMAIN nodes : Letter(x) # letter
  PROVE  Lowered(nodes, DOMAIN nodes, OneRenamed(i, new))
<1> DEFINE sigma == OneRenamed(i, new)
           D == DOMAIN nodes
<1>1. \A x \in D : sigma[x] = IF x = i THEN new ELSE x
  BY DEF OneRenamed
<1> HIDE DEF sigma
<1>2. SUFFICES ASSUME NEW x \in D, Letter(sigma[x]) \in 1 .. MaxLetter, nodes[x].prim # NoNode,
                      Letter(sigma[nodes[x].prim]) = Letter(sigma[x])
               PROVE  Sequence(sigma[nodes[x].prim]) < Sequence(sigma[x])
  BY DEF Lowered, sigma
<1>3. nodes[x].prim \in D
  BY <1>2, SourcesAre
<1>4. nodes[x].prim # x
  BY <1>2, <1>3, NotBelowItself, ContainedSources
<1>5. x # i /\ nodes[x].prim # i
  BY <1>1, <1>2, <1>3, <1>4
<1> QED
  BY <1>1, <1>2, <1>3, <1>5 DEF Tidy, Descends

\* The new layer has what was below the head, the old one the head alone.
LEMMA HeadLed ==
  ASSUME Layered, LayersStand, NEW p \in Positions, NEW i \in DOMAIN nodes, layers[p].source = i, Owns(layers[p], i),
         NEW lid, NEW letter, NEW new, Letter(new) = letter,
         \A x \in DOMAIN nodes : Letter(x) # letter, \A q \in DOMAIN layers : layers[q].letter # letter,
         nodes[i].prim \in DOMAIN nodes, NEW ls, HeadDragged(ls, p, i, lid, letter, new)
  PROVE  /\ Led(nodes, DOMAIN nodes, OneRenamed(i, new), ls)
         /\ \A q \in DOMAIN ls : ls[q].source \in Names(OneRenamed(i, new), DOMAIN nodes)
<1> DEFINE sigma == OneRenamed(i, new)
           D == DOMAIN nodes
           moved == Layer(layers[p].lid, letter, new)
           newLayer == Layer(lid, layers[p].letter, nodes[i].prim)
<1>1. \A x \in D : sigma[x] = IF x = i THEN new ELSE x
  BY DEF OneRenamed
<1>2. nodes[i].prim # i
  BY NotBelowItself, ContainedSources, NoNodeIsNone DEF LayersStand, Tidy
<1>3. /\ moved.letter = letter /\ moved.source = new
      /\ newLayer.letter = layers[p].letter /\ newLayer.source = nodes[i].prim
  BY DEF Layer
<1>4. \A r \in DOMAIN ls :
        \/ ls[r] = moved
        \/ ls[r] = newLayer
        \/ \E q \in Positions : /\ q # p
                                /\ ls[r].letter = layers[q].letter
                                /\ ls[r].source = sigma[layers[q].source]
  BY DEF HeadDragged
<1> HIDE DEF sigma, moved, newLayer
<1>5. \A q \in Positions : q # p => layers[q].letter # layers[p].letter
  BY DEF Layered, Apart, Positions
<1>6. \A q \in Positions : layers[q].source \in D
  BY DEF LayersStand, Positions
<1>7. \A r \in DOMAIN ls : ls[r].source \in Names(sigma, D)
  <2>1. new = sigma[i] /\ nodes[i].prim = sigma[nodes[i].prim]
    BY <1>1, <1>2
  <2> QED
    BY <1>3, <1>4, <1>6, <2>1 DEF Names
<1>8. Led(nodes, D, sigma, ls)
  <2>1. SUFFICES ASSUME NEW r \in DOMAIN ls, NEW x \in D, ls[r].letter = Letter(sigma[x])
                 PROVE  sigma[x] = ls[r].source
                          \/ \E y \in D : Letter(sigma[y]) = Letter(sigma[x]) /\ nodes[y].prim = x
    BY DEF Led, Owns
  <2>2. CASE ls[r] = moved
    BY <1>1, <1>3, <2>1, <2>2
  <2>3. CASE ls[r] = newLayer
    <3>1. x # i /\ sigma[x] = x /\ Letter(x) = layers[p].letter
      BY <1>1, <1>3, <2>1, <2>3 DEF Positions
    <3>2. PICK j \in D : Letter(j) = Letter(x) /\ nodes[j].prim = x
      BY <3>1 DEF LayersStand, Headed, Owns, Positions
    <3>3. CASE j = i
      BY <1>3, <2>3, <3>1, <3>2, <3>3
    <3>4. CASE j # i
      BY <1>1, <3>1, <3>2, <3>4
    <3> QED
      BY <3>3, <3>4
  <2>4. ASSUME NEW q \in Positions, q # p, ls[r].letter = layers[q].letter, ls[r].source = sigma[layers[q].source]
        PROVE  sigma[x] = ls[r].source
                 \/ \E y \in D : Letter(sigma[y]) = Letter(sigma[x]) /\ nodes[y].prim = x
    <3>1. x # i /\ sigma[x] = x /\ Letter(x) = layers[q].letter
      BY <1>1, <2>1, <2>4 DEF Positions
    <3>2. CASE x = layers[q].source
      BY <2>4, <3>2
    <3>3. CASE x # layers[q].source
      <4>1. PICK j \in D : Letter(j) = Letter(x) /\ nodes[j].prim = x
        BY <3>1, <3>3 DEF LayersStand, Headed, Owns, Positions
      <4>2. j # i
        BY <1>5, <2>4, <3>1, <4>1 DEF Owns
      <4> QED
        BY <1>1, <3>1, <4>1, <4>2
    <3> QED
      BY <3>2, <3>3
  <2> QED
    BY <1>4, <2>2, <2>3, <2>4
<1> QED
  BY <1>7, <1>8 DEF sigma

\* Each layer that there was shows the node that it showed.
LEMMA HeadFollows ==
  ASSUME Layered, LayersStand, NEW p \in Positions, NEW i \in DOMAIN nodes, layers[p].source = i,
         NEW lid, \A q \in DOMAIN layers : layers[q].lid # lid,
         NEW letter, NEW new, NEW ls, HeadDragged(ls, p, i, lid, letter, new)
  PROVE  LayersFollow(DOMAIN nodes, OneRenamed(i, new), ls)
<1> DEFINE sigma == OneRenamed(i, new)
<1>1. sigma[i] = new
  BY DEF OneRenamed
<1> HIDE DEF sigma
<1>2. SUFFICES ASSUME NEW a \in Positions, NEW r \in DOMAIN ls, layers[a].lid = ls[r].lid
               PROVE  layers[a].source \in DOMAIN nodes /\ ls[r].source = sigma[layers[a].source]
  BY DEF LayersFollow, sigma
<1>3. layers[a].source \in DOMAIN nodes
  BY DEF LayersStand, Positions
<1>4. \A q \in Positions : layers[q].lid = layers[a].lid => q = a
  BY DEF Layered, Apart, Positions
<1>5. CASE ls[r] = Layer(layers[p].lid, letter, new)
  BY <1>1, <1>2, <1>3, <1>4, <1>5 DEF Layer
<1>6. ls[r] # Layer(lid, layers[p].letter, nodes[i].prim)
  BY <1>2 DEF Layer, Positions
<1>7. ASSUME NEW q \in Positions, ls[r].lid = layers[q].lid, ls[r].source = sigma[layers[q].source]
      PROVE  ls[r].source = sigma[layers[a].source]
  BY <1>2, <1>4, <1>7
<1> QED
  BY <1>3, <1>5, <1>6, <1>7 DEF HeadDragged, sigma

\* The widgets on what the new name replaces are to be created again.
HeadReads(i, new) ==
    \A r \in Reads' : \E old \in Reads :
        old[1] = r[1] /\ r[2] = IF old[2] = i THEN new ELSE old[2]

\* A widget on the head is created again on its new name.
LEMMA HeadRead ==
  ASSUME requests = {}, NEW i, NEW new, NEW affected \in SUBSET DOMAIN widgets,
         \A w \in DOMAIN widgets : widgets[w] = i => w \in affected,
         NEW lid, Recreate(lid, [w \in affected |-> IF widgets[w] = i THEN new ELSE widgets[w]])
  PROVE  HeadReads(i, new) /\ OneRead' /\ PendingNode'
<1> DEFINE again == [w \in affected |-> IF widgets[w] = i THEN new ELSE widgets[w]]
           left == [w \in DOMAIN widgets \ DOMAIN again |-> widgets[w]]
<1>1. Reads' = WidgetReads(left) \cup WidgetReads(again) /\ OneRead' /\ PendingNode'
  BY RecreateReads
<1>2. Reads = WidgetReads(widgets)
  BY PlainReads
<1>3. DOMAIN again = affected /\ \A w \in affected : again[w] = IF widgets[w] = i THEN new ELSE widgets[w]
  OBVIOUS
<1>4. DOMAIN left = DOMAIN widgets \ affected /\ \A w \in DOMAIN left : left[w] = widgets[w] /\ widgets[w] # i
  BY <1>3
<1> HIDE DEF again, left
<1>5. ASSUME NEW w \in DOMAIN left
      PROVE  \E old \in Reads : old[1] = w /\ left[w] = IF old[2] = i THEN new ELSE old[2]
  <2>1. <<w, widgets[w]>> \in Reads
    BY <1>2, <1>4 DEF WidgetReads
  <2> QED
    BY <1>4, <2>1
<1>6. ASSUME NEW w \in DOMAIN again
      PROVE  \E old \in Reads : old[1] = w /\ again[w] = IF old[2] = i THEN new ELSE old[2]
  <2>1. <<w, widgets[w]>> \in Reads
    BY <1>2, <1>3 DEF WidgetReads
  <2> QED
    BY <1>3, <2>1
<1>7. HeadReads(i, new)
  BY <1>1, <1>5, <1>6 DEF HeadReads, WidgetReads
<1> QED
  BY <1>1, <1>7

\* Movement 1 leaves what is shown as it was.
LEMMA DragHeadGrounds ==
  ASSUME Layered, Grounded, requests = {}, Len(layers) < MaxLayers, FreeLayers # {}, LetterIsFresh,
         NEW p \in Positions, NEW i \in DraggableNodes(p), NEW at \in 1 .. (Len(layers) + 1),
         DragHead(p, i, at)
  PROVE  Grounded' /\ ReadsKept /\ LayersKept /\ NumbersKept
<1> DEFINE prev == CHOOSE q \in HeadedBy(p, i) : TRUE
           letter == NextLetter(TakenLetters)
           lid == CHOOSE l \in FreeLayers : TRUE
           renamed == Id(letter, 1)
           g == ChangeSourceIds(AddNode(nodes, renamed, nodes[i]), i, renamed)
           newLayer == NewLayerOf(layers[prev].letter, nodes[i].prim)
           affected == {w \in DOMAIN widgets :
                           widgets[w] \in ToSet(OwnedPrimaryNodes(g, layers[prev]))}
           again == [w \in affected |-> IF widgets[w] = i THEN renamed ELSE widgets[w]]
           named == Append(analyses, renamed)
           repointed == [q \in Positions |->
                           IF AnalysesForLayer(named, layers[q]) = {} /\ layers[q].source = i
                           THEN [layers[q] EXCEPT !.source = renamed] ELSE layers[q]]
           without == [repointed EXCEPT ![prev] = newLayer]
           ls == InsertAt(without, at, Layer(layers[prev].lid, letter, renamed))
           r == RemoveNodes(g, {i})
           sigma == OneRenamed(i, renamed)
<1>1. /\ HeadedBy(p, i) # {} /\ HasPrimarySource(nodes, i)
      /\ EndWithout(r, ls, SaveAnalysis(g, named, newLayer))
      /\ Recreate(newLayer.lid, again)
  BY DEF DragHead
<1>2. LayersStand
  BY DEF Grounded
<1>3. /\ prev = p /\ layers[p].source = i /\ i \in DOMAIN nodes /\ Owns(layers[p], i)
  BY <1>1, <1>2, HeadIs
<1>4. HeadDragged(InsertAt([repointed EXCEPT ![p] = NewLayerOf(layers[p].letter, nodes[i].prim)], at,
                           Layer(layers[p].lid, letter, renamed)), p, i, lid, letter, renamed)
  BY <1>1, <1>2, HeadLayers
<1> HIDE DEF prev
<1>5. HeadDragged(ls, p, i, lid, letter, renamed)
  BY <1>3, <1>4
<1> HIDE DEF ls, repointed, without, named, again, newLayer
<1>6. /\ letter \in 1 .. MaxLetter
      /\ \A q \in DOMAIN layers : layers[q].lid # lid /\ layers[q].letter # letter
  BY FreshLayer
<1>7. \A x \in DOMAIN nodes : Letter(x) # letter
  BY DEF LetterIsFresh
<1> HIDE DEF letter, lid
<1>8. renamed \in AnyId /\ Letter(renamed) = letter
  BY <1>6, NewIds
<1>s. Sequence(renamed) = 1
  BY DEF Id, Sequence
<1> HIDE DEF renamed
<1>9. renamed \notin DOMAIN nodes
  BY <1>7, <1>8
<1>10. nodes[i].prim \in DOMAIN nodes
  BY <1>1 DEF HasPrimarySource
<1>11. /\ Copied(nodes, DOMAIN nodes, sigma, r) /\ DOMAIN r \subseteq AnyId /\ IsFiniteSet(DOMAIN r)
       /\ DOMAIN g = DOMAIN nodes \cup {renamed} /\ IsFiniteSet(DOMAIN g)
  BY <1>2, <1>3, <1>8, <1>9, OneCopied DEF LayersStand
<1> HIDE DEF g
<1>12. Lowered(nodes, DOMAIN nodes, sigma)
  BY <1>2, <1>3, <1>7, <1>8, HeadLowered DEF LayersStand
<1>13. /\ Led(nodes, DOMAIN nodes, sigma, ls)
       /\ \A q \in DOMAIN ls : ls[q].source \in Names(sigma, DOMAIN nodes)
  BY <1>2, <1>3, <1>5, <1>6, <1>7, <1>8, <1>10, HeadLed
<1>14. LayersFollow(DOMAIN nodes, sigma, ls)
  BY <1>2, <1>3, <1>5, <1>6, HeadFollows
<1>15. ASSUME NEW w \in DOMAIN widgets, widgets[w] = i PROVE w \in affected
  <2> DEFINE list == LinkedListBySameLetter(g, i)
  <2>1. OwnedPrimaryNodes(g, layers[prev]) = list
    BY <1>3, <1>11 DEF OwnedPrimaryNodes
  <2>2. list \in Seq(DOMAIN g) /\ Len(list) \in 1 .. (Cardinality(DOMAIN g) + 1) /\ list[1] = i
    BY <1>3, <1>11, ListOfLetter
  <2> HIDE DEF list
  <2>3. i \in ToSet(list)
    BY <2>2 DEF ToSet
  <2> QED
    BY <1>15, <2>1, <2>3
<1>16. HeadReads(i, renamed) /\ OneRead' /\ PendingNode'
  <2>1. affected \in SUBSET DOMAIN widgets
    OBVIOUS
  <2> HIDE DEF affected
  <2> QED
    BY <1>1, <1>15, <2>1, HeadRead DEF again
<1> HIDE DEF affected, r
<1>17. layers' = ls
  BY <1>1 DEF EndWithout
<1>18. ReadsFollow(DOMAIN nodes, sigma)
  <2>1. SUFFICES ASSUME NEW new \in Reads'
                 PROVE  \E old \in Reads :
                          /\ old[1] = new[1] /\ old[2] \in DOMAIN nodes /\ new[2] = sigma[old[2]]
                          /\ Owners(ls, new[2]) # {}
    BY <1>17 DEF ReadsFollow
  <2>2. PICK old \in Reads : old[1] = new[1] /\ new[2] = IF old[2] = i THEN renamed ELSE old[2]
    BY <1>16 DEF HeadReads
  <2>3. old[2] \in DOMAIN nodes /\ Owners(layers, old[2]) # {}
    BY DEF Grounded, ReadsOwned
  <2>4. new[2] = sigma[old[2]]
    BY <2>2, <2>3 DEF OneRenamed
  <2>5. PICK q \in Positions : layers[q].letter = Letter(old[2])
    BY <2>3 DEF Owners, Owns, Positions
  <2>6. \E s \in DOMAIN ls : ls[s].letter = Letter(new[2])
    <3>1. CASE old[2] = i
      <4>1. PICK s \in DOMAIN ls : ls[s] = Layer(layers[p].lid, letter, renamed)
        BY <1>5 DEF HeadDragged
      <4> QED
        BY <1>8, <2>2, <3>1, <4>1 DEF Layer
    <3>2. CASE old[2] # i /\ q = p
      <4>1. PICK s \in DOMAIN ls : ls[s] = Layer(lid, layers[p].letter, nodes[i].prim)
        BY <1>5 DEF HeadDragged
      <4> QED
        BY <2>2, <2>5, <3>2, <4>1 DEF Layer
    <3>3. CASE old[2] # i /\ q # p
      <4>1. PICK s \in DOMAIN ls : ls[s].letter = layers[q].letter
        BY <1>5, <3>3 DEF HeadDragged
      <4> QED
        BY <2>2, <2>5, <3>3, <4>1
    <3> QED
      BY <3>1, <3>2, <3>3
  <2> QED
    BY <2>2, <2>3, <2>4, <2>6 DEF Owners, Owns
<1>20. NumbersFollow(DOMAIN nodes, sigma)
  <2>1. SUFFICES ASSUME NEW depth \in [DOMAIN nodes -> Nat], Deep(nodes, depth), NEW x \in DOMAIN nodes,
                        Letter(sigma[x]) \in 1 .. MaxLetter
                 PROVE  Sequence(sigma[x]) <= depth[x]
    BY DEF NumbersFollow
  <2>2. CASE x = i
    <3>1. depth[i] = depth[nodes[i].prim] + 1 /\ depth[nodes[i].prim] \in Nat
      <4>1. nodes[i].prim # NoNode
        BY <1>2, <1>10, NoNodeIsNone DEF LayersStand, Tidy
      <4> QED
        BY <1>3, <1>10, <2>1, <4>1 DEF Deep
    <3>2. sigma[x] = renamed /\ Sequence(renamed) = 1
      BY <1>s, <2>2 DEF OneRenamed
    <3> QED
      BY <2>2, <3>1, <3>2
  <2>3. CASE x # i
    BY <2>1, <2>3 DEF Deep, OneRenamed
  <2> QED
    BY <2>2, <2>3
<1> HIDE DEF sigma
<1>19. ls \in Seq(LayerType)
  BY <1>5 DEF HeadDragged
<1> QED
  BY <1>1, <1>2, <1>11, <1>12, <1>13, <1>14, <1>16, <1>18, <1>19, <1>20, EndGrounds DEF LayersStand, Grounded

(* A node dragged from the middle, with those of its letter below it.      *)

\* The name of a node when the first k of the list have changed their letter.
Shifted(list, letter, k, s) == IF \E j \in 1 .. k : s = list[j] THEN ChangeLetter(s, letter) ELSE s

\* The node x then, and the nodes that there are.
Moving(list, letter, k, x) ==
    [what |-> nodes[x].what, prim |-> Shifted(list, letter, k, nodes[x].prim),
     sec |-> Shifted(list, letter, k, nodes[x].sec)]
MovedTo(list, letter, k) == {ChangeLetter(list[j], letter) : j \in 1 .. k}
MovedSome(g, list, letter, k) ==
    /\ DOMAIN g = DOMAIN nodes \cup MovedTo(list, letter, k)
    /\ \A x \in DOMAIN nodes : g[x] = Moving(list, letter, k, x)
    /\ \A j \in 1 .. k : g[ChangeLetter(list[j], letter)] = Moving(list, letter, k, list[j])

\* What a list of nodes is, and their names under a letter that no node has.
ChainNames(list, letter) ==
    /\ list \in Seq(DOMAIN nodes) /\ Len(list) \in Nat
    /\ \A k \in 1 .. Len(list) :
         /\ list[k] \in DOMAIN nodes /\ ChangeLetter(list[k], letter) \in AnyId
         /\ Letter(ChangeLetter(list[k], letter)) = letter
         /\ Sequence(ChangeLetter(list[k], letter)) = Sequence(list[k])
         /\ ChangeLetter(list[k], letter) \notin DOMAIN nodes
    /\ \A a, b \in 1 .. Len(list) : list[a] = list[b] => a = b
    /\ \A a, b \in 1 .. Len(list) : ChangeLetter(list[a], letter) = ChangeLetter(list[b], letter) => a = b

\* A letter that no node has gives each node of a list a name of its own.
LEMMA ChainNamed ==
  ASSUME Tidy(nodes), NEW list, Chain(nodes, list), NEW letter \in 1 .. MaxLetter,
         \A x \in DOMAIN nodes : Letter(x) # letter
  PROVE  ChainNames(list, letter)
<1> DEFINE n == Len(list)
<1>1. /\ list \in Seq(DOMAIN nodes) /\ n \in Nat /\ DOMAIN list = 1 .. n
      /\ \A k \in 1 .. n : list[k] \in DOMAIN nodes /\ Sequence(list[k]) \in Nat
  BY DEF Chain
<1>2. \A k, m \in 1 .. n : k < m => Sequence(list[m]) <= Sequence(list[k]) - (m - k)
  BY DEF Chain
<1> HIDE DEF n
<1>3. \A k, m \in 1 .. n : k < m => Sequence(list[m]) < Sequence(list[k])
  <2>1. SUFFICES ASSUME NEW k \in 1 .. n, NEW m \in 1 .. n, k < m PROVE Sequence(list[m]) < Sequence(list[k])
    OBVIOUS
  <2>2. Sequence(list[m]) \in Nat /\ Sequence(list[k]) \in Nat /\ Sequence(list[m]) <= Sequence(list[k]) - (m - k)
    BY <1>1, <1>2, <2>1
  <2> HIDE DEF Sequence
  <2>3. k \in Nat /\ m \in Nat
    BY <1>1
  <2> DEFINE a == Sequence(list[m])
             b == Sequence(list[k])
  <2>4. a \in Nat /\ b \in Nat /\ a <= b - (m - k)
    BY <2>2
  <2> HIDE DEF a, b
  <2>5. a < b
    BY <2>1, <2>3, <2>4
  <2> QED
    BY <2>5 DEF a, b
<1>4. \A a, b \in 1 .. n : Sequence(list[a]) = Sequence(list[b]) => a = b
  <2>1. SUFFICES ASSUME NEW a \in 1 .. n, NEW b \in 1 .. n, Sequence(list[a]) = Sequence(list[b]), a # b PROVE FALSE
    OBVIOUS
  <2>2. a < b \/ b < a
    BY <1>1, <2>1
  <2>3. Sequence(list[a]) \in Nat /\ Sequence(list[b]) \in Nat
    BY <1>1
  <2> DEFINE x == Sequence(list[a])
             y == Sequence(list[b])
  <2>4. x = y /\ x \in Nat /\ (x < y \/ y < x)
    BY <1>3, <2>1, <2>2, <2>3
  <2> HIDE DEF x, y
  <2> QED
    BY <2>4
<1>5. ASSUME NEW k \in 1 .. n
      PROVE  /\ ChangeLetter(list[k], letter) \in AnyId
             /\ Letter(ChangeLetter(list[k], letter)) = letter
             /\ Sequence(ChangeLetter(list[k], letter)) = Sequence(list[k])
             /\ ChangeLetter(list[k], letter) \notin DOMAIN nodes
  <2>1. Sequence(list[k]) \in Nat
    BY <1>1
  <2>2. ChangeLetter(list[k], letter) = <<letter, Sequence(list[k])>>
    BY DEF ChangeLetter, Id
  <2> DEFINE s == Sequence(list[k])
             c == ChangeLetter(list[k], letter)
  <2>3. s \in Nat /\ c = <<letter, s>>
    BY <2>1, <2>2
  <2> HIDE DEF s, c
  <2>4. c \in AnyId /\ Letter(c) = letter /\ Sequence(c) = s
    BY <2>3 DEF AnyId, Letter, Sequence
  <2>5. c \notin DOMAIN nodes
    BY <2>4
  <2> QED
    BY <2>4, <2>5 DEF c, s
<1>6. \A a, b \in 1 .. n : ChangeLetter(list[a], letter) = ChangeLetter(list[b], letter) => a = b
  <2>1. SUFFICES ASSUME NEW a \in 1 .. n, NEW b \in 1 .. n,
                        ChangeLetter(list[a], letter) = ChangeLetter(list[b], letter)
                 PROVE  a = b
    OBVIOUS
  <2>2. Sequence(list[a]) = Sequence(list[b])
    BY <1>5, <2>1
  <2> QED
    BY <1>4, <2>2
<1>7. \A a, b \in 1 .. n : list[a] = list[b] => a = b
  BY <1>4
<1> QED
  BY <1>1, <1>5, <1>6, <1>7 DEF ChainNames, n

\* One more node of the list.
LEMMA MovedOne ==
  ASSUME Tidy(nodes), NEW list, NEW letter \in 1 .. MaxLetter, ChainNames(list, letter),
         NEW k \in 1 .. Len(list), NEW g, MovedSome(g, list, letter, k - 1)
  PROVE  MovedSome(MoveNode(g, list[k], letter), list, letter, k)
<1> DEFINE D == DOMAIN nodes
           n == Len(list)
           old == list[k]
           new == ChangeLetter(old, letter)
           more == AddNode(g, new, g[old])
           h == MoveNode(g, old, letter)
           to(x) == To(x, old, new)
           before(s) == Shifted(list, letter, k - 1, s)
           after(s) == Shifted(list, letter, k, s)
<1>1. n \in Nat /\ k \in 1 .. n /\ 1 .. k = (1 .. (k - 1)) \cup {k} /\ 1 .. (k - 1) \subseteq 1 .. n /\ k \notin 1 .. (k - 1)
  BY DEF ChainNames
<1> HIDE DEF n
<1>2. \A j \in 1 .. n :
         /\ list[j] \in D /\ ChangeLetter(list[j], letter) \in AnyId
         /\ ChangeLetter(list[j], letter) \notin D
  BY DEF ChainNames, n
<1>3. \A a, b \in 1 .. n : list[a] = list[b] => a = b
  BY DEF ChainNames, n
<1>4. \A a, b \in 1 .. n : ChangeLetter(list[a], letter) = ChangeLetter(list[b], letter) => a = b
  BY DEF ChainNames, n
<1>5. old \in D /\ new \in AnyId /\ new \notin D
  BY <1>1, <1>2
<1>6. new \notin MovedTo(list, letter, k - 1)
  BY <1>1, <1>4 DEF MovedTo
<1>7. \A s : to(before(s)) = after(s)
  <2>1. TAKE s
  <2>2. CASE \E j \in 1 .. (k - 1) : s = list[j]
    <3>1. PICK j \in 1 .. (k - 1) : s = list[j]
      BY <2>2
    <3>2. before(s) = ChangeLetter(s, letter) /\ after(s) = ChangeLetter(s, letter)
      BY <1>1, <2>2 DEF Shifted
    <3>3. ChangeLetter(s, letter) # old
      BY <1>1, <1>2, <1>5, <3>1
    <3> QED
      BY <3>2, <3>3 DEF To
  <2>3. CASE ~(\E j \in 1 .. (k - 1) : s = list[j]) /\ s = old
    BY <1>1, <2>3 DEF Shifted, To
  <2>4. CASE ~(\E j \in 1 .. (k - 1) : s = list[j]) /\ s # old
    <3>1. ~(\E j \in 1 .. k : s = list[j])
      BY <1>1, <2>4
    <3> QED
      BY <2>4, <3>1 DEF Shifted, To
  <2> QED
    BY <2>2, <2>3, <2>4
<1>8. /\ DOMAIN g = D \cup MovedTo(list, letter, k - 1)
      /\ \A x \in D : g[x] = Moving(list, letter, k - 1, x)
      /\ \A j \in 1 .. (k - 1) : g[ChangeLetter(list[j], letter)] = Moving(list, letter, k - 1, list[j])
  BY DEF MovedSome
<1>9. MovedTo(list, letter, k) = MovedTo(list, letter, k - 1) \cup {new}
  BY <1>1 DEF MovedTo
<1>10. DOMAIN more = D \cup MovedTo(list, letter, k) /\ more[new] = Moving(list, letter, k - 1, old)
       /\ \A x \in DOMAIN g : more[x] = g[x]
  BY <1>5, <1>6, <1>8, <1>9 DEF AddNode
<1>11. h = ChangeSourceIds(more, old, new)
  BY DEF MoveNode
<1> HIDE DEF more, h
<1>12. ASSUME NEW y \in DOMAIN more, NEW x \in D, more[y] = Moving(list, letter, k - 1, x)
       PROVE  h[y] = Moving(list, letter, k, x)
  <2>1. nodes[x] \in NodeType /\ nodes[x].what \in Tables \cup Kinds
        /\ nodes[x].prim \in D \cup {NoNode} /\ nodes[x].sec \in D \cup {NoNode}
    BY DEF Tidy, NodeType, Closed
  <2>2. \A s \in D \cup {NoNode} : before(s) \in AnyId \cup {NoNode}
    BY <1>1, <1>2 DEF Shifted, Tidy
  <2>3. more[y] = [what |-> nodes[x].what, prim |-> before(nodes[x].prim), sec |-> before(nodes[x].sec)]
    BY <1>12 DEF Moving
  <2> DEFINE w == nodes[x].what
             a == before(nodes[x].prim)
             b == before(nodes[x].sec)
  <2>4. w \in Tables \cup Kinds /\ a \in AnyId \cup {NoNode} /\ b \in AnyId \cup {NoNode}
    BY <2>1, <2>2
  <2>5. more[y] = [what |-> w, prim |-> a, sec |-> b]
    BY <2>3
  <2> HIDE DEF w, a, b
  <2>6. more[y] \in NodeType /\ more[y].what = w /\ more[y].prim = a /\ more[y].sec = b
    BY <2>4, <2>5 DEF NodeType
  <2>7. h[y] = [what |-> w, prim |-> To(a, old, new), sec |-> To(b, old, new)]
    BY <1>11, <1>12, <2>6, Retargeted
  <2>8. To(a, old, new) = after(nodes[x].prim) /\ To(b, old, new) = after(nodes[x].sec)
    BY <1>7 DEF a, b
  <2> QED
    BY <2>7, <2>8 DEF Moving, w
<1> HIDE DEF to, before, after
<1>13. DOMAIN h = DOMAIN more
  BY <1>11 DEF ChangeSourceIds
<1>14. \A x \in D : h[x] = Moving(list, letter, k, x)
  BY <1>8, <1>10, <1>12
<1>15. ASSUME NEW j \in 1 .. k PROVE h[ChangeLetter(list[j], letter)] = Moving(list, letter, k, list[j])
  <2>1. list[j] \in D /\ ChangeLetter(list[j], letter) \in MovedTo(list, letter, k)
    BY <1>1, <1>2 DEF MovedTo
  <2>2. CASE j = k
    BY <1>10, <1>12, <2>1, <2>2
  <2>3. CASE j # k
    <3>1. j \in 1 .. (k - 1) /\ ChangeLetter(list[j], letter) \in DOMAIN g
      BY <1>1, <1>8, <2>3 DEF MovedTo
    <3>2. more[ChangeLetter(list[j], letter)] = Moving(list, letter, k - 1, list[j])
      BY <1>8, <1>10, <3>1
    <3> QED
      BY <1>10, <1>12, <2>1, <3>2
  <2> QED
    BY <2>2, <2>3
<1> QED
  BY <1>10, <1>13, <1>14, <1>15 DEF MovedSome, h

\* All of the list.
LEMMA MovedAll ==
  ASSUME Tidy(nodes), NEW list, NEW letter \in 1 .. MaxLetter, ChainNames(list, letter)
  PROVE  MovedSome(MoveNodes(nodes, list, letter), list, letter, Len(list))
<1> DEFINE m == Len(list)
<1>1. m \in Nat /\ DOMAIN list = 1 .. m
  BY DEF ChainNames
<1> HIDE DEF m
<1>2. PICK f : MoveSteps(f, nodes, list, letter, m)
  BY <1>1, FoldMoveNode
<1>3. /\ f[0] = nodes
      /\ \A k \in 1 .. m : f[k] = MoveNode(f[k - 1], list[k], letter)
      /\ f[m] = MoveNodes(nodes, list, letter)
  BY <1>2 DEF MoveSteps
<1>4. MovedSome(nodes, list, letter, 0)
  <2>1. \A s : Shifted(list, letter, 0, s) = s
    BY DEF Shifted
  <2>2. \A x \in DOMAIN nodes : nodes[x] \in NodeType
    BY DEF Tidy
  <2>3. \A x \in DOMAIN nodes : nodes[x] = [what |-> nodes[x].what, prim |-> nodes[x].prim, sec |-> nodes[x].sec]
    BY <2>2 DEF NodeType
  <2>4. MovedTo(list, letter, 0) = {}
    BY DEF MovedTo
  <2> QED
    BY <2>1, <2>3, <2>4 DEF MovedSome, Moving
<1> DEFINE T == {k \in Nat : k <= m => MovedSome(f[k], list, letter, k)}
<1>5. 0 \in T
  BY <1>3, <1>4
<1>6. ASSUME NEW k \in Nat, k \in T PROVE k + 1 \in T
  <2>1. SUFFICES ASSUME k + 1 <= m PROVE MovedSome(f[k + 1], list, letter, k + 1)
    OBVIOUS
  <2>2. k + 1 \in 1 .. m /\ (k + 1) - 1 = k /\ k <= m
    BY <1>1, <2>1
  <2>3. MovedSome(f[k], list, letter, (k + 1) - 1) /\ f[k + 1] = MoveNode(f[k], list[k + 1], letter)
    BY <1>3, <1>6, <2>2
  <2> QED
    BY <2>2, <2>3, MovedOne DEF m
<1> HIDE DEF T
<1>7. \A k \in Nat : k \in T
  BY <1>5, <1>6, NatSet
<1>8. MovedSome(f[m], list, letter, m)
  BY <1>1, <1>7 DEF T
<1> QED
  BY <1>3, <1>8 DEF m

\* The names after the nodes of the list have been moved to a letter.
Shift(list, letter) == [x \in DOMAIN nodes |-> Shifted(list, letter, Len(list), x)]

\* The nodes of the list have the new letter, the others the name they had.
LEMMA ShiftIs ==
  ASSUME NEW list, NEW letter, NEW x \in DOMAIN nodes, ChainNames(list, letter)
  PROVE  \/ \E j \in 1 .. Len(list) : x = list[j] /\ Shift(list, letter)[x] = ChangeLetter(list[j], letter)
         \/ (\A j \in 1 .. Len(list) : x # list[j]) /\ Shift(list, letter)[x] = x
BY DEF Shift, Shifted

\* The nodes under the new names are as they were.
LEMMA MiddleCopied ==
  ASSUME Tidy(nodes), NEW list, NEW letter \in 1 .. MaxLetter, ChainNames(list, letter), NEW g,
         MovedSome(g, list, letter, Len(list)), NEW i, i = list[1], Len(list) >= 1
  PROVE  /\ Copied(nodes, DOMAIN nodes, Shift(list, letter), RemoveNodes(g, {i}))
         /\ DOMAIN RemoveNodes(g, {i}) \subseteq AnyId
<1> DEFINE D == DOMAIN nodes
           n == Len(list)
           sigma == Shift(list, letter)
           r == RemoveNodes(g, {i})
<1>1. /\ DOMAIN g = D \cup MovedTo(list, letter, n)
      /\ \A x \in D : g[x] = Moving(list, letter, n, x)
      /\ \A j \in 1 .. n : g[ChangeLetter(list[j], letter)] = Moving(list, letter, n, list[j])
  BY DEF MovedSome
<1>2. DOMAIN r = DOMAIN g \ {i} /\ \A x \in DOMAIN g \ {i} : r[x] = g[x]
  BY DEF RemoveNodes
<1> HIDE DEF r
<1>3. \A x \in D : sigma[x] = Shifted(list, letter, n, x)
  BY DEF Shift
<1>4. /\ n \in Nat /\ 1 \in 1 .. n
      /\ \A j \in 1 .. n : /\ list[j] \in D /\ ChangeLetter(list[j], letter) \in AnyId
                           /\ ChangeLetter(list[j], letter) \notin D
      /\ \A a, b \in 1 .. n : ChangeLetter(list[a], letter) = ChangeLetter(list[b], letter) => a = b
  BY DEF ChainNames
<1>5. D \subseteq AnyId /\ NoNode \notin D /\ Closed(nodes, D)
  BY NoNodeIsNone DEF Tidy
<1>6. ASSUME NEW x \in D
      PROVE  \/ \E j \in 1 .. n : x = list[j] /\ sigma[x] = ChangeLetter(list[j], letter)
             \/ (\A j \in 1 .. n : x # list[j]) /\ sigma[x] = x
  BY ShiftIs
<1>7. sigma \in [D -> AnyId]
  <2>1. \A x \in D : sigma[x] \in AnyId
    BY <1>4, <1>5, <1>6
  <2>2. sigma = [x \in D |-> sigma[x]]
    BY DEF Shift
  <2> HIDE DEF sigma
  <2> QED
    BY <2>1, <2>2
<1> HIDE DEF sigma, n
<1>8. ASSUME NEW x \in D, NEW y \in D, sigma[x] = sigma[y] PROVE x = y
  <2>1. CASE \E j \in 1 .. n : x = list[j] /\ sigma[x] = ChangeLetter(list[j], letter)
    <3>1. PICK j \in 1 .. n : x = list[j] /\ sigma[x] = ChangeLetter(list[j], letter)
      BY <2>1
    <3>2. sigma[y] # y
      BY <1>4, <1>8, <3>1
    <3>3. PICK k \in 1 .. n : y = list[k] /\ sigma[y] = ChangeLetter(list[k], letter)
      BY <1>6, <3>2
    <3> QED
      BY <1>4, <1>8, <3>1, <3>3
  <2>2. CASE sigma[x] = x
    <3>1. sigma[y] \in D
      BY <1>8, <2>2
    <3>2. sigma[y] = y
      BY <1>4, <1>6, <3>1
    <3> QED
      BY <1>8, <2>2, <3>2
  <2> QED
    BY <1>6, <2>1, <2>2
<1>9. ASSUME NEW x \in D
      PROVE  sigma[x] \in DOMAIN r /\ r[sigma[x]] = Moving(list, letter, n, x)
  <2>1. CASE \E j \in 1 .. n : x = list[j] /\ sigma[x] = ChangeLetter(list[j], letter)
    <3>1. PICK j \in 1 .. n : x = list[j] /\ sigma[x] = ChangeLetter(list[j], letter)
      BY <2>1
    <3>2. sigma[x] \in DOMAIN g /\ sigma[x] # i
      BY <1>1, <1>4, <3>1 DEF MovedTo
    <3> QED
      BY <1>1, <1>2, <3>1, <3>2
  <2>2. CASE (\A j \in 1 .. n : x # list[j]) /\ sigma[x] = x
    BY <1>1, <1>2, <1>4, <2>2
  <2> QED
    BY <1>6, <2>1, <2>2
<1>10. \A s \in D \cup {NoNode} : Name(sigma, s) = Shifted(list, letter, n, s)
  <2>1. Shifted(list, letter, n, NoNode) = NoNode
    BY <1>4, <1>5 DEF Shifted
  <2> QED
    BY <1>3, <1>5, <2>1 DEF Name
<1>11. ASSUME NEW x \in D
       PROVE  Moving(list, letter, n, x) =
                 [what |-> nodes[x].what, prim |-> Name(sigma, nodes[x].prim), sec |-> Name(sigma, nodes[x].sec)]
  <2>1. nodes[x].prim \in D \cup {NoNode} /\ nodes[x].sec \in D \cup {NoNode}
    BY <1>5 DEF Closed
  <2> QED
    BY <1>10, <2>1 DEF Moving
<1>12. Copied(nodes, D, sigma, r)
  BY <1>5, <1>7, <1>8, <1>9, <1>11 DEF Copied
<1>13. DOMAIN r \subseteq AnyId
  BY <1>1, <1>2, <1>4, <1>5 DEF MovedTo
<1> QED
  BY <1>12, <1>13 DEF r, sigma

\* The numbers are the same under the new letter.
LEMMA MiddleLowered ==
  ASSUME Tidy(nodes), NEW list, Chain(nodes, list), NEW letter \in 1 .. MaxLetter, ChainNames(list, letter),
         \A x \in DOMAIN nodes : Letter(x) # letter
  PROVE  Lowered(nodes, DOMAIN nodes, Shift(list, letter))
<1> DEFINE sigma == Shift(list, letter)
           D == DOMAIN nodes
           n == Len(list)
<1>1. \A x \in D :
        \/ \E j \in 1 .. n : x = list[j] /\ sigma[x] = ChangeLetter(list[j], letter)
        \/ (\A j \in 1 .. n : x # list[j]) /\ sigma[x] = x
  BY ShiftIs
<1>2. \A j \in 1 .. n : /\ list[j] \in D /\ Letter(ChangeLetter(list[j], letter)) = letter
                        /\ Sequence(ChangeLetter(list[j], letter)) = Sequence(list[j])
  BY DEF ChainNames
<1>3. \A j \in 1 .. n : Letter(list[j]) = Letter(list[1]) /\ Letter(list[j]) \in 1 .. MaxLetter
  BY DEF Chain
<1> HIDE DEF sigma, n
<1>4. SUFFICES ASSUME NEW x \in D, Letter(sigma[x]) \in 1 .. MaxLetter, nodes[x].prim # NoNode,
                      Letter(sigma[nodes[x].prim]) = Letter(sigma[x])
               PROVE  Sequence(sigma[nodes[x].prim]) < Sequence(sigma[x])
  BY DEF Lowered, sigma
<1>5. nodes[x].prim \in D
  BY <1>4, SourcesAre
<1>6. CASE \E j \in 1 .. n : x = list[j] /\ sigma[x] = ChangeLetter(list[j], letter)
  <2>1. PICK j \in 1 .. n : x = list[j] /\ sigma[x] = ChangeLetter(list[j], letter)
    BY <1>6
  <2>2. Letter(sigma[nodes[x].prim]) = letter
    BY <1>2, <1>4, <2>1
  <2>3. sigma[nodes[x].prim] # nodes[x].prim
    BY <1>5, <2>2
  <2>4. PICK k \in 1 .. n : nodes[x].prim = list[k] /\ sigma[nodes[x].prim] = ChangeLetter(list[k], letter)
    BY <1>1, <1>5, <2>3
  <2>5. Letter(nodes[x].prim) = Letter(x) /\ Letter(x) \in 1 .. MaxLetter
    BY <1>3, <2>1, <2>4
  <2>6. Sequence(nodes[x].prim) < Sequence(x)
    BY <1>4, <2>5 DEF Tidy, Descends
  <2> QED
    BY <1>2, <2>1, <2>4, <2>6
<1>7. CASE sigma[x] = x
  <2>1. Letter(sigma[nodes[x].prim]) # letter
    BY <1>4, <1>7
  <2>2. sigma[nodes[x].prim] = nodes[x].prim
    BY <1>1, <1>2, <1>5, <2>1
  <2> QED
    BY <1>4, <1>7, <2>2 DEF Tidy, Descends
<1> QED
  BY <1>1, <1>6, <1>7

\* The new layer has the nodes of the list, the old one those above it.
LEMMA MiddleLed ==
  ASSUME Layered, LayersStand, NEW list, Chain(nodes, list), NEW letter \in 1 .. MaxLetter, ChainNames(list, letter),
         Len(list) >= 1,
         \A x \in DOMAIN nodes : Letter(x) # letter, \A q \in DOMAIN layers : layers[q].letter # letter,
         \A q \in DOMAIN layers : \A j \in 1 .. Len(list) : layers[q].source # list[j],
         NEW layer, layer.letter = letter, layer.source = ChangeLetter(list[1], letter), NEW ls,
         \A r \in DOMAIN ls : ls[r] = layer \/ \E q \in DOMAIN layers : ls[r] = layers[q]
  PROVE  /\ Led(nodes, DOMAIN nodes, Shift(list, letter), ls)
         /\ \A q \in DOMAIN ls : ls[q].source \in Names(Shift(list, letter), DOMAIN nodes)
         /\ \A q \in DOMAIN layers : layers[q].source = Shift(list, letter)[layers[q].source]
<1> DEFINE sigma == Shift(list, letter)
           D == DOMAIN nodes
           n == Len(list)
<1>1. \A x \in D :
        \/ \E j \in 1 .. n : x = list[j] /\ sigma[x] = ChangeLetter(list[j], letter)
        \/ (\A j \in 1 .. n : x # list[j]) /\ sigma[x] = x
  BY ShiftIs
<1>2. /\ n \in Nat /\ n >= 1
      /\ \A j \in 1 .. n : list[j] \in D /\ Letter(ChangeLetter(list[j], letter)) = letter
      /\ \A a, b \in 1 .. n : list[a] = list[b] => a = b
  BY DEF ChainNames
<1>3. /\ \A j \in 1 .. n : Letter(list[j]) = Letter(list[1]) /\ Letter(list[j]) \in 1 .. MaxLetter
      /\ \A k \in 1 .. (n - 1) : nodes[list[k]].prim = list[k + 1]
      /\ nodes[list[n]].prim = NoNode \/ Letter(nodes[list[n]].prim) # Letter(list[1])
  BY <1>2 DEF Chain
<1>4. \A q \in DOMAIN layers : layers[q].source \in D /\ \A j \in 1 .. n : layers[q].source # list[j]
  BY DEF LayersStand
<1>5. NoNode \notin D
  BY NoNodeIsNone DEF LayersStand, Tidy
<1> HIDE DEF sigma, n
<1>6. \A j \in 1 .. n : sigma[list[j]] = ChangeLetter(list[j], letter)
  <2>1. TAKE j \in 1 .. n
  <2>2. PICK k \in 1 .. n : list[j] = list[k] /\ sigma[list[j]] = ChangeLetter(list[k], letter)
    BY <1>1, <1>2
  <2> QED
    BY <2>2
<1>7. \A q \in DOMAIN layers : layers[q].source = sigma[layers[q].source]
  BY <1>1, <1>4
<1>8. \A r \in DOMAIN ls : ls[r].source \in Names(sigma, D)
  <2>1. 1 \in 1 .. n
    BY <1>2
  <2>2. layer.source = sigma[list[1]] /\ list[1] \in D
    BY <1>2, <1>6, <2>1
  <2> QED
    BY <1>4, <1>7, <2>2 DEF Names
<1>9. Led(nodes, D, sigma, ls)
  <2>1. SUFFICES ASSUME NEW r \in DOMAIN ls, NEW x \in D, ls[r].letter = Letter(sigma[x])
                 PROVE  sigma[x] = ls[r].source
                          \/ \E y \in D : Letter(sigma[y]) = Letter(sigma[x]) /\ nodes[y].prim = x
    BY DEF Led, Owns
  <2>2. CASE ls[r] = layer
    <3>1. Letter(sigma[x]) = letter
      BY <2>1, <2>2
    <3>2. PICK j \in 1 .. n : x = list[j] /\ sigma[x] = ChangeLetter(list[j], letter)
      BY <1>1, <3>1
    <3>3. CASE j = 1
      BY <2>2, <3>2, <3>3
    <3>4. CASE j # 1
      <4>1. j - 1 \in 1 .. (n - 1) /\ j - 1 \in 1 .. n /\ (j - 1) + 1 = j
        BY <1>2, <3>4
      <4>2. nodes[list[j - 1]].prim = x /\ list[j - 1] \in D
        BY <1>2, <1>3, <3>2, <4>1
      <4>3. Letter(sigma[list[j - 1]]) = letter
        BY <1>2, <1>6, <4>1
      <4> QED
        BY <3>1, <4>2, <4>3
    <3> QED
      BY <3>3, <3>4
  <2>3. ASSUME NEW q \in DOMAIN layers, ls[r] = layers[q]
        PROVE  sigma[x] = ls[r].source
                 \/ \E y \in D : Letter(sigma[y]) = Letter(sigma[x]) /\ nodes[y].prim = x
    <3>1. Letter(sigma[x]) # letter
      BY <2>1, <2>3
    <3>2. sigma[x] = x /\ \A j \in 1 .. n : x # list[j]
      BY <1>1, <1>2, <3>1
    <3>3. CASE x = layers[q].source
      BY <2>3, <3>2, <3>3
    <3>4. CASE x # layers[q].source
      <4>1. PICK y \in D : Letter(y) = Letter(x) /\ nodes[y].prim = x
        BY <2>1, <2>3, <3>2, <3>4 DEF LayersStand, Headed, Owns
      <4>2. ASSUME NEW k \in 1 .. n, y = list[k] PROVE FALSE
        <5>1. CASE k = n
          BY <1>3, <1>5, <4>1, <4>2, <5>1
        <5>2. CASE k # n
          <6>1. k \in 1 .. (n - 1) /\ k + 1 \in 1 .. n
            BY <1>2, <5>2
          <6> QED
            BY <1>3, <3>2, <4>1, <4>2, <6>1
        <5> QED
          BY <5>1, <5>2
      <4>3. sigma[y] = y
        BY <1>1, <4>2
      <4> QED
        BY <3>2, <4>1, <4>3
    <3> QED
      BY <3>3, <3>4
  <2> QED
    BY <2>2, <2>3
<1> QED
  BY <1>7, <1>8, <1>9 DEF sigma

\* Nothing shows the nodes that are moved but by the layer they are dragged from.
LEMMA MiddleAlone ==
  ASSUME Layered, LayersStand, NEW p \in Positions, NEW i \in DraggableNodes(p), HeadedBy(p, i) = {}, OnlyHere(p, i)
  PROVE  LET list == LinkedListBySameLetter(nodes, i)
         IN  /\ i \in DOMAIN nodes /\ Chain(nodes, list) /\ Len(list) >= 1 /\ list[1] = i
             /\ \A q \in DOMAIN layers : \A j \in 1 .. Len(list) : layers[q].source # list[j]
<1> DEFINE list == LinkedListBySameLetter(nodes, i)
           s == layers[p].source
<1>1. i \in DOMAIN nodes /\ Letter(i) = layers[p].letter /\ Letter(i) \in 1 .. MaxLetter /\ s \in DOMAIN nodes
  BY DraggableOwned, LayersAre DEF LayersStand, Positions
<1>2. Tidy(nodes)
  BY DEF LayersStand
<1>3. Chain(nodes, list) /\ Len(list) >= 1 /\ list[1] = i
  BY <1>1, <1>2, ChainIs
<1>4. s # i
  BY DEF HeadedBy
<1>5. \A q \in Positions \ {p} : layers[q].source \notin ToSet(list)
  BY <1>4 DEF OnlyHere
<1> HIDE DEF list
<1>6. \A q \in Positions \ {p} : \A j \in 1 .. Len(list) : layers[q].source # list[j]
  BY <1>3, <1>5 DEF ToSet, Chain
<1>7. i \in Contained(nodes, s)
  <2>1. /\ OwnNodes(p) \in Seq(DOMAIN nodes)
        /\ \A k \in 1 .. Len(OwnNodes(p)) : OwnNodes(p)[k] \in Contained(nodes, s)
    BY OwnNodesIs
  <2>2. i \in ToSet(OwnNodes(p))
    BY DEF DraggableNodes, OwnNodes
  <2> QED
    BY <2>1, <2>2 DEF ToSet
<1>8. ASSUME NEW j \in 1 .. Len(list) PROVE s # list[j]
  <2>1. Len(list) \in Nat /\ 1 \in 1 .. Len(list)
    BY <1>3 DEF Chain
  <2>2. list[j] \in Contained(nodes, i)
    BY <1>2, <1>3, <2>1, Among
  <2> QED
    BY <1>1, <1>2, <1>4, <1>7, <2>2, NotBelowItself
<1> QED
  BY <1>1, <1>3, <1>6, <1>8 DEF Positions, list

\* The widgets on the nodes that are moved are to be created again.
ShiftReads(list, letter) ==
    \A r \in Reads' : \E old \in Reads :
        old[1] = r[1] /\ r[2] = Shifted(list, letter, Len(list), old[2])

\* A widget on a node of the list is created again on its new name.
LEMMA MiddleRead ==
  ASSUME requests = {}, NEW list, list \in Seq(DOMAIN nodes), NEW letter, NEW affected,
         affected = {w \in DOMAIN widgets : widgets[w] \in ToSet(list)},
         NEW lid, Recreate(lid, [w \in affected |-> ChangeLetter(widgets[w], letter)])
  PROVE  ShiftReads(list, letter) /\ OneRead' /\ PendingNode'
<1> DEFINE again == [w \in affected |-> ChangeLetter(widgets[w], letter)]
           left == [w \in DOMAIN widgets \ DOMAIN again |-> widgets[w]]
           to(s) == Shifted(list, letter, Len(list), s)
<1>1. Reads' = WidgetReads(left) \cup WidgetReads(again) /\ OneRead' /\ PendingNode'
  BY RecreateReads
<1>2. Reads = WidgetReads(widgets)
  BY PlainReads
<1>3. \A s : s \in ToSet(list) <=> \E j \in 1 .. Len(list) : s = list[j]
  BY DEF ToSet
<1>4. \A s : to(s) = IF s \in ToSet(list) THEN ChangeLetter(s, letter) ELSE s
  BY <1>3 DEF Shifted
<1>5. DOMAIN again = affected /\ \A w \in affected : again[w] = ChangeLetter(widgets[w], letter)
  OBVIOUS
<1>6. DOMAIN left = DOMAIN widgets \ affected /\ \A w \in DOMAIN left : left[w] = widgets[w]
  BY <1>5
<1> HIDE DEF again, left, to
<1>7. ASSUME NEW w \in DOMAIN left
      PROVE  \E old \in Reads : old[1] = w /\ left[w] = to(old[2])
  <2>1. <<w, widgets[w]>> \in Reads
    BY <1>2, <1>6 DEF WidgetReads
  <2>2. left[w] = to(widgets[w])
    BY <1>4, <1>6
  <2> QED
    BY <2>1, <2>2
<1>8. ASSUME NEW w \in DOMAIN again
      PROVE  \E old \in Reads : old[1] = w /\ again[w] = to(old[2])
  <2>1. <<w, widgets[w]>> \in Reads
    BY <1>2, <1>5 DEF WidgetReads
  <2>2. again[w] = to(widgets[w])
    BY <1>4, <1>5
  <2> QED
    BY <2>1, <2>2
<1>9. \A r \in Reads' : \E old \in Reads : old[1] = r[1] /\ r[2] = to(old[2])
  BY <1>1, <1>7, <1>8 DEF WidgetReads
<1> QED
  BY <1>1, <1>9 DEF ShiftReads, to

\* Movement 3 leaves what is shown as it was.
LEMMA DragMiddleGrounds ==
  ASSUME Layered, Grounded, requests = {}, Len(layers) < MaxLayers, FreeLayers # {}, LetterIsFresh,
         NEW p \in Positions, NEW i \in DraggableNodes(p), OnlyHere(p, i), NEW at \in 1 .. (Len(layers) + 1),
         DragMiddle(p, i, at)
  PROVE  Grounded' /\ ReadsKept /\ LayersKept /\ NumbersKept
<1> DEFINE letter == NextLetter(TakenLetters)
           lid == CHOOSE l \in FreeLayers : TRUE
           list == LinkedListBySameLetter(nodes, i)
           id == ChangeLetter(i, letter)
           layer == NewLayerOf(letter, id)
           g == MoveNodes(nodes, list, letter)
           r == RemoveNodes(g, {i})
           ls == InsertAt(layers, at, layer)
           affected == {w \in DOMAIN widgets : widgets[w] \in ToSet(list)}
           sigma == Shift(list, letter)
           n == Len(list)
<1>1. /\ HeadedBy(p, i) = {}
      /\ EndWithout(r, ls, SaveAnalysis(g, analyses, layer))
      /\ Recreate(layer.lid, [w \in affected |-> ChangeLetter(widgets[w], letter)])
  BY DEF DragMiddle, MoveNodes, MoveNode
<1>2. Tidy(nodes) /\ LayersStand
  BY DEF Grounded, LayersStand
<1>3. /\ i \in DOMAIN nodes /\ Chain(nodes, list) /\ n >= 1 /\ list[1] = i
      /\ \A q \in DOMAIN layers : \A j \in 1 .. n : layers[q].source # list[j]
  BY <1>1, <1>2, MiddleAlone
<1>4. /\ lid \in Layers /\ letter \in 1 .. MaxLetter
      /\ \A q \in DOMAIN layers : layers[q].lid # lid /\ layers[q].letter # letter
  BY FreshLayer
<1>5. layer = Layer(lid, letter, id)
  BY DEF NewLayerOf
<1>6. \A x \in DOMAIN nodes : Letter(x) # letter
  BY DEF LetterIsFresh
<1> HIDE DEF list, letter, lid
<1>7. ChainNames(list, letter)
  BY <1>2, <1>3, <1>4, <1>6, ChainNamed
<1>8. /\ list \in Seq(DOMAIN nodes) /\ n \in Nat /\ DOMAIN list = 1 .. n /\ 1 \in 1 .. n
      /\ id \in AnyId
      /\ \A j \in 1 .. n : Letter(ChangeLetter(list[j], letter)) = letter
  BY <1>3, <1>7 DEF ChainNames
<1>9. layer \in LayerType /\ layer.lid = lid /\ layer.letter = letter /\ layer.source = id
  BY <1>4, <1>5, <1>8 DEF Layer, LayerType
<1> HIDE DEF layer
<1>10. /\ ls \in Seq(LayerType)
       /\ \A q \in DOMAIN ls : ls[q] = layer \/ \E s \in DOMAIN layers : ls[q] = layers[s]
       /\ \A s \in DOMAIN layers : \E q \in DOMAIN ls : ls[q] = layers[s]
       /\ \E q \in DOMAIN ls : ls[q] = layer
  BY <1>4, <1>9, LayerInserted DEF Layered
<1> HIDE DEF ls
<1>11. MovedSome(g, list, letter, n)
  BY <1>2, <1>4, <1>7, MovedAll
<1>12. IsFiniteSet(DOMAIN g) /\ DOMAIN g \subseteq AnyId
  <2>1. \A k \in 1 .. n : list[k] \in AnyId /\ Letter(list[k]) \in 1 .. MaxLetter
    BY <1>2, <1>3, <1>8 DEF Chain, Tidy
  <2>2. DOMAIN nodes \subseteq AnyId /\ IsFiniteSet(DOMAIN nodes)
    BY DEF Layered
  <2> HIDE DEF n
  <2> QED
    BY <1>4, <1>8, <2>1, <2>2, MovedIds
<1> HIDE DEF g
<1>13. IsFiniteSet(DOMAIN r) /\ DOMAIN r \subseteq AnyId
  BY <1>12, RemovedIds
<1>14. Copied(nodes, DOMAIN nodes, sigma, r)
  BY <1>2, <1>3, <1>4, <1>7, <1>11, MiddleCopied
<1>15. Lowered(nodes, DOMAIN nodes, sigma)
  BY <1>2, <1>3, <1>4, <1>6, <1>7, MiddleLowered
<1>16. /\ Led(nodes, DOMAIN nodes, sigma, ls)
       /\ \A q \in DOMAIN ls : ls[q].source \in Names(sigma, DOMAIN nodes)
       /\ \A q \in DOMAIN layers : layers[q].source = sigma[layers[q].source]
  BY <1>2, <1>3, <1>4, <1>6, <1>7, <1>9, <1>10, MiddleLed
<1>17. ShiftReads(list, letter) /\ OneRead' /\ PendingNode'
  BY <1>1, <1>8, MiddleRead
<1> HIDE DEF r
<1>18. layers' = ls
  BY <1>1 DEF EndWithout
<1>19. ReadsFollow(DOMAIN nodes, sigma)
  <2>1. SUFFICES ASSUME NEW new \in Reads'
                 PROVE  \E old \in Reads :
                          /\ old[1] = new[1] /\ old[2] \in DOMAIN nodes /\ new[2] = sigma[old[2]]
                          /\ Owners(ls, new[2]) # {}
    BY <1>18 DEF ReadsFollow
  <2>2. PICK old \in Reads : old[1] = new[1] /\ new[2] = Shifted(list, letter, n, old[2])
    BY <1>17 DEF ShiftReads
  <2>3. old[2] \in DOMAIN nodes /\ Owners(layers, old[2]) # {}
    BY DEF Grounded, ReadsOwned
  <2>4. new[2] = sigma[old[2]]
    BY <2>2, <2>3 DEF Shift
  <2>5. \E s \in DOMAIN ls : ls[s].letter = Letter(new[2])
    <3>1. CASE \E j \in 1 .. n : old[2] = list[j] /\ sigma[old[2]] = ChangeLetter(list[j], letter)
      BY <1>8, <1>9, <1>10, <2>4, <3>1
    <3>2. CASE sigma[old[2]] = old[2]
      BY <1>10, <2>3, <2>4, <3>2 DEF Owners, Owns
    <3> QED
      BY <1>7, <2>3, <3>1, <3>2, ShiftIs
  <2> QED
    BY <2>2, <2>3, <2>4, <2>5 DEF Owners, Owns
<1>21. NumbersFollow(DOMAIN nodes, sigma)
  <2>1. SUFFICES ASSUME NEW depth \in [DOMAIN nodes -> Nat], Deep(nodes, depth), NEW x \in DOMAIN nodes,
                        Letter(sigma[x]) \in 1 .. MaxLetter
                 PROVE  Sequence(sigma[x]) <= depth[x]
    BY DEF NumbersFollow
  <2>2. CASE \E j \in 1 .. n : x = list[j] /\ sigma[x] = ChangeLetter(list[j], letter)
    <3>1. PICK j \in 1 .. n : x = list[j] /\ sigma[x] = ChangeLetter(list[j], letter)
      BY <2>2
    <3>2. Sequence(sigma[x]) = Sequence(x) /\ Letter(x) \in 1 .. MaxLetter
      BY <1>3, <1>7, <3>1 DEF ChainNames, Chain
    <3> QED
      BY <2>1, <3>2 DEF Deep
  <2>3. CASE sigma[x] = x
    BY <2>1, <2>3 DEF Deep
  <2> QED
    BY <1>7, <2>2, <2>3, ShiftIs
<1> HIDE DEF sigma
<1>20. LayersFollow(DOMAIN nodes, sigma, ls)
  <2>1. SUFFICES ASSUME NEW a \in DOMAIN layers, NEW q \in DOMAIN ls, layers[a].lid = ls[q].lid
                 PROVE  layers[a].source \in DOMAIN nodes /\ ls[q].source = sigma[layers[a].source]
    BY DEF LayersFollow, Positions
  <2>2. PICK s \in DOMAIN layers : ls[q] = layers[s]
    BY <1>4, <1>9, <1>10, <2>1
  <2>3. s = a
    BY <2>1, <2>2 DEF Layered, Apart
  <2> QED
    BY <1>2, <1>16, <2>2, <2>3 DEF LayersStand
<1> QED
  BY <1>1, <1>2, <1>10, <1>13, <1>14, <1>15, <1>16, <1>17, <1>19, <1>20, <1>21, EndGrounds DEF Grounded

(* A layer deleted with its n highest nodes.                               *)

\* The nodes that are not made of them.
Spared(p, n) == {x \in DOMAIN nodes : Contained(nodes, x) \cap Highest(p, n) = {}}

\* They are what the layers show that stay, and the lower own nodes of the layer.
LEMMA SparedNodes ==
  ASSUME Layered, LayersStand, NEW p \in Positions, NEW n \in 0 .. Len(OwnNodes(p))
  PROVE  /\ Closed(nodes, Spared(p, n))
         /\ \A x \in Spared(p, n) : x \in DOMAIN nodes /\ x \notin Highest(p, n)
                                    /\ Contained(nodes, x) \subseteq Spared(p, n)
         /\ \A q \in Positions : q \notin BuiltOn(p, n) <=> layers[q].source \in Spared(p, n)
         /\ \A q \in Positions : q # p /\ q \notin BuiltOn(p, n) =>
               \A x \in DOMAIN nodes : Owns(layers[q], x) => x \in Spared(p, n)
         /\ \A k \in 1 .. Len(OwnNodes(p)) : OwnNodes(p)[k] \in Spared(p, n) <=> k > n
<1> DEFINE ids == Spared(p, n)
           H == Highest(p, n)
           own == OwnNodes(p)
           N == Len(own)
<1>1. Tidy(nodes) /\ \A q \in Positions : layers[q].source \in DOMAIN nodes
  BY DEF LayersStand, Positions
<1>2. /\ Chain(nodes, own) /\ N \in Nat
      /\ \A k \in 1 .. N : own[k] \in DOMAIN nodes
  BY OwnNodesIs
<1>3. H = {own[k] : k \in 1 .. n} /\ n \in Nat /\ n <= N
  BY <1>2 DEF Highest
<1> HIDE DEF H, own
<1>4. \A x \in ids : x \in DOMAIN nodes /\ Contained(nodes, x) \cap H = {}
  BY DEF Spared, H
<1>5. \A x \in DOMAIN nodes : Contained(nodes, x) \cap H = {} => x \in ids
  BY DEF Spared, H
<1> HIDE DEF ids
<1>6. ASSUME NEW x \in ids
      PROVE  x \notin H /\ Contained(nodes, x) \subseteq ids
  <2>1. x \in Contained(nodes, x)
    BY <1>1, <1>4, ContainedSources
  <2>2. \A j \in Contained(nodes, x) : j \in DOMAIN nodes /\ Contained(nodes, j) \subseteq Contained(nodes, x)
    BY <1>1, <1>4, ContainedBelow
  <2> QED
    BY <1>4, <1>5, <2>1, <2>2
<1>7. Closed(nodes, ids)
  <2>1. SUFFICES ASSUME NEW x \in ids
                 PROVE  nodes[x].prim \in ids \cup {NoNode} /\ nodes[x].sec \in ids \cup {NoNode}
    BY DEF Closed
  <2>2. /\ nodes[x].prim # NoNode => nodes[x].prim \in Contained(nodes, x)
        /\ nodes[x].sec # NoNode => nodes[x].sec \in Contained(nodes, x)
    BY <1>1, <1>4, ContainedSources
  <2> QED
    BY <1>6, <2>2
<1>8. \A q \in Positions : q \notin BuiltOn(p, n) <=> layers[q].source \in ids
  BY <1>1, <1>4, <1>5 DEF BuiltOn, H
<1>9. ASSUME NEW q \in Positions, q # p, q \notin BuiltOn(p, n), NEW x \in DOMAIN nodes, Owns(layers[q], x)
      PROVE  x \in ids
  <2>1. PICK k \in 1 .. Len(OwnNodes(q)) : OwnNodes(q)[k] = x
    BY <1>9, OwnNodesIs
  <2>2. OwnNodes(q)[k] \in Contained(nodes, layers[q].source)
    BY OwnNodesIs
  <2>3. x \in Contained(nodes, layers[q].source)
    BY <2>1, <2>2
  <2> QED
    BY <1>6, <1>8, <1>9, <2>3
<1>10. ASSUME NEW k \in 1 .. N PROVE own[k] \in ids <=> k > n
  <2>1. CASE k > n
    <3>1. ASSUME NEW b \in 1 .. n PROVE own[b] \notin Contained(nodes, own[k])
      <4>1. b \in 1 .. N /\ ~(k <= b)
        BY <1>2, <1>3, <2>1
      <4> QED
        BY <1>1, <1>2, <4>1, Among
    <3>2. Contained(nodes, own[k]) \cap H = {}
      BY <1>3, <3>1
    <3> QED
      BY <1>2, <1>5, <2>1, <3>2
  <2>2. CASE ~(k > n)
    <3>1. own[k] \in H
      BY <1>2, <1>3, <2>2
    <3> QED
      BY <1>6, <2>2, <3>1
  <2> QED
    BY <2>1, <2>2
<1> QED
  BY <1>4, <1>6, <1>7, <1>8, <1>9, <1>10 DEF ids, H, own

\* What is left of the nodes, the layers and the widgets.
LEMMA SparedIs ==
  ASSUME Layered, Grounded, requests = {}, NEW p \in Positions, NEW n \in 0 .. Len(OwnNodes(p))
  PROVE  LET W == Without(p, n)
         IN  /\ Spared(p, n) \subseteq DOMAIN W.g /\ \A x \in Spared(p, n) : W.g[x] = nodes[x]
             /\ DOMAIN W.g \subseteq DOMAIN nodes
             /\ \A q \in DOMAIN W.ls : \E s \in Positions :
                   s # p /\ s \notin BuiltOn(p, n) /\ W.ls[q] = layers[s] /\ layers[s].source \in Spared(p, n)
             /\ DOMAIN W.ws = {w \in DOMAIN widgets : widgets[w] \in Spared(p, n)}
             /\ \A w \in DOMAIN W.ws : W.ws[w] = widgets[w]
<1> DEFINE W == Without(p, n)
           ids == Spared(p, n)
           gone == BuiltOn(p, n) \cup {p}
           kept == {w \in DOMAIN widgets : Contained(nodes, widgets[w]) \cap Highest(p, n) = {}}
<1>1. LayersStand
  BY DEF Grounded
<1>2. /\ \A x \in ids : x \in DOMAIN nodes /\ x \notin Highest(p, n)
      /\ \A q \in Positions : q \notin BuiltOn(p, n) <=> layers[q].source \in ids
  BY <1>1, SparedNodes
<1>3. /\ W.g = RemoveNodes(nodes, Highest(p, n))
      /\ W.ls = Kept(layers, Positions \ gone)
      /\ W.ws = Restrict(widgets, kept)
  BY DEF Without
<1> HIDE DEF W
<1>4. ids \subseteq DOMAIN W.g /\ DOMAIN W.g \subseteq DOMAIN nodes /\ \A x \in ids : W.g[x] = nodes[x]
  <2> HIDE DEF ids
  <2> QED
    BY <1>2, <1>3 DEF RemoveNodes
<1>5. \A q \in DOMAIN W.ls : \E s \in Positions :
        s # p /\ s \notin BuiltOn(p, n) /\ W.ls[q] = layers[s] /\ layers[s].source \in ids
  <2>1. \A q \in DOMAIN Kept(layers, Positions \ gone) :
           \E s \in DOMAIN layers : s \in Positions \ gone /\ Kept(layers, Positions \ gone)[q] = layers[s]
    BY KeptLayers DEF Layered
  <2> QED
    BY <1>2, <1>3, <2>1
<1>6. \A w \in DOMAIN widgets : widgets[w] \in DOMAIN nodes
  <2>1. Reads = WidgetReads(widgets)
    BY PlainReads
  <2>2. \A w \in DOMAIN widgets : <<w, widgets[w]>> \in Reads
    BY <2>1 DEF WidgetReads
  <2> QED
    BY <2>2 DEF Grounded, ReadsOwned
<1>7. kept = {w \in DOMAIN widgets : widgets[w] \in ids}
  BY <1>6 DEF Spared
<1> HIDE DEF kept, ids
<1>8. DOMAIN W.ws = {w \in DOMAIN widgets : widgets[w] \in ids} /\ \A w \in DOMAIN W.ws : W.ws[w] = widgets[w]
  BY <1>3, <1>7 DEF Restrict
<1> QED
  BY <1>4, <1>5, <1>8 DEF W, ids

\* No widget is left on a node of a layer that goes with the n highest nodes.
LEMMA SparedReads ==
  ASSUME Layered, Grounded, requests = {}, NEW p \in Positions, NEW n \in 0 .. Len(OwnNodes(p)),
         LayerGoesAlone(p), \A m \in 0 .. (n - 1) : Parents(p, m) = {},
         NEW w \in DOMAIN widgets, widgets[w] \in Spared(p, n)
  PROVE  \E q \in Positions : q \notin BuiltOn(p, n) \ {p} /\ Owns(layers[q], widgets[w])
<1> DEFINE j == widgets[w]
<1>1. ~Strands(Highest(p, n), BuiltOn(p, n) \ {p})
  BY DEF LayerGoesAlone
<1>2. <<w, j>> \in Reads
  <2>1. Reads = WidgetReads(widgets)
    BY PlainReads
  <2> QED
    BY <2>1 DEF WidgetReads
<1>3. PICK q \in Positions : Owns(layers[q], j)
  BY <1>2 DEF Grounded, ReadsOwned, Owners, Positions
<1>4. Contained(nodes, j) \cap Highest(p, n) = {}
  BY DEF Spared
<1>5. j \in {widgets[v] : v \in DOMAIN widgets}
  OBVIOUS
<1>6. q \notin BuiltOn(p, n) \ {p}
  BY <1>1, <1>3, <1>4, <1>5 DEF Strands
<1> QED
  BY <1>3, <1>6

\* A layer's own nodes are its source and those below one of them, in what is left as well.
LEMMA SparedHeaded ==
  ASSUME Layered, LayersStand, NEW p \in Positions, NEW n \in 0 .. Len(OwnNodes(p)),
         NEW q \in Positions, q # p, q \notin BuiltOn(p, n), NEW x \in DOMAIN nodes, Owns(layers[q], x)
  PROVE  x = layers[q].source \/ \E y \in Spared(p, n) : Letter(y) = Letter(x) /\ nodes[y].prim = x
<1>1. CASE x # layers[q].source
  <2>1. PICK y \in DOMAIN nodes : Letter(y) = Letter(x) /\ nodes[y].prim = x
    BY <1>1 DEF LayersStand, Headed, Positions
  <2>2. Owns(layers[q], y)
    BY <2>1 DEF Owns
  <2> QED
    BY <2>1, <2>2, SparedNodes
<1> QED
  BY <1>1

\* A layer deleted with all its own nodes leaves the others as they were.
LEMMA WholeGrounds ==
  ASSUME Layered, Grounded, requests = {}, requests' = requests, NEW p \in Positions,
         DeleteWhole(p), LayerGoesAlone(p)
  PROVE  Grounded' /\ ReadsKept /\ LayersKept /\ NumbersKept
<1> DEFINE N == Len(OwnNodes(p))
           W == Without(p, N)
           ids == Spared(p, N)
           sigma == Same(ids)
<1>1. LayersStand /\ Tidy(nodes)
  BY DEF Grounded, LayersStand
<1>2. N \in Nat /\ N \in 0 .. N
  <2>1. N \in Nat
    BY <1>1, OwnNodesIs
  <2> QED
    BY <2>1
<1>3. /\ \A n \in 0 .. (N - 1) : Parents(p, n) = {}
      /\ EndWithout(W.g, W.ls, W.as)
      /\ widgets' = W.ws
  BY DEF DeleteWhole
<1>4. /\ DOMAIN W.g \subseteq AnyId /\ IsFiniteSet(DOMAIN W.g)
      /\ W.ls \in Seq(LayerType)
      /\ \A s \in DOMAIN layers : s # p /\ s \notin BuiltOn(p, N) => \E q \in DOMAIN W.ls : W.ls[q] = layers[s]
  BY WithoutIs
<1>5. /\ ids \subseteq DOMAIN W.g /\ \A x \in ids : W.g[x] = nodes[x]
      /\ DOMAIN W.g \subseteq DOMAIN nodes
      /\ \A q \in DOMAIN W.ls : \E s \in Positions :
            s # p /\ s \notin BuiltOn(p, N) /\ W.ls[q] = layers[s] /\ layers[s].source \in ids
      /\ DOMAIN W.ws = {w \in DOMAIN widgets : widgets[w] \in ids}
      /\ \A w \in DOMAIN W.ws : W.ws[w] = widgets[w]
  BY <1>2, SparedIs
<1>6. /\ Closed(nodes, ids) /\ ids \subseteq DOMAIN nodes
      /\ \A k \in 1 .. N : OwnNodes(p)[k] \in ids <=> k > N
      /\ \A s \in Positions : s # p /\ s \notin BuiltOn(p, N) =>
            \A x \in DOMAIN nodes : Owns(layers[s], x) => x \in ids
  BY <1>1, <1>2, SparedNodes
<1>7. \A x \in ids : ~Owns(layers[p], x)
  <2>1. SUFFICES ASSUME NEW x \in ids, Owns(layers[p], x) PROVE FALSE
    OBVIOUS
  <2>2. PICK k \in 1 .. N : OwnNodes(p)[k] = x
    BY <1>1, <1>6, <2>1, OwnNodesIs
  <2> QED
    BY <1>2, <1>6, <2>1, <2>2
<1> HIDE DEF ids
<1>8. /\ Copied(nodes, ids, sigma, W.g) /\ Lowered(nodes, ids, sigma)
      /\ Names(sigma, ids) = ids /\ (\A i \in ids : sigma[i] = i) /\ NumbersFollow(ids, sigma)
  BY <1>1, <1>5, <1>6, SameNames
<1> HIDE DEF sigma, W
<1>9. \A q \in DOMAIN W.ls : W.ls[q].source \in Names(sigma, ids)
  BY <1>5, <1>8
<1>10. Led(nodes, ids, sigma, W.ls)
  <2>1. SUFFICES ASSUME NEW q \in DOMAIN W.ls, NEW x \in ids, Owns(W.ls[q], x)
                 PROVE  x = W.ls[q].source \/ \E y \in ids : Letter(y) = Letter(x) /\ nodes[y].prim = x
    BY <1>8 DEF Led
  <2>2. PICK s \in Positions : s # p /\ s \notin BuiltOn(p, N) /\ W.ls[q] = layers[s]
    BY <1>5
  <2> QED
    BY <1>1, <1>2, <1>6, <2>1, <2>2, SparedHeaded DEF ids
<1>11. Reads = WidgetReads(widgets) /\ OneRead
  BY PlainReads
<1>12. Reads' = WidgetReads(widgets') /\ OneRead' /\ PendingNode'
  BY StillPlain
<1>13. layers' = W.ls
  BY <1>3 DEF EndWithout
<1>14. ReadsFollow(ids, sigma)
  <2> DEFINE ws == W.ws
  <2>7. Reads' = WidgetReads(ws)
    BY <1>3, <1>12
  <2> HIDE DEF ws
  <2>1. SUFFICES ASSUME NEW w \in DOMAIN ws
                 PROVE  \E old \in Reads :
                          /\ old[1] = w /\ old[2] \in ids /\ ws[w] = sigma[old[2]]
                          /\ Owners(W.ls, ws[w]) # {}
    BY <1>13, <2>7 DEF ReadsFollow, WidgetReads
  <2> USE DEF ws
  <2>2. w \in DOMAIN widgets /\ widgets[w] \in ids /\ W.ws[w] = widgets[w] /\ <<w, widgets[w]>> \in Reads
    BY <1>5, <1>11 DEF WidgetReads
  <2>3. PICK s \in Positions : s \notin BuiltOn(p, N) \ {p} /\ Owns(layers[s], widgets[w])
    BY <1>2, <1>3, <2>2, SparedReads DEF ids
  <2>4. s # p
    BY <1>7, <2>2, <2>3
  <2>5. PICK q \in DOMAIN W.ls : W.ls[q] = layers[s]
    BY <1>4, <2>3, <2>4 DEF Positions
  <2>6. Owners(W.ls, widgets[w]) # {}
    BY <2>3, <2>5 DEF Owners
  <2> QED
    BY <1>8, <2>2, <2>6
<1>15. LayersFollow(ids, sigma, W.ls)
  <2>1. SUFFICES ASSUME NEW a \in DOMAIN layers, NEW q \in DOMAIN W.ls, layers[a].lid = W.ls[q].lid
                 PROVE  layers[a].source \in ids /\ W.ls[q].source = sigma[layers[a].source]
    BY DEF LayersFollow, Positions
  <2>2. PICK s \in DOMAIN layers : W.ls[q] = layers[s] /\ layers[s].source \in ids
    BY <1>5 DEF Positions
  <2>3. s = a
    BY <2>1, <2>2 DEF Layered, Apart
  <2> QED
    BY <1>8, <2>2, <2>3
<1> QED
  BY <1>1, <1>3, <1>4, <1>8, <1>9, <1>10, <1>11, <1>12, <1>14, <1>15, EndGrounds

(* The nodes of a deleted layer, folded under another one.                 *)

\* The nodes of p under the n highest are the list that is folded.
LEMMA BelowIs ==
  ASSUME Layered, LayersStand, NEW p \in Positions, NEW n \in 0 .. (Len(OwnNodes(p)) - 1)
  PROVE  LET top == OwnNodes(p)[n + 1]
             below == LinkedListBySameLetter(nodes, top)
         IN  /\ top \in Spared(p, n) /\ Owns(layers[p], top)
             /\ Chain(nodes, below) /\ Len(below) >= 1 /\ below[1] = top
             /\ \A k \in 1 .. Len(below) : below[k] \in Spared(p, n) /\ Owns(layers[p], below[k])
             /\ \A x \in Spared(p, n) : Owns(layers[p], x) => \E k \in 1 .. Len(below) : below[k] = x
<1> DEFINE own == OwnNodes(p)
           N == Len(own)
           top == own[n + 1]
           below == LinkedListBySameLetter(nodes, top)
           m == Len(below)
<1>1. Tidy(nodes)
  BY DEF LayersStand
<1>2. /\ Chain(nodes, own) /\ N \in Nat
      /\ \A k \in 1 .. N : own[k] \in DOMAIN nodes /\ Owns(layers[p], own[k])
      /\ \A x \in DOMAIN nodes : Owns(layers[p], x) => \E k \in 1 .. N : own[k] = x
  BY OwnNodesIs
<1>3. n \in Nat /\ n + 1 \in 1 .. N /\ n \in 0 .. N
  BY <1>2
<1>4. /\ \A x \in Spared(p, n) : x \in DOMAIN nodes /\ Contained(nodes, x) \subseteq Spared(p, n)
      /\ \A k \in 1 .. N : own[k] \in Spared(p, n) <=> k > n
  BY <1>3, SparedNodes
<1>5. top \in Spared(p, n) /\ Owns(layers[p], top) /\ top \in DOMAIN nodes
  BY <1>2, <1>3, <1>4
<1>6. \A k \in 1 .. (N - 1) : nodes[own[k]].prim = own[k + 1]
  BY <1>2 DEF Chain
<1> HIDE DEF own, top
<1>7. layers[p].letter \in 1 .. MaxLetter
  BY LayersAre
<1>8. Chain(nodes, below) /\ m >= 1 /\ below[1] = top
  BY <1>1, <1>5, <1>7, ChainIs DEF Owns
<1> HIDE DEF below
<1>9. /\ m \in Nat /\ \A k \in 1 .. m : below[k] \in DOMAIN nodes /\ Owns(layers[p], below[k])
  BY <1>5, <1>8 DEF Chain, Owns
<1>10. \A k \in 1 .. m : below[k] \in Spared(p, n)
  <2>1. TAKE k \in 1 .. m
  <2>2. 1 \in 1 .. m /\ 1 <= k
    BY <1>8, <1>9
  <2>3. below[k] \in Contained(nodes, top)
    BY <1>1, <1>8, <2>2, Among
  <2> QED
    BY <1>4, <1>5, <2>3
<1> DEFINE In(x) == \E k \in 1 .. m : below[k] = x
           T == {k \in Nat : n + 1 + k <= N => In(own[n + 1 + k])}
<1>11. 0 \in T
  <2>1. 1 \in 1 .. m /\ n + 1 + 0 = n + 1 /\ below[1] = own[n + 1]
    BY <1>3, <1>8, <1>9 DEF top
  <2> QED
    BY <2>1
<1>12. ASSUME NEW k \in Nat, k \in T PROVE k + 1 \in T
  <2>1. SUFFICES ASSUME n + 1 + (k + 1) <= N PROVE In(own[n + 1 + (k + 1)])
    OBVIOUS
  <2>2. n + 1 + k <= N /\ n + 1 + k \in 1 .. (N - 1) /\ n + 1 + k \in 1 .. N /\ (n + 1 + k) + 1 = n + 1 + (k + 1)
        /\ n + 1 + (k + 1) \in 1 .. N
    BY <1>2, <1>3, <2>1
  <2>3. PICK j \in 1 .. m : below[j] = own[n + 1 + k]
    BY <1>12, <2>2
  <2>4. nodes[below[j]].prim = own[n + 1 + (k + 1)]
    BY <1>6, <2>2, <2>3
  <2>5. own[n + 1 + (k + 1)] \in DOMAIN nodes /\ Owns(layers[p], own[n + 1 + (k + 1)])
    BY <1>2, <2>2
  <2>6. NoNode \notin DOMAIN nodes
    BY <1>1, NoNodeIsNone DEF Tidy
  <2>7. j # m
    BY <1>5, <1>8, <1>9, <2>4, <2>5, <2>6 DEF Chain, Owns
  <2>8. j \in 1 .. (m - 1) /\ j + 1 \in 1 .. m
    BY <1>9, <2>7
  <2>9. nodes[below[j]].prim = below[j + 1]
    BY <1>8, <2>8 DEF Chain
  <2> QED
    BY <2>4, <2>8, <2>9
<1> HIDE DEF In
<1>13. \A k \in Nat : k \in T
  <2> HIDE DEF T
  <2> QED
    BY <1>11, <1>12, NatSet
<1>14. ASSUME NEW x \in Spared(p, n), Owns(layers[p], x) PROVE In(x)
  <2>1. PICK k \in 1 .. N : own[k] = x
    BY <1>2, <1>4, <1>14
  <2>2. k > n
    BY <1>4, <1>14, <2>1
  <2>3. k - (n + 1) \in Nat /\ n + 1 + (k - (n + 1)) = k /\ k <= N
    BY <1>2, <1>3, <2>2
  <2>4. k - (n + 1) \in T
    BY <1>13, <2>3
  <2> QED
    BY <2>1, <2>3, <2>4
<1> QED
  BY <1>5, <1>8, <1>9, <1>10, <1>14 DEF In, below, top, own

\* A layer that takes them: what is below its own nodes, or its source, is their highest.
LEMMA ParentIs ==
  ASSUME Layered, LayersStand, NEW p \in Positions, NEW n \in 0 .. (Len(OwnNodes(p)) - 1),
         NEW parent \in Parents(p, n),
         Owns(layers[parent], layers[parent].source) \/ layers[parent].source = OwnNodes(p)[n + 1]
  PROVE  LET top == OwnNodes(p)[n + 1]
             above == OwnNodes(parent)
         IN  /\ parent \in Positions /\ parent # p /\ parent \notin BuiltOn(p, n)
             /\ Len(above) # 0 => nodes[above[Len(above)]].prim = top
             /\ Len(above) = 0 => layers[parent].source = top
<1> DEFINE top == OwnNodes(p)[n + 1]
           above == OwnNodes(parent)
           excluded == {layers[q].lid : q \in BuiltOn(p, n)}
           source == layers[parent].source
<1>1. parent \in ParentLayers(nodes, layers, top, excluded)
  BY DEF Parents
<1>2. top \in Spared(p, n) /\ Owns(layers[p], top)
  BY BelowIs
<1> HIDE DEF top
<1>3. /\ parent \in DOMAIN layers /\ layers[parent].lid \notin excluded
      /\ Owners(layers, top) # {} => parent # FindOwner(layers, top)
      /\ source \in DOMAIN nodes
      /\ source = top \/ BelowOwn(nodes, layers[parent]) = top
  BY <1>1 DEF ParentLayers
<1>4. parent \in Positions /\ parent \notin BuiltOn(p, n)
  BY <1>3 DEF Positions
<1>5. parent # p
  <2>1. p \in Owners(layers, top)
    BY <1>2 DEF Owners, Positions
  <2>2. FindOwner(layers, top) \in DOMAIN layers /\ Owns(layers[FindOwner(layers, top)], top)
    BY <2>1, OwnerIs DEF Layered
  <2>3. FindOwner(layers, top) = p
    BY <1>2, <2>2 DEF Layered, Apart, Owns, Positions
  <2> QED
    BY <1>3, <2>1, <2>3
<1>6. /\ above \in Seq(DOMAIN nodes) /\ Len(above) \in Nat
      /\ Len(above) # 0 => Owns(layers[parent], source)
      /\ Len(above) = 0 => ~Owns(layers[parent], source)
  BY <1>4, OwnNodesIs
<1>7. CASE Owns(layers[parent], source)
  <2>1. source # top
    BY <1>2, <1>3, <1>5, <1>7 DEF Layered, Apart, Owns, Positions
  <2>2. above = LinkedListBySameLetter(nodes, source)
    BY <1>3, <1>7 DEF OwnNodes, OwnedPrimaryNodes
  <2>3. nodes[Last(above)].prim = top
    BY <1>3, <2>1, <2>2 DEF BelowOwn
  <2>4. Last(above) = above[Len(above)]
    BY DEF Last
  <2> QED
    BY <1>4, <1>5, <1>6, <1>7, <2>3, <2>4 DEF top
<1>8. CASE ~Owns(layers[parent], source)
  BY <1>4, <1>5, <1>6, <1>8 DEF top
<1> QED
  BY <1>7, <1>8

\* Nodes one the primary source of the other.
Linked(list) ==
    /\ list \in Seq(DOMAIN nodes) /\ Len(list) \in Nat /\ Len(list) >= 1
    /\ \A k \in 1 .. Len(list) : list[k] \in DOMAIN nodes
    /\ \A k \in 1 .. (Len(list) - 1) : nodes[list[k]].prim = list[k + 1]

\* The list that takes the letter of parent: all that is left of the two letters.
Folds(list, p, n, parent) ==
    /\ Linked(list)
    /\ parent \in Positions /\ parent # p /\ parent \notin BuiltOn(p, n)
    /\ list[1] = layers[parent].source
    /\ \A k \in 1 .. Len(list) : /\ list[k] \in Spared(p, n)
                                 /\ Owns(layers[parent], list[k]) \/ Owns(layers[p], list[k])
    /\ \A x \in Spared(p, n) : Owns(layers[parent], x) \/ Owns(layers[p], x) =>
          \E k \in 1 .. Len(list) : list[k] = x
    /\ Sequence(list[1]) \in Nat
    /\ \A k \in 1 .. Len(list) : Owns(layers[parent], list[k]) =>
          /\ Sequence(list[k]) \in Nat
          /\ Sequence(list[k]) <= Sequence(list[1]) - (k - 1)

\* The nodes of the parent and those under the n highest of the deleted layer are such a list.
LEMMA FoldsAre ==
  ASSUME Layered, LayersStand, NEW p \in Positions, NEW n \in 0 .. (Len(OwnNodes(p)) - 1),
         NEW parent \in Parents(p, n),
         Owns(layers[parent], layers[parent].source) \/ layers[parent].source = OwnNodes(p)[n + 1]
  PROVE  Folds(OwnNodes(parent) \o LinkedListBySameLetter(nodes, OwnNodes(p)[n + 1]), p, n, parent)
<1> DEFINE top == OwnNodes(p)[n + 1]
           above == OwnNodes(parent)
           below == LinkedListBySameLetter(nodes, top)
           a == Len(above)
           b == Len(below)
           list == above \o below
           ids == Spared(p, n)
<1>1. /\ parent \in Positions /\ parent # p /\ parent \notin BuiltOn(p, n)
      /\ a # 0 => nodes[above[a]].prim = top
      /\ a = 0 => layers[parent].source = top
  BY ParentIs
<1>2. /\ top \in ids /\ Owns(layers[p], top)
      /\ Chain(nodes, below) /\ b >= 1 /\ below[1] = top
      /\ \A k \in 1 .. b : below[k] \in ids /\ Owns(layers[p], below[k])
      /\ \A x \in ids : Owns(layers[p], x) => \E k \in 1 .. b : below[k] = x
  BY BelowIs
<1>3. /\ Chain(nodes, above) /\ above \in Seq(DOMAIN nodes) /\ a \in Nat
      /\ \A k \in 1 .. a : above[k] \in DOMAIN nodes /\ Owns(layers[parent], above[k])
      /\ \A x \in DOMAIN nodes : Owns(layers[parent], x) => \E k \in 1 .. a : above[k] = x
      /\ a # 0 => above[1] = layers[parent].source
  BY <1>1, OwnNodesIs
<1>4. n \in 0 .. Len(OwnNodes(p))
  <2>1. Len(OwnNodes(p)) \in Nat
    BY OwnNodesIs
  <2> QED
    BY <2>1
<1>5. /\ \A x \in ids : x \in DOMAIN nodes
      /\ \A x \in DOMAIN nodes : Owns(layers[parent], x) => x \in ids
  BY <1>1, <1>4, SparedNodes
<1>6. \A x \in DOMAIN nodes : ~(Owns(layers[parent], x) /\ Owns(layers[p], x))
  BY <1>1 DEF Layered, Apart, Positions, Owns
<1>7. /\ below \in Seq(DOMAIN nodes) /\ b \in Nat
      /\ \A k \in 1 .. (b - 1) : nodes[below[k]].prim = below[k + 1]
  BY <1>2 DEF Chain
<1>8. /\ \A k \in 1 .. (a - 1) : nodes[above[k]].prim = above[k + 1]
      /\ \A k \in 1 .. a : Sequence(above[k]) \in Nat
      /\ \A k, m \in 1 .. a : k < m => Sequence(above[m]) <= Sequence(above[k]) - (m - k)
  BY <1>3 DEF Chain
<1> HIDE DEF above, below, top, ids
<1> DEFINE m == a + b
<1>9. /\ list \in Seq(DOMAIN nodes) /\ Len(list) = m /\ m \in Nat /\ m >= 1
      /\ \A k \in 1 .. m : list[k] = IF k <= a THEN above[k] ELSE below[k - a]
  BY <1>2, <1>3, <1>7, ConcatProperties
<1> HIDE DEF list
<1>10. ASSUME NEW k \in 1 .. m
       PROVE  \/ k \in 1 .. a /\ list[k] = above[k]
              \/ k - a \in 1 .. b /\ list[k] = below[k - a] /\ ~(k <= a)
  BY <1>3, <1>7, <1>9
<1>11. ASSUME NEW k \in 1 .. (m - 1) PROVE nodes[list[k]].prim = list[k + 1]
  <2>0. k \in 1 .. m /\ k + 1 \in 1 .. m
    BY <1>9
  <2>1. CASE k < a
    <3>1. k \in 1 .. (a - 1) /\ k <= a /\ k + 1 <= a
      BY <1>3, <2>1
    <3> QED
      BY <1>8, <1>9, <2>0, <3>1
  <2>2. CASE k = a
    <3>1. k <= a /\ ~(k + 1 <= a) /\ (k + 1) - a = 1 /\ a # 0
      BY <1>3, <2>2
    <3> QED
      BY <1>1, <1>2, <1>9, <2>0, <2>2, <3>1
  <2>3. CASE k > a
    <3>1. ~(k <= a) /\ ~(k + 1 <= a) /\ (k + 1) - a = (k - a) + 1 /\ k - a \in 1 .. (b - 1)
      BY <1>3, <1>7, <2>3
    <3> QED
      BY <1>7, <1>9, <2>0, <3>1
  <2> QED
    BY <1>3, <2>1, <2>2, <2>3
<1>12. ASSUME NEW k \in 1 .. m
       PROVE  list[k] \in ids /\ list[k] \in DOMAIN nodes /\ (Owns(layers[parent], list[k]) \/ Owns(layers[p], list[k]))
  BY <1>2, <1>3, <1>5, <1>10
<1>13. Linked(list)
  BY <1>9, <1>11, <1>12 DEF Linked
<1>14. 1 \in 1 .. m /\ list[1] = layers[parent].source
  <2>1. 1 \in 1 .. m
    BY <1>9
  <2>2. CASE a = 0
    <3>1. ~(1 <= a) /\ 1 - a = 1
      BY <2>2
    <3> QED
      BY <1>1, <1>2, <1>9, <2>1, <2>2, <3>1
  <2>3. CASE a # 0
    <3>1. 1 <= a
      BY <1>3, <2>3
    <3> QED
      BY <1>3, <1>9, <2>1, <2>3, <3>1
  <2> QED
    BY <2>1, <2>2, <2>3
<1>15. ASSUME NEW x \in ids, Owns(layers[parent], x) \/ Owns(layers[p], x)
       PROVE  \E k \in 1 .. m : list[k] = x
  <2>1. CASE Owns(layers[parent], x)
    <3>1. PICK k \in 1 .. a : above[k] = x
      BY <1>3, <1>5, <2>1
    <3>2. k \in 1 .. m /\ k <= a
      BY <1>3, <1>7
    <3> QED
      BY <1>9, <3>1, <3>2
  <2>2. CASE Owns(layers[p], x)
    <3>1. PICK k \in 1 .. b : below[k] = x
      BY <1>2, <2>2
    <3>2. a + k \in 1 .. m /\ ~(a + k <= a) /\ (a + k) - a = k
      BY <1>3, <1>7
    <3> QED
      BY <1>9, <3>1, <3>2
  <2> QED
    BY <1>15, <2>1, <2>2
<1>16. Sequence(list[1]) \in Nat
  <2>1. list[1] \in AnyId /\ (Letter(list[1]) = layers[parent].letter \/ Letter(list[1]) = layers[p].letter)
    BY <1>12, <1>14 DEF Owns, Layered
  <2>2. layers[parent].letter \in 1 .. MaxLetter /\ layers[p].letter \in 1 .. MaxLetter
    BY <1>1, LayersAre
  <2> QED
    BY <2>1, <2>2, NumberedIds
<1>17. ASSUME NEW k \in 1 .. m, Owns(layers[parent], list[k])
       PROVE  Sequence(list[k]) \in Nat /\ Sequence(list[k]) <= Sequence(list[1]) - (k - 1)
  <2>1. k \in 1 .. a /\ list[k] = above[k]
    BY <1>2, <1>6, <1>10, <1>12, <1>17
  <2>2. 1 <= a /\ 1 \in 1 .. a
    BY <1>3, <2>1
  <2>3. list[1] = above[1]
    BY <1>9, <1>14, <2>2
  <2>4. CASE k = 1
    <3>1. k - 1 = 0
      BY <2>4
    <3> QED
      BY <1>16, <2>4, <3>1
  <2>5. CASE k # 1
    <3>1. 1 < k
      BY <2>1, <2>5
    <3> QED
      BY <1>8, <2>1, <2>2, <2>3, <3>1
  <2> QED
    BY <2>4, <2>5
<1>18. Folds(list, p, n, parent)
  BY <1>1, <1>9, <1>12, <1>13, <1>14, <1>15, <1>16, <1>17 DEF Folds, ids
<1> QED
  BY <1>18 DEF list, above, below, top

\* Each node of the list is one step nearer to the table.
LEMMA LinkedDepth ==
  ASSUME Tidy(nodes), NEW list, Linked(list), NEW depth \in [DOMAIN nodes -> Nat], Deep(nodes, depth)
  PROVE  /\ \A k \in 1 .. Len(list) : depth[list[k]] = depth[list[1]] - (k - 1)
         /\ \A a, b \in 1 .. Len(list) : list[a] = list[b] => a = b
<1> DEFINE m == Len(list)
           far(k) == depth[list[k]]
           T == {k \in Nat : k + 1 <= m => far(k + 1) = far(1) - k}
<1>1. /\ m \in Nat /\ m >= 1 /\ \A k \in 1 .. m : list[k] \in DOMAIN nodes
      /\ \A k \in 1 .. (m - 1) : nodes[list[k]].prim = list[k + 1]
  BY DEF Linked
<1> HIDE DEF m
<1>2. \A k \in 1 .. m : far(k) \in Nat
  BY <1>1
<1>3. ASSUME NEW k \in 1 .. (m - 1) PROVE far(k) = far(k + 1) + 1
  <2>1. k \in 1 .. m /\ k + 1 \in 1 .. m
    BY <1>1
  <2>2. list[k] \in DOMAIN nodes /\ nodes[list[k]].prim = list[k + 1] /\ list[k + 1] \in DOMAIN nodes
    BY <1>1, <2>1
  <2>3. NoNode \notin DOMAIN nodes
    BY NoNodeIsNone DEF Tidy
  <2> QED
    BY <2>2, <2>3 DEF Deep
<1> HIDE DEF far
<1>4. 0 \in T
  BY <1>1, <1>2
<1>5. ASSUME NEW k \in Nat, k \in T PROVE k + 1 \in T
  <2>1. SUFFICES ASSUME (k + 1) + 1 <= m PROVE far((k + 1) + 1) = far(1) - (k + 1)
    OBVIOUS
  <2>2. k + 1 \in 1 .. (m - 1) /\ k + 1 <= m /\ k + 1 \in 1 .. m /\ (k + 1) + 1 \in 1 .. m /\ 1 \in 1 .. m
    BY <1>1, <2>1
  <2>3. far(k + 1) = far(1) - k /\ far(k + 1) = far((k + 1) + 1) + 1
    BY <1>3, <1>5, <2>2
  <2> QED
    BY <1>2, <2>2, <2>3
<1>6. \A k \in Nat : k \in T
  <2> HIDE DEF T
  <2> QED
    BY <1>4, <1>5, NatSet
<1>7. ASSUME NEW k \in 1 .. m PROVE far(k) = far(1) - (k - 1)
  <2>1. k - 1 \in Nat /\ (k - 1) + 1 = k /\ k <= m
    BY <1>1
  <2>2. k - 1 \in T
    BY <1>6, <2>1
  <2> QED
    BY <2>1, <2>2
<1>8. ASSUME NEW a \in 1 .. m, NEW b \in 1 .. m, list[a] = list[b] PROVE a = b
  <2>1. far(a) = far(b)
    BY <1>8 DEF far
  <2>2. far(a) = far(1) - (a - 1) /\ far(b) = far(1) - (b - 1) /\ far(1) \in Nat
    <3>1. 1 \in 1 .. m
      BY <1>1
    <3> QED
      BY <1>2, <1>7, <3>1
  <2>3. a \in Nat /\ b \in Nat
    BY <1>1
  <2> DEFINE z == far(1)
  <2>4. z \in Nat /\ z - (a - 1) = z - (b - 1)
    BY <2>1, <2>2
  <2> HIDE DEF z
  <2> QED
    BY <2>3, <2>4
<1> QED
  BY <1>7, <1>8 DEF far, m

\* The first number of the folded ids, and the ids: numbers one lower from each node to the next.
FirstFolded(g, list) ==
    LET highest == IF Len(list) <= Sequence(list[1]) THEN Sequence(list[1]) ELSE Len(list)
    IN IF IsSourceType(g, Last(list)) THEN highest ELSE highest + 1

\* The numbers of the folded ids.
LEMMA FoldedDown ==
  ASSUME NEW g, NEW letter, NEW list, Len(list) \in Nat, Len(list) >= 1, DOMAIN list = 1 .. Len(list),
         Sequence(list[1]) \in Nat
  PROVE  /\ FirstFolded(g, list) \in Nat /\ FirstFolded(g, list) >= Len(list)
         /\ \A k \in 1 .. Len(list) : FoldedIds(g, list, letter)[k] = Id(letter, FirstFolded(g, list) - k)
<1> DEFINE m == Len(list)
           start == FirstFolded(g, list)
           Is(h) == h = [n \in DOMAIN list |-> PrevId(IF n = 1 THEN Id(letter, start) ELSE h[n - 1])]
           ids == CHOOSE h : Is(h)
<1>1. FoldedIds(g, list, letter) = ids
  BY DEF FoldedIds, FirstFolded
<1>2. start \in Nat /\ start >= m
  BY DEF FirstFolded
<1>m. m \in Nat /\ m >= 1 /\ DOMAIN list = 1 .. m
  OBVIOUS
<1> HIDE DEF start, m
<1>3. ASSUME NEW s \in Nat, s > 0
      PROVE  PrevId(Id(letter, s)) = Id(letter, s - 1)
  BY <1>3 DEF PrevId, Id, Letter, Sequence
<1> DEFINE low(n) == start - n
<1>n. \A n \in 1 .. m : low(n) \in Nat /\ low(1) = start - 1 /\ start > 0
  BY <1>2, <1>m
<1>4. \E h : Is(h)
  <2> DEFINE h == [n \in 1 .. m |-> Id(letter, low(n))]
  <2>1. ASSUME NEW n \in 1 .. m
        PROVE  h[n] = PrevId(IF n = 1 THEN Id(letter, start) ELSE h[n - 1])
    <3>1. CASE n = 1
      BY <1>2, <1>3, <1>n, <3>1
    <3>2. CASE n # 1
      <4>1. n - 1 \in 1 .. m /\ low(n - 1) \in Nat /\ low(n) = low(n - 1) - 1 /\ low(n - 1) > 0
        BY <1>2, <1>m, <3>2
      <4> HIDE DEF low
      <4>3. h[n - 1] = Id(letter, low(n - 1)) /\ h[n] = Id(letter, low(n))
        BY <4>1
      <4> HIDE DEF h
      <4> QED
        BY <1>3, <3>2, <4>1, <4>3
    <3> QED
      BY <3>1, <3>2
  <2>2. h = [n \in DOMAIN list |-> h[n]]
    BY <1>m
  <2> HIDE DEF h
  <2>3. Is(h)
    BY <1>m, <2>1, <2>2
  <2> QED
    BY <2>3
<1>5. Is(ids)
  <2> HIDE DEF Is
  <2> QED
    BY <1>4
<1> HIDE DEF ids
<1> DEFINE T == {n \in Nat : n + 1 <= m => ids[n + 1] = Id(letter, low(n + 1))}
<1>6. 0 \in T
  <2>1. 0 + 1 \in DOMAIN list /\ 0 + 1 = 1
    BY <1>m
  <2>2. ids[0 + 1] = PrevId(Id(letter, start))
    BY <1>5, <2>1
  <2> QED
    BY <1>2, <1>3, <1>m, <1>n, <2>1, <2>2
<1>7. ASSUME NEW n \in Nat, n \in T PROVE n + 1 \in T
  <2>1. SUFFICES ASSUME n + 1 + 1 <= m PROVE ids[n + 1 + 1] = Id(letter, low(n + 1 + 1))
    OBVIOUS
  <2>2. ids[n + 1] = Id(letter, low(n + 1))
    BY <1>7, <1>m, <2>1
  <2>3. n + 1 + 1 \in DOMAIN list /\ n + 1 + 1 # 1 /\ (n + 1 + 1) - 1 = n + 1
    BY <1>m, <2>1
  <2>4. ids[n + 1 + 1] = PrevId(ids[n + 1])
    BY <1>5, <2>3
  <2>5. low(n + 1) \in Nat /\ low(n + 1) > 0 /\ low(n + 1 + 1) = low(n + 1) - 1
    BY <1>2, <1>m, <2>1
  <2> HIDE DEF low
  <2> QED
    BY <1>3, <2>2, <2>4, <2>5
<1>8. \A n \in Nat : n \in T
  <2> HIDE DEF T
  <2> QED
    BY <1>6, <1>7, NatSet
<1>9. ASSUME NEW n \in 1 .. m PROVE ids[n] = Id(letter, start - n)
  <2>1. n - 1 \in Nat /\ (n - 1) + 1 = n /\ (n - 1) + 1 <= m
    BY <1>m
  <2>2. n - 1 \in T
    BY <1>8, <2>1
  <2> QED
    BY <2>1, <2>2
<1> QED
  BY <1>1, <1>2, <1>9 DEF start, m

\* The first number is greater than that of any node of the list, and leaves room
\* for all of them, but is not greater than the way from the first one.
LEMMA FoldStarts ==
  ASSUME Tidy(nodes), NEW depth \in [DOMAIN nodes -> Nat], Deep(nodes, depth),
         \A i \in DOMAIN nodes : nodes[i].what \in Tables <=> nodes[i].prim = NoNode,
         NEW list, Linked(list), Letter(list[1]) \in 1 .. MaxLetter, Sequence(list[1]) \in Nat
  PROVE  /\ Sequence(list[1]) < FirstFolded(nodes, list)
         /\ FirstFolded(nodes, list) - 1 <= depth[list[1]]
<1> DEFINE m == Len(list)
           s == Sequence(list[1])
           d == depth[list[1]]
           last == list[m]
<1>1. m \in Nat /\ m >= 1 /\ \A k \in 1 .. m : list[k] \in DOMAIN nodes
  BY DEF Linked
<1>2. 1 \in 1 .. m /\ m \in 1 .. m
  BY <1>1
<1>3. d \in Nat /\ s \in Nat /\ s <= d
  BY <1>1, <1>2 DEF Deep
<1>4. depth[last] = d - (m - 1) /\ depth[last] \in Nat /\ last \in DOMAIN nodes
  BY <1>1, <1>2, LinkedDepth
<1>5. IsSourceType(nodes, Last(list)) <=> nodes[last].prim = NoNode
  BY <1>4 DEF IsSourceType, Last
<1>6. nodes[last].prim = NoNode => depth[last] = 0
  BY <1>4 DEF Deep
<1>7. nodes[last].prim # NoNode => depth[last] >= 1
  <2>1. SUFFICES ASSUME nodes[last].prim # NoNode PROVE depth[last] >= 1
    OBVIOUS
  <2>2. nodes[last].prim \in DOMAIN nodes
    BY <1>4, <2>1, SourcesAre
  <2> QED
    BY <1>4, <2>1, <2>2 DEF Deep
<1>8. FirstFolded(nodes, list) = LET highest == IF m <= s THEN s ELSE m
                                IN IF nodes[last].prim = NoNode THEN highest ELSE highest + 1
  BY <1>5 DEF FirstFolded
<1> HIDE DEF m, s, d, last
<1> DEFINE f == FirstFolded(nodes, list)
           e == depth[last]
<1>9. e = d - (m - 1) /\ e \in Nat
  BY <1>4
<1>10. CASE nodes[last].prim = NoNode
  <2>1. e = 0 /\ f = IF m <= s THEN s ELSE m
    BY <1>6, <1>8, <1>10
  <2> HIDE DEF e, f
  <2>2. s < f /\ f - 1 <= d
    BY <1>1, <1>3, <1>9, <2>1
  <2> QED
    BY <2>2 DEF f, s, d
<1>11. CASE nodes[last].prim # NoNode
  <2>1. e >= 1 /\ f = (IF m <= s THEN s ELSE m) + 1
    BY <1>7, <1>8, <1>11
  <2> HIDE DEF e, f
  <2>2. s < f /\ f - 1 <= d
    BY <1>1, <1>3, <1>9, <2>1
  <2> QED
    BY <2>2 DEF f, s, d
<1> QED
  BY <1>10, <1>11

\* The name of a node when the first k of the list have been renamed.
FoldName(list, ids, k, s) ==
    IF \E j \in 1 .. k : s = list[j] THEN ids[CHOOSE j \in 1 .. k : s = list[j]] ELSE s

\* No id is given to a node that is to be renamed later, or to one that keeps its name.
FoldNames(list, ids, kept) ==
    /\ Len(list) \in Nat
    /\ kept \subseteq DOMAIN nodes /\ Closed(nodes, kept)
    /\ \A k \in 1 .. Len(list) : list[k] \in kept /\ ids[k] \in AnyId
    /\ \A a, b \in 1 .. Len(list) : list[a] = list[b] => a = b
    /\ \A a, b \in 1 .. Len(list) : ids[a] = ids[b] => a = b
    /\ \A k \in 1 .. Len(list), x \in kept : x = ids[k] => \E j \in 1 .. k : x = list[j]

\* A node of the list that has been renamed has its new id.
LEMMA FoldNameIs ==
  ASSUME NEW list, NEW ids, NEW kept, FoldNames(list, ids, kept), NEW k \in 0 .. Len(list), NEW s
  PROVE  \/ \E j \in 1 .. k : s = list[j] /\ FoldName(list, ids, k, s) = ids[j]
         \/ (\A j \in 1 .. k : s # list[j]) /\ FoldName(list, ids, k, s) = s
<1>1. CASE \E j \in 1 .. k : s = list[j]
  <2> DEFINE i == CHOOSE j \in 1 .. k : s = list[j]
  <2>1. i \in 1 .. k /\ s = list[i]
    BY <1>1
  <2>2. FoldName(list, ids, k, s) = ids[i]
    BY <1>1 DEF FoldName
  <2> HIDE DEF i
  <2> QED
    BY <2>1, <2>2
<1>2. CASE ~\E j \in 1 .. k : s = list[j]
  BY <1>2 DEF FoldName
<1> QED
  BY <1>1, <1>2

\* With one more of the list renamed, who has its name takes the new one.
LEMMA FoldNameNext ==
  ASSUME Tidy(nodes), NEW list, NEW ids, NEW kept, FoldNames(list, ids, kept), NEW k \in 1 .. Len(list)
  PROVE  /\ \A s \in kept \cup {NoNode} : /\ FoldName(list, ids, k, s) = To(FoldName(list, ids, k - 1, s), list[k], ids[k])
                                          /\ FoldName(list, ids, k, s) \in AnyId \cup {NoNode}
         /\ \A s \in kept : s # list[k] => /\ FoldName(list, ids, k - 1, s) # list[k]
                                           /\ FoldName(list, ids, k, s) = FoldName(list, ids, k - 1, s)
                                           /\ FoldName(list, ids, k, s) # ids[k]
         /\ FoldName(list, ids, k - 1, list[k]) = list[k] /\ FoldName(list, ids, k, list[k]) = ids[k]
         /\ FoldName(list, ids, k, NoNode) = NoNode
<1> DEFINE m == Len(list)
           before(s) == FoldName(list, ids, k - 1, s)
           after(s) == FoldName(list, ids, k, s)
<1>1. /\ m \in Nat /\ kept \subseteq DOMAIN nodes
      /\ \A a \in 1 .. m : list[a] \in kept /\ ids[a] \in AnyId
      /\ \A a, b \in 1 .. m : list[a] = list[b] => a = b
      /\ \A a, b \in 1 .. m : ids[a] = ids[b] => a = b
      /\ \A a \in 1 .. m, x \in kept : x = ids[a] => \E j \in 1 .. a : x = list[j]
  BY DEF FoldNames
<1>2. DOMAIN nodes \subseteq AnyId /\ NoNode \notin DOMAIN nodes
  BY NoNodeIsNone DEF Tidy
<1>3. k \in 1 .. m /\ k \in 0 .. m /\ k - 1 \in 0 .. m
  BY <1>1
<1>4. \A s : \/ \E j \in 1 .. (k - 1) : s = list[j] /\ before(s) = ids[j]
             \/ (\A j \in 1 .. (k - 1) : s # list[j]) /\ before(s) = s
  BY <1>3, FoldNameIs
<1>5. \A s : \/ \E j \in 1 .. k : s = list[j] /\ after(s) = ids[j]
             \/ (\A j \in 1 .. k : s # list[j]) /\ after(s) = s
  BY <1>3, FoldNameIs
<1> HIDE DEF m, before, after
<1>6. \A j : j \in 1 .. (k - 1) <=> j \in 1 .. k /\ j # k
  BY <1>1, <1>3
<1>7. \A j \in 1 .. k : j \in 1 .. m /\ j <= k
  BY <1>1, <1>3
<1>8. before(list[k]) = list[k] /\ after(list[k]) = ids[k]
  <2>1. k \in 1 .. k
    BY <1>1, <1>3
  <2> QED
    BY <1>1, <1>3, <1>4, <1>5, <1>6, <1>7, <2>1
<1>9. ASSUME NEW s \in kept, s # list[k]
      PROVE  before(s) # list[k] /\ after(s) = before(s) /\ after(s) # ids[k] /\ after(s) \in AnyId
  <2>1. CASE \E j \in 1 .. (k - 1) : s = list[j] /\ before(s) = ids[j]
    <3>1. PICK j \in 1 .. (k - 1) : s = list[j] /\ before(s) = ids[j]
      BY <2>1
    <3>2. j \in 1 .. k /\ j # k /\ j \in 1 .. m
      BY <1>6, <1>7, <3>1
    <3>3. after(s) = ids[j]
      BY <1>1, <1>5, <1>7, <3>1, <3>2
    <3>4. ids[j] # list[k]
      <4>1. SUFFICES ASSUME ids[j] = list[k] PROVE FALSE
        OBVIOUS
      <4>2. PICK b \in 1 .. j : list[k] = list[b]
        BY <1>1, <1>3, <3>2, <4>1
      <4>3. b \in 1 .. m /\ b # k
        BY <1>1, <1>3, <3>1, <3>2
      <4> QED
        BY <1>1, <1>3, <4>2, <4>3
    <3> QED
      BY <1>1, <1>3, <3>1, <3>2, <3>3, <3>4
  <2>2. CASE (\A j \in 1 .. (k - 1) : s # list[j]) /\ before(s) = s
    <3>1. \A j \in 1 .. k : s # list[j]
      BY <1>6, <1>9, <2>2
    <3>2. after(s) = s
      BY <1>5, <3>1
    <3> QED
      BY <1>1, <1>2, <1>3, <1>9, <2>2, <3>1, <3>2
  <2> QED
    BY <1>4, <2>1, <2>2
<1>10. before(NoNode) = NoNode /\ after(NoNode) = NoNode /\ NoNode # list[k]
  BY <1>1, <1>2, <1>3, <1>4, <1>5, <1>6, <1>7
<1>11. ASSUME NEW s \in kept \cup {NoNode}
       PROVE  after(s) = To(before(s), list[k], ids[k]) /\ after(s) \in AnyId \cup {NoNode}
  BY <1>1, <1>3, <1>8, <1>9, <1>10 DEF To
<1> QED
  BY <1>8, <1>9, <1>10, <1>11 DEF before, after

\* What is left of a map, when the first k of the list have been renamed.
FoldNode(list, ids, k, x) ==
    [what |-> nodes[x].what, prim |-> FoldName(list, ids, k, nodes[x].prim),
     sec |-> FoldName(list, ids, k, nodes[x].sec)]
FoldedSome(st, W, kept, list, ids, k) ==
    /\ \A x \in kept : /\ FoldName(list, ids, k, x) \in DOMAIN st.g
                       /\ st.g[FoldName(list, ids, k, x)] = FoldNode(list, ids, k, x)
    /\ DOMAIN st.ls = DOMAIN W.ls
    /\ \A q \in DOMAIN W.ls : /\ st.ls[q] \in LayerType
                              /\ st.ls[q].source = FoldName(list, ids, k, W.ls[q].source)
    /\ DOMAIN st.ws = DOMAIN W.ws
    /\ \A w \in DOMAIN W.ws : st.ws[w] = FoldName(list, ids, k, W.ws[w])

\* moveNodeToParentLayer, for one more node of the list.
LEMMA FoldedOne ==
  ASSUME Tidy(nodes), NEW list, NEW ids, NEW kept, FoldNames(list, ids, kept), NEW k \in 1 .. Len(list),
         NEW W, \A q \in DOMAIN W.ls : W.ls[q].source \in kept, \A w \in DOMAIN W.ws : W.ws[w] \in kept,
         NEW st, FoldedSome(st, W, kept, list, ids, k - 1)
  PROVE  FoldedSome(Renamed(st, list[k], ids[k]), W, kept, list, ids, k)
<1> DEFINE old == list[k]
           new == ids[k]
           before(s) == FoldName(list, ids, k - 1, s)
           after(s) == FoldName(list, ids, k, s)
           r == Renamed(st, old, new)
           renamed == [i \in (DOMAIN st.g \ {old}) \cup {new} |-> IF i = new THEN st.g[old] ELSE st.g[i]]
<1>1. /\ \A s \in kept \cup {NoNode} : after(s) = To(before(s), old, new) /\ after(s) \in AnyId \cup {NoNode}
      /\ \A s \in kept : s # old => before(s) # old /\ after(s) = before(s) /\ after(s) # new
      /\ before(old) = old /\ after(old) = new
  BY FoldNameNext
<1>2. /\ \A x \in kept : before(x) \in DOMAIN st.g /\ st.g[before(x)] = FoldNode(list, ids, k - 1, x)
      /\ DOMAIN st.ls = DOMAIN W.ls
      /\ \A q \in DOMAIN W.ls : st.ls[q] \in LayerType /\ st.ls[q].source = before(W.ls[q].source)
      /\ DOMAIN st.ws = DOMAIN W.ws
      /\ \A w \in DOMAIN W.ws : st.ws[w] = before(W.ws[w])
  BY DEF FoldedSome
<1>3. /\ r.g = ChangeSourceIds(renamed, old, new)
      /\ r.ls = [q \in DOMAIN st.ls |-> [st.ls[q] EXCEPT !.source = To(st.ls[q].source, old, new)]]
      /\ r.ws = [w \in DOMAIN st.ws |-> To(st.ws[w], old, new)]
  BY DEF Renamed, RenameNode, To
<1>4. old \in kept /\ kept \subseteq DOMAIN nodes /\ Closed(nodes, kept)
  BY DEF FoldNames
<1>5. DOMAIN renamed = (DOMAIN st.g \ {old}) \cup {new}
      /\ \A i \in (DOMAIN st.g \ {old}) \cup {new} : renamed[i] = IF i = new THEN st.g[old] ELSE st.g[i]
  OBVIOUS
<1> HIDE DEF old, new, before, after, r, renamed
<1>6. ASSUME NEW x \in kept
      PROVE  after(x) \in DOMAIN renamed /\ renamed[after(x)] = FoldNode(list, ids, k - 1, x)
  <2>1. CASE x = old
    BY <1>1, <1>2, <1>5, <2>1
  <2>2. CASE x # old
    BY <1>1, <1>2, <1>5, <2>2
  <2> QED
    BY <2>1, <2>2
<1>7. ASSUME NEW x \in kept
      PROVE  after(x) \in DOMAIN r.g /\ r.g[after(x)] = FoldNode(list, ids, k, x)
  <2>1. /\ nodes[x].prim \in kept \cup {NoNode} /\ nodes[x].sec \in kept \cup {NoNode}
        /\ nodes[x] \in NodeType
    BY <1>4 DEF Closed, Tidy
  <2>2. before(nodes[x].prim) \in AnyId \cup {NoNode} /\ before(nodes[x].sec) \in AnyId \cup {NoNode}
    <3>1. \A s \in kept \cup {NoNode} : before(s) \in AnyId \cup {NoNode}
      <4>1. SUFFICES ASSUME NEW s \in kept \cup {NoNode} PROVE before(s) \in AnyId \cup {NoNode}
        OBVIOUS
      <4>2. CASE before(s) = old
        BY <1>4, <4>2 DEF Tidy
      <4>3. CASE before(s) # old
        BY <1>1, <4>3 DEF To
      <4> QED
        BY <4>2, <4>3
    <3> QED
      BY <2>1, <3>1
  <2> DEFINE node == FoldNode(list, ids, k - 1, x)
  <2>3. node = [what |-> nodes[x].what, prim |-> before(nodes[x].prim), sec |-> before(nodes[x].sec)]
    BY DEF FoldNode, before
  <2>4. node \in NodeType
    BY <2>1, <2>2, <2>3 DEF NodeType
  <2>6. /\ To(node.prim, old, new) = after(nodes[x].prim) /\ To(node.sec, old, new) = after(nodes[x].sec)
        /\ node.what = nodes[x].what
    BY <1>1, <2>1, <2>3
  <2> DEFINE id == after(x)
             rg == r.g
  <2>7. id \in DOMAIN renamed /\ renamed[id] = node /\ rg = ChangeSourceIds(renamed, old, new)
    BY <1>3, <1>6
  <2> HIDE DEF node, id, rg
  <2>8. /\ ChangeSourceIds(renamed, old, new)[id] =
              [what |-> renamed[id].what, prim |-> To(renamed[id].prim, old, new),
               sec |-> To(renamed[id].sec, old, new)]
        /\ DOMAIN ChangeSourceIds(renamed, old, new) = DOMAIN renamed
    BY <2>4, <2>7, Retargeted
  <2>5. /\ rg[id] = [what |-> node.what, prim |-> To(node.prim, old, new), sec |-> To(node.sec, old, new)]
        /\ id \in DOMAIN rg
    BY <2>7, <2>8
  <2>9. FoldNode(list, ids, k, x) =
           [what |-> nodes[x].what, prim |-> after(nodes[x].prim), sec |-> after(nodes[x].sec)]
    BY DEF FoldNode, after
  <2> QED
    BY <2>5, <2>6, <2>9 DEF rg, id
<1>8. ASSUME NEW q \in DOMAIN W.ls
      PROVE  r.ls[q] \in LayerType /\ r.ls[q].source = after(W.ls[q].source)
  <2> DEFINE layer == st.ls[q]
             source == To(st.ls[q].source, old, new)
  <2>1. layer \in LayerType /\ r.ls[q] = [layer EXCEPT !.source = source]
    BY <1>2, <1>3
  <2>2. source = after(W.ls[q].source)
    BY <1>1, <1>2
  <2>3. source \in AnyId
    <3>1. layer.source \in AnyId /\ new \in AnyId
      BY <2>1 DEF LayerType, FoldNames, new
    <3> QED
      BY <3>1 DEF To
  <2> HIDE DEF layer, source
  <2> QED
    BY <2>1, <2>2, <2>3 DEF LayerType
<1>9. DOMAIN r.ls = DOMAIN W.ls /\ DOMAIN r.ws = DOMAIN W.ws
  BY <1>2, <1>3
<1>10. ASSUME NEW w \in DOMAIN W.ws PROVE r.ws[w] = after(W.ws[w])
  BY <1>1, <1>2, <1>3
<1>11. FoldedSome(r, W, kept, list, ids, k)
  BY <1>7, <1>8, <1>9, <1>10 DEF FoldedSome, after
<1> QED
  BY <1>11 DEF r, old, new

\* All of the list, from its first node down.
LEMMA FoldedAll ==
  ASSUME Tidy(nodes), NEW list, NEW ids, NEW kept, FoldNames(list, ids, kept),
         NEW W, \A q \in DOMAIN W.ls : W.ls[q].source \in kept, \A w \in DOMAIN W.ws : W.ws[w] \in kept,
         \A q \in DOMAIN W.ls : W.ls[q] \in LayerType,
         \A x \in kept : x \in DOMAIN W.g /\ W.g[x] = nodes[x],
         NEW order, DOMAIN order = 1 .. Len(list), \A k \in 1 .. Len(list) : order[k] = k
  PROVE  FoldedSome(Renames(W, list, ids, order), W, kept, list, ids, Len(list))
<1> DEFINE m == Len(list)
           Good(st, k) == FoldedSome(st, W, kept, list, ids, k)
<1>1. m \in Nat
  BY DEF FoldNames
<1>2. PICK f : RenameSteps(f, W, list, ids, order, m)
  BY <1>1, FoldRenamed
<1>3. /\ f[0] = W
      /\ \A k \in 1 .. m : f[k] = Renamed(f[k - 1], list[k], ids[k])
      /\ f[m] = Renames(W, list, ids, order)
  BY <1>2 DEF RenameSteps
<1> DEFINE T == {n \in Nat : n <= m => Good(f[n], n)}
<1>4. 0 \in T
  <2>1. \A s : FoldName(list, ids, 0, s) = s
    BY DEF FoldName
  <2>2. ASSUME NEW x \in kept PROVE FoldNode(list, ids, 0, x) = nodes[x]
    <3>1. nodes[x] \in NodeType
      BY DEF FoldNames, Tidy
    <3> QED
      BY <2>1, <3>1 DEF FoldNode, NodeType
  <2>3. Good(W, 0)
    BY <2>1, <2>2 DEF FoldedSome
  <2> QED
    BY <1>3, <2>3
<1>5. ASSUME NEW n \in Nat, n \in T PROVE n + 1 \in T
  <2>1. SUFFICES ASSUME n + 1 <= m PROVE Good(f[n + 1], n + 1)
    OBVIOUS
  <2>2. n + 1 \in 1 .. m /\ (n + 1) - 1 = n /\ Good(f[n], n)
    BY <1>1, <1>5, <2>1
  <2>3. f[n + 1] = Renamed(f[n], list[n + 1], ids[n + 1])
    BY <1>3, <2>2
  <2>4. FoldedSome(Renamed(f[n], list[n + 1], ids[n + 1]), W, kept, list, ids, n + 1)
    BY <2>2, FoldedOne
  <2> QED
    BY <2>3, <2>4
<1> HIDE DEF Good
<1>6. m \in T
  <2> HIDE DEF T
  <2> QED
    BY <1>1, <1>4, <1>5, NatSet
<1>7. Good(f[m], m)
  BY <1>1, <1>6
<1> QED
  BY <1>3, <1>7 DEF Good

\* The ids that the list takes: those of the letter, one lower each, from a number
\* over that of the first node, but under the way from it to the table.
FoldIds(list, ids, letter, start) ==
    /\ start \in Nat /\ start >= Len(list) /\ Sequence(list[1]) < start
    /\ \A k \in 1 .. Len(list) : ids[k] = Id(letter, start - k)

OneLetter(list, ids, letter) == \A k \in 1 .. Len(list) : Letter(ids[k]) = letter

\* The number of a node that waits is not given away.
LEMMA FoldNamed ==
  ASSUME Layered, LayersStand, Numbered(nodes), NEW p \in Positions, NEW n \in 0 .. Len(OwnNodes(p)),
         NEW parent, NEW list, Folds(list, p, n, parent), NEW start, NEW ids,
         FoldIds(list, ids, layers[parent].letter, start)
  PROVE  FoldNames(list, ids, Spared(p, n)) /\ OneLetter(list, ids, layers[parent].letter)
<1> DEFINE m == Len(list)
           kept == Spared(p, n)
           letter == layers[parent].letter
           first == Sequence(list[1])
<1>1. /\ Linked(list) /\ parent \in Positions
      /\ \A k \in 1 .. m : list[k] \in kept
      /\ \A x \in kept : Owns(layers[parent], x) => \E k \in 1 .. m : list[k] = x
      /\ first \in Nat
      /\ \A k \in 1 .. m : Owns(layers[parent], list[k]) =>
            Sequence(list[k]) \in Nat /\ Sequence(list[k]) <= first - (k - 1)
  BY DEF Folds
<1>2. m \in Nat
  BY <1>1 DEF Linked
<1>3. Closed(nodes, kept) /\ kept \subseteq DOMAIN nodes
  BY SparedNodes
<1>4. letter \in 1 .. MaxLetter
  BY <1>1, LayersAre
<1>5. \A a, b \in 1 .. m : list[a] = list[b] => a = b
  <2>1. PICK depth \in [DOMAIN nodes -> Nat] : Deep(nodes, depth)
    BY DEF Numbered
  <2> QED
    BY <1>1, <2>1, LinkedDepth DEF LayersStand
<1>6. /\ start \in Nat /\ start >= m /\ first < start
      /\ \A k \in 1 .. m : ids[k] = Id(letter, start - k)
  BY DEF FoldIds
<1> HIDE DEF m, kept, letter, first
<1>7. ASSUME NEW k \in 1 .. m
      PROVE  start - k \in Nat /\ ids[k] \in AnyId /\ Letter(ids[k]) = letter /\ Sequence(ids[k]) = start - k
  <2>1. start - k \in Nat
    BY <1>2, <1>6
  <2> DEFINE s == start - k
  <2>2. s \in Nat /\ ids[k] = Id(letter, s)
    BY <1>6, <2>1
  <2> HIDE DEF s
  <2>3. ids[k] \in AnyId /\ Letter(ids[k]) = letter
    BY <1>4, <2>2, NewIds
  <2>4. Sequence(ids[k]) = s
    BY <2>2 DEF Id, Sequence
  <2> QED
    BY <2>1, <2>3, <2>4 DEF s
<1>8. ASSUME NEW a \in 1 .. m, NEW b \in 1 .. m, ids[a] = ids[b] PROVE a = b
  <2>1. start - a = start - b
    BY <1>7, <1>8
  <2>2. a \in Nat /\ b \in Nat /\ start \in Nat
    BY <1>2, <1>6
  <2> QED
    BY <2>1, <2>2
<1>9. ASSUME NEW k \in 1 .. m, NEW x \in kept, x = ids[k] PROVE \E j \in 1 .. k : x = list[j]
  <2>1. Owns(layers[parent], x)
    BY <1>7, <1>9 DEF Owns, letter
  <2>2. PICK j \in 1 .. m : list[j] = x
    BY <1>1, <2>1
  <2>3. Sequence(x) = start - k /\ Sequence(x) <= first - (j - 1)
    BY <1>1, <1>7, <1>9, <2>1, <2>2
  <2>4. j \in Nat /\ k \in Nat /\ j >= 1
    BY <1>2
  <2> DEFINE s == Sequence(x)
  <2>5. s = start - k /\ s <= first - (j - 1) /\ s \in Nat
    BY <1>7, <2>3
  <2> HIDE DEF s
  <2>6. j <= k
    BY <1>1, <1>6, <2>4, <2>5
  <2>7. j \in 1 .. k
    BY <2>4, <2>6
  <2> QED
    BY <2>2, <2>7
<1>10. FoldNames(list, ids, kept)
  BY <1>1, <1>2, <1>3, <1>5, <1>7, <1>8, <1>9 DEF FoldNames, m
<1>11. OneLetter(list, ids, letter)
  BY <1>7 DEF OneLetter, m
<1> QED
  BY <1>10, <1>11 DEF kept, letter

\* The names after the fold.
Fold(list, ids, kept) == [x \in kept |-> FoldName(list, ids, Len(list), x)]

\* The nodes of the list have the new ids, the others the name they had.
LEMMA FoldIs ==
  ASSUME NEW list, NEW ids, NEW kept, FoldNames(list, ids, kept), NEW x \in kept
  PROVE  \/ \E j \in 1 .. Len(list) : x = list[j] /\ Fold(list, ids, kept)[x] = ids[j]
         \/ (\A j \in 1 .. Len(list) : x # list[j]) /\ Fold(list, ids, kept)[x] = x
<1>1. Len(list) \in 0 .. Len(list)
  <2>1. Len(list) \in Nat
    BY DEF FoldNames
  <2> QED
    BY <2>1
<1>2. Fold(list, ids, kept)[x] = FoldName(list, ids, Len(list), x)
  BY DEF Fold
<1>3. \/ \E j \in 1 .. Len(list) : x = list[j] /\ FoldName(list, ids, Len(list), x) = ids[j]
      \/ (\A j \in 1 .. Len(list) : x # list[j]) /\ FoldName(list, ids, Len(list), x) = x
  BY <1>1, FoldNameIs
<1> QED
  BY <1>2, <1>3

\* The new id of a node of the list.
LEMMA FoldOfList ==
  ASSUME NEW list, NEW ids, NEW kept, FoldNames(list, ids, kept), NEW j \in 1 .. Len(list)
  PROVE  Fold(list, ids, kept)[list[j]] = ids[j]
<1>1. list[j] \in kept
  BY DEF FoldNames
<1>2. PICK i \in 1 .. Len(list) : list[j] = list[i] /\ Fold(list, ids, kept)[list[j]] = ids[i]
  BY <1>1, FoldIs
<1>3. i = j
  BY <1>2 DEF FoldNames
<1> QED
  BY <1>2, <1>3

\* The nodes under the new names are as they were.
LEMMA FoldCopied ==
  ASSUME Tidy(nodes), NEW list, NEW ids, NEW kept, FoldNames(list, ids, kept), NEW W, NEW moved,
         FoldedSome(moved, W, kept, list, ids, Len(list))
  PROVE  Copied(nodes, kept, Fold(list, ids, kept), moved.g)
<1> DEFINE m == Len(list)
           sigma == Fold(list, ids, kept)
<1>1. /\ m \in Nat /\ kept \subseteq DOMAIN nodes /\ Closed(nodes, kept)
      /\ \A k \in 1 .. m : list[k] \in kept /\ ids[k] \in AnyId
      /\ \A a, b \in 1 .. m : ids[a] = ids[b] => a = b
      /\ \A k \in 1 .. m, x \in kept : x = ids[k] => \E j \in 1 .. k : x = list[j]
  BY DEF FoldNames
<1>2. \A x \in kept : sigma[x] = FoldName(list, ids, m, x)
  BY DEF Fold
<1>3. \A x \in kept : \/ \E j \in 1 .. m : x = list[j] /\ sigma[x] = ids[j]
                      \/ (\A j \in 1 .. m : x # list[j]) /\ sigma[x] = x
  BY FoldIs
<1>4. DOMAIN nodes \subseteq AnyId /\ NoNode \notin DOMAIN nodes
  BY NoNodeIsNone DEF Tidy
<1>5. sigma \in [kept -> AnyId]
  <2>1. \A x \in kept : sigma[x] \in AnyId
    BY <1>1, <1>3, <1>4
  <2>2. sigma = [x \in kept |-> sigma[x]]
    BY DEF Fold
  <2> HIDE DEF sigma
  <2> QED
    BY <2>1, <2>2
<1>6. \A x \in kept : FoldName(list, ids, m, x) \in DOMAIN moved.g
                      /\ moved.g[FoldName(list, ids, m, x)] = FoldNode(list, ids, m, x)
  BY DEF FoldedSome
<1>7. FoldName(list, ids, m, NoNode) = NoNode
  BY <1>1, <1>4 DEF FoldName
<1> DEFINE g == moved.g
<1>8. \A x \in kept : sigma[x] \in DOMAIN g /\ g[sigma[x]] = FoldNode(list, ids, m, x)
  BY <1>2, <1>6
<1> HIDE DEF sigma, m, g
<1>9. ASSUME NEW x \in kept, NEW y \in kept, sigma[x] = sigma[y] PROVE x = y
  <2>1. ASSUME NEW a \in kept, NEW b \in kept, NEW i \in 1 .. m, a = list[i], sigma[a] = ids[i], sigma[b] = b
        PROVE  sigma[a] # sigma[b] \/ \E j \in 1 .. m : b = list[j]
    <3>1. SUFFICES ASSUME b = ids[i] PROVE \E j \in 1 .. m : b = list[j]
      BY <2>1
    <3>2. PICK j \in 1 .. i : b = list[j]
      BY <1>1, <3>1
    <3>3. j \in 1 .. m
      BY <1>1
    <3> QED
      BY <3>2, <3>3
  <2>2. CASE \E i \in 1 .. m : x = list[i] /\ sigma[x] = ids[i]
    <3>1. PICK i \in 1 .. m : x = list[i] /\ sigma[x] = ids[i]
      BY <2>2
    <3>2. \E j \in 1 .. m : y = list[j] /\ sigma[y] = ids[j]
      BY <1>3, <1>9, <2>1, <3>1
    <3> QED
      BY <1>1, <1>9, <3>1, <3>2
  <2>3. CASE (\A i \in 1 .. m : x # list[i]) /\ sigma[x] = x
    <3>1. CASE \E j \in 1 .. m : y = list[j] /\ sigma[y] = ids[j]
      BY <1>9, <2>1, <2>3, <3>1
    <3>2. CASE sigma[y] = y
      BY <1>9, <2>3, <3>2
    <3> QED
      BY <1>3, <3>1, <3>2
  <2> QED
    BY <1>3, <2>2, <2>3
<1>10. ASSUME NEW s \in kept \cup {NoNode} PROVE Name(sigma, s) = FoldName(list, ids, m, s)
  BY <1>1, <1>2, <1>4, <1>7 DEF Name
<1>11. ASSUME NEW x \in kept
       PROVE  FoldNode(list, ids, m, x) =
                 [what |-> nodes[x].what, prim |-> Name(sigma, nodes[x].prim), sec |-> Name(sigma, nodes[x].sec)]
  <2>1. nodes[x].prim \in kept \cup {NoNode} /\ nodes[x].sec \in kept \cup {NoNode}
    BY <1>1 DEF Closed
  <2>2. /\ Name(sigma, nodes[x].prim) = FoldName(list, ids, m, nodes[x].prim)
        /\ Name(sigma, nodes[x].sec) = FoldName(list, ids, m, nodes[x].sec)
    BY <1>10, <2>1
  <2> QED
    BY <2>2 DEF FoldNode
<1>12. Copied(nodes, kept, sigma, g)
  BY <1>1, <1>5, <1>8, <1>9, <1>11 DEF Copied
<1> QED
  BY <1>12 DEF sigma, g

\* The new numbers get lower down the letter.
LEMMA FoldLowered ==
  ASSUME Layered, LayersStand, Numbered(nodes), NEW p \in Positions, NEW n \in 0 .. Len(OwnNodes(p)),
         NEW parent, NEW list, Folds(list, p, n, parent), NEW start, NEW ids,
         FoldIds(list, ids, layers[parent].letter, start)
  PROVE  Lowered(nodes, Spared(p, n), Fold(list, ids, Spared(p, n)))
<1> DEFINE m == Len(list)
           kept == Spared(p, n)
           letter == layers[parent].letter
           sigma == Fold(list, ids, kept)
<1>0. FoldNames(list, ids, kept) /\ OneLetter(list, ids, letter)
  BY FoldNamed
<1>1. FoldNames(list, ids, kept) /\ \A k \in 1 .. m : Letter(ids[k]) = letter
  BY <1>0 DEF OneLetter
<1>2. /\ Linked(list)
      /\ \A x \in kept : letter = Letter(x) => \E k \in 1 .. m : list[k] = x
  BY DEF Folds, Owns
<1>3. m \in Nat /\ \A k \in 1 .. m : list[k] \in DOMAIN nodes
  BY <1>2 DEF Linked
<1>4. \A x \in kept : \/ \E j \in 1 .. m : x = list[j] /\ sigma[x] = ids[j]
                      \/ (\A j \in 1 .. m : x # list[j]) /\ sigma[x] = x
  BY <1>1, FoldIs
<1>5. PICK depth \in [DOMAIN nodes -> Nat] : Deep(nodes, depth)
  BY DEF Numbered
<1>6. /\ \A k \in 1 .. m : depth[list[k]] = depth[list[1]] - (k - 1)
      /\ \A a, b \in 1 .. m : list[a] = list[b] => a = b
  BY <1>2, <1>5, LinkedDepth DEF LayersStand
<1>7. Closed(nodes, kept) /\ kept \subseteq DOMAIN nodes
  BY <1>1 DEF FoldNames
<1>8. start \in Nat /\ start >= m /\ \A k \in 1 .. m : Sequence(ids[k]) = start - k
  BY DEF FoldIds, Id, Sequence
<1>9. NoNode \notin DOMAIN nodes /\ Tidy(nodes)
  BY NoNodeIsNone DEF LayersStand, Tidy
<1> HIDE DEF m, kept, letter, sigma
<1>10. SUFFICES ASSUME NEW x \in kept, Letter(sigma[x]) \in 1 .. MaxLetter, nodes[x].prim # NoNode,
                       Letter(sigma[nodes[x].prim]) = Letter(sigma[x])
                PROVE  Sequence(sigma[nodes[x].prim]) < Sequence(sigma[x])
  BY DEF Lowered, sigma, kept
<1> DEFINE y == nodes[x].prim
<1>11. y \in kept /\ y \in DOMAIN nodes /\ x \in DOMAIN nodes
  BY <1>7, <1>10 DEF Closed
<1>12. depth[x] = depth[y] + 1
  BY <1>5, <1>10, <1>11 DEF Deep
<1> HIDE DEF y
<1>13. Letter(sigma[y]) = Letter(sigma[x])
  BY <1>10 DEF y
<1>14. CASE \E j \in 1 .. m : x = list[j] /\ sigma[x] = ids[j]
  <2>1. PICK j \in 1 .. m : x = list[j] /\ sigma[x] = ids[j]
    BY <1>14
  <2>2. Letter(sigma[y]) = letter
    BY <1>1, <1>13, <2>1 DEF m
  <2>3. PICK k \in 1 .. m : y = list[k] /\ sigma[y] = ids[k]
    BY <1>2, <1>4, <1>11, <2>2
  <2> DEFINE dx == depth[x]
             dy == depth[y]
             d == depth[list[1]]
  <2>4. dx = dy + 1 /\ dx = d - (j - 1) /\ dy = d - (k - 1) /\ dx \in Nat /\ dy \in Nat /\ d \in Nat
    <3>1. 1 \in 1 .. m
      BY <1>3
    <3> QED
      BY <1>3, <1>6, <1>11, <1>12, <2>1, <2>3, <3>1
  <2>5. Sequence(sigma[x]) = start - j /\ Sequence(sigma[y]) = start - k
    BY <1>8, <2>1, <2>3
  <2> HIDE DEF dx, dy, d
  <2>6. j \in Nat /\ k \in Nat
    BY <1>3
  <2>7. k = j + 1
    BY <2>4, <2>6
  <2>8. start - k < start - j
    BY <1>8, <2>6, <2>7
  <2> QED
    BY <2>5, <2>8 DEF y
<1>15. CASE (\A j \in 1 .. m : x # list[j]) /\ sigma[x] = x
  <2>1. Letter(x) # letter
    BY <1>2, <1>15
  <2>2. sigma[y] = y
    <3>1. CASE \E k \in 1 .. m : y = list[k] /\ sigma[y] = ids[k]
      BY <1>1, <1>13, <1>15, <2>1, <3>1 DEF m
    <3> QED
      BY <1>4, <1>11, <3>1
  <2>3. Letter(x) \in 1 .. MaxLetter /\ Letter(y) = Letter(x)
    BY <1>10, <1>13, <1>15, <2>2
  <2>4. Sequence(y) < Sequence(x)
    BY <1>9, <1>10, <1>11, <2>3 DEF Tidy, Descends, y
  <2> QED
    BY <1>15, <2>2, <2>4 DEF y
<1> QED
  BY <1>4, <1>14, <1>15

\* The layers after the fold: those that are left, each on what it was on.
FoldLayers(ls, p, n, sigma) ==
    \A r \in DOMAIN ls : \E s \in Positions :
        /\ s # p /\ s \notin BuiltOn(p, n) /\ layers[s].source \in Spared(p, n)
        /\ ls[r].lid = layers[s].lid /\ ls[r].letter = layers[s].letter
        /\ ls[r].source = sigma[layers[s].source]

\* The layer that takes the nodes has all of the list, the others what they had.
LEMMA FoldLed ==
  ASSUME Layered, LayersStand, Numbered(nodes), NEW p \in Positions, NEW n \in 0 .. Len(OwnNodes(p)),
         NEW parent, NEW list, Folds(list, p, n, parent), NEW start, NEW ids,
         FoldIds(list, ids, layers[parent].letter, start),
         NEW ls, FoldLayers(ls, p, n, Fold(list, ids, Spared(p, n)))
  PROVE  Led(nodes, Spared(p, n), Fold(list, ids, Spared(p, n)), ls)
<1> DEFINE m == Len(list)
           kept == Spared(p, n)
           letter == layers[parent].letter
           sigma == Fold(list, ids, kept)
<1>0. FoldNames(list, ids, kept) /\ OneLetter(list, ids, letter)
  BY FoldNamed
<1>1. FoldNames(list, ids, kept) /\ \A k \in 1 .. m : Letter(ids[k]) = letter
  BY <1>0 DEF OneLetter
<1>2. /\ Linked(list) /\ parent \in Positions /\ list[1] = layers[parent].source
      /\ \A x \in kept : letter = Letter(x) => \E k \in 1 .. m : list[k] = x
      /\ \A k \in 1 .. m : /\ list[k] \in kept
                           /\ letter = Letter(list[k]) \/ layers[p].letter = Letter(list[k])
  BY DEF Folds, Owns
<1>3. m \in Nat /\ \A k \in 1 .. (m - 1) : nodes[list[k]].prim = list[k + 1]
  BY <1>2 DEF Linked
<1>4. \A x \in kept : \/ \E j \in 1 .. m : x = list[j] /\ sigma[x] = ids[j]
                      \/ (\A j \in 1 .. m : x # list[j]) /\ sigma[x] = x
  BY <1>1, FoldIs
<1>5. kept \subseteq DOMAIN nodes
  BY <1>1 DEF FoldNames
<1>6. \A j \in 1 .. m : sigma[list[j]] = ids[j]
  BY <1>1, FoldOfList
<1> HIDE DEF m, kept, letter, sigma
<1>7. SUFFICES ASSUME NEW r \in DOMAIN ls, NEW x \in kept, Owns(ls[r], sigma[x])
               PROVE  sigma[x] = ls[r].source
                        \/ \E y \in kept : Letter(sigma[y]) = Letter(sigma[x]) /\ nodes[y].prim = x
  BY DEF Led, kept, sigma
<1>8. PICK s \in Positions : /\ s # p /\ s \notin BuiltOn(p, n) /\ layers[s].source \in kept
                             /\ ls[r].letter = layers[s].letter /\ ls[r].source = sigma[layers[s].source]
  BY DEF FoldLayers, kept, sigma
<1>9. Letter(sigma[x]) = layers[s].letter
  BY <1>7, <1>8 DEF Owns
<1>10. \A a, b \in Positions : a # b => layers[a].letter # layers[b].letter
  BY DEF Layered, Apart, Positions
<1>11. CASE s = parent
  <2>1. PICK j \in 1 .. m : x = list[j] /\ sigma[x] = ids[j]
    BY <1>2, <1>4, <1>9, <1>11 DEF letter
  <2>2. CASE j = 1
    BY <1>2, <1>8, <1>11, <2>1, <2>2
  <2>3. CASE j # 1
    <3>1. j - 1 \in 1 .. m /\ j - 1 \in 1 .. (m - 1) /\ (j - 1) + 1 = j
      BY <1>3, <2>3
    <3>2. nodes[list[j - 1]].prim = x /\ list[j - 1] \in kept
      BY <1>2, <1>3, <2>1, <3>1
    <3>3. sigma[list[j - 1]] = ids[j - 1] /\ Letter(ids[j - 1]) = letter
      BY <1>1, <1>6, <3>1 DEF m
    <3> QED
      BY <1>9, <1>11, <3>2, <3>3 DEF letter
  <2> QED
    BY <2>2, <2>3
<1>12. CASE s # parent
  <2>1. layers[s].letter # letter /\ layers[s].letter # layers[p].letter
    BY <1>2, <1>8, <1>10, <1>12 DEF letter
  <2>2. sigma[x] = x
    BY <1>1, <1>4, <1>9, <2>1 DEF m
  <2>3. Owns(layers[s], x) /\ x \in DOMAIN nodes
    BY <1>5, <1>9, <2>2 DEF Owns
  <2>4. CASE x = layers[s].source
    BY <1>8, <2>4
  <2>5. CASE x # layers[s].source
    <3>1. PICK y \in kept : Letter(y) = Letter(x) /\ nodes[y].prim = x
      BY <1>8, <2>3, <2>5, SparedHeaded DEF kept
    <3>2. \A k \in 1 .. m : y # list[k]
      BY <1>2, <1>9, <2>1, <2>2, <3>1
    <3>3. sigma[y] = y
      BY <1>4, <3>2
    <3> QED
      BY <2>2, <3>1, <3>3
  <2> QED
    BY <2>4, <2>5
<1> QED
  BY <1>11, <1>12

\* The new numbers are not greater than the way to the table.
LEMMA FoldNumbers ==
  ASSUME Layered, LayersStand, Numbered(nodes), NEW p \in Positions, NEW n \in 0 .. Len(OwnNodes(p)),
         NEW parent, NEW list, Folds(list, p, n, parent), NEW ids,
         FoldIds(list, ids, layers[parent].letter, FirstFolded(nodes, list))
  PROVE  NumbersFollow(Spared(p, n), Fold(list, ids, Spared(p, n)))
<1> DEFINE m == Len(list)
           kept == Spared(p, n)
           sigma == Fold(list, ids, kept)
           start == FirstFolded(nodes, list)
<1>1. FoldNames(list, ids, kept)
  BY FoldNamed
<1>2. /\ Linked(list) /\ parent \in Positions /\ Sequence(list[1]) \in Nat
      /\ \A k \in 1 .. m : Owns(layers[parent], list[k]) \/ Owns(layers[p], list[k])
  BY DEF Folds
<1>3. m \in Nat /\ m >= 1
  BY <1>2 DEF Linked
<1>4. \A x \in kept : \/ \E j \in 1 .. m : x = list[j] /\ sigma[x] = ids[j]
                      \/ (\A j \in 1 .. m : x # list[j]) /\ sigma[x] = x
  BY <1>1, FoldIs
<1>5. kept \subseteq DOMAIN nodes
  BY <1>1 DEF FoldNames
<1>6. start \in Nat /\ \A k \in 1 .. m : Sequence(ids[k]) = start - k
  BY DEF FoldIds, Id, Sequence
<1>7. Letter(list[1]) \in 1 .. MaxLetter
  <2>1. 1 \in 1 .. m
    BY <1>3
  <2>2. layers[parent].letter \in 1 .. MaxLetter /\ layers[p].letter \in 1 .. MaxLetter
    BY <1>2, LayersAre
  <2> QED
    BY <1>2, <2>1, <2>2 DEF Owns
<1> HIDE DEF kept, sigma
<1>8. SUFFICES ASSUME NEW depth \in [DOMAIN nodes -> Nat], Deep(nodes, depth), NEW x \in kept,
                      Letter(sigma[x]) \in 1 .. MaxLetter
               PROVE  Sequence(sigma[x]) <= depth[x]
  BY DEF NumbersFollow, kept, sigma
<1>9. start - 1 <= depth[list[1]]
  BY <1>2, <1>7, <1>8, FoldStarts DEF Numbered, LayersStand
<1>10. \A k \in 1 .. m : depth[list[k]] = depth[list[1]] - (k - 1)
  BY <1>2, <1>8, LinkedDepth DEF LayersStand
<1>d. depth[list[1]] \in Nat
  <2>1. list[1] \in DOMAIN nodes
    <3>1. 1 \in 1 .. m
      BY <1>3
    <3> QED
      BY <1>2, <3>1 DEF Linked
  <2> QED
    BY <2>1
<1> HIDE DEF start, m
<1>11. CASE \E j \in 1 .. m : x = list[j] /\ sigma[x] = ids[j]
  <2>1. PICK j \in 1 .. m : x = list[j] /\ sigma[x] = ids[j]
    BY <1>11
  <2> DEFINE d == depth[list[1]]
  <2>2. Sequence(sigma[x]) = start - j /\ depth[x] = d - (j - 1) /\ start - 1 <= d /\ d \in Nat
    BY <1>6, <1>9, <1>10, <1>d, <2>1
  <2> HIDE DEF d
  <2>3. start - j <= d - (j - 1)
    BY <1>3, <1>6, <2>2
  <2> QED
    BY <2>2, <2>3
<1>12. CASE sigma[x] = x
  BY <1>5, <1>8, <1>12 DEF Deep
<1> QED
  BY <1>4, <1>11, <1>12

\* The ids that the code gives are these.
LEMMA FoldIdsDown ==
  ASSUME Layered, LayersStand, Numbered(nodes), NEW p \in Positions, NEW n, NEW parent, NEW list,
         Folds(list, p, n, parent), NEW letter
  PROVE  FoldIds(list, FoldedIds(nodes, list, letter), letter, FirstFolded(nodes, list))
<1>1. /\ Linked(list) /\ Sequence(list[1]) \in Nat /\ parent \in Positions
      /\ \A k \in 1 .. Len(list) : Owns(layers[parent], list[k]) \/ Owns(layers[p], list[k])
  BY DEF Folds
<1>2. list \in Seq(DOMAIN nodes) /\ Len(list) \in Nat /\ Len(list) >= 1 /\ DOMAIN list = 1 .. Len(list)
  BY <1>1 DEF Linked
<1>3. Letter(list[1]) \in 1 .. MaxLetter
  <2>1. 1 \in 1 .. Len(list)
    BY <1>2
  <2>2. layers[parent].letter \in 1 .. MaxLetter /\ layers[p].letter \in 1 .. MaxLetter
    BY <1>1, LayersAre
  <2> QED
    BY <1>1, <2>1, <2>2 DEF Owns
<1>4. /\ FirstFolded(nodes, list) \in Nat /\ FirstFolded(nodes, list) >= Len(list)
      /\ \A k \in 1 .. Len(list) : FoldedIds(nodes, list, letter)[k] = Id(letter, FirstFolded(nodes, list) - k)
  BY <1>1, <1>2, FoldedDown
<1>5. Sequence(list[1]) < FirstFolded(nodes, list)
  <2>1. PICK depth \in [DOMAIN nodes -> Nat] : Deep(nodes, depth)
    BY DEF Numbered
  <2> QED
    BY <1>1, <1>3, <2>1, FoldStarts DEF Numbered, LayersStand
<1> QED
  BY <1>4, <1>5 DEF FoldIds

\* What is left of a map, with the nodes of the list renamed and the layer that takes them.
FoldedTo(moved, ls, list, p, n, parent) ==
    /\ moved = Renames(Without(p, n), list, FoldedIds(nodes, list, layers[parent].letter),
                       [k \in DOMAIN list |-> k])
    /\ \E q \in DOMAIN moved.ls :
          /\ moved.ls[q].lid = layers[parent].lid
          /\ ls = [moved.ls EXCEPT ![q].source = FoldedIds(nodes, list, layers[parent].letter)[1]]
    /\ \E hs : EndWithout(moved.g, ls, hs)
    /\ widgets' = moved.ws

\* What the action does, in these words.
LEMMA FoldUnderIs ==
  ASSUME NEW p, NEW n, NEW parent, FoldUnder(p, n, parent)
  PROVE  \E moved, ls :
           FoldedTo(moved, ls, OwnNodes(parent) \o LinkedListBySameLetter(nodes, OwnNodes(p)[n + 1]), p, n, parent)
<1> DEFINE above == OwnNodes(parent)
           below == LinkedListBySameLetter(nodes, OwnNodes(p)[n + 1])
           letter == layers[parent].letter
           W == Without(p, n)
<1>a. \E list \in {above \o below} :
      \E ids \in {FoldedIds(nodes, list, letter)} :
      \E moved \in {Renames(W, list, ids, [k \in DOMAIN list |-> k])} :
      \E q \in DOMAIN moved.ls :
         /\ moved.ls[q].lid = layers[parent].lid
         /\ \E ls \in {[moved.ls EXCEPT ![q].source = ids[1]]} :
              EndWithout(moved.g, ls, SaveAnalysis(moved.g, moved.as, ls[q]))
         /\ widgets' = moved.ws
  BY Zenon DEF FoldUnder, Renames
<1>b. PICK list \in {above \o below} :
      \E ids \in {FoldedIds(nodes, list, letter)} :
      \E moved \in {Renames(W, list, ids, [k \in DOMAIN list |-> k])} :
      \E q \in DOMAIN moved.ls :
         /\ moved.ls[q].lid = layers[parent].lid
         /\ \E ls \in {[moved.ls EXCEPT ![q].source = ids[1]]} :
              EndWithout(moved.g, ls, SaveAnalysis(moved.g, moved.as, ls[q]))
         /\ widgets' = moved.ws
  BY <1>a
<1>c. PICK ids \in {FoldedIds(nodes, list, letter)} :
      \E moved \in {Renames(W, list, ids, [k \in DOMAIN list |-> k])} :
      \E q \in DOMAIN moved.ls :
         /\ moved.ls[q].lid = layers[parent].lid
         /\ \E ls \in {[moved.ls EXCEPT ![q].source = ids[1]]} :
              EndWithout(moved.g, ls, SaveAnalysis(moved.g, moved.as, ls[q]))
         /\ widgets' = moved.ws
  BY <1>b
<1>d. PICK moved \in {Renames(W, list, ids, [k \in DOMAIN list |-> k])} :
      \E q \in DOMAIN moved.ls :
         /\ moved.ls[q].lid = layers[parent].lid
         /\ \E ls \in {[moved.ls EXCEPT ![q].source = ids[1]]} :
              EndWithout(moved.g, ls, SaveAnalysis(moved.g, moved.as, ls[q]))
         /\ widgets' = moved.ws
  BY <1>c
<1>1. PICK q \in DOMAIN moved.ls :
         /\ moved.ls[q].lid = layers[parent].lid
         /\ \E ls \in {[moved.ls EXCEPT ![q].source = ids[1]]} :
              EndWithout(moved.g, ls, SaveAnalysis(moved.g, moved.as, ls[q]))
         /\ widgets' = moved.ws
  BY <1>d
<1>2. list = above \o below /\ ids = FoldedIds(nodes, list, letter)
      /\ moved = Renames(W, list, ids, [k \in DOMAIN list |-> k])
  OBVIOUS
<1> DEFINE ls == [moved.ls EXCEPT ![q].source = ids[1]]
           hs == SaveAnalysis(moved.g, moved.as, ls[q])
<1>3. EndWithout(moved.g, ls, hs)
  BY <1>1
<1>4. ls = [moved.ls EXCEPT ![q].source = ids[1]]
  OBVIOUS
<1> HIDE DEF above, below, letter, W, ls, hs
<1>5. FoldedTo(moved, ls, list, p, n, parent)
  BY <1>1, <1>2, <1>3, <1>4 DEF FoldedTo, W, letter
<1> QED
  BY <1>2, <1>5 DEF above, below

\* The layers, the widgets and the graph after the fold.
LEMMA FoldEnds ==
  ASSUME Layered, Grounded, Numbered(nodes), requests = {}, NEW p \in Positions, NEW n \in 0 .. Len(OwnNodes(p)),
         NEW parent, NEW list, Folds(list, p, n, parent), NEW moved, NEW ls, FoldedTo(moved, ls, list, p, n, parent)
  PROVE  LET kept == Spared(p, n)
             ids == FoldedIds(nodes, list, layers[parent].letter)
             W == Without(p, n)
         IN  /\ DOMAIN moved.g \subseteq AnyId /\ IsFiniteSet(DOMAIN moved.g)
             /\ Copied(nodes, kept, Fold(list, ids, kept), moved.g)
             /\ ls \in Seq(LayerType) /\ FoldLayers(ls, p, n, Fold(list, ids, kept))
             /\ \A s \in Positions : s # p /\ s \notin BuiltOn(p, n) => \E r \in DOMAIN ls : ls[r].letter = layers[s].letter
             /\ DOMAIN moved.ws = {w \in DOMAIN widgets : widgets[w] \in kept}
             /\ \A w \in DOMAIN moved.ws : moved.ws[w] = Fold(list, ids, kept)[widgets[w]]
<1> DEFINE kept == Spared(p, n)
           letter == layers[parent].letter
           ids == FoldedIds(nodes, list, letter)
           W == Without(p, n)
           m == Len(list)
           sigma == Fold(list, ids, kept)
           order == [k \in DOMAIN list |-> k]
           letters == {Letter(list[k]) : k \in 1 .. m}
<1>0. LayersStand /\ Tidy(nodes)
  BY DEF Grounded, LayersStand
<1>1. FoldNames(list, ids, kept)
  BY <1>0, FoldIdsDown, FoldNamed
<1>2. moved = Renames(W, list, ids, order)
  BY DEF FoldedTo
<1>3. PICK q \in DOMAIN moved.ls : moved.ls[q].lid = layers[parent].lid /\ ls = [moved.ls EXCEPT ![q].source = ids[1]]
  BY DEF FoldedTo
<1>4. /\ parent \in Positions /\ parent # p /\ parent \notin BuiltOn(p, n) /\ list[1] = layers[parent].source
      /\ Linked(list)
  BY DEF Folds
<1>5. /\ list \in Seq(DOMAIN nodes) /\ m \in Nat /\ m >= 1 /\ DOMAIN list = 1 .. m /\ 1 \in 1 .. m
  BY <1>4 DEF Linked
<1>6. DOMAIN order = 1 .. m /\ \A k \in 1 .. m : order[k] = k
  BY <1>5
<1>7. /\ DOMAIN W.g \subseteq AnyId /\ IsFiniteSet(DOMAIN W.g) /\ W.ls \in Seq(LayerType)
      /\ \A s \in DOMAIN layers : s # p /\ s \notin BuiltOn(p, n) => \E r \in DOMAIN W.ls : W.ls[r] = layers[s]
  BY WithoutIs
<1>8. /\ \A x \in kept : x \in DOMAIN W.g /\ W.g[x] = nodes[x]
      /\ \A r \in DOMAIN W.ls : \E s \in Positions :
            s # p /\ s \notin BuiltOn(p, n) /\ W.ls[r] = layers[s] /\ layers[s].source \in kept
      /\ DOMAIN W.ws = {w \in DOMAIN widgets : widgets[w] \in kept}
      /\ \A w \in DOMAIN W.ws : W.ws[w] = widgets[w]
  BY SparedIs
<1>9. /\ \A k \in 1 .. m : ids[k] \in AnyId /\ Letter(list[k]) \in letters
      /\ ids[1] \in AnyId
  BY <1>1, <1>5 DEF FoldNames
<1>10. \A x \in kept : sigma[x] = FoldName(list, ids, m, x)
  BY DEF Fold
<1>11. sigma[list[1]] = ids[1]
  BY <1>1, <1>5, FoldOfList
<1> HIDE DEF kept, ids, letter, W, order, letters, sigma
<1>12. Followed(Renames(W, list, ids, order), W, letters)
  BY <1>5, <1>6, <1>7, <1>9, Folding
<1>13. FoldedSome(Renames(W, list, ids, order), W, kept, list, ids, m)
  <2>1. \A r \in DOMAIN W.ls : W.ls[r].source \in kept /\ W.ls[r] \in LayerType
    BY <1>7, <1>8
  <2>2. \A w \in DOMAIN W.ws : W.ws[w] \in kept
    BY <1>8
  <2> QED
    BY <1>0, <1>1, <1>6, <1>8, <2>1, <2>2, FoldedAll
<1>14. Copied(nodes, kept, sigma, moved.g)
  BY <1>0, <1>1, <1>2, <1>13, FoldCopied DEF sigma
<1> DEFINE mls == moved.ls
           mws == moved.ws
<1>15. /\ DOMAIN moved.g \subseteq AnyId /\ IsFiniteSet(DOMAIN moved.g)
       /\ mls \in Seq(LayerType) /\ Alike(mls, W.ls)
  BY <1>2, <1>12 DEF Followed
<1>16. /\ DOMAIN mls = DOMAIN W.ls
       /\ \A r \in DOMAIN W.ls : mls[r].source = sigma[W.ls[r].source]
       /\ DOMAIN mws = DOMAIN W.ws
       /\ \A w \in DOMAIN W.ws : mws[w] = sigma[widgets[w]]
  BY <1>2, <1>8, <1>10, <1>13 DEF FoldedSome
<1>17. q \in DOMAIN mls /\ mls[q].lid = layers[parent].lid /\ ls = [mls EXCEPT ![q].source = ids[1]]
  BY <1>3
<1> HIDE DEF mls, mws
<1>18. /\ ls \in Seq(LayerType) /\ Alike(ls, mls) /\ ls[q].source = ids[1]
       /\ \A r \in DOMAIN mls : r # q => ls[r] = mls[r]
  BY <1>9, <1>15, <1>17, SourceMoved
<1>19. DOMAIN ls = DOMAIN W.ls
  BY <1>16, <1>18 DEF Alike
<1>20. ASSUME NEW r \in DOMAIN ls
       PROVE  \E s \in Positions :
                 /\ s # p /\ s \notin BuiltOn(p, n) /\ layers[s].source \in kept
                 /\ ls[r].lid = layers[s].lid /\ ls[r].letter = layers[s].letter
                 /\ ls[r].source = sigma[layers[s].source]
  <2>1. PICK s \in Positions :
           s # p /\ s \notin BuiltOn(p, n) /\ W.ls[r] = layers[s] /\ layers[s].source \in kept
    BY <1>8, <1>19
  <2>2. ls[r].lid = layers[s].lid /\ ls[r].letter = layers[s].letter /\ mls[r].lid = layers[s].lid
    BY <1>15, <1>16, <1>18, <1>19, <2>1 DEF Alike
  <2>3. mls[r].source = sigma[layers[s].source]
    BY <1>16, <1>19, <2>1
  <2>4. CASE r = q
    <3>1. s = parent
      BY <1>4, <1>17, <2>2, <2>4 DEF Layered, Apart, Positions
    <3> QED
      BY <1>4, <1>11, <1>18, <2>1, <2>2, <2>4, <3>1
  <2>5. CASE r # q
    BY <1>16, <1>18, <1>19, <2>1, <2>2, <2>3, <2>5
  <2> QED
    BY <2>4, <2>5
<1>21. FoldLayers(ls, p, n, sigma)
  BY <1>20 DEF FoldLayers, kept
<1>22. ASSUME NEW s \in Positions, s # p, s \notin BuiltOn(p, n)
       PROVE  \E r \in DOMAIN ls : ls[r].letter = layers[s].letter
  <2>1. PICK r \in DOMAIN W.ls : W.ls[r] = layers[s]
    BY <1>7, <1>22 DEF Positions
  <2> QED
    BY <1>15, <1>16, <1>18, <1>19, <2>1 DEF Alike
<1>23. DOMAIN mws = {w \in DOMAIN widgets : widgets[w] \in kept} /\ \A w \in DOMAIN mws : mws[w] = sigma[widgets[w]]
  BY <1>8, <1>16
<1> QED
  BY <1>14, <1>15, <1>18, <1>21, <1>22, <1>23 DEF kept, ids, letter, sigma, mws

\* A layer deleted whose nodes are folded under another leaves what is shown as it was.
LEMMA FoldGrounds ==
  ASSUME Layered, Grounded, Numbered(nodes), requests = {}, requests' = requests, NEW p \in Positions,
         NEW n \in 0 .. (Len(OwnNodes(p)) - 1), \A m \in 0 .. (n - 1) : Parents(p, m) = {},
         Parents(p, n) # {}, FoldUnder(p, n, Min(Parents(p, n))),
         LayerGoesAlone(p), FoldsUnderItsHead(p)
  PROVE  Grounded' /\ ReadsKept /\ LayersKept /\ NumbersKept
<1> DEFINE parent == Min(Parents(p, n))
           top == OwnNodes(p)[n + 1]
           list == OwnNodes(parent) \o LinkedListBySameLetter(nodes, top)
           kept == Spared(p, n)
           letter == layers[parent].letter
           ids == FoldedIds(nodes, list, letter)
           sigma == Fold(list, ids, kept)
<1>1. LayersStand /\ Tidy(nodes)
  BY DEF Grounded, LayersStand
<1>2. parent \in Parents(p, n)
  <2>1. Parents(p, n) \subseteq DOMAIN layers
    BY DEF Parents, ParentLayers
  <2>2. Parents(p, n) \in SUBSET Nat
    BY <2>1 DEF Layered
  <2> QED
    BY <2>2, MinIs
<1>3. Owns(layers[parent], layers[parent].source) \/ layers[parent].source = top
  BY DEF FoldsUnderItsHead
<1>4. PICK moved, ls : FoldedTo(moved, ls, list, p, n, parent)
  BY FoldUnderIs
<1> HIDE DEF parent
<1>5. Folds(list, p, n, parent)
  BY <1>1, <1>2, <1>3, FoldsAre
<1>6. n \in 0 .. Len(OwnNodes(p))
  <2>1. Len(OwnNodes(p)) \in Nat
    BY <1>1, OwnNodesIs
  <2> QED
    BY <2>1
<1> HIDE DEF list
<1>7. FoldIds(list, ids, letter, FirstFolded(nodes, list))
  BY <1>1, <1>5, FoldIdsDown
<1>8. /\ DOMAIN moved.g \subseteq AnyId /\ IsFiniteSet(DOMAIN moved.g)
      /\ Copied(nodes, kept, sigma, moved.g)
      /\ ls \in Seq(LayerType) /\ FoldLayers(ls, p, n, sigma)
      /\ \A s \in Positions : s # p /\ s \notin BuiltOn(p, n) => \E r \in DOMAIN ls : ls[r].letter = layers[s].letter
      /\ DOMAIN moved.ws = {w \in DOMAIN widgets : widgets[w] \in kept}
      /\ \A w \in DOMAIN moved.ws : moved.ws[w] = sigma[widgets[w]]
  BY <1>4, <1>5, <1>6, FoldEnds
<1>9. PICK hs : EndWithout(moved.g, ls, hs)
  BY <1>4 DEF FoldedTo
<1>10. widgets' = moved.ws
  BY <1>4 DEF FoldedTo
<1>11. Lowered(nodes, kept, sigma)
  BY <1>1, <1>5, <1>6, <1>7, FoldLowered
<1>12. Led(nodes, kept, sigma, ls)
  BY <1>1, <1>5, <1>6, <1>7, <1>8, FoldLed
<1>13. NumbersFollow(kept, sigma)
  BY <1>1, <1>5, <1>6, <1>7, FoldNumbers
<1>14. FoldNames(list, ids, kept) /\ OneLetter(list, ids, letter)
  BY <1>1, <1>5, <1>6, <1>7, FoldNamed
<1>15. \A x \in kept : \/ \E j \in 1 .. Len(list) : x = list[j] /\ Letter(sigma[x]) = letter
                       \/ (\A j \in 1 .. Len(list) : x # list[j]) /\ sigma[x] = x
  <2>1. \A x \in kept : \/ \E j \in 1 .. Len(list) : x = list[j] /\ sigma[x] = ids[j]
                        \/ (\A j \in 1 .. Len(list) : x # list[j]) /\ sigma[x] = x
    BY <1>14, FoldIs
  <2> HIDE DEF ids, sigma, kept
  <2> QED
    BY <1>14, <2>1 DEF OneLetter
<1>16. /\ parent \in Positions /\ parent # p /\ parent \notin BuiltOn(p, n)
       /\ \A x \in kept : Owns(layers[p], x) => \E j \in 1 .. Len(list) : list[j] = x
  BY <1>5 DEF Folds
<1> HIDE DEF kept, sigma, ids, letter
<1>17. \A r \in DOMAIN ls : ls[r].source \in Names(sigma, kept)
  BY <1>8 DEF FoldLayers, Names, kept
<1>18. Reads = WidgetReads(widgets) /\ OneRead
  BY PlainReads
<1>19. Reads' = WidgetReads(widgets') /\ OneRead' /\ PendingNode'
  BY StillPlain
<1>20. layers' = ls
  BY <1>9 DEF EndWithout
<1> DEFINE ws == moved.ws
<1>21. ReadsFollow(kept, sigma)
  <2>7. Reads' = WidgetReads(ws)
    BY <1>10, <1>19
  <2>0. DOMAIN ws = {w \in DOMAIN widgets : widgets[w] \in kept} /\ \A w \in DOMAIN ws : ws[w] = sigma[widgets[w]]
    BY <1>8
  <2> HIDE DEF ws
  <2>1. SUFFICES ASSUME NEW w \in DOMAIN ws
                 PROVE  \E old \in Reads :
                          /\ old[1] = w /\ old[2] \in kept /\ ws[w] = sigma[old[2]]
                          /\ Owners(ls, ws[w]) # {}
    BY <1>20, <2>7 DEF ReadsFollow, WidgetReads
  <2> DEFINE x == widgets[w]
  <2>2. w \in DOMAIN widgets /\ x \in kept /\ ws[w] = sigma[x] /\ <<w, x>> \in Reads
    BY <1>18, <2>0 DEF WidgetReads
  <2>3. PICK s \in Positions : s \notin BuiltOn(p, n) \ {p} /\ Owns(layers[s], x)
    BY <1>6, <2>2, SparedReads DEF kept
  <2> HIDE DEF x
  <2>4. \E r \in DOMAIN ls : ls[r].letter = Letter(sigma[x])
    <3>1. CASE \E j \in 1 .. Len(list) : x = list[j] /\ Letter(sigma[x]) = letter
      BY <1>8, <1>16, <3>1 DEF letter
    <3>2. CASE (\A j \in 1 .. Len(list) : x # list[j]) /\ sigma[x] = x
      <4>1. s # p
        BY <1>16, <2>2, <2>3, <3>2
      <4> QED
        BY <1>8, <2>3, <3>2, <4>1 DEF Owns
    <3> QED
      BY <1>15, <2>2, <3>1, <3>2
  <2>5. Owners(ls, ws[w]) # {}
    BY <2>2, <2>4 DEF Owners, Owns
  <2> QED
    BY <2>2, <2>5
<1>22. LayersFollow(kept, sigma, ls)
  <2>1. SUFFICES ASSUME NEW a \in DOMAIN layers, NEW r \in DOMAIN ls, layers[a].lid = ls[r].lid
                 PROVE  layers[a].source \in kept /\ ls[r].source = sigma[layers[a].source]
    BY DEF LayersFollow, Positions
  <2>2. PICK s \in DOMAIN layers : /\ layers[s].source \in kept /\ ls[r].lid = layers[s].lid
                                   /\ ls[r].source = sigma[layers[s].source]
    BY <1>8 DEF FoldLayers, Positions, kept
  <2>3. s = a
    BY <2>1, <2>2 DEF Layered, Apart
  <2> QED
    BY <2>2, <2>3
<1> QED
  BY <1>1, <1>8, <1>9, <1>11, <1>12, <1>13, <1>17, <1>18, <1>19, <1>21, <1>22, EndGrounds

(* The numbers of the nodes, when some are added or changed.               *)

\* Numbers go by the primary sources and by whether there are any.
LEMMA SameNumbered ==
  ASSUME NEW g, Numbered(g), NEW h, DOMAIN h = DOMAIN g,
         \A i \in DOMAIN g : h[i].prim = g[i].prim /\ (h[i].what \in Tables <=> g[i].what \in Tables)
  PROVE  Numbered(h)
<1>1. PICK depth \in [DOMAIN g -> Nat] : Deep(g, depth)
  BY DEF Numbered
<1>2. Deep(h, depth) /\ depth \in [DOMAIN h -> Nat]
  BY <1>1 DEF Deep
<1>3. \E d \in [DOMAIN h -> Nat] : Deep(h, d)
  BY <1>2
<1> QED
  BY <1>3 DEF Numbered

\* A node whose number is that of its source and one, or one over another letter's.
LEMMA AddedNumbered ==
  ASSUME NEW g, Tidy(g), Numbered(g), NEW id \in AnyId, id \notin DOMAIN g, NEW h,
         DOMAIN h = DOMAIN g \cup {id}, \A i \in DOMAIN g : h[i] = g[i],
         h[id].prim \in DOMAIN g \cup {NoNode}, h[id].what \in Tables <=> h[id].prim = NoNode,
         Letter(id) \in 1 .. MaxLetter =>
            \/ Sequence(id) = 0
            \/ Sequence(id) = 1 /\ h[id].prim # NoNode
            \/ /\ h[id].prim # NoNode /\ Letter(h[id].prim) \in 1 .. MaxLetter
               /\ Sequence(id) = Sequence(h[id].prim) + 1
  PROVE  Numbered(h)
<1> DEFINE prim == h[id].prim
<1>1. PICK depth \in [DOMAIN g -> Nat] : Deep(g, depth)
  BY DEF Numbered
<1> DEFINE top == IF prim = NoNode THEN 0 ELSE depth[prim] + 1
           deep == [i \in DOMAIN h |-> IF i = id THEN top ELSE depth[i]]
<1>2. NoNode \notin DOMAIN g /\ Closed(g, DOMAIN g)
  BY NoNodeIsNone DEF Tidy
<1>3. prim # NoNode => prim \in DOMAIN g /\ depth[prim] \in Nat
  BY <1>2
<1>4. top \in Nat
  BY <1>3
<1>5. Letter(id) \in 1 .. MaxLetter => Sequence(id) <= top
  <2>1. ASSUME Letter(id) \in 1 .. MaxLetter PROVE Sequence(id) \in Nat
    BY <2>1, NumberedIds
  <2>2. prim # NoNode /\ Letter(prim) \in 1 .. MaxLetter => Sequence(prim) \in Nat /\ Sequence(prim) <= depth[prim]
    <3>1. ASSUME prim # NoNode, Letter(prim) \in 1 .. MaxLetter PROVE Sequence(prim) \in Nat
      BY <1>3, <3>1, NumberedIds DEF Tidy
    <3> QED
      BY <1>1, <1>3, <3>1 DEF Deep
  <2> HIDE DEF prim
  <2>3. CASE prim = NoNode
    BY <2>1, <2>3 DEF prim
  <2>4. CASE prim # NoNode
    BY <1>3, <2>1, <2>2, <2>4 DEF prim
  <2> QED
    BY <2>3, <2>4
<1> HIDE DEF top
<1>6. /\ deep \in [DOMAIN h -> Nat] /\ deep[id] = top
      /\ \A i \in DOMAIN g : deep[i] = depth[i]
  BY <1>4
<1> HIDE DEF deep
<1>7. Deep(h, deep)
  <2>1. ASSUME NEW i \in DOMAIN g
        PROVE  /\ deep[i] = IF h[i].prim = NoNode THEN 0 ELSE deep[h[i].prim] + 1
               /\ Letter(i) \in 1 .. MaxLetter => Sequence(i) <= deep[i]
    <3>1. g[i].prim \in DOMAIN g \cup {NoNode} /\ h[i] = g[i]
      BY <1>2 DEF Closed
    <3> QED
      BY <1>1, <1>6, <3>1 DEF Deep
  <2>2. /\ deep[id] = IF h[id].prim = NoNode THEN 0 ELSE deep[h[id].prim] + 1
        /\ Letter(id) \in 1 .. MaxLetter => Sequence(id) <= deep[id]
    BY <1>3, <1>5, <1>6 DEF top
  <2> QED
    BY <2>1, <2>2 DEF Deep
<1>8. \A i \in DOMAIN h : h[i].what \in Tables <=> h[i].prim = NoNode
  BY DEF Numbered
<1>9. \E d \in [DOMAIN h -> Nat] : Deep(h, d)
  BY <1>6, <1>7
<1> QED
  BY <1>8, <1>9 DEF Numbered

\* A table that is read directly has no number.
LEMMA TableNumbered ==
  ASSUME Tidy(nodes), Numbered(nodes), NEW p, NEW sec \in SourceOptions(p)
  PROVE  Numbered(WithTable(nodes, sec))
<1> DEFINE g == WithTable(nodes, sec)
<1>1. CASE Letter(sec) # 0
  BY <1>1 DEF WithTable
<1>2. CASE Letter(sec) = 0 /\ sec \in DOMAIN nodes
  <2>1. g = AddNode(nodes, sec, SourceNode(sec[2]))
    BY <1>2 DEF WithTable
  <2>2. DOMAIN g = DOMAIN nodes /\ \A i \in DOMAIN nodes : g[i] = nodes[i]
    BY <1>2, <2>1 DEF AddNode
  <2> HIDE DEF g
  <2>3. Numbered(g)
    BY <2>2, SameNumbered
  <2> QED
    BY <2>3 DEF g
<1>3. CASE Letter(sec) = 0 /\ sec \notin DOMAIN nodes
  <2>1. PICK t \in Tables : sec = TableId(t)
    BY <1>3 DEF SourceOptions
  <2>2. sec \in AnyId /\ sec[2] = t
    BY <2>1 DEF AnyId, TableId
  <2>3. g = AddNode(nodes, sec, SourceNode(t))
    BY <1>3, <2>2 DEF WithTable
  <2>4. /\ DOMAIN g = DOMAIN nodes \cup {sec} /\ g[sec] = SourceNode(t)
        /\ \A i \in DOMAIN nodes : g[i] = nodes[i]
    BY <1>3, <2>3 DEF AddNode
  <2> HIDE DEF g
  <2>5. g[sec].prim = NoNode /\ g[sec].what \in Tables
    BY <2>4 DEF SourceNode
  <2>6. Numbered(g)
    BY <1>3, <2>2, <2>4, <2>5, AddedNumbered
  <2> QED
    BY <2>6 DEF g
<1> QED
  BY <1>1, <1>2, <1>3

\* A source node has number 0.
LEMMA CreateLayerNumbers ==
  ASSUME Layered, Grounded, Numbered(nodes), LetterIsFresh, NEW table \in Tables, CreateLayerFromTable(table)
  PROVE  Numbered(nodes')
<1> DEFINE letter == NextLetter(TakenLetters)
           id == Id(letter, 0)
           g == AddNode(nodes, id, SourceNode(table))
<1>1. FreeLayers # {} /\ nodes' = g
  BY DEF CreateLayerFromTable
<1>2. letter \in 1 .. MaxLetter /\ \A i \in DOMAIN nodes : Letter(i) # letter
  BY <1>1, FreshLayer DEF LetterIsFresh
<1> HIDE DEF letter
<1>3. id \in AnyId /\ Letter(id) = letter /\ Sequence(id) = 0
  BY <1>2, NewIds DEF Id, Sequence
<1> HIDE DEF id
<1>4. id \notin DOMAIN nodes /\ Tidy(nodes)
  BY <1>2, <1>3 DEF Grounded, LayersStand
<1>5. /\ DOMAIN g = DOMAIN nodes \cup {id} /\ g[id] = SourceNode(table)
      /\ \A i \in DOMAIN nodes : g[i] = nodes[i]
  BY <1>4 DEF AddNode
<1> HIDE DEF g
<1>6. g[id].prim = NoNode /\ g[id].what \in Tables
  BY <1>5 DEF SourceNode
<1>7. Numbered(g)
  BY <1>3, <1>4, <1>5, <1>6, AddedNumbered
<1> QED
  BY <1>1, <1>7

\* A table is a table under another query.
LEMMA QueryNumbers ==
  ASSUME Layered, Grounded, Numbered(nodes), NEW p \in Positions, NEW table \in Tables,
         SaveAnalysisSourceQuery(p, table)
  PROVE  Numbered(nodes')
<1> DEFINE id == layers[p].source
           g == [nodes EXCEPT ![id].what = table]
<1>1. id \in DOMAIN nodes /\ nodes[id].what \in Tables /\ nodes' = g
  BY DEF SaveAnalysisSourceQuery, IsSourceType
<1>2. nodes \in [DOMAIN nodes -> NodeType]
  BY DEF Grounded, LayersStand, Tidy
<1>3. DOMAIN g = DOMAIN nodes
  OBVIOUS
<1>4. ASSUME NEW i \in DOMAIN nodes
      PROVE  g[i].prim = nodes[i].prim /\ (g[i].what \in Tables <=> nodes[i].what \in Tables)
  <2>1. nodes[i] \in NodeType
    BY <1>2
  <2>2. CASE i = id
    <3>1. g[i] = [nodes[i] EXCEPT !.what = table]
      BY <2>2
    <3> HIDE DEF g
    <3> QED
      BY <1>1, <2>1, <2>2, <3>1 DEF NodeType
  <2>3. CASE i # id
    BY <2>3
  <2> QED
    BY <2>2, <2>3
<1> HIDE DEF g
<1> QED
  BY <1>1, <1>3, <1>4, SameNumbered

\* Second sources do not matter to numbers.
LEMMA EditNumbers ==
  ASSUME Layered, Grounded, Numbered(nodes), NEW p \in Positions, NEW i \in DOMAIN nodes, NEW sec,
         EditAnalysisNode(p, i, sec)
  PROVE  Numbered(nodes')
<1> DEFINE c == WithTable(nodes, sec)
           g == [c EXCEPT ![i].sec = sec]
<1>1. sec \in SourceOptions(p) /\ nodes' = g
  BY DEF EditAnalysisNode
<1>2. Tidy(c) /\ Numbered(c)
  BY <1>1, TableAdded, TableNumbered DEF Grounded, LayersStand
<1> HIDE DEF c
<1>3. c \in [DOMAIN c -> NodeType]
  BY <1>2 DEF Tidy
<1>4. DOMAIN g = DOMAIN c
  OBVIOUS
<1>5. ASSUME NEW j \in DOMAIN c PROVE g[j].prim = c[j].prim /\ g[j].what = c[j].what
  <2>1. c[j] \in NodeType
    BY <1>3
  <2>2. CASE j = i
    <3>1. g[j] = [c[j] EXCEPT !.sec = sec]
      BY <2>2
    <3> HIDE DEF g
    <3> QED
      BY <2>1, <2>2, <3>1 DEF NodeType
  <2>3. CASE j # i
    BY <2>3
  <2> QED
    BY <2>2, <2>3
<1> HIDE DEF g
<1>6. Numbered(g)
  BY <1>2, <1>4, <1>5, SameNumbered
<1> QED
  BY <1>1, <1>6

\* An analysis added is one step further from the table, its number one greater at most.
LEMMA CreateNumbers ==
  ASSUME Layered, Grounded, Numbered(nodes), NEW p \in Positions, NEW kind \in Kinds, NEW sec,
         CreateAnalysisNode(p, kind, sec)
  PROVE  Numbered(nodes')
<1> DEFINE id == FormId(layers[p])
           source == layers[p].source
           chosen == IF sec = NoNode THEN nodes ELSE WithTable(nodes, sec)
           node == [what |-> kind, prim |-> source, sec |-> sec]
           g == AddNode(chosen, id, node)
<1>1. nodes' = g /\ (sec # NoNode => sec \in SourceOptions(p))
  BY DEF CreateAnalysisNode
<1>2. Tidy(nodes) /\ p \in DOMAIN layers /\ source \in DOMAIN nodes /\ source \in AnyId
  BY DEF Grounded, LayersStand, Positions, Tidy
<1>3. id \in AnyId /\ Letter(id) = layers[p].letter /\ Letter(id) \in 1 .. MaxLetter /\ id \notin DOMAIN nodes
  BY FormIdIs
<1>4. \/ Sequence(id) = 1
      \/ Letter(source) \in 1 .. MaxLetter /\ Sequence(id) = Sequence(source) + 1
  BY <1>3 DEF FormId, NextId, Id, Letter, Sequence, Owns
<1> HIDE DEF id
<1>5. /\ Tidy(chosen) /\ Numbered(chosen) /\ source \in DOMAIN chosen
      /\ \A i \in DOMAIN chosen : i \in DOMAIN nodes \/ Letter(i) = 0
  <2>1. CASE sec = NoNode
    BY <1>2, <2>1
  <2>2. CASE sec # NoNode
    <3>1. chosen = WithTable(nodes, sec) /\ sec \in SourceOptions(p)
      BY <1>1, <2>2
    <3> HIDE DEF chosen
    <3> QED
      BY <1>2, <3>1, TableAdded, TableNumbered
  <2> QED
    BY <2>1, <2>2
<1> HIDE DEF chosen
<1>6. id \notin DOMAIN chosen
  <2>1. Letter(id) # 0
    BY <1>3
  <2> QED
    BY <1>3, <1>5, <2>1
<1>7. node.prim = source /\ node.what \notin Tables /\ source # NoNode
  <2>1. kind \notin Tables
    BY UserActionsAssumption
  <2>2. source # NoNode
    BY <1>2, NoNodeIsNone DEF Tidy
  <2> QED
    BY <2>1, <2>2
<1> HIDE DEF node
<1>8. DOMAIN g = DOMAIN chosen \cup {id} /\ g[id] = node /\ \A i \in DOMAIN chosen : g[i] = chosen[i]
  BY <1>6 DEF AddNode
<1> HIDE DEF g, source
<1>9. Numbered(g)
  <2>1. g[id].prim \in DOMAIN chosen \cup {NoNode}
    BY <1>5, <1>7, <1>8
  <2>2. g[id].what \in Tables <=> g[id].prim = NoNode
    BY <1>7, <1>8
  <2>3. Letter(id) \in 1 .. MaxLetter =>
            \/ Sequence(id) = 0
            \/ Sequence(id) = 1 /\ g[id].prim # NoNode
            \/ /\ g[id].prim # NoNode /\ Letter(g[id].prim) \in 1 .. MaxLetter
               /\ Sequence(id) = Sequence(g[id].prim) + 1
    BY <1>4, <1>7, <1>8
  <2> QED
    BY <1>3, <1>5, <1>6, <1>8, <2>1, <2>2, <2>3, AddedNumbered
<1> QED
  BY <1>1, <1>9

\* A map that is opened has the number 0 only.
LEMMA InitNumbered ==
  ASSUME UserActionsInit
  PROVE  Numbered(nodes)
<1>1. PICK t \in Tables : nodes = [i \in {Id(1, 0)} |-> SourceNode(t)]
  BY DEF UserActionsInit
<1>2. DOMAIN nodes = {Id(1, 0)} /\ nodes[Id(1, 0)].prim = NoNode /\ nodes[Id(1, 0)].what = t
  BY <1>1 DEF SourceNode
<1>3. Sequence(Id(1, 0)) = 0
  BY DEF Sequence, Id
<1> DEFINE depth == [i \in DOMAIN nodes |-> 0]
<1>4. depth \in [DOMAIN nodes -> Nat] /\ depth[Id(1, 0)] = 0
  BY <1>2
<1> HIDE DEF depth
<1>5. Deep(nodes, depth)
  BY <1>2, <1>3, <1>4 DEF Deep
<1>6. \E d \in [DOMAIN nodes -> Nat] : Deep(nodes, d)
  BY <1>4, <1>5
<1> QED
  BY <1>2, <1>6 DEF Numbered

(* Every step of a careful user.                                           *)

\* The inductive invariant.
Meant == Collections /\ Grounded /\ Numbered(nodes)

\* The user adds, edits and deletes analyses.
LEMMA AnalyseMeant ==
  ASSUME Layered, Grounded, Numbered(nodes), requests = {}, CarefulAnalyse
  PROVE  Grounded' /\ Numbered(nodes') /\ Analyse
<1>1. PICK p \in Positions :
        \/ \E kind \in Kinds : \E sec \in Seconds : CreateAnalysisNode(p, kind, sec)
        \/ \E i \in DOMAIN nodes, sec \in Seconds :
              EditAnalysisNode(p, i, sec) /\ Independent(i, sec)
        \/ \E table \in Tables : SaveAnalysisSourceQuery(p, table)
        \/ \E i \in FormNodes(p) : DeleteAnalysisNode(p, i) /\ NodeGoesAlone(i)
  BY DEF CarefulAnalyse
<1>2. CASE \E kind \in Kinds : \E sec \in Seconds : CreateAnalysisNode(p, kind, sec)
  <2>1. PICK kind \in Kinds : \E sec \in Seconds : CreateAnalysisNode(p, kind, sec)
    BY <1>2
  <2>2. PICK sec \in Seconds : CreateAnalysisNode(p, kind, sec)
    BY <2>1
  <2>3. Analyse
    BY <1>2 DEF Analyse
  <2>4. Grounded' /\ Numbered(nodes')
    BY <2>2, CreateGrounds, CreateNumbers
  <2> QED
    BY <2>3, <2>4
<1>3. CASE \E i \in DOMAIN nodes, sec \in Seconds : EditAnalysisNode(p, i, sec) /\ Independent(i, sec)
  <2>1. PICK i \in DOMAIN nodes, sec \in Seconds : EditAnalysisNode(p, i, sec) /\ Independent(i, sec)
    BY <1>3
  <2>2. \E j \in DOMAIN nodes, s \in Seconds : EditAnalysisNode(p, j, s)
    BY <2>1
  <2>3. Analyse
    BY <2>2 DEF Analyse
  <2>4. Grounded' /\ Numbered(nodes')
    BY <2>1, EditGrounds, EditNumbers
  <2> QED
    BY <2>3, <2>4
<1>4. CASE \E table \in Tables : SaveAnalysisSourceQuery(p, table)
  <2>1. PICK table \in Tables : SaveAnalysisSourceQuery(p, table)
    BY <1>4
  <2>2. Analyse
    BY <1>4 DEF Analyse
  <2>3. Grounded' /\ Numbered(nodes')
    BY <2>1, QueryGrounds, QueryNumbers
  <2> QED
    BY <2>2, <2>3
<1>5. CASE \E i \in FormNodes(p) : DeleteAnalysisNode(p, i) /\ NodeGoesAlone(i)
  <2>1. PICK i \in FormNodes(p) : DeleteAnalysisNode(p, i) /\ NodeGoesAlone(i)
    BY <1>5
  <2>2. \E j \in FormNodes(p) : DeleteAnalysisNode(p, j)
    BY <2>1
  <2>3. Analyse
    BY <2>2 DEF Analyse
  <2>4. Grounded' /\ NumbersKept
    BY <2>1, DeleteNodeGrounds
  <2> QED
    BY <2>3, <2>4 DEF NumbersKept
<1> QED
  BY <1>1, <1>2, <1>3, <1>4, <1>5

\* The three movements of a drag.
LEMMA DragMeant ==
  ASSUME Layered, Grounded, requests = {}, LetterIsFresh, NEW p \in Positions,
         NEW i \in DraggableNodes(p), OnlyHere(p, i), NEW at \in 1 .. (Len(layers) + 1),
         CreateLayerForAnalysisNode(p, i, at)
  PROVE  Grounded' /\ ReadsKept /\ LayersKept /\ NumbersKept
<1>1. Len(layers) < MaxLayers /\ FreeLayers # {}
  BY DEF CreateLayerForAnalysisNode
<1>2. CASE DragHead(p, i, at)
  BY <1>1, <1>2, DragHeadGrounds
<1>3. CASE DragSource(p, i, at)
  BY <1>1, <1>3, DragSourceGrounds
<1>4. CASE DragMiddle(p, i, at)
  BY <1>1, <1>4, DragMiddleGrounds
<1> QED
  BY <1>2, <1>3, <1>4 DEF CreateLayerForAnalysisNode

\* A layer deleted, with or without nodes folded.
LEMMA DeleteLayerMeant ==
  ASSUME Layered, Grounded, Numbered(nodes), requests = {}, NEW p \in Positions,
         DeleteLayer(p), LayerGoesAlone(p), FoldsUnderItsHead(p)
  PROVE  Grounded' /\ ReadsKept /\ LayersKept /\ NumbersKept
<1>1. requests' = requests
  BY DEF DeleteLayer
<1>2. CASE DeleteWhole(p)
  BY <1>1, <1>2, WholeGrounds
<1>3. CASE ~DeleteWhole(p)
  <2>1. PICK n \in 0 .. (Len(OwnNodes(p)) - 1) :
          /\ \A m \in 0 .. (n - 1) : Parents(p, m) = {}
          /\ Parents(p, n) # {}
          /\ FoldUnder(p, n, Min(Parents(p, n)))
    BY <1>3 DEF DeleteLayer
  <2> QED
    BY <1>1, <2>1, FoldGrounds
<1> QED
  BY <1>2, <1>3

\* A step on the layers.
LEMMA RearrangeMeant ==
  ASSUME Layered, Grounded, Numbered(nodes), requests = {}, CarefulRearrange(FALSE)
  PROVE  Grounded' /\ Numbered(nodes') /\ ReadsKept /\ LayersKept
<1>1. PICK p \in Positions :
        \/ SaveLayer(p)
        \/ \E to \in Positions : MoveLayer(p, to)
        \/ \E i \in DraggableNodes(p) :
              /\ LetterIsFresh /\ OnlyHere(p, i)
              /\ \E at \in 1 .. (Len(layers) + 1) : CreateLayerForAnalysisNode(p, i, at)
        \/ DeleteLayer(p) /\ LayerGoesAlone(p) /\ (FALSE \/ FoldsUnderItsHead(p))
  BY DEF CarefulRearrange
<1>2. CASE SaveLayer(p)
  BY <1>2, SaveLayerGrounds DEF NumbersKept
<1>3. CASE \E to \in Positions : MoveLayer(p, to)
  <2>1. PICK to \in Positions : MoveLayer(p, to)
    BY <1>3
  <2>2. nodes' = nodes
    BY <2>1 DEF MoveLayer
  <2> QED
    BY <2>1, <2>2, MoveGrounds
<1>4. CASE \E i \in DraggableNodes(p) :
              /\ LetterIsFresh /\ OnlyHere(p, i)
              /\ \E at \in 1 .. (Len(layers) + 1) : CreateLayerForAnalysisNode(p, i, at)
  <2>1. PICK i \in DraggableNodes(p) :
              /\ LetterIsFresh /\ OnlyHere(p, i)
              /\ \E at \in 1 .. (Len(layers) + 1) : CreateLayerForAnalysisNode(p, i, at)
    BY <1>4
  <2>2. PICK at \in 1 .. (Len(layers) + 1) : CreateLayerForAnalysisNode(p, i, at)
    BY <2>1
  <2> QED
    BY <2>1, <2>2, DragMeant DEF NumbersKept
<1>5. CASE DeleteLayer(p) /\ LayerGoesAlone(p) /\ FoldsUnderItsHead(p)
  BY <1>5, DeleteLayerMeant DEF NumbersKept
<1> QED
  BY <1>1, <1>2, <1>3, <1>4, <1>5

\* An answer of the server.
LEMMA AnswerMeant ==
  ASSUME Collections, Grounded, NEW r \in requests, Answer(r)
  PROVE  Grounded' /\ ReadsKept /\ LayersKept /\ nodes' = nodes
<1>1. nodes' = nodes
  BY DEF Answer, LayerCreated, DragSaved, WidgetCreated, Refused
<1>2. Layered
  BY DEF Collections
<1>3. CASE LayerCreated(r)
  BY <1>1, <1>3, CreatedGrounds
<1>4. CASE DragSaved(r)
  BY <1>1, <1>2, <1>4, DragSavedGrounds
<1>5. CASE WidgetCreated(r)
  BY <1>1, <1>2, <1>5, WidgetCreatedGrounds
<1>6. CASE Refused(r)
  BY <1>1, <1>2, <1>6, RefusedGrounds
<1> QED
  BY <1>3, <1>4, <1>5, <1>6 DEF Answer

\* One step, whatever it is: the invariant holds after it, and unless it is one on
\* the analyses everything shows what it showed.
LEMMA MeantInductive ==
  ASSUME Meant, CarefulNext(FALSE)
  PROVE  Meant' /\ ((LayersKept /\ ReadsKept) \/ Analyse)
<1>1. Collections /\ Layered /\ Grounded /\ Numbered(nodes)
  BY DEF Meant, Collections
<1>2. Collections'
  BY <1>1, CollectionsInductive
<1>3. CASE requests = {} /\ CarefulAnalyse
  BY <1>1, <1>2, <1>3, AnalyseMeant DEF Meant
<1>4. CASE requests = {} /\ CarefulRearrange(FALSE)
  BY <1>1, <1>2, <1>4, RearrangeMeant DEF Meant
<1>5. CASE requests = {} /\ LetterIsFresh /\ \E table \in Tables : CreateLayerFromTable(table)
  <2>1. PICK table \in Tables : CreateLayerFromTable(table)
    BY <1>5
  <2>2. Grounded' /\ ReadsKept /\ LayersKept /\ Numbered(nodes')
    BY <1>1, <1>5, <2>1, CreateLayerGrounds, CreateLayerNumbers
  <2> QED
    BY <1>2, <2>2 DEF Meant
<1>6. CASE requests = {} /\ \E w \in Widgets, i \in DOMAIN nodes : AddWidget(w, i)
  <2>1. PICK w \in Widgets, i \in DOMAIN nodes : AddWidget(w, i)
    BY <1>6
  <2>2. nodes' = nodes
    BY <2>1 DEF AddWidget
  <2>3. Grounded' /\ ReadsKept /\ LayersKept
    BY <1>1, <1>6, <2>1, AddWidgetGrounds
  <2> QED
    BY <1>1, <1>2, <2>2, <2>3 DEF Meant
<1>7. CASE \E r \in requests : Answer(r)
  <2>1. PICK r \in requests : Answer(r)
    BY <1>7
  <2>2. Grounded' /\ ReadsKept /\ LayersKept /\ nodes' = nodes
    BY <1>1, <2>1, AnswerMeant
  <2> QED
    BY <1>1, <1>2, <2>2 DEF Meant
<1> QED
  BY <1>3, <1>4, <1>5, <1>6, <1>7 DEF CarefulNext

\* Nothing changes when nothing does.
LEMMA MeantStutters ==
  ASSUME Meant, UNCHANGED vars
  PROVE  Meant'
<1>1. /\ nodes' = nodes /\ layers' = layers /\ analyses' = analyses
      /\ widgets' = widgets /\ requests' = requests
  BY DEF vars
<1>2. Collections'
  BY <1>1 DEF Meant, Collections, Layered, Pending
<1>3. Reads' = Reads
  BY <1>1 DEF Reads
<1>4. Grounded'
  BY <1>1, <1>3 DEF Meant, Grounded, LayersStand, ReadsOwned, OneRead, PendingNode
<1> QED
  BY <1>1, <1>2, <1>4 DEF Meant

\* The invariant in every state, for any number of letters, layers, tables, kinds of
\* analyses, widgets and nodes: the nodes are a graph without cycles in which a layer's
\* own nodes are one list, from its source down, with falling numbers; every layer and
\* every widget reads a node of that graph; no number is greater than the list is long,
\* which is why folding gives no id that another node of the list still has.
THEOREM MeantTheorem == CarefulSpec => []Meant
<1>1. CarefulSpec => UserActionsInit /\ [][CarefulNext(FALSE)]_vars
  BY DEF CarefulSpec
<1>2. UserActionsInit => Meant
  BY InitCollections, InitGrounded, InitNumbered DEF Meant
<1>3. Meant /\ [CarefulNext(FALSE)]_vars => Meant'
  BY MeantInductive, MeantStutters
<1> QED
  BY <1>1, <1>2, <1>3, PTL

\* The collections hold what they are made for: nodes are tables and analyses, there are
\* from one to max_layers layers, and never two with one letter.
THEOREM TypeTheorem == CarefulSpec => []TypeOK
<1>1. ASSUME Meant PROVE TypeOK
  <2>1. Collections /\ Tidy(nodes)
    BY <1>1 DEF Meant, Grounded, LayersStand
  <2>2. ASSUME NEW i \in DOMAIN nodes PROVE nodes[i].what \in Tables \cup Kinds
    <3>1. nodes[i] \in NodeType
      BY <2>1 DEF Tidy
    <3> QED
      BY <3>1 DEF NodeType
  <2>3. ASSUME NEW p \in Positions PROVE layers[p].lid \in Layers /\ layers[p].letter \in 1 .. MaxLetter
    <3>1. layers[p] \in LayerType
      BY <2>1 DEF Collections, Layered, Positions
    <3> QED
      BY <3>1 DEF LayerType
  <2>4. \A p, q \in Positions : p # q => layers[p].letter # layers[q].letter
    BY <2>1 DEF Collections, Layered, Positions, Apart
  <2> QED
    BY <2>1, <2>2, <2>3, <2>4 DEF TypeOK, Collections, Layered
<1> QED
  BY <1>1, MeantTheorem, PTL

\* Whatever is dragged, deleted and folded, no layer, analysis or saved analysis has a
\* source that is no longer there: each place of user-actions.js that renames or destroys
\* nodes changes or drops all who read them.
THEOREM SourcesTheorem == CarefulSpec => []SourcesExist
<1>1. ASSUME Meant PROVE SourcesExist
  <2>1. Collections /\ Layered /\ Tidy(nodes) /\ \A p \in Positions : layers[p].source \in DOMAIN nodes
    BY <1>1 DEF Meant, Collections, Grounded, LayersStand, Positions
  <2>2. \A i \in DOMAIN nodes : SourceIds(nodes, i) \ {NoNode} \subseteq DOMAIN nodes
    BY <2>1 DEF Tidy, Closed, SourceIds
  <2>3. ASSUME NEW k \in DOMAIN analyses PROVE analyses[k] \in DOMAIN nodes
    <3>1. PICK p \in Positions : layers[p].source = analyses[k]
      BY <2>1, Heads DEF AnalysesOfLayers
    <3> QED
      BY <2>1, <3>1
  <2> QED
    BY <2>1, <2>2, <2>3 DEF SourcesExist
<1> QED
  BY <1>1, MeantTheorem, PTL

\* No widget reads a node that is gone, not even one that a drag has destroyed and
\* is about to create again under the node's new id.
THEOREM WidgetsTheorem == CarefulSpec => []WidgetsRead
<1>1. Meant => WidgetsRead
  BY DEF Meant, Grounded, ReadsOwned, WidgetsRead
<1> QED
  BY <1>1, MeantTheorem, PTL

\* Moving, dragging and deleting layers, with all the renaming of nodes that it takes,
\* leaves what each remaining layer and widget shows as it was.
THEOREM MeaningTheorem == CarefulSpec => MeaningKept
<1>1. CarefulSpec => [][CarefulNext(FALSE)]_vars
  BY DEF CarefulSpec
<1>2. Meant /\ [CarefulNext(FALSE)]_vars => [(LayersKept /\ ReadsKept) \/ Analyse]_vars
  BY MeantInductive
<1> QED
  BY <1>1, <1>2, MeantTheorem, PTL DEF MeaningKept

\* A layer deleted under another layer's own head leaves what the others show as it was:
\* only when its nodes are folded under a layer that shows a third layer's node do the
\* layers that are left change.
THEOREM DeletionTheorem == CarefulSpec => DeletionKeeps
<1>1. CarefulSpec => [][CarefulNext(FALSE)]_vars
  BY DEF CarefulSpec
<1>2. Meant /\ [CarefulNext(FALSE)]_vars => [LayersKept \/ Len(layers') >= Len(layers) \/ Analyse]_vars
  BY MeantInductive
<1> QED
  BY <1>1, <1>2, MeantTheorem, PTL DEF DeletionKeeps

\* An analysis that is added on a layer is on top of what the layer showed, with the
\* second source that was chosen: the id that the form gives it is no other node's.
THEOREM AddedTheorem == CarefulSpec => AddedAsAsked
<1> DEFINE added ==
             \A p \in Positions, kind \in Kinds : \A sec \in Seconds :
                CreateAnalysisNode(p, kind, sec) =>
                    Meaning(nodes', layers'[p].source) =
                        [what |-> kind, prim |-> Meaning(nodes, layers[p].source),
                         sec |-> Meaning(nodes', sec)]
<1>1. CarefulSpec => [][CarefulNext(FALSE)]_vars
  BY DEF CarefulSpec
<1>2. Meant => [added]_vars
  BY CreateMeans DEF Meant, Collections
<1>3. AddedAsAsked <=> [][added]_vars
  BY DEF AddedAsAsked
<1> HIDE DEF added
<1>4. Meant /\ [CarefulNext(FALSE)]_vars => [added]_vars
  BY <1>2
<1> QED
  BY <1>1, <1>3, <1>4, MeantTheorem, PTL
===============================================================================
