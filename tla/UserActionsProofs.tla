------------------------ MODULE UserActionsProofs ------------------------
(***************************************************************************)
(* The layers of a map and the analyses that are saved for them, after     *)
(* whatever a careful user does in the builder, for any letters, layers,   *)
(* tables, widgets and numbers of nodes.                                   *)
(***************************************************************************)
EXTENDS UserActions, FiniteSetTheorems, SequenceTheorems, WellFoundedInduction, TLAPS

(* Induction on the naturals, and least and greatest elements.             *)

\* Induction on the naturals, for a set of them.
LEMMA NatSet ==
  ASSUME NEW S, 0 \in S, \A n \in Nat : n \in S => n + 1 \in S
  PROVE  \A n \in Nat : n \in S
<1> DEFINE T == {n \in Nat : n \notin S}
<1>1. IsWellFoundedOn(OpToRel(<, Nat), Nat)
  BY NatLessThanWellFounded
<1>2. SUFFICES ASSUME T # {} PROVE FALSE
  OBVIOUS
<1>3. PICK x \in T : \A y \in T : ~(<<y, x>> \in OpToRel(<, Nat))
  BY <1>1, <1>2, WFMin
<1>4. \A y \in T : ~(y < x)
  BY <1>3 DEF OpToRel
<1>5. x # 0 /\ x - 1 \in Nat /\ x - 1 < x
  OBVIOUS
<1>6. x - 1 \in S
  BY <1>4, <1>5
<1> QED
  BY <1>5, <1>6

\* The least of some naturals.
LEMMA MinIs ==
  ASSUME NEW S \in SUBSET Nat, S # {}
  PROVE  Min(S) \in S /\ \A y \in S : Min(S) <= y
<1>1. IsWellFoundedOn(OpToRel(<, Nat), Nat)
  BY NatLessThanWellFounded
<1>2. PICK x \in S : \A y \in S : ~(<<y, x>> \in OpToRel(<, Nat))
  BY <1>1, WFMin
<1>3. \A y \in S : ~(y < x)
  BY <1>2 DEF OpToRel
<1>4. \A y \in S : x <= y
  BY <1>3
<1> QED
  BY <1>4 DEF Min

(* Some element of a finite set has the greatest number.                   *)
LEMMA Greatest ==
  ASSUME NEW S, IsFiniteSet(S), S # {}, NEW f \in [S -> Nat]
  PROVE  \E x \in S : \A y \in S : f[y] <= f[x]
<1> DEFINE T == {n \in Nat : \A U \in SUBSET S : U # {} /\ IsFiniteSet(U) /\ Cardinality(U) = n =>
                                \E x \in U : \A y \in U : f[y] <= f[x]}
<1>1. 0 \in T
  BY FS_EmptySet
<1>2. ASSUME NEW n \in Nat, n \in T PROVE n + 1 \in T
  <2>1. SUFFICES ASSUME NEW U \in SUBSET S, U # {}, IsFiniteSet(U), Cardinality(U) = n + 1
                 PROVE  \E x \in U : \A y \in U : f[y] <= f[x]
    OBVIOUS
  <2>2. PICK u \in U : TRUE
    BY <2>1
  <2>3. IsFiniteSet(U \ {u}) /\ Cardinality(U \ {u}) = n
    <3>1. IsFiniteSet(U \ {u}) /\ Cardinality(U \ {u}) = Cardinality(U) - 1
      BY <2>1, <2>2, FS_RemoveElement
    <3> QED
      BY <3>1, <2>1
  <2>4. CASE U \ {u} = {}
    BY <2>4
  <2>5. CASE U \ {u} # {}
    <3>1. PICK x \in U \ {u} : \A y \in U \ {u} : f[y] <= f[x]
      BY <1>2, <2>3, <2>5
    <3>2. CASE f[u] <= f[x]
      BY <3>1, <3>2
    <3>3. CASE f[x] <= f[u]
      BY <3>1, <3>3
    <3> QED
      BY <3>2, <3>3
  <2> QED
    BY <2>4, <2>5
<1>3. \A n \in Nat : n \in T
  <2> HIDE DEF T
  <2> QED
    BY <1>1, <1>2, NatSet
<1>4. Cardinality(S) \in Nat
  BY FS_CardinalityType
<1> QED
  BY <1>3, <1>4

\* The greatest of an interval, and what is left without it.
LEMMA MaxOfInterval ==
  ASSUME NEW k \in Nat
  PROVE  Max(1 .. (k + 1)) = k + 1 /\ (1 .. (k + 1)) \ {k + 1} = 1 .. k /\ 1 .. (k + 1) # {}
<1>1. \A x \in 1 .. (k + 1) : (\A y \in 1 .. (k + 1) : x >= y) => x = k + 1
  OBVIOUS
<1> QED
  BY <1>1 DEF Max

\* The greatest of some positions of a list.
LEMMA MaxIs ==
  ASSUME NEW n \in Nat, NEW s \in SUBSET (1 .. n), s # {}
  PROVE  Max(s) \in s /\ \A y \in s : Max(s) >= y
<1>1. IsFiniteSet(s)
  <2>1. IsFiniteSet(1 .. n)
    BY FS_Interval
  <2> QED
    BY <2>1, FS_Subset
<1> DEFINE f == [x \in s |-> x]
<1>2. f \in [s -> Nat]
  OBVIOUS
<1>3. PICK x \in s : \A y \in s : f[y] <= f[x]
  BY <1>1, <1>2, Greatest
<1>4. \A y \in s : x >= y
  BY <1>3
<1> QED
  BY <1>4 DEF Max

(* What the folds of the actions compute, step by step.                    *)

\* h takes each set of positions of a list to the fold of its elements.
Unfolds(h, step, base, list, m) ==
    \A s \in SUBSET (1 .. m) :
        h[s] = IF s = {} THEN base ELSE step[<<h[s \ {Max(s)}], list[Max(s)]>>]

\* A fold over a list goes through a state for each position.
LEMMA FoldSteps ==
  ASSUME NEW S, NEW E, NEW step \in [S \X E -> S], NEW base \in S, NEW m \in Nat,
         NEW list \in [1 .. m -> E]
  PROVE  \E h \in [SUBSET (1 .. m) -> S] : Unfolds(h, step, base, list, m)
<1> DEFINE Is(h, n) ==
             /\ h \in [SUBSET (1 .. n) -> S]
             /\ \A s \in SUBSET (1 .. n) :
                   h[s] = IF s = {} THEN base ELSE step[<<h[s \ {Max(s)}], list[Max(s)]>>]
           T == {n \in Nat : n <= m => \E h : Is(h, n)}
<1> HIDE DEF Is
<1>1. 0 \in T
  <2>1. Is([s \in SUBSET (1 .. 0) |-> base], 0)
    BY DEF Is
  <2> QED
    BY <2>1
<1>2. ASSUME NEW n \in Nat, n \in T PROVE n + 1 \in T
  <2>0. SUFFICES ASSUME n + 1 <= m PROVE \E h : Is(h, n + 1)
    OBVIOUS
  <2>1. PICK h : Is(h, n)
    BY <1>2, <2>0
  <2>a. n + 1 \in 1 .. m
    BY <2>0
  <2> DEFINE g == [s \in SUBSET (1 .. n + 1) |-> IF n + 1 \notin s THEN h[s]
                     ELSE step[<<h[s \ {n + 1}], list[n + 1]>>]]
  <2>2. ASSUME NEW s \in SUBSET (1 .. n + 1)
        PROVE  /\ g[s] \in S
               /\ g[s] = IF s = {} THEN base ELSE step[<<g[s \ {Max(s)}], list[Max(s)]>>]
    <3>1. CASE n + 1 \in s
      <4>1. s \in SUBSET (1 .. (n + 1)) /\ n + 1 \in Nat /\ s # {}
        BY <3>1
      <4>2. Max(s) = n + 1
        <5>1. Max(s) \in s /\ \A y \in s : Max(s) >= y
          BY <4>1, MaxIs
        <5>2. Max(s) \in 1 .. (n + 1)
          BY <4>1, <5>1
        <5> QED
          BY <3>1, <5>1, <5>2
      <4>3. s \ {n + 1} \in SUBSET (1 .. n + 1) /\ n + 1 \notin s \ {n + 1}
            /\ s \ {n + 1} \in SUBSET (1 .. n)
        OBVIOUS
      <4>4. h[s \ {n + 1}] \in S /\ list[n + 1] \in E
        BY <2>1, <2>a, <4>3 DEF Is
      <4>5. g[s] = step[<<h[s \ {n + 1}], list[n + 1]>>]
        BY <3>1
      <4>6. g[s \ {n + 1}] = h[s \ {n + 1}]
        BY <4>3
      <4> HIDE DEF g
      <4> QED
        BY <4>1, <4>2, <4>4, <4>5, <4>6
    <3>2. CASE n + 1 \notin s /\ s # {}
      <4>1. s \in SUBSET (1 .. n)
        BY <3>2
      <4>2. s \ {Max(s)} \in SUBSET (1 .. n + 1) /\ n + 1 \notin s \ {Max(s)}
        BY <3>2
      <4> QED
        BY <2>1, <3>2, <4>1, <4>2 DEF Is
    <3>3. CASE s = {}
      <4>1. s \in SUBSET (1 .. n) /\ n + 1 \notin s
        BY <3>3
      <4> QED
        BY <2>1, <3>3, <4>1 DEF Is
    <3> QED
      BY <3>1, <3>2, <3>3
  <2>3. Is(g, n + 1)
    <3>1. g = [s \in SUBSET (1 .. n + 1) |-> g[s]]
      OBVIOUS
    <3> HIDE DEF g
    <3> QED
      BY <2>2, <3>1 DEF Is
  <2> HIDE DEF g
  <2> QED
    BY <2>3
<1>3. m \in T
  <2> HIDE DEF T
  <2> QED
    BY <1>1, <1>2, NatSet
<1>4. \E h : Is(h, m)
  BY <1>3
<1> QED
  BY <1>4 DEF Is, Unfolds

(* The types of the collections.                                           *)

AnyId == ((1 .. MaxLetter) \X Nat) \cup ({0} \X Tables)
LayerType == [lid : Layers, letter : 1 .. MaxLetter, source : AnyId]

Apart(ls) == \A p, q \in DOMAIN ls : p # q => ls[p].lid # ls[q].lid /\ ls[p].letter # ls[q].letter

(* InsertAt, RemoveAt and Kept, as functions.                              *)

\* A collection with one model more.
LEMMA Inserted ==
  ASSUME NEW S, NEW s \in Seq(S), NEW e \in S, NEW at \in 1 .. (Len(s) + 1)
  PROVE  /\ InsertAt(s, at, e) \in Seq(S)
         /\ Len(InsertAt(s, at, e)) = Len(s) + 1
         /\ \A k \in 1 .. (Len(s) + 1) :
              InsertAt(s, at, e)[k] = IF k < at THEN s[k] ELSE IF k = at THEN e ELSE s[k - 1]
<1> DEFINE n == Len(s)
           a == SubSeq(s, 1, at - 1)
           b == SubSeq(s, at, Len(s))
           c == a \o <<e>>
<1>0. n \in Nat /\ at \in 1 .. (n + 1)
  OBVIOUS
<1>1. a \in Seq(S) /\ Len(a) = at - 1 /\ \A k \in 1 .. (at - 1) : a[k] = s[k]
  OBVIOUS
<1>2. b \in Seq(S) /\ Len(b) = n - at + 1 /\ \A k \in 1 .. (n - at + 1) : b[k] = s[at + k - 1]
  OBVIOUS
<1>3. InsertAt(s, at, e) = c \o b
  BY DEF InsertAt
<1> HIDE DEF a, b, n
<1>4. c \in Seq(S) /\ Len(c) = at /\ \A k \in 1 .. at : c[k] = IF k < at THEN s[k] ELSE e
  BY <1>1
<1> HIDE DEF c
<1> DEFINE r == c \o b
<1>5. /\ r \in Seq(S) /\ Len(r) = Len(c) + Len(b)
      /\ \A k \in 1 .. Len(c) + Len(b) : r[k] = IF k <= Len(c) THEN c[k] ELSE b[k - Len(c)]
  BY <1>2, <1>4, ConcatProperties
<1> HIDE DEF r
<1>6. Len(r) = n + 1
  BY <1>0, <1>2, <1>4, <1>5
<1>7. ASSUME NEW k \in 1 .. (n + 1)
      PROVE  r[k] = IF k < at THEN s[k] ELSE IF k = at THEN e ELSE s[k - 1]
  <2>1. CASE k <= at
    BY <1>0, <1>2, <1>4, <1>5, <2>1
  <2>2. CASE k > at
    <3>1. r[k] = b[k - at] /\ k - at \in 1 .. (n - at + 1) /\ at + (k - at) - 1 = k - 1
      BY <1>0, <1>2, <1>4, <1>5, <2>2
    <3> QED
      BY <1>0, <1>2, <2>2, <3>1
  <2> QED
    BY <1>0, <2>1, <2>2
<1> QED
  BY <1>3, <1>5, <1>6, <1>7 DEF r, n

\* A collection with one model less.
LEMMA Removed ==
  ASSUME NEW S, NEW s \in Seq(S), NEW at \in 1 .. Len(s)
  PROVE  /\ RemoveAt(s, at) \in Seq(S)
         /\ Len(RemoveAt(s, at)) = Len(s) - 1
         /\ \A k \in 1 .. (Len(s) - 1) :
              RemoveAt(s, at)[k] = IF k < at THEN s[k] ELSE s[k + 1]
<1> DEFINE n == Len(s)
           a == SubSeq(s, 1, at - 1)
           b == SubSeq(s, at + 1, Len(s))
           r == a \o b
<1>0. n \in Nat /\ at \in 1 .. n
  OBVIOUS
<1>1. a \in Seq(S) /\ Len(a) = at - 1 /\ \A k \in 1 .. (at - 1) : a[k] = s[k]
  OBVIOUS
<1>2. b \in Seq(S) /\ Len(b) = n - at /\ \A k \in 1 .. (n - at) : b[k] = s[at + k]
  OBVIOUS
<1>3. RemoveAt(s, at) = r
  BY DEF RemoveAt
<1> HIDE DEF a, b, n
<1>4. /\ r \in Seq(S) /\ Len(r) = Len(a) + Len(b)
      /\ \A k \in 1 .. Len(a) + Len(b) : r[k] = IF k <= Len(a) THEN a[k] ELSE b[k - Len(a)]
  BY <1>1, <1>2, ConcatProperties
<1> HIDE DEF r
<1>5. Len(r) = n - 1
  BY <1>0, <1>1, <1>2, <1>4
<1>6. ASSUME NEW k \in 1 .. (n - 1) PROVE r[k] = IF k < at THEN s[k] ELSE s[k + 1]
  <2>1. CASE k < at
    BY <1>0, <1>1, <1>2, <1>4, <2>1
  <2>2. CASE k >= at
    <3>1. r[k] = b[k - (at - 1)] /\ k - (at - 1) \in 1 .. (n - at) /\ at + (k - (at - 1)) = k + 1
      BY <1>0, <1>1, <1>2, <1>4, <2>2
    <3> QED
      BY <1>0, <1>2, <2>2, <3>1
  <2> QED
    BY <1>0, <2>1, <2>2
<1> QED
  BY <1>3, <1>4, <1>5, <1>6 DEF n

\* The elements of kept are those of list at the positions, in their order.
Picks(e, kept, list, positions) ==
    /\ e \in [DOMAIN kept -> positions \cap DOMAIN list]
    /\ \A k \in DOMAIN kept : kept[k] = list[e[k]]
    /\ \A k, j \in DOMAIN kept : k < j => e[k] < e[j]
    /\ \A p \in positions \cap DOMAIN list : \E k \in DOMAIN kept : e[k] = p

\* What Kept leaves of a list is a sequence of what was at the positions.
LEMMA KeptOnes ==
  ASSUME NEW S, NEW list \in Seq(S), NEW positions
  PROVE  Kept(list, positions) \in Seq(S) /\ \E e : Picks(e, Kept(list, positions), list, positions)
<1> DEFINE m == Len(list)
           Is(h, n) == h = [k \in 0 .. n |-> IF k = 0 THEN << >>
                              ELSE IF k \in positions THEN Append(h[k - 1], list[k]) ELSE h[k - 1]]
           T == {n \in Nat : \E h : Is(h, n)}
<1>1. 0 \in T
  <2>1. Is([k \in 0 .. 0 |-> << >>], 0)
    OBVIOUS
  <2> QED
    BY <2>1
<1>2. ASSUME NEW n \in Nat, n \in T PROVE n + 1 \in T
  <2>1. PICK h : Is(h, n)
    BY <1>2
  <2> DEFINE g == [k \in 0 .. (n + 1) |-> IF k # n + 1 THEN h[k]
                     ELSE IF k \in positions THEN Append(h[n], list[k]) ELSE h[n]]
  <2>2. ASSUME NEW k \in 0 .. (n + 1)
        PROVE  g[k] = IF k = 0 THEN << >>
                      ELSE IF k \in positions THEN Append(g[k - 1], list[k]) ELSE g[k - 1]
    <3>1. CASE k = n + 1
      <4>1. k # 0 /\ k - 1 = n /\ n \in 0 .. (n + 1) /\ n # n + 1
        BY <3>1
      <4>2. g[n] = h[n]
        BY <4>1
      <4> QED
        BY <3>1, <4>1, <4>2
    <3>2. CASE k # n + 1
      <4>1. k \in 0 .. n /\ (k # 0 => k - 1 \in 0 .. (n + 1) /\ k - 1 # n + 1)
        BY <3>2
      <4>2. g[k] = h[k] /\ (k # 0 => g[k - 1] = h[k - 1])
        BY <3>2, <4>1
      <4>3. h[k] = IF k = 0 THEN << >>
                   ELSE IF k \in positions THEN Append(h[k - 1], list[k]) ELSE h[k - 1]
        BY <2>1, <4>1
      <4> HIDE DEF g
      <4> QED
        BY <4>2, <4>3
    <3> QED
      BY <3>1, <3>2
  <2>3. Is(g, n + 1)
    <3>1. g = [k \in 0 .. (n + 1) |-> g[k]]
      OBVIOUS
    <3> HIDE DEF g
    <3> QED
      BY <2>2, <3>1
  <2>4. n + 1 \in Nat
    OBVIOUS
  <2> HIDE DEF g, Is
  <2> QED
    BY <2>3, <2>4
<1>3. \E h : Is(h, m)
  <2>1. m \in Nat
    OBVIOUS
  <2>2. \A n \in Nat : n \in T
    <3> HIDE DEF T
    <3> QED
      BY <1>1, <1>2, NatSet
  <2> HIDE DEF Is, m
  <2> QED
    BY <2>1, <2>2
<1> DEFINE kept == CHOOSE h : Is(h, m)
<1>4. Is(kept, m)
  <2> HIDE DEF Is, m
  <2> QED
    BY <1>3
<1>5. Kept(list, positions) = kept[m]
  BY DEF Kept
<1> HIDE DEF kept
<1> DEFINE Good(n) ==
             /\ kept[n] \in Seq(S)
             /\ \E e \in [DOMAIN kept[n] -> positions \cap 1 .. n] :
                  /\ \A k \in DOMAIN kept[n] : kept[n][k] = list[e[k]]
                  /\ \A k, j \in DOMAIN kept[n] : k < j => e[k] < e[j]
                  /\ \A p \in positions \cap 1 .. n : \E k \in DOMAIN kept[n] : e[k] = p
           U == {n \in Nat : n <= m => Good(n)}
<1>6. 0 \in U
  <2>1. kept[0] = << >>
    BY <1>4
  <2> DEFINE e == [k \in {} |-> 0]
  <2>2. DOMAIN kept[0] = {} /\ e \in [DOMAIN kept[0] -> positions \cap 1 .. 0]
    BY <2>1
  <2>3. positions \cap 1 .. 0 = {}
    OBVIOUS
  <2> HIDE DEF e
  <2>4. Good(0)
    <3>1. \A k \in DOMAIN kept[0] : kept[0][k] = list[e[k]]
      BY <2>2
    <3>2. \A k, j \in DOMAIN kept[0] : k < j => e[k] < e[j]
      BY <2>2
    <3>3. \A p \in positions \cap 1 .. 0 : \E k \in DOMAIN kept[0] : e[k] = p
      BY <2>3
    <3>4. kept[0] \in Seq(S)
      BY <2>1
    <3> QED
      BY <2>2, <3>1, <3>2, <3>3, <3>4
  <2> QED
    BY <2>4
<1>7. ASSUME NEW n \in Nat, n \in U PROVE n + 1 \in U
  <2>0. SUFFICES ASSUME n + 1 <= m PROVE Good(n + 1)
    OBVIOUS
  <2>1. Good(n)
    BY <1>7, <2>0
  <2>2. PICK e \in [DOMAIN kept[n] -> positions \cap 1 .. n] :
                  /\ \A k \in DOMAIN kept[n] : kept[n][k] = list[e[k]]
                  /\ \A k, j \in DOMAIN kept[n] : k < j => e[k] < e[j]
                  /\ \A p \in positions \cap 1 .. n : \E k \in DOMAIN kept[n] : e[k] = p
    BY <2>1
  <2>3. n + 1 \in 0 .. m /\ n + 1 # 0 /\ (n + 1) - 1 = n
    BY <2>0
  <2>4. CASE n + 1 \notin positions
    <3>1. kept[n + 1] = kept[n]
      BY <1>4, <2>3, <2>4
    <3>2. positions \cap 1 .. (n + 1) = positions \cap 1 .. n
      BY <2>4
    <3>3. kept[n + 1] \in Seq(S)
      BY <2>1, <3>1
    <3>4. e \in [DOMAIN kept[n + 1] -> positions \cap 1 .. (n + 1)]
      BY <2>2, <3>1, <3>2
    <3>5. /\ \A k \in DOMAIN kept[n + 1] : kept[n + 1][k] = list[e[k]]
          /\ \A k, j \in DOMAIN kept[n + 1] : k < j => e[k] < e[j]
          /\ \A p \in positions \cap 1 .. (n + 1) : \E k \in DOMAIN kept[n + 1] : e[k] = p
      BY <2>2, <3>1, <3>2
    <3> QED
      BY <3>3, <3>4, <3>5
  <2>5. CASE n + 1 \in positions
    <3>1. kept[n + 1] = Append(kept[n], list[n + 1])
      BY <1>4, <2>3, <2>5
    <3>2. list[n + 1] \in S
      BY <2>3
    <3> DEFINE c == Len(kept[n])
               f == [k \in 1 .. (c + 1) |-> IF k = c + 1 THEN n + 1 ELSE e[k]]
    <3>3. c \in Nat /\ DOMAIN kept[n] = 1 .. c /\ DOMAIN kept[n + 1] = 1 .. (c + 1) /\ kept[n + 1] \in Seq(S)
      BY <2>1, <3>1, <3>2
    <3>4. \A k \in 1 .. (c + 1) : kept[n + 1][k] = IF k = c + 1 THEN list[n + 1] ELSE kept[n][k]
      BY <2>1, <3>1, <3>2, <3>3
    <3> HIDE DEF c
    <3>5. \A k \in 1 .. c : e[k] \in positions /\ e[k] \in 1 .. n
      BY <2>2, <3>3
    <3>6. f \in [1 .. (c + 1) -> positions \cap 1 .. (n + 1)]
      BY <2>5, <3>3, <3>5
    <3>7. ASSUME NEW k \in 1 .. (c + 1) PROVE kept[n + 1][k] = list[f[k]]
      <4>1. CASE k = c + 1
        BY <3>4, <4>1
      <4>2. CASE k # c + 1
        <5>1. k \in 1 .. c /\ f[k] = e[k]
          BY <3>3, <4>2
        <5>2. kept[n + 1][k] = kept[n][k]
          BY <3>4, <4>2
        <5> HIDE DEF f
        <5> QED
          BY <2>2, <3>3, <5>1, <5>2
      <4> QED
        BY <4>1, <4>2
    <3>8. ASSUME NEW k \in 1 .. (c + 1), NEW j \in 1 .. (c + 1), k < j PROVE f[k] < f[j]
      <4>1. k \in 1 .. c
        BY <3>3, <3>8
      <4>2. CASE j = c + 1
        BY <3>3, <3>5, <4>1, <4>2
      <4>3. CASE j # c + 1
        <5>1. j \in 1 .. c /\ f[k] = e[k] /\ f[j] = e[j]
          BY <3>3, <4>1, <4>3
        <5> HIDE DEF f
        <5> QED
          BY <2>2, <3>3, <3>8, <4>1, <5>1
      <4> QED
        BY <4>2, <4>3
    <3>9. ASSUME NEW p \in positions \cap 1 .. (n + 1) PROVE \E k \in 1 .. (c + 1) : f[k] = p
      <4>1. CASE p = n + 1
        BY <3>3, <4>1
      <4>2. CASE p # n + 1
        <5>1. p \in positions \cap 1 .. n
          BY <4>2
        <5>2. PICK k \in 1 .. c : e[k] = p
          BY <2>2, <3>3, <5>1
        <5>3. k \in 1 .. (c + 1) /\ k # c + 1
          BY <3>3
        <5>4. f[k] = p
          BY <5>2, <5>3
        <5> QED
          BY <5>3, <5>4
      <4> QED
        BY <4>1, <4>2
    <3> HIDE DEF f
    <3>10. \A k, j \in 1 .. (c + 1) : k < j => f[k] < f[j]
      BY <3>8
    <3>11. \A p \in positions \cap 1 .. (n + 1) : \E k \in 1 .. (c + 1) : f[k] = p
      BY <3>9
    <3>12. \A k \in 1 .. (c + 1) : kept[n + 1][k] = list[f[k]]
      BY <3>7
    <3>13. \E e2 \in [1 .. (c + 1) -> positions \cap 1 .. (n + 1)] :
              /\ \A k \in 1 .. (c + 1) : kept[n + 1][k] = list[e2[k]]
              /\ \A k, j \in 1 .. (c + 1) : k < j => e2[k] < e2[j]
              /\ \A p \in positions \cap 1 .. (n + 1) : \E k \in 1 .. (c + 1) : e2[k] = p
      BY <3>6, <3>10, <3>11, <3>12
    <3> HIDE DEF c
    <3> DEFINE D == DOMAIN kept[n + 1]
    <3>14. D = 1 .. (c + 1)
      BY <3>3
    <3> HIDE DEF D
    <3>15. \E e2 \in [D -> positions \cap 1 .. (n + 1)] :
              /\ \A k \in D : kept[n + 1][k] = list[e2[k]]
              /\ \A k, j \in D : k < j => e2[k] < e2[j]
              /\ \A p \in positions \cap 1 .. (n + 1) : \E k \in D : e2[k] = p
      BY <3>13, <3>14
    <3> QED
      BY <3>3, <3>15 DEF D
  <2> QED
    BY <2>4, <2>5
<1>8. Good(m)
  <2>1. \A n \in Nat : n \in U
    <3> HIDE DEF U
    <3> QED
      BY <1>6, <1>7, NatSet
  <2>2. m \in Nat /\ m <= m
    OBVIOUS
  <2> HIDE DEF m, Good
  <2> QED
    BY <2>1, <2>2
<1>9. 1 .. m = DOMAIN list
  OBVIOUS
<1> HIDE DEF m
<1> DEFINE r == Kept(list, positions)
<1>10. Good(m) /\ r = kept[m]
  BY <1>5, <1>8
<1> HIDE DEF r
<1>11. /\ r \in Seq(S)
       /\ \E e \in [DOMAIN r -> positions \cap 1 .. m] :
            /\ \A k \in DOMAIN r : r[k] = list[e[k]]
            /\ \A k, j \in DOMAIN r : k < j => e[k] < e[j]
            /\ \A p \in positions \cap 1 .. m : \E k \in DOMAIN r : e[k] = p
  BY <1>10
<1> QED
  BY <1>9, <1>11 DEF r, Picks

(* The saved analyses, as a set of heads with one letter each.             *)

LettersDiffer(hs) == \A k, j \in DOMAIN hs : k # j => Letter(hs[k]) # Letter(hs[j])

\* What Kept leaves of the heads, as a set; their letters still differ.
LEMMA KeptHeads ==
  ASSUME NEW hs \in Seq(AnyId), NEW P
  PROVE  /\ Kept(hs, P) \in Seq(AnyId)
         /\ \A x : x \in ToSet(Kept(hs, P)) <=> \E k \in DOMAIN hs : k \in P /\ hs[k] = x
         /\ LettersDiffer(hs) => LettersDiffer(Kept(hs, P))
<1> DEFINE kept == Kept(hs, P)
<1>1. kept \in Seq(AnyId) /\ \E e : Picks(e, kept, hs, P)
  BY KeptOnes
<1>2. PICK e \in [DOMAIN kept -> P \cap DOMAIN hs] :
              /\ \A k \in DOMAIN kept : kept[k] = hs[e[k]]
              /\ \A k, j \in DOMAIN kept : k < j => e[k] < e[j]
              /\ \A p \in P \cap DOMAIN hs : \E k \in DOMAIN kept : e[k] = p
  BY <1>1 DEF Picks
<1>3. DOMAIN kept = 1 .. Len(kept) /\ Len(kept) \in Nat /\ DOMAIN hs = 1 .. Len(hs) /\ Len(hs) \in Nat
  BY <1>1
<1> HIDE DEF kept
<1>4. \A k \in DOMAIN kept : e[k] \in DOMAIN hs /\ e[k] \in P
  BY <1>2
<1>5. ASSUME NEW x PROVE x \in ToSet(kept) <=> \E k \in DOMAIN hs : k \in P /\ hs[k] = x
  <2>1. ASSUME x \in ToSet(kept) PROVE \E k \in DOMAIN hs : k \in P /\ hs[k] = x
    BY <1>2, <1>4, <2>1 DEF ToSet
  <2>2. ASSUME NEW p \in DOMAIN hs, p \in P, hs[p] = x PROVE x \in ToSet(kept)
    <3>1. PICK k \in DOMAIN kept : e[k] = p
      BY <1>2, <2>2
    <3> QED
      BY <1>2, <2>2, <3>1 DEF ToSet
  <2> QED
    BY <2>1, <2>2
<1>6. ASSUME LettersDiffer(hs) PROVE LettersDiffer(kept)
  <2>1. SUFFICES ASSUME NEW k \in DOMAIN kept, NEW j \in DOMAIN kept, k # j
                 PROVE  Letter(kept[k]) # Letter(kept[j])
    BY DEF LettersDiffer
  <2>2. e[k] # e[j]
    <3>1. e[k] \in Nat /\ e[j] \in Nat
      BY <1>3, <1>4
    <3>2. k < j \/ j < k
      BY <1>3, <2>1
    <3> QED
      BY <1>2, <3>1, <3>2
  <2> QED
    BY <1>2, <1>4, <1>6, <2>2 DEF LettersDiffer
<1> QED
  BY <1>1, <1>5, <1>6 DEF kept

OtherHeads(hs, layer) == {h \in ToSet(hs) : Letter(h) # layer.letter}
OwnHead(g, layer) == {h \in {layer.source} : h \in DOMAIN g /\ Owns(layer, h)}

(* saveAnalysisForLayer leaves the heads of the other letters, and of the  *)
(* layer's letter its source when it is its own.                           *)
LEMMA SaveIs ==
  ASSUME NEW g, NEW hs \in Seq(AnyId), NEW layer \in LayerType
  PROVE  /\ SaveAnalysis(g, hs, layer) \in Seq(AnyId)
         /\ LettersDiffer(hs) =>
              /\ LettersDiffer(SaveAnalysis(g, hs, layer))
              /\ ToSet(SaveAnalysis(g, hs, layer)) = OtherHeads(hs, layer) \cup OwnHead(g, layer)
<1> DEFINE found == AnalysesForLayer(hs, layer)
           first == Min(found)
           owner == layer.source \in DOMAIN g /\ Owns(layer, layer.source)
           r == SaveAnalysis(g, hs, layer)
           n == Len(hs)
           others == OtherHeads(hs, layer)
<1>1. n \in Nat /\ DOMAIN hs = 1 .. n /\ layer.source \in AnyId /\ \A k \in 1 .. n : hs[k] \in AnyId
  BY DEF LayerType
<1>2. ASSUME found # {} PROVE first \in 1 .. n /\ Letter(hs[first]) = layer.letter
  <2>1. found \in SUBSET Nat
    BY <1>1 DEF AnalysesForLayer
  <2>2. first \in found
    <3> HIDE DEF found
    <3> QED
      BY <1>2, <2>1, MinIs
  <2> QED
    BY <1>1, <2>2 DEF AnalysesForLayer
<1>3. ASSUME NEW k \in 1 .. n, found = {} \/ (LettersDiffer(hs) /\ k # first)
      PROVE  Letter(hs[k]) # layer.letter
  <2>1. CASE found = {}
    BY <1>1, <2>1 DEF AnalysesForLayer
  <2>2. CASE found # {}
    <3>1. first \in 1 .. n /\ Letter(hs[first]) = layer.letter
      BY <1>2, <2>2
    <3> HIDE DEF first
    <3> QED
      BY <1>1, <1>3, <2>2, <3>1 DEF LettersDiffer
  <2> QED
    BY <2>1, <2>2
<1>4. owner => Letter(layer.source) = layer.letter
  BY DEF Owns
<1>5. CASE owner /\ found # {}
  <2>1. r = [hs EXCEPT ![first] = layer.source]
    BY <1>5 DEF SaveAnalysis
  <2>2. first \in 1 .. n /\ Letter(hs[first]) = layer.letter
    BY <1>2, <1>5
  <2> HIDE DEF r, first, found
  <2>3. r \in Seq(AnyId) /\ Len(r) = n /\ \A k \in 1 .. n : r[k] = IF k = first THEN layer.source ELSE hs[k]
    BY <1>1, <2>1, <2>2
  <2>4. DOMAIN r = 1 .. n
    BY <2>3
  <2>5. ASSUME LettersDiffer(hs) PROVE LettersDiffer(r) /\ ToSet(r) = others \cup {layer.source}
    <3>1. LettersDiffer(r)
      BY <1>1, <1>3, <1>4, <1>5, <2>2, <2>3, <2>4, <2>5 DEF LettersDiffer
    <3>2. ASSUME NEW x \in ToSet(r) PROVE x \in others \cup {layer.source}
      BY <1>1, <1>3, <2>3, <2>4, <2>5, <3>2 DEF ToSet, OtherHeads
    <3>3. ASSUME NEW x \in others PROVE x \in ToSet(r)
      BY <1>1, <2>2, <2>3, <2>4 DEF ToSet, OtherHeads
    <3>4. layer.source \in ToSet(r)
      BY <2>2, <2>3, <2>4 DEF ToSet
    <3> QED
      BY <3>1, <3>2, <3>3, <3>4
  <2>6. OwnHead(g, layer) = {layer.source}
    BY <1>5 DEF OwnHead
  <2> QED
    BY <2>3, <2>5, <2>6 DEF r
<1>6. CASE owner /\ found = {}
  <2>1. r = Append(hs, layer.source)
    BY <1>6 DEF SaveAnalysis
  <2> HIDE DEF r, first, found
  <2>3. r \in Seq(AnyId) /\ Len(r) = n + 1 /\ \A k \in 1 .. (n + 1) : r[k] = IF k = n + 1 THEN layer.source ELSE hs[k]
    BY <1>1, <2>1
  <2>4. DOMAIN r = 1 .. (n + 1)
    BY <2>3
  <2>5. ASSUME LettersDiffer(hs) PROVE LettersDiffer(r) /\ ToSet(r) = others \cup {layer.source}
    <3>a. \A k \in 1 .. n : k \in 1 .. (n + 1) /\ k # n + 1 /\ r[k] = hs[k] /\ Letter(hs[k]) # layer.letter
      BY <1>1, <1>3, <1>6, <2>3
    <3>b. \A k \in 1 .. (n + 1) : k # n + 1 => k \in 1 .. n
      BY <1>1
    <3>c. r[n + 1] = layer.source /\ n + 1 \in 1 .. (n + 1)
      BY <1>1, <2>3
    <3>1. LettersDiffer(r)
      BY <1>1, <1>4, <1>6, <3>a, <3>b, <3>c, <2>4, <2>5 DEF LettersDiffer
    <3>2. ASSUME NEW x \in ToSet(r) PROVE x \in others \cup {layer.source}
      BY <1>1, <3>a, <3>b, <3>c, <2>4, <3>2 DEF ToSet, OtherHeads
    <3>3. ASSUME NEW x \in others PROVE x \in ToSet(r)
      BY <1>1, <3>a, <2>4 DEF ToSet, OtherHeads
    <3>4. layer.source \in ToSet(r)
      BY <3>c, <2>4 DEF ToSet
    <3> QED
      BY <3>1, <3>2, <3>3, <3>4
  <2>6. OwnHead(g, layer) = {layer.source}
    BY <1>6 DEF OwnHead
  <2> QED
    BY <2>3, <2>5, <2>6 DEF r
<1>7. CASE ~owner /\ found # {}
  <2>1. r = RemoveAt(hs, first)
    BY <1>7 DEF SaveAnalysis
  <2>2. first \in 1 .. n /\ Letter(hs[first]) = layer.letter
    BY <1>2, <1>7
  <2> HIDE DEF r, first, found
  <2>3. r \in Seq(AnyId) /\ Len(r) = n - 1 /\ \A k \in 1 .. (n - 1) : r[k] = IF k < first THEN hs[k] ELSE hs[k + 1]
    BY <1>1, <2>1, <2>2, Removed
  <2>4. DOMAIN r = 1 .. (n - 1)
    BY <2>3
  <2> DEFINE e == [k \in 1 .. (n - 1) |-> IF k < first THEN k ELSE k + 1]
  <2>e. \A k \in 1 .. (n - 1) : e[k] \in 1 .. n /\ e[k] # first /\ r[k] = hs[e[k]]
    BY <1>1, <2>2, <2>3
  <2>f. \A k, j \in 1 .. (n - 1) : k # j => e[k] # e[j]
    BY <1>1, <2>2
  <2>g. ASSUME NEW k \in 1 .. n, k # first PROVE \E j \in 1 .. (n - 1) : e[j] = k
    <3>1. CASE k < first
      <4>1. k \in 1 .. (n - 1) /\ e[k] = k
        BY <1>1, <2>2, <3>1
      <4> QED
        BY <4>1
    <3>2. CASE k > first
      <4>1. k - 1 \in 1 .. (n - 1) /\ ~(k - 1 < first) /\ (k - 1) + 1 = k
        BY <1>1, <2>2, <3>2
      <4>2. e[k - 1] = k
        BY <4>1
      <4> QED
        BY <4>1, <4>2
    <3> QED
      BY <1>1, <2>2, <2>g, <3>1, <3>2
  <2> HIDE DEF e
  <2>5. ASSUME LettersDiffer(hs) PROVE LettersDiffer(r) /\ ToSet(r) = others
    <3>1. LettersDiffer(r)
      BY <1>1, <2>4, <2>e, <2>f, <2>5 DEF LettersDiffer
    <3>2. ASSUME NEW x \in ToSet(r) PROVE x \in others
      <4>1. PICK k \in 1 .. (n - 1) : x = hs[e[k]]
        BY <2>4, <2>e, <3>2 DEF ToSet
      <4>2. e[k] \in 1 .. n /\ Letter(hs[e[k]]) # layer.letter
        BY <1>3, <2>5, <2>e
      <4> QED
        BY <1>1, <4>1, <4>2 DEF ToSet, OtherHeads
    <3>3. ASSUME NEW x \in others PROVE x \in ToSet(r)
      <4>1. PICK k \in 1 .. n : x = hs[k] /\ Letter(hs[k]) # layer.letter
        BY <1>1 DEF ToSet, OtherHeads
      <4>2. PICK j \in 1 .. (n - 1) : e[j] = k
        BY <2>2, <2>g, <4>1
      <4> QED
        BY <2>4, <2>e, <4>1, <4>2 DEF ToSet
    <3> QED
      BY <3>1, <3>2, <3>3
  <2>6. OwnHead(g, layer) = {}
    BY <1>7 DEF OwnHead
  <2> QED
    BY <2>3, <2>5, <2>6 DEF r
<1>8. CASE ~owner /\ found = {}
  <2>1. r = hs
    BY <1>8 DEF SaveAnalysis
  <2> HIDE DEF r, first, found
  <2>2. others = ToSet(hs)
    BY <1>1, <1>3, <1>8 DEF ToSet, OtherHeads
  <2>6. OwnHead(g, layer) = {}
    BY <1>8 DEF OwnHead
  <2> QED
    BY <2>1, <2>2, <2>6 DEF r
<1> QED
  BY <1>5, <1>6, <1>7, <1>8

(* Letters, owners and the lists of the nodes of one letter.               *)

\* layer-letters.js finds a letter below the last, as layers are fewer than letters.
LEMMA NextLetterFree ==
  ASSUME UserActionsAssumption, NEW ls \in Seq(LayerType), Len(ls) <= MaxLayers
  PROVE  LET taken == {ls[p].letter : p \in DOMAIN ls}
         IN  NextLetter(taken) \in 1 .. MaxLetter /\ NextLetter(taken) \notin taken
<1> DEFINE taken == {ls[p].letter : p \in DOMAIN ls}
           n == Len(ls)
           f == [p \in 1 .. n |-> ls[p].letter]
<1>1. n \in Nat /\ DOMAIN ls = 1 .. n /\ MaxLetter \in Nat /\ MaxLayers \in Nat /\ n < MaxLetter
  BY DEF UserActionsAssumption
<1> HIDE DEF n
<1>2. IsFiniteSet(taken) /\ Cardinality(taken) <= n
  <2>1. IsFiniteSet(1 .. n) /\ Cardinality(1 .. n) = n
    BY <1>1, FS_Interval
  <2>2. f \in Surjection(1 .. n, taken)
    BY <1>1 DEF Surjection
  <2> HIDE DEF f, taken
  <2> QED
    BY <2>1, <2>2, FS_Surjection
<1> DEFINE T == {l \in 1 .. MaxLetter : l \notin taken}
<1> HIDE DEF taken
<1>3. T # {}
  <2>1. SUFFICES ASSUME 1 .. MaxLetter \subseteq taken PROVE FALSE
    OBVIOUS
  <2>2. Cardinality(1 .. MaxLetter) = MaxLetter
    BY <1>1, FS_Interval
  <2>3. Cardinality(1 .. MaxLetter) <= Cardinality(taken)
    BY <1>2, <2>1, FS_Subset
  <2>4. Cardinality(taken) \in Nat
    BY <1>2, FS_CardinalityType
  <2> QED
    BY <1>1, <1>2, <2>2, <2>3, <2>4
<1>4. T \in SUBSET Nat
  OBVIOUS
<1> DEFINE m == Min(T)
<1>5. m \in T /\ \A y \in T : m <= y
  <2> HIDE DEF T
  <2> QED
    BY <1>3, <1>4, MinIs
<1> HIDE DEF m
<1> DEFINE Is(l) == l \notin taken /\ \A k \in 1 .. (l - 1) : k \in taken
<1>6. m \in 1 .. (MaxLetter + 1) /\ Is(m)
  <2>1. m \in 1 .. MaxLetter /\ m \notin taken
    BY <1>5
  <2>2. \A k \in 1 .. (m - 1) : k \in taken
    <3>1. SUFFICES ASSUME NEW k \in 1 .. (m - 1), k \notin taken PROVE FALSE
      OBVIOUS
    <3>2. k \in T /\ k < m
      BY <1>1, <2>1, <3>1
    <3>3. m <= k
      BY <1>5, <3>2
    <3> QED
      BY <2>1, <3>2, <3>3
  <2> QED
    BY <1>1, <2>1, <2>2
<1>7. \A l \in 1 .. (MaxLetter + 1) : Is(l) => l <= m
  <2>1. SUFFICES ASSUME NEW l \in 1 .. (MaxLetter + 1), Is(l), l > m PROVE FALSE
    BY <1>1, <1>5
  <2>2. m \in 1 .. (l - 1)
    BY <1>1, <1>5, <2>1
  <2> QED
    BY <1>5, <2>1, <2>2
<1> DEFINE c == NextLetter(taken)
<1>8. c \in 1 .. (MaxLetter + 1) /\ Is(c)
  BY <1>6 DEF NextLetter
<1> HIDE DEF c, Is
<1>9. c \in 1 .. MaxLetter
  BY <1>1, <1>5, <1>7, <1>8
<1> QED
  BY <1>8, <1>9 DEF c, Is, taken

\* findOwnerOfAnalysisNode answers an owner when there is one.
LEMMA OwnerIs ==
  ASSUME NEW ls \in Seq(LayerType), NEW id, Owners(ls, id) # {}
  PROVE  FindOwner(ls, id) \in DOMAIN ls /\ Owns(ls[FindOwner(ls, id)], id)
<1>1. Owners(ls, id) \in SUBSET Nat
  BY DEF Owners
<1>2. FindOwner(ls, id) \in Owners(ls, id)
  BY <1>1, MinIs DEF FindOwner
<1> QED
  BY <1>2 DEF Owners

(* The list goes down the primary sources while they have the letter.      *)
LEMMA ListOfLetter ==
  ASSUME NEW g, IsFiniteSet(DOMAIN g), NEW id \in DOMAIN g
  PROVE  LET list == LinkedListBySameLetter(g, id)
         IN  /\ list \in Seq(DOMAIN g)
             /\ Len(list) \in 1 .. (Cardinality(DOMAIN g) + 1)
             /\ list[1] = id
             /\ \A k \in 1 .. Len(list) : Letter(list[k]) = Letter(id)
             /\ \A k \in 1 .. (Len(list) - 1) : list[k + 1] = g[list[k]].prim
             /\ \/ Len(list) = Cardinality(DOMAIN g) + 1
                \/ g[Last(list)].prim \notin DOMAIN g
                \/ Letter(g[Last(list)].prim) # Letter(id)
<1> DEFINE m == Cardinality(DOMAIN g)
           Goes(list) == g[Last(list)].prim \in DOMAIN g /\ Letter(g[Last(list)].prim) = Letter(id)
           Is(h, n) == h = [k \in 0 .. n |-> IF k = 0 THEN <<id>>
                              ELSE IF Goes(h[k - 1]) THEN Append(h[k - 1], g[Last(h[k - 1])].prim)
                                   ELSE h[k - 1]]
           T == {n \in Nat : \E h : Is(h, n)}
<1>0. m \in Nat
  BY FS_CardinalityType
<1> HIDE DEF Goes
<1>1. 0 \in T
  <2>1. Is([k \in 0 .. 0 |-> <<id>>], 0)
    OBVIOUS
  <2> QED
    BY <2>1
<1>2. ASSUME NEW n \in Nat, n \in T PROVE n + 1 \in T
  <2>1. PICK h : Is(h, n)
    BY <1>2
  <2> DEFINE g2 == [k \in 0 .. (n + 1) |-> IF k # n + 1 THEN h[k]
                      ELSE IF Goes(h[n]) THEN Append(h[n], g[Last(h[n])].prim) ELSE h[n]]
  <2>2. ASSUME NEW k \in 0 .. (n + 1)
        PROVE  g2[k] = IF k = 0 THEN <<id>>
                       ELSE IF Goes(g2[k - 1]) THEN Append(g2[k - 1], g[Last(g2[k - 1])].prim)
                            ELSE g2[k - 1]
    <3>1. CASE k = n + 1
      <4>1. k # 0 /\ k - 1 = n /\ n \in 0 .. (n + 1) /\ n # n + 1
        BY <3>1
      <4>2. g2[n] = h[n]
        BY <4>1
      <4> QED
        BY <3>1, <4>1, <4>2
    <3>2. CASE k # n + 1
      <4>1. k \in 0 .. n /\ (k # 0 => k - 1 \in 0 .. (n + 1) /\ k - 1 # n + 1)
        BY <3>2
      <4>2. g2[k] = h[k] /\ (k # 0 => g2[k - 1] = h[k - 1])
        BY <3>2, <4>1
      <4>3. h[k] = IF k = 0 THEN <<id>>
                   ELSE IF Goes(h[k - 1]) THEN Append(h[k - 1], g[Last(h[k - 1])].prim) ELSE h[k - 1]
        BY <2>1, <4>1
      <4> HIDE DEF g2
      <4> QED
        BY <4>2, <4>3
    <3> QED
      BY <3>1, <3>2
  <2>3. Is(g2, n + 1)
    <3>1. g2 = [k \in 0 .. (n + 1) |-> g2[k]]
      OBVIOUS
    <3> HIDE DEF g2
    <3> QED
      BY <2>2, <3>1
  <2>4. n + 1 \in Nat
    OBVIOUS
  <2> HIDE DEF g2, Is
  <2> QED
    BY <2>3, <2>4
<1>3. \E h : Is(h, m)
  <2>2. \A n \in Nat : n \in T
    <3> HIDE DEF T
    <3> QED
      BY <1>1, <1>2, NatSet
  <2> HIDE DEF Is, m
  <2> QED
    BY <1>0, <2>2
<1> DEFINE chain == CHOOSE h : Is(h, m)
<1>4. Is(chain, m)
  <2> HIDE DEF Is, m
  <2> QED
    BY <1>3
<1>5. LinkedListBySameLetter(g, id) = chain[m]
  BY DEF LinkedListBySameLetter, Goes
<1> HIDE DEF chain, m
<1> DEFINE Good(list, n) ==
             /\ list \in Seq(DOMAIN g)
             /\ Len(list) \in 1 .. (n + 1)
             /\ list[1] = id
             /\ \A k \in 1 .. Len(list) : Letter(list[k]) = Letter(id)
             /\ \A k \in 1 .. (Len(list) - 1) : list[k + 1] = g[list[k]].prim
             /\ Len(list) = n + 1 \/ ~Goes(list)
           U == {n \in Nat : n <= m => Good(chain[n], n)}
<1>6. 0 \in U
  <2>1. chain[0] = <<id>>
    BY <1>0, <1>4
  <2>2. Good(<<id>>, 0)
    OBVIOUS
  <2> QED
    BY <2>1, <2>2
<1>7. ASSUME NEW n \in Nat, n \in U PROVE n + 1 \in U
  <2>0. SUFFICES ASSUME n + 1 <= m PROVE Good(chain[n + 1], n + 1)
    OBVIOUS
  <2> DEFINE list == chain[n]
             c == Len(list)
  <2>1. Good(list, n)
    BY <1>0, <1>7, <2>0
  <2>2. n + 1 \in 0 .. m /\ n + 1 # 0 /\ (n + 1) - 1 = n
    BY <1>0, <2>0
  <2>3. chain[n + 1] = IF Goes(list) THEN Append(list, g[Last(list)].prim) ELSE list
    BY <1>4, <2>2
  <2> HIDE DEF list
  <2>4. CASE ~Goes(list)
    <3>1. Good(list, n + 1)
      BY <2>1, <2>4
    <3> QED
      BY <2>3, <2>4, <3>1
  <2>5. CASE Goes(list)
    <3> DEFINE prim == g[Last(list)].prim
               longer == Append(list, prim)
    <3>1. prim \in DOMAIN g /\ Letter(prim) = Letter(id)
      BY <2>5 DEF Goes
    <3>2. c = n + 1 /\ list \in Seq(DOMAIN g) /\ list[1] = id
      BY <2>1, <2>5
    <3>3. prim = g[list[c]].prim
      BY DEF Last
    <3>4. c \in Nat /\ c >= 1
      BY <3>2
    <3> HIDE DEF prim, c
    <3>5. longer \in Seq(DOMAIN g) /\ Len(longer) = c + 1
          /\ \A k \in 1 .. (c + 1) : longer[k] = IF k = c + 1 THEN prim ELSE list[k]
      BY <3>1, <3>2, <3>4 DEF c
    <3> HIDE DEF longer
    <3>6. \A k \in 1 .. c : Letter(list[k]) = Letter(id)
      BY <2>1 DEF c
    <3>7. \A k \in 1 .. (c - 1) : list[k + 1] = g[list[k]].prim
      BY <2>1 DEF c
    <3>8. \A k \in 1 .. (c + 1) : Letter(longer[k]) = Letter(id)
      BY <3>1, <3>4, <3>5, <3>6
    <3>9. ASSUME NEW k \in 1 .. c PROVE longer[k + 1] = g[longer[k]].prim
      <4>1. CASE k = c
        BY <3>3, <3>4, <3>5, <4>1
      <4>2. CASE k # c
        BY <3>4, <3>5, <3>7, <4>2
      <4> QED
        BY <4>1, <4>2
    <3>10. longer[1] = id
      BY <3>2, <3>4, <3>5
    <3>11. Len(longer) \in 1 .. (n + 1 + 1) /\ Len(longer) = n + 1 + 1
      BY <3>2, <3>4, <3>5
    <3>12. \A k \in 1 .. (Len(longer) - 1) : longer[k + 1] = g[longer[k]].prim
      BY <3>4, <3>5, <3>9
    <3>13. Good(longer, n + 1)
      BY <3>5, <3>8, <3>10, <3>11, <3>12
    <3> QED
      BY <2>3, <2>5, <3>13 DEF longer, prim
  <2> QED
    BY <2>4, <2>5
<1>8. Good(chain[m], m)
  <2>1. \A n \in Nat : n \in U
    <3> HIDE DEF U
    <3> QED
      BY <1>6, <1>7, NatSet
  <2>2. m <= m
    BY <1>0
  <2> HIDE DEF Good
  <2> QED
    BY <1>0, <2>1, <2>2
<1> QED
  BY <1>5, <1>8 DEF Goes, m

(* The analyses that are saved have for heads the layers' own sources.     *)

Saved(hs, ls) ==
    /\ hs \in Seq(AnyId)
    /\ LettersDiffer(hs)
    /\ \A h \in ToSet(hs) : \E q \in DOMAIN ls : ls[q].source = h /\ Owns(ls[q], h)

\* saveAnalysisForLayer, for a layer of the map.
LEMMA SavedOne ==
  ASSUME NEW g, NEW ls \in Seq(LayerType), NEW hs, Saved(hs, ls), NEW p \in DOMAIN ls
  PROVE  Saved(SaveAnalysis(g, hs, ls[p]), ls)
<1> DEFINE r == SaveAnalysis(g, hs, ls[p])
<1>1. ls[p] \in LayerType /\ hs \in Seq(AnyId) /\ LettersDiffer(hs)
  BY DEF Saved
<1>2. /\ r \in Seq(AnyId) /\ LettersDiffer(r)
      /\ ToSet(r) = OtherHeads(hs, ls[p]) \cup OwnHead(g, ls[p])
  BY <1>1, SaveIs
<1> HIDE DEF r
<1>3. ASSUME NEW h \in ToSet(r) PROVE \E q \in DOMAIN ls : ls[q].source = h /\ Owns(ls[q], h)
  BY <1>2 DEF Saved, OtherHeads, OwnHead
<1> QED
  BY <1>2, <1>3 DEF r, Saved

SaveMoved(g, hs, ls) ==
    FoldLeft(LAMBDA as, l : IF l.source \in DOMAIN g THEN SaveAnalysis(g, as, l) ELSE as, hs, ls)

SaveCreated(g, hs, ls) ==
    FoldLeft(LAMBDA as, l : IF AnalysesForLayer(as, l) = {} THEN SaveAnalysis(g, as, l) ELSE as, hs, ls)

\* moveLayer saves the analyses of the layers one after the other.
LEMMA SavedMoved ==
  ASSUME NEW g, NEW ls \in Seq(LayerType), NEW hs, Saved(hs, ls)
  PROVE  Saved(SaveMoved(g, hs, ls), ls)
<1> DEFINE op(x, l) == IF l.source \in DOMAIN g THEN SaveAnalysis(g, x, l) ELSE x
           m == Len(ls)
           step == [xl \in Seq(AnyId) \X LayerType |-> op(xl[1], xl[2])]
           Is(h) == h = [s \in SUBSET (1 .. m) |-> IF s = {} THEN hs
                           ELSE op(h[s \ {Max(s)}], ls[Max(s)])]
<1>1. m \in Nat /\ DOMAIN ls = 1 .. m /\ ls \in [1 .. m -> LayerType]
  OBVIOUS
<1>2. hs \in Seq(AnyId)
  BY DEF Saved
<1> HIDE DEF m
<1>3. step \in [Seq(AnyId) \X LayerType -> Seq(AnyId)]
  BY SaveIs
<1> HIDE DEF op
<1>4. \E h : Is(h)
  <2> DEFINE st == step
  <2>1. \A x \in Seq(AnyId), l \in LayerType : st[<<x, l>>] = op(x, l)
    OBVIOUS
  <2> HIDE DEF st
  <2>t. st \in [Seq(AnyId) \X LayerType -> Seq(AnyId)]
    BY <1>3 DEF st
  <2>2. PICK h \in [SUBSET (1 .. m) -> Seq(AnyId)] : Unfolds(h, st, hs, ls, m)
    BY <1>1, <1>2, <2>t, FoldSteps
  <2>3. ASSUME NEW s \in SUBSET (1 .. m)
        PROVE  h[s] = IF s = {} THEN hs ELSE op(h[s \ {Max(s)}], ls[Max(s)])
    <3>1. CASE s = {}
      BY <2>2, <3>1 DEF Unfolds
    <3>2. CASE s # {}
      <4>1. Max(s) \in s
        BY <1>1, <3>2, MaxIs
      <4>2. ls[Max(s)] \in LayerType /\ h[s \ {Max(s)}] \in Seq(AnyId)
        BY <1>1, <4>1
      <4> QED
        BY <2>1, <2>2, <3>2, <4>2 DEF Unfolds
    <3> QED
      BY <3>1, <3>2
  <2>4. Is(h)
    BY <2>3
  <2> QED
    BY <2>4
<1> DEFINE iter == CHOOSE h : Is(h)
<1>5. Is(iter)
  <2> HIDE DEF Is
  <2> QED
    BY <1>4
<1>6. FoldLeft(op, hs, ls) = iter[1 .. m]
  BY <1>1 DEF FoldLeft, MapThenFoldSet
<1> HIDE DEF iter
<1> DEFINE T == {n \in Nat : n <= m => Saved(iter[1 .. n], ls)}
<1>7. 0 \in T
  <2>1. 1 .. 0 = {} /\ {} \in SUBSET (1 .. m)
    OBVIOUS
  <2>2. iter[{}] = hs
    BY <1>5, <2>1
  <2> QED
    BY <2>1, <2>2
<1>8. ASSUME NEW n \in Nat, n \in T PROVE n + 1 \in T
  <2>1. SUFFICES ASSUME n + 1 <= m PROVE Saved(iter[1 .. (n + 1)], ls)
    OBVIOUS
  <2>2. Max(1 .. (n + 1)) = n + 1 /\ (1 .. (n + 1)) \ {n + 1} = 1 .. n /\ 1 .. (n + 1) # {}
    BY MaxOfInterval
  <2>3. 1 .. (n + 1) \in SUBSET (1 .. m) /\ n + 1 \in DOMAIN ls
    BY <1>1, <2>1
  <2>4. iter[1 .. (n + 1)] = op(iter[1 .. n], ls[n + 1])
    BY <1>5, <2>2, <2>3
  <2>5. Saved(iter[1 .. n], ls)
    BY <1>1, <1>8, <2>1
  <2>6. Saved(SaveAnalysis(g, iter[1 .. n], ls[n + 1]), ls)
    BY <2>3, <2>5, SavedOne
  <2> QED
    BY <2>4, <2>5, <2>6 DEF op
<1>9. Saved(iter[1 .. m], ls)
  <2>1. \A n \in Nat : n \in T
    <3> HIDE DEF T
    <3> QED
      BY <1>7, <1>8, NatSet
  <2> QED
    BY <1>1, <2>1
<1> QED
  BY <1>6, <1>9 DEF op, SaveMoved

\* The answer to createLayerFromTable saves an analysis for the layers without one.
LEMMA SavedCreated ==
  ASSUME NEW g, NEW ls \in Seq(LayerType), NEW hs, Saved(hs, ls)
  PROVE  Saved(SaveCreated(g, hs, ls), ls)
<1> DEFINE op(x, l) == IF AnalysesForLayer(x, l) = {} THEN SaveAnalysis(g, x, l) ELSE x
           m == Len(ls)
           step == [xl \in Seq(AnyId) \X LayerType |-> op(xl[1], xl[2])]
           Is(h) == h = [s \in SUBSET (1 .. m) |-> IF s = {} THEN hs
                           ELSE op(h[s \ {Max(s)}], ls[Max(s)])]
<1>1. m \in Nat /\ DOMAIN ls = 1 .. m /\ ls \in [1 .. m -> LayerType]
  OBVIOUS
<1>2. hs \in Seq(AnyId)
  BY DEF Saved
<1> HIDE DEF m
<1>3. step \in [Seq(AnyId) \X LayerType -> Seq(AnyId)]
  BY SaveIs
<1> HIDE DEF op
<1>4. \E h : Is(h)
  <2> DEFINE st == step
  <2>1. \A x \in Seq(AnyId), l \in LayerType : st[<<x, l>>] = op(x, l)
    OBVIOUS
  <2> HIDE DEF st
  <2>t. st \in [Seq(AnyId) \X LayerType -> Seq(AnyId)]
    BY <1>3 DEF st
  <2>2. PICK h \in [SUBSET (1 .. m) -> Seq(AnyId)] : Unfolds(h, st, hs, ls, m)
    BY <1>1, <1>2, <2>t, FoldSteps
  <2>3. ASSUME NEW s \in SUBSET (1 .. m)
        PROVE  h[s] = IF s = {} THEN hs ELSE op(h[s \ {Max(s)}], ls[Max(s)])
    <3>1. CASE s = {}
      BY <2>2, <3>1 DEF Unfolds
    <3>2. CASE s # {}
      <4>1. Max(s) \in s
        BY <1>1, <3>2, MaxIs
      <4>2. ls[Max(s)] \in LayerType /\ h[s \ {Max(s)}] \in Seq(AnyId)
        BY <1>1, <4>1
      <4> QED
        BY <2>1, <2>2, <3>2, <4>2 DEF Unfolds
    <3> QED
      BY <3>1, <3>2
  <2>4. Is(h)
    BY <2>3
  <2> QED
    BY <2>4
<1> DEFINE iter == CHOOSE h : Is(h)
<1>5. Is(iter)
  <2> HIDE DEF Is
  <2> QED
    BY <1>4
<1>6. FoldLeft(op, hs, ls) = iter[1 .. m]
  BY <1>1 DEF FoldLeft, MapThenFoldSet
<1> HIDE DEF iter
<1> DEFINE T == {n \in Nat : n <= m => Saved(iter[1 .. n], ls)}
<1>7. 0 \in T
  <2>1. 1 .. 0 = {} /\ {} \in SUBSET (1 .. m)
    OBVIOUS
  <2>2. iter[{}] = hs
    BY <1>5, <2>1
  <2> QED
    BY <2>1, <2>2
<1>8. ASSUME NEW n \in Nat, n \in T PROVE n + 1 \in T
  <2>1. SUFFICES ASSUME n + 1 <= m PROVE Saved(iter[1 .. (n + 1)], ls)
    OBVIOUS
  <2>2. Max(1 .. (n + 1)) = n + 1 /\ (1 .. (n + 1)) \ {n + 1} = 1 .. n /\ 1 .. (n + 1) # {}
    BY MaxOfInterval
  <2>3. 1 .. (n + 1) \in SUBSET (1 .. m) /\ n + 1 \in DOMAIN ls
    BY <1>1, <2>1
  <2>4. iter[1 .. (n + 1)] = op(iter[1 .. n], ls[n + 1])
    BY <1>5, <2>2, <2>3
  <2>5. Saved(iter[1 .. n], ls)
    BY <1>1, <1>8, <2>1
  <2>6. Saved(SaveAnalysis(g, iter[1 .. n], ls[n + 1]), ls)
    BY <2>3, <2>5, SavedOne
  <2> QED
    BY <2>4, <2>5, <2>6 DEF op
<1>9. Saved(iter[1 .. m], ls)
  <2>1. \A n \in Nat : n \in T
    <3> HIDE DEF T
    <3> QED
      BY <1>7, <1>8, NatSet
  <2> QED
    BY <1>1, <2>1
<1> QED
  BY <1>6, <1>9 DEF op, SaveCreated

(* The folds that move nodes, step by step.                                *)

MoveNode(g, old, letter) ==
    ChangeSourceIds(AddNode(g, ChangeLetter(old, letter), g[old]), old, ChangeLetter(old, letter))

MoveNodes(base, list, letter) == FoldLeft(LAMBDA g, old : MoveNode(g, old, letter), base, list)

Renames(base, from, ids, list) == FoldLeft(LAMBDA st, k : Renamed(st, from[k], ids[k]), base, list)

\* f takes each number of steps to the state after them.
MoveSteps(f, base, list, letter, m) ==
    /\ f[0] = base
    /\ \A k \in 1 .. m : f[k] = MoveNode(f[k - 1], list[k], letter)
    /\ f[m] = MoveNodes(base, list, letter)

RenameSteps(f, base, from, ids, list, m) ==
    /\ f[0] = base
    /\ \A k \in 1 .. m : f[k] = Renamed(f[k - 1], from[list[k]], ids[list[k]])
    /\ f[m] = Renames(base, from, ids, list)

\* A node dragged from the middle takes those below it along, one by one.
LEMMA FoldMoveNode ==
  ASSUME NEW base, NEW letter, NEW m \in Nat, NEW list, DOMAIN list = 1 .. m
  PROVE  \E f : MoveSteps(f, base, list, letter, m)
<1> DEFINE op(x, y) == MoveNode(x, y, letter)
           Is(h, n) == h = [s \in SUBSET (1 .. n) |-> IF s = {} THEN base
                              ELSE op(h[s \ {Max(s)}], list[Max(s)])]
           T == {n \in Nat : \E h : Is(h, n)}
<1> HIDE DEF op
<1>1. 0 \in T
  <2>1. Is([s \in SUBSET (1 .. 0) |-> base], 0)
    OBVIOUS
  <2> QED
    BY <2>1
<1>2. ASSUME NEW n \in Nat, n \in T PROVE n + 1 \in T
  <2>1. PICK h : Is(h, n)
    BY <1>2
  <2> DEFINE g == [s \in SUBSET (1 .. n + 1) |-> IF n + 1 \notin s THEN h[s]
                     ELSE op(h[s \ {n + 1}], list[n + 1])]
  <2>2. ASSUME NEW s \in SUBSET (1 .. n + 1)
        PROVE  g[s] = IF s = {} THEN base ELSE op(g[s \ {Max(s)}], list[Max(s)])
    <3>1. CASE n + 1 \in s
      <4>1. s \in SUBSET (1 .. (n + 1)) /\ n + 1 \in Nat /\ s # {}
        BY <3>1
      <4>2. Max(s) = n + 1
        <5>1. Max(s) \in s /\ \A y \in s : Max(s) >= y
          BY <4>1, MaxIs
        <5>2. Max(s) \in 1 .. (n + 1)
          BY <4>1, <5>1
        <5> QED
          BY <3>1, <5>1, <5>2
      <4>3. s \ {n + 1} \in SUBSET (1 .. n + 1) /\ n + 1 \notin s \ {n + 1}
        OBVIOUS
      <4> QED
        BY <3>1, <4>2, <4>3
    <3>2. CASE n + 1 \notin s /\ s # {}
      <4>1. s \in SUBSET (1 .. n)
        BY <3>2
      <4>2. s \ {Max(s)} \in SUBSET (1 .. n + 1) /\ n + 1 \notin s \ {Max(s)}
        BY <3>2
      <4> QED
        BY <2>1, <3>2, <4>1, <4>2
    <3>3. CASE s = {}
      <4>1. s \in SUBSET (1 .. n) /\ n + 1 \notin s
        BY <3>3
      <4> QED
        BY <2>1, <3>3, <4>1
    <3> QED
      BY <3>1, <3>2, <3>3
  <2>3. Is(g, n + 1)
    <3>1. g = [s \in SUBSET (1 .. n + 1) |-> g[s]]
      OBVIOUS
    <3> HIDE DEF g
    <3> QED
      BY <2>2, <3>1
  <2>4. n + 1 \in Nat
    OBVIOUS
  <2> HIDE DEF g, Is
  <2> QED
    BY <2>3, <2>4
<1>3. m \in T
  <2> HIDE DEF T
  <2> QED
    BY <1>1, <1>2, NatSet
<1> DEFINE iter == CHOOSE h : Is(h, m)
           f == [k \in 0 .. m |-> iter[1 .. k]]
<1>4. Is(iter, m)
  BY <1>3
<1>5. f[0] = base
  <2>1. 1 .. 0 = {} /\ {} \in SUBSET (1 .. m) /\ 0 \in 0 .. m
    OBVIOUS
  <2> HIDE DEF iter
  <2> QED
    BY <1>4, <2>1
<1>6. ASSUME NEW k \in 1 .. m PROVE f[k] = op(f[k - 1], list[k])
  <2>1. k - 1 \in Nat /\ k \in 0 .. m /\ k - 1 \in 0 .. m /\ 1 .. k \in SUBSET (1 .. m) /\ (k - 1) + 1 = k
    OBVIOUS
  <2>2. Max(1 .. k) = k /\ (1 .. k) \ {k} = 1 .. (k - 1) /\ 1 .. k # {}
    BY <2>1, MaxOfInterval
  <2> HIDE DEF iter
  <2> QED
    BY <1>4, <2>1, <2>2
<1>7. f[m] = FoldLeft(op, base, list)
  BY DEF FoldLeft, MapThenFoldSet
<1> QED
  BY <1>5, <1>6, <1>7 DEF op, MoveNodes, MoveSteps

\* Nodes folded under a layer are renamed one by one.
LEMMA FoldRenamed ==
  ASSUME NEW base, NEW from, NEW ids, NEW m \in Nat, NEW list, DOMAIN list = 1 .. m
  PROVE  \E f : RenameSteps(f, base, from, ids, list, m)
<1> DEFINE op(x, y) == Renamed(x, from[y], ids[y])
           Is(h, n) == h = [s \in SUBSET (1 .. n) |-> IF s = {} THEN base
                              ELSE op(h[s \ {Max(s)}], list[Max(s)])]
           T == {n \in Nat : \E h : Is(h, n)}
<1> HIDE DEF op
<1>1. 0 \in T
  <2>1. Is([s \in SUBSET (1 .. 0) |-> base], 0)
    OBVIOUS
  <2> QED
    BY <2>1
<1>2. ASSUME NEW n \in Nat, n \in T PROVE n + 1 \in T
  <2>1. PICK h : Is(h, n)
    BY <1>2
  <2> DEFINE g == [s \in SUBSET (1 .. n + 1) |-> IF n + 1 \notin s THEN h[s]
                     ELSE op(h[s \ {n + 1}], list[n + 1])]
  <2>2. ASSUME NEW s \in SUBSET (1 .. n + 1)
        PROVE  g[s] = IF s = {} THEN base ELSE op(g[s \ {Max(s)}], list[Max(s)])
    <3>1. CASE n + 1 \in s
      <4>1. s \in SUBSET (1 .. (n + 1)) /\ n + 1 \in Nat /\ s # {}
        BY <3>1
      <4>2. Max(s) = n + 1
        <5>1. Max(s) \in s /\ \A y \in s : Max(s) >= y
          BY <4>1, MaxIs
        <5>2. Max(s) \in 1 .. (n + 1)
          BY <4>1, <5>1
        <5> QED
          BY <3>1, <5>1, <5>2
      <4>3. s \ {n + 1} \in SUBSET (1 .. n + 1) /\ n + 1 \notin s \ {n + 1}
        OBVIOUS
      <4> QED
        BY <3>1, <4>2, <4>3
    <3>2. CASE n + 1 \notin s /\ s # {}
      <4>1. s \in SUBSET (1 .. n)
        BY <3>2
      <4>2. s \ {Max(s)} \in SUBSET (1 .. n + 1) /\ n + 1 \notin s \ {Max(s)}
        BY <3>2
      <4> QED
        BY <2>1, <3>2, <4>1, <4>2
    <3>3. CASE s = {}
      <4>1. s \in SUBSET (1 .. n) /\ n + 1 \notin s
        BY <3>3
      <4> QED
        BY <2>1, <3>3, <4>1
    <3> QED
      BY <3>1, <3>2, <3>3
  <2>3. Is(g, n + 1)
    <3>1. g = [s \in SUBSET (1 .. n + 1) |-> g[s]]
      OBVIOUS
    <3> HIDE DEF g
    <3> QED
      BY <2>2, <3>1
  <2>4. n + 1 \in Nat
    OBVIOUS
  <2> HIDE DEF g, Is
  <2> QED
    BY <2>3, <2>4
<1>3. m \in T
  <2> HIDE DEF T
  <2> QED
    BY <1>1, <1>2, NatSet
<1> DEFINE iter == CHOOSE h : Is(h, m)
           f == [k \in 0 .. m |-> iter[1 .. k]]
<1>4. Is(iter, m)
  BY <1>3
<1>5. f[0] = base
  <2>1. 1 .. 0 = {} /\ {} \in SUBSET (1 .. m) /\ 0 \in 0 .. m
    OBVIOUS
  <2> HIDE DEF iter
  <2> QED
    BY <1>4, <2>1
<1>6. ASSUME NEW k \in 1 .. m PROVE f[k] = op(f[k - 1], list[k])
  <2>1. k - 1 \in Nat /\ k \in 0 .. m /\ k - 1 \in 0 .. m /\ 1 .. k \in SUBSET (1 .. m) /\ (k - 1) + 1 = k
    OBVIOUS
  <2>2. Max(1 .. k) = k /\ (1 .. k) \ {k} = 1 .. (k - 1) /\ 1 .. k # {}
    BY <2>1, MaxOfInterval
  <2> HIDE DEF iter
  <2> QED
    BY <1>4, <2>1, <2>2
<1>7. f[m] = FoldLeft(op, base, list)
  BY DEF FoldLeft, MapThenFoldSet
<1>8. \A k \in 1 .. m : f[k] = op(f[k - 1], list[k])
  BY <1>6
<1> HIDE DEF f
<1> QED
  BY <1>5, <1>7, <1>8 DEF op, Renames, RenameSteps

(* What the actions do to the layers and to the heads.                     *)

\* saveAnalysisForLayer, when the heads of the other letters are right.
LEMMA SavedWith ==
  ASSUME NEW g, NEW ls, NEW hs \in Seq(AnyId), LettersDiffer(hs), NEW layer \in LayerType,
         \E q \in DOMAIN ls : ls[q] = layer,
         \A h \in ToSet(hs) : Letter(h) # layer.letter =>
            \E q \in DOMAIN ls : ls[q].source = h /\ Owns(ls[q], h)
  PROVE  Saved(SaveAnalysis(g, hs, layer), ls)
<1> DEFINE r == SaveAnalysis(g, hs, layer)
<1>1. r \in Seq(AnyId) /\ LettersDiffer(r) /\ ToSet(r) = OtherHeads(hs, layer) \cup OwnHead(g, layer)
  BY SaveIs
<1> HIDE DEF r
<1>2. ASSUME NEW h \in ToSet(r) PROVE \E q \in DOMAIN ls : ls[q].source = h /\ Owns(ls[q], h)
  BY <1>1 DEF OtherHeads, OwnHead
<1> QED
  BY <1>1, <1>2 DEF r, Saved

\* deleteOrphanedAnalyses leaves heads that were saved rightly.
LEMMA SavedAtEnd ==
  ASSUME NEW g, DOMAIN g \subseteq AnyId, IsFiniteSet(DOMAIN g), NEW ls, NEW hs, Saved(hs, ls),
         EndWithout(g, ls, hs)
  PROVE  /\ DOMAIN nodes' \subseteq DOMAIN g /\ IsFiniteSet(DOMAIN nodes')
         /\ layers' = ls
         /\ Saved(analyses', ls)
<1>1. layers' = ls /\ nodes' = Unorphaned(g, ls) /\ analyses' = WithHead(nodes', hs)
  BY DEF EndWithout
<1>2. DOMAIN nodes' \subseteq DOMAIN g
  BY <1>1 DEF Unorphaned, RemoveNodes
<1>3. IsFiniteSet(DOMAIN nodes')
  BY <1>2, FS_Subset
<1> DEFINE P == {k \in DOMAIN hs : hs[k] \in DOMAIN nodes'}
<1>4. analyses' = Kept(hs, P)
  BY <1>1 DEF WithHead
<1> HIDE DEF P
<1>5. /\ analyses' \in Seq(AnyId)
      /\ \A x : x \in ToSet(analyses') <=> \E k \in DOMAIN hs : k \in P /\ hs[k] = x
      /\ LettersDiffer(analyses')
  BY <1>4, KeptHeads DEF Saved
<1>6. ToSet(analyses') \subseteq ToSet(hs)
  BY <1>5 DEF ToSet
<1> QED
  BY <1>1, <1>2, <1>3, <1>5, <1>6 DEF Saved

\* The same layers, but for their sources.
Alike(ls, other) ==
    /\ DOMAIN ls = DOMAIN other
    /\ \A q \in DOMAIN ls : ls[q].lid = other[q].lid /\ ls[q].letter = other[q].letter

\* A layer whose source changes, with its id and letter as they were.
LEMMA SourceMoved ==
  ASSUME NEW ls \in Seq(LayerType), NEW p \in DOMAIN ls, NEW id \in AnyId
  PROVE  LET other == [ls EXCEPT ![p].source = id]
         IN  /\ other \in Seq(LayerType) /\ Len(other) = Len(ls) /\ Alike(other, ls)
             /\ other[p].source = id
             /\ \A q \in DOMAIN ls : q # p => other[q] = ls[q]
<1>0. ls[p] \in LayerType
  OBVIOUS
<1>1. [ls[p] EXCEPT !.source = id] \in LayerType
  BY <1>0 DEF LayerType
<1> DEFINE other == [ls EXCEPT ![p].source = id]
<1>2. other = [ls EXCEPT ![p] = [ls[p] EXCEPT !.source = id]]
  OBVIOUS
<1>3. DOMAIN other = DOMAIN ls /\ other[p] = [ls[p] EXCEPT !.source = id]
      /\ \A q \in DOMAIN ls : q # p => other[q] = ls[q]
  OBVIOUS
<1>4. other \in Seq(LayerType) /\ Len(other) = Len(ls)
  BY <1>1, <1>2
<1> HIDE DEF other
<1>5. other[p].source = id /\ other[p].lid = ls[p].lid /\ other[p].letter = ls[p].letter
  BY <1>3 DEF LayerType
<1>6. Alike(other, ls)
  BY <1>3, <1>5 DEF Alike
<1> QED
  BY <1>3, <1>4, <1>5, <1>6 DEF other

\* Sources do not matter to ids and letters.
LEMMA AlikeApart ==
  ASSUME NEW ls, NEW other, Alike(other, ls), Apart(ls)
  PROVE  Apart(other)
BY DEF Alike, Apart

\* Some layers left of a map.
LEMMA KeptLayers ==
  ASSUME NEW ls \in Seq(LayerType), Apart(ls), NEW P
  PROVE  LET kept == Kept(ls, P)
         IN  /\ kept \in Seq(LayerType) /\ Len(kept) <= Len(ls) /\ Apart(kept)
             /\ \A q \in DOMAIN kept : \E p \in DOMAIN ls : p \in P /\ kept[q] = ls[p]
             /\ \A p \in DOMAIN ls : p \in P => \E q \in DOMAIN kept : kept[q] = ls[p]
<1> DEFINE kept == Kept(ls, P)
           m == Len(kept)
           n == Len(ls)
<1>1. kept \in Seq(LayerType) /\ \E e : Picks(e, kept, ls, P)
  BY KeptOnes
<1>2. PICK e \in [DOMAIN kept -> P \cap DOMAIN ls] :
              /\ \A k \in DOMAIN kept : kept[k] = ls[e[k]]
              /\ \A k, j \in DOMAIN kept : k < j => e[k] < e[j]
              /\ \A p \in P \cap DOMAIN ls : \E k \in DOMAIN kept : e[k] = p
  BY <1>1 DEF Picks
<1>3. DOMAIN kept = 1 .. m /\ m \in Nat /\ DOMAIN ls = 1 .. n /\ n \in Nat
  BY <1>1
<1> HIDE DEF kept, m, n
<1>4. \A k \in DOMAIN kept : e[k] \in DOMAIN ls /\ e[k] \in P
  BY <1>2
<1>5. ASSUME NEW k \in DOMAIN kept, NEW j \in DOMAIN kept, k # j PROVE e[k] # e[j]
  <2>1. e[k] \in Nat /\ e[j] \in Nat
    BY <1>3, <1>4
  <2>2. k < j \/ j < k
    BY <1>3, <1>5
  <2> QED
    BY <1>2, <2>1, <2>2
<1>6. Apart(kept)
  BY <1>2, <1>4, <1>5 DEF Apart
<1>7. m <= n
  <2>a. e \in [1 .. m -> 1 .. n]
    BY <1>2, <1>3, <1>4
  <2>b. \A k, j \in 1 .. m : e[k] = e[j] => k = j
    BY <1>3, <1>5
  <2>1. e \in Injection(1 .. m, 1 .. n)
    BY <2>a, <2>b DEF Injection, IsInjective
  <2>2. IsFiniteSet(1 .. n) /\ Cardinality(1 .. n) = n /\ Cardinality(1 .. m) = m
    BY <1>3, FS_Interval
  <2>3. Cardinality(1 .. m) <= Cardinality(1 .. n)
    BY <2>1, <2>2, FS_Injection
  <2> QED
    BY <2>2, <2>3
<1>8. \A q \in DOMAIN kept : \E p \in DOMAIN ls : p \in P /\ kept[q] = ls[p]
  BY <1>2, <1>4
<1>9. \A p \in DOMAIN ls : p \in P => \E q \in DOMAIN kept : kept[q] = ls[p]
  BY <1>2
<1> QED
  BY <1>1, <1>6, <1>7, <1>8, <1>9 DEF kept, m, n

\* A layer with an id and a letter of its own put among the others.
LEMMA LayerInserted ==
  ASSUME NEW ls \in Seq(LayerType), Apart(ls), NEW at \in 1 .. (Len(ls) + 1), NEW layer \in LayerType,
         \A p \in DOMAIN ls : ls[p].lid # layer.lid /\ ls[p].letter # layer.letter
  PROVE  LET more == InsertAt(ls, at, layer)
         IN  /\ more \in Seq(LayerType) /\ Len(more) = Len(ls) + 1 /\ Apart(more)
             /\ \A q \in DOMAIN more : more[q] = layer \/ \E p \in DOMAIN ls : more[q] = ls[p]
             /\ \A p \in DOMAIN ls : \E q \in DOMAIN more : more[q] = ls[p]
             /\ \E q \in DOMAIN more : more[q] = layer
<1> DEFINE more == InsertAt(ls, at, layer)
           n == Len(ls)
<1>1. n \in Nat /\ DOMAIN ls = 1 .. n /\ at \in 1 .. (n + 1)
  OBVIOUS
<1>2. more \in Seq(LayerType) /\ Len(more) = n + 1
      /\ \A k \in 1 .. (n + 1) : more[k] = IF k < at THEN ls[k] ELSE IF k = at THEN layer ELSE ls[k - 1]
  BY Inserted
<1>3. DOMAIN more = 1 .. (n + 1)
  BY <1>2
<1> HIDE DEF more, n
<1> DEFINE from(k) == IF k < at THEN k ELSE k - 1
<1>4. ASSUME NEW k \in 1 .. (n + 1), k # at PROVE from(k) \in 1 .. n /\ more[k] = ls[from(k)]
  BY <1>1, <1>2, <1>4
<1>5. at \in 1 .. (n + 1) /\ more[at] = layer
  BY <1>1, <1>2
<1>6. ASSUME NEW p \in 1 .. n PROVE \E q \in 1 .. (n + 1) : more[q] = ls[p]
  <2>1. CASE p < at
    <3>1. p \in 1 .. (n + 1) /\ more[p] = ls[p]
      BY <1>1, <1>2, <2>1
    <3> QED
      BY <3>1
  <2>2. CASE p >= at
    <3>1. p + 1 \in 1 .. (n + 1) /\ ~(p + 1 < at) /\ p + 1 # at /\ (p + 1) - 1 = p
      BY <1>1, <2>2
    <3>2. more[p + 1] = ls[p]
      BY <1>2, <3>1
    <3> QED
      BY <3>1, <3>2
  <2> QED
    BY <1>1, <2>1, <2>2
<1>7. ASSUME NEW k \in 1 .. (n + 1), NEW j \in 1 .. (n + 1), k # j
      PROVE  more[k].lid # more[j].lid /\ more[k].letter # more[j].letter
  <2>1. CASE k = at
    BY <1>1, <1>4, <1>5, <1>7, <2>1
  <2>2. CASE j = at
    BY <1>1, <1>4, <1>5, <1>7, <2>2
  <2>3. CASE k # at /\ j # at
    <3>1. from(k) # from(j)
      BY <1>1, <1>7, <2>3
    <3> HIDE DEF from
    <3> QED
      BY <1>1, <1>4, <2>3, <3>1 DEF Apart
  <2> QED
    BY <2>1, <2>2, <2>3
<1>8. Apart(more)
  BY <1>3, <1>7 DEF Apart
<1> HIDE DEF from
<1>9. \A q \in DOMAIN more : more[q] = layer \/ \E p \in DOMAIN ls : more[q] = ls[p]
  BY <1>1, <1>3, <1>4, <1>5
<1> QED
  BY <1>1, <1>2, <1>3, <1>5, <1>6, <1>8, <1>9 DEF more, n

(* The invariant.                                                          *)

\* The nodes, the layers and the saved analyses.
Layered ==
    /\ DOMAIN nodes \subseteq AnyId /\ IsFiniteSet(DOMAIN nodes)
    /\ layers \in Seq(LayerType) /\ Len(layers) \in 1 .. MaxLayers /\ Apart(layers)
    /\ Saved(analyses, layers)

\* A layer that has been asked for has its place, its id and its letter.
Pending ==
    \A r \in requests :
        /\ r.kind = "layer" =>
              /\ requests = {r} /\ Len(layers) < MaxLayers
              /\ r.lid \in Layers /\ r.letter \in 1 .. MaxLetter
              /\ \A p \in DOMAIN layers : layers[p].lid # r.lid /\ layers[p].letter # r.letter
        /\ r.kind = "drag" => DOMAIN r.widgets \subseteq Widgets
        /\ r.kind = "widget" => r.w \in Widgets

Collections == Layered /\ DOMAIN widgets \subseteq Widgets /\ Pending

\* What the invariant says of the analyses is the property.
LEMMA Heads ==
  ASSUME Layered
  PROVE  AnalysesOfLayers
<1>1. analyses \in Seq(AnyId) /\ LettersDiffer(analyses)
  BY DEF Layered, Saved
<1>2. ASSUME NEW k \in DOMAIN analyses
      PROVE  \E p \in Positions : layers[p].source = analyses[k] /\ Owns(layers[p], analyses[k])
  <2>1. analyses[k] \in ToSet(analyses)
    BY DEF ToSet
  <2> QED
    BY <2>1 DEF Layered, Saved, Positions
<1> QED
  BY <1>1, <1>2 DEF AnalysesOfLayers, LettersDiffer

\* A map that is opened.
LEMMA InitCollections ==
  ASSUME UserActionsInit
  PROVE  Collections
<1>1. PICK t \in Tables : nodes = [i \in {Id(1, 0)} |-> SourceNode(t)]
  BY DEF UserActionsInit
<1> DEFINE lid == CHOOSE l \in Layers : TRUE
           first == Layer(lid, 1, Id(1, 0))
<1>2. layers = <<first>> /\ analyses \in {<< >>, <<Id(1, 0)>>} /\ widgets = << >> /\ requests = {}
  BY DEF UserActionsInit
<1>3. lid \in Layers /\ 1 \in 1 .. MaxLetter /\ 1 \in 1 .. MaxLayers
  BY UserActionsAssumption DEF UserActionsAssumption
<1> HIDE DEF lid
<1>4. Id(1, 0) \in AnyId /\ Letter(Id(1, 0)) = 1
  BY <1>3 DEF AnyId, Id, Letter
<1>5. first \in LayerType /\ first.source = Id(1, 0) /\ first.letter = 1
  BY <1>3, <1>4 DEF LayerType, Layer
<1> HIDE DEF first
<1>6. layers \in Seq(LayerType) /\ Len(layers) = 1 /\ DOMAIN layers = {1} /\ layers[1] = first
  BY <1>2, <1>5
<1>7. DOMAIN nodes = {Id(1, 0)} /\ IsFiniteSet(DOMAIN nodes)
  BY <1>1, FS_Singleton
<1>8. Apart(layers)
  BY <1>6 DEF Apart
<1>9. Saved(analyses, layers)
  <2>1. analyses \in Seq(AnyId) /\ LettersDiffer(analyses)
    <3>1. CASE analyses = << >>
      BY <3>1 DEF LettersDiffer
    <3>2. CASE analyses = <<Id(1, 0)>>
      <4>1. analyses \in Seq(AnyId) /\ DOMAIN analyses = {1}
        BY <1>4, <3>2
      <4> QED
        BY <4>1 DEF LettersDiffer
    <3> QED
      BY <1>2, <3>1, <3>2
  <2>2. \A h \in ToSet(analyses) : h = Id(1, 0)
    BY <1>2 DEF ToSet
  <2>3. Owns(layers[1], Id(1, 0))
    BY <1>4, <1>5, <1>6 DEF Owns
  <2> QED
    BY <1>5, <1>6, <2>1, <2>2, <2>3 DEF Saved
<1>10. DOMAIN widgets = {}
  BY <1>2
<1> QED
  BY <1>2, <1>3, <1>4, <1>6, <1>7, <1>8, <1>9, <1>10 DEF Collections, Layered, Pending

(* The ids of the nodes.                                                   *)

\* A node added.
LEMMA AddedIds ==
  ASSUME NEW g, DOMAIN g \subseteq AnyId, IsFiniteSet(DOMAIN g), NEW id \in AnyId, NEW node
  PROVE  DOMAIN AddNode(g, id, node) \subseteq AnyId /\ IsFiniteSet(DOMAIN AddNode(g, id, node))
<1>1. DOMAIN AddNode(g, id, node) = DOMAIN g \cup {id}
  BY DEF AddNode
<1>2. IsFiniteSet(DOMAIN g \cup {id})
  BY FS_AddElement
<1> QED
  BY <1>1, <1>2

\* Nodes destroyed.
LEMMA RemovedIds ==
  ASSUME NEW g, DOMAIN g \subseteq AnyId, IsFiniteSet(DOMAIN g), NEW ids
  PROVE  DOMAIN RemoveNodes(g, ids) \subseteq AnyId /\ IsFiniteSet(DOMAIN RemoveNodes(g, ids))
<1>1. DOMAIN RemoveNodes(g, ids) = DOMAIN g \ ids
  BY DEF RemoveNodes
<1>2. IsFiniteSet(DOMAIN g \ ids)
  BY FS_Difference
<1> QED
  BY <1>1, <1>2

\* A table chosen as second source.
LEMMA SecondIds ==
  ASSUME NEW p, NEW sec \in SourceOptions(p), DOMAIN nodes \subseteq AnyId, IsFiniteSet(DOMAIN nodes)
  PROVE  DOMAIN WithTable(nodes, sec) \subseteq AnyId /\ IsFiniteSet(DOMAIN WithTable(nodes, sec))
<1>1. sec \in AnyId
  BY DEF SourceOptions, AnyId, TableId
<1> QED
  BY <1>1, AddedIds DEF WithTable

\* The ids that have a layer's letter have a sequence number.
LEMMA NumberedIds ==
  ASSUME NEW id \in AnyId, Letter(id) \in 1 .. MaxLetter
  PROVE  Sequence(id) \in Nat /\ id = Id(Letter(id), Sequence(id))
BY DEF AnyId, Letter, Sequence, Id

\* An id of a letter.
LEMMA NewIds ==
  ASSUME NEW letter \in 1 .. MaxLetter, NEW n \in Nat
  PROVE  Id(letter, n) \in AnyId /\ Letter(Id(letter, n)) = letter
BY DEF AnyId, Id, Letter

(* The actions on the analyses of a layer.                                 *)

\* The layer's new source is its own, and so is the head that is saved.
LEMMA CreateKeeps ==
  ASSUME Layered, NEW p \in Positions, NEW kind, NEW sec, CreateAnalysisNode(p, kind, sec)
  PROVE  Layered'
<1> DEFINE id == FormId(layers[p])
           chosen == IF sec = NoNode THEN nodes ELSE WithTable(nodes, sec)
           node == [what |-> kind, prim |-> layers[p].source, sec |-> sec]
           g == AddNode(chosen, id, node)
<1>1. /\ layers' = [layers EXCEPT ![p].source = id]
      /\ sec # NoNode => sec \in SourceOptions(p)
      /\ nodes' = g
      /\ analyses' = SaveAnalysis(g, analyses, layers'[p])
  BY DEF CreateAnalysisNode
<1>2. layers \in Seq(LayerType) /\ p \in DOMAIN layers /\ layers[p] \in LayerType
  BY DEF Layered, Positions
<1>3. id \in AnyId
  <2>1. layers[p].letter \in 1 .. MaxLetter /\ layers[p].source \in AnyId
    BY <1>2 DEF LayerType
  <2>2. CASE Owns(layers[p], layers[p].source)
    <3>1. Letter(layers[p].source) \in 1 .. MaxLetter
      BY <2>1, <2>2 DEF Owns
    <3>2. Sequence(layers[p].source) + 1 \in Nat
      BY <2>1, <3>1, NumberedIds
    <3> QED
      BY <2>2, <3>1, <3>2, NewIds DEF FormId, NextId
  <2>3. CASE ~Owns(layers[p], layers[p].source)
    BY <2>1, <2>3, NewIds DEF FormId
  <2> QED
    BY <2>2, <2>3
<1> HIDE DEF id
<1>4. DOMAIN chosen \subseteq AnyId /\ IsFiniteSet(DOMAIN chosen)
  BY <1>1, SecondIds DEF Layered
<1> HIDE DEF chosen, node
<1>5. DOMAIN g \subseteq AnyId /\ IsFiniteSet(DOMAIN g)
  BY <1>3, <1>4, AddedIds
<1> DEFINE other == [layers EXCEPT ![p].source = id]
<1>o. /\ other \in Seq(LayerType) /\ Len(other) = Len(layers) /\ Alike(other, layers)
      /\ \A q \in DOMAIN layers : q # p => other[q] = layers[q]
  BY <1>2, <1>3, SourceMoved
<1>e. layers' = other
  BY <1>1
<1> HIDE DEF other
<1>6. /\ layers' \in Seq(LayerType) /\ Len(layers') = Len(layers) /\ Alike(layers', layers)
      /\ \A q \in DOMAIN layers : q # p => layers'[q] = layers[q]
  BY <1>o, <1>e
<1>7. Apart(layers')
  BY <1>6, AlikeApart DEF Layered
<1>8. p \in DOMAIN layers' /\ layers'[p] \in LayerType /\ layers'[p].letter = layers[p].letter
      /\ DOMAIN layers' = DOMAIN layers
  BY <1>2, <1>6 DEF Alike
<1>9. Saved(analyses', layers')
  <2>1. analyses \in Seq(AnyId) /\ LettersDiffer(analyses)
    BY DEF Layered, Saved
  <2>2. ASSUME NEW h \in ToSet(analyses), Letter(h) # layers'[p].letter
        PROVE  \E q \in DOMAIN layers' : layers'[q].source = h /\ Owns(layers'[q], h)
    <3>1. PICK q \in DOMAIN layers : layers[q].source = h /\ Owns(layers[q], h)
      BY DEF Layered, Saved
    <3>2. q # p
      BY <1>8, <2>2, <3>1 DEF Owns
    <3> QED
      BY <1>6, <1>8, <3>1, <3>2
  <2>3. Saved(SaveAnalysis(g, analyses, layers'[p]), layers')
    BY <1>8, <2>1, <2>2, SavedWith
  <2> QED
    BY <1>1, <2>3
<1> QED
  BY <1>1, <1>5, <1>6, <1>7, <1>9 DEF Layered

\* The analysis saved is that of the owner of the node.
LEMMA EditKeeps ==
  ASSUME Layered, NEW p \in Positions, NEW i, NEW sec, EditAnalysisNode(p, i, sec)
  PROVE  Layered'
<1> DEFINE g == [WithTable(nodes, sec) EXCEPT ![i].sec = sec]
<1>1. /\ Owners(layers, i) # {} /\ sec \in SourceOptions(p)
      /\ nodes' = g
      /\ analyses' = SaveAnalysis(g, analyses, layers[FindOwner(layers, i)])
      /\ layers' = layers
  BY DEF EditAnalysisNode
<1>2. DOMAIN g = DOMAIN WithTable(nodes, sec)
  OBVIOUS
<1>3. DOMAIN nodes' \subseteq AnyId /\ IsFiniteSet(DOMAIN nodes')
  BY <1>1, <1>2, SecondIds DEF Layered
<1> HIDE DEF g
<1>4. FindOwner(layers, i) \in DOMAIN layers
  BY <1>1, OwnerIs DEF Layered
<1>5. Saved(analyses', layers')
  BY <1>1, <1>4, SavedOne DEF Layered
<1> QED
  BY <1>1, <1>3, <1>5 DEF Layered

\* Only the node's query changes.
LEMMA QueryKeeps ==
  ASSUME Layered, NEW p \in Positions, NEW table, SaveAnalysisSourceQuery(p, table)
  PROVE  Layered'
<1>1. /\ DOMAIN nodes' = DOMAIN nodes
      /\ analyses' = SaveAnalysis(nodes', analyses, layers[p])
      /\ layers' = layers
  BY DEF SaveAnalysisSourceQuery
<1>2. Saved(analyses', layers')
  BY <1>1, SavedOne DEF Layered, Positions
<1> QED
  BY <1>1, <1>2 DEF Layered

\* What is left after an action that ends with deleteOrphanedAnalyses.
LEMMA LayeredAtEnd ==
  ASSUME NEW g, DOMAIN g \subseteq AnyId, IsFiniteSet(DOMAIN g), NEW ls \in Seq(LayerType),
         Len(ls) \in 1 .. MaxLayers, Apart(ls), NEW hs, Saved(hs, ls), EndWithout(g, ls, hs)
  PROVE  Layered'
<1>1. /\ DOMAIN nodes' \subseteq DOMAIN g /\ IsFiniteSet(DOMAIN nodes')
      /\ layers' = ls
      /\ Saved(analyses', ls)
  BY SavedAtEnd
<1> QED
  BY <1>1 DEF Layered

\* The owner of the node stays, on the node's source; a layer that goes leaves no analysis.
LEMMA DeleteNodeKeeps ==
  ASSUME Layered, NEW p \in Positions, NEW i, DeleteAnalysisNode(p, i)
  PROVE  Layered'
<1> DEFINE owner == FindOwner(layers, i)
           destroyed == {j \in DOMAIN nodes : i \in Contained(nodes, j)}
           g == RemoveNodes(nodes, destroyed)
           folded == [layers EXCEPT ![owner].source = nodes[i].prim]
           P == {q \in Positions : q = owner \/ folded[q].source \notin destroyed}
           K == {k \in DOMAIN analyses : analyses[k] \notin destroyed}
           ls == Kept(folded, P)
           hs == Kept(analyses, K)
<1>1. /\ i \in FormNodes(p) /\ Owners(layers, i) # {}
      /\ EndWithout(g, ls, SaveAnalysis(g, hs, folded[owner]))
  BY DEF DeleteAnalysisNode
<1>2. nodes[i].prim \in AnyId
  BY <1>1 DEF FormNodes, HasPrimarySource, Layered
<1>3. layers \in Seq(LayerType) /\ owner \in DOMAIN layers /\ Positions = DOMAIN layers
  BY <1>1, OwnerIs DEF Layered, Positions
<1>4. analyses \in Seq(AnyId) /\ LettersDiffer(analyses)
  BY DEF Layered, Saved
<1> HIDE DEF owner, destroyed
<1>5. DOMAIN g \subseteq AnyId /\ IsFiniteSet(DOMAIN g)
  BY RemovedIds DEF Layered
<1> HIDE DEF g
<1>6. /\ folded \in Seq(LayerType) /\ Len(folded) = Len(layers) /\ Alike(folded, layers)
      /\ \A q \in DOMAIN layers : q # owner => folded[q] = layers[q]
  BY <1>2, <1>3, SourceMoved
<1>7. Apart(folded) /\ DOMAIN folded = DOMAIN layers
  BY <1>6, AlikeApart DEF Layered, Alike
<1>8. owner \in P /\ \A q \in DOMAIN layers : q # owner /\ layers[q].source \notin destroyed => q \in P
  BY <1>3, <1>6
<1>9. \A k \in DOMAIN analyses : k \in K => analyses[k] \notin destroyed
  OBVIOUS
<1> HIDE DEF folded, P, K
<1>10. /\ ls \in Seq(LayerType) /\ Len(ls) <= Len(layers) /\ Apart(ls)
       /\ \A q \in DOMAIN folded : q \in P => \E r \in DOMAIN ls : ls[r] = folded[q]
  BY <1>6, <1>7, KeptLayers
<1>11. /\ hs \in Seq(AnyId) /\ LettersDiffer(hs)
       /\ \A x : x \in ToSet(hs) <=> \E k \in DOMAIN analyses : k \in K /\ analyses[k] = x
  BY <1>4, KeptHeads
<1> HIDE DEF ls, hs
<1>12. PICK r \in DOMAIN ls : ls[r] = folded[owner]
  BY <1>3, <1>7, <1>8, <1>10
<1>13. Len(ls) \in 1 .. MaxLayers
  <2>1. Len(ls) \in Nat /\ DOMAIN ls = 1 .. Len(ls) /\ Len(layers) <= MaxLayers /\ Len(layers) \in Nat
        /\ MaxLayers \in Nat
    BY <1>3, <1>10, UserActionsAssumption DEF Layered, UserActionsAssumption
  <2> QED
    BY <1>10, <1>12, <2>1
<1>14. folded[owner] \in LayerType /\ folded[owner].letter = layers[owner].letter
  BY <1>3, <1>6, <1>7 DEF Alike
<1>15. ASSUME NEW h \in ToSet(hs), Letter(h) # folded[owner].letter
       PROVE  \E q \in DOMAIN ls : ls[q].source = h /\ Owns(ls[q], h)
  <2>1. PICK k \in DOMAIN analyses : k \in K /\ analyses[k] = h
    BY <1>11
  <2>2. h \notin destroyed /\ h \in ToSet(analyses)
    BY <1>9, <2>1 DEF ToSet
  <2>3. PICK q \in DOMAIN layers : layers[q].source = h /\ Owns(layers[q], h)
    BY <2>2 DEF Layered, Saved
  <2>4. q # owner
    BY <1>14, <1>15, <2>3 DEF Owns
  <2>5. PICK x \in DOMAIN ls : ls[x] = folded[q]
    BY <1>7, <1>8, <1>10, <2>2, <2>3, <2>4
  <2> QED
    BY <1>6, <2>3, <2>4, <2>5
<1>16. Saved(SaveAnalysis(g, hs, folded[owner]), ls)
  BY <1>11, <1>12, <1>14, <1>15, SavedWith
<1>17. EndWithout(g, ls, SaveAnalysis(g, hs, folded[owner]))
  BY <1>1 DEF ls, hs, folded, P, K
<1> QED
  BY <1>5, <1>10, <1>13, <1>16, <1>17, LayeredAtEnd

(* The actions on the layers.                                              *)

\* A layer saved.
LEMMA SaveLayerKeeps ==
  ASSUME Layered, NEW p \in Positions, SaveLayer(p)
  PROVE  Layered'
<1>1. EndWithout(nodes, layers, SaveAnalysis(nodes, analyses, layers[p]))
  BY DEF SaveLayer
<1>2. Saved(SaveAnalysis(nodes, analyses, layers[p]), layers)
  BY SavedOne DEF Layered, Positions
<1> QED
  BY <1>1, <1>2, LayeredAtEnd DEF Layered

\* A layer taken out of the list.
LEMMA LayerRemoved ==
  ASSUME NEW ls \in Seq(LayerType), Apart(ls), NEW at \in DOMAIN ls
  PROVE  LET fewer == RemoveAt(ls, at)
         IN  /\ fewer \in Seq(LayerType) /\ Len(fewer) = Len(ls) - 1 /\ Apart(fewer)
             /\ \A q \in DOMAIN fewer : \E p \in DOMAIN ls : p # at /\ fewer[q] = ls[p]
             /\ \A p \in DOMAIN ls : p # at => \E q \in DOMAIN fewer : fewer[q] = ls[p]
<1> DEFINE fewer == RemoveAt(ls, at)
           n == Len(ls)
           from(k) == IF k < at THEN k ELSE k + 1
<1>1. n \in Nat /\ DOMAIN ls = 1 .. n /\ at \in 1 .. n
  OBVIOUS
<1>2. fewer \in Seq(LayerType) /\ Len(fewer) = n - 1
      /\ \A k \in 1 .. (n - 1) : fewer[k] = IF k < at THEN ls[k] ELSE ls[k + 1]
  BY <1>1, Removed
<1>3. DOMAIN fewer = 1 .. (n - 1)
  BY <1>2
<1> HIDE DEF fewer, n
<1>4. ASSUME NEW k \in 1 .. (n - 1)
      PROVE  from(k) \in 1 .. n /\ from(k) # at /\ fewer[k] = ls[from(k)]
  BY <1>1, <1>2
<1>5. ASSUME NEW p \in 1 .. n, p # at PROVE \E q \in 1 .. (n - 1) : fewer[q] = ls[p]
  <2>1. CASE p < at
    <3>1. p \in 1 .. (n - 1) /\ fewer[p] = ls[p]
      BY <1>1, <1>2, <2>1
    <3> QED
      BY <3>1
  <2>2. CASE p > at
    <3>1. p - 1 \in 1 .. (n - 1) /\ ~(p - 1 < at) /\ (p - 1) + 1 = p
      BY <1>1, <2>2
    <3>2. fewer[p - 1] = ls[p]
      BY <1>2, <3>1
    <3> QED
      BY <3>1, <3>2
  <2> QED
    BY <1>1, <1>5, <2>1, <2>2
<1>6. ASSUME NEW k \in 1 .. (n - 1), NEW j \in 1 .. (n - 1), k # j PROVE from(k) # from(j)
  BY <1>1, <1>6
<1> HIDE DEF from
<1>7. Apart(fewer)
  BY <1>1, <1>3, <1>4, <1>6 DEF Apart
<1>8. \A q \in DOMAIN fewer : \E p \in DOMAIN ls : p # at /\ fewer[q] = ls[p]
  BY <1>1, <1>3, <1>4
<1>9. \A p \in DOMAIN ls : p # at => \E q \in DOMAIN fewer : fewer[q] = ls[p]
  BY <1>1, <1>3, <1>5
<1> QED
  BY <1>2, <1>7, <1>8, <1>9 DEF fewer, n

\* A layer put on top of the others.
LEMMA LayerAppended ==
  ASSUME NEW ls \in Seq(LayerType), Apart(ls), NEW layer \in LayerType,
         \A p \in DOMAIN ls : ls[p].lid # layer.lid /\ ls[p].letter # layer.letter
  PROVE  LET more == Append(ls, layer)
         IN  /\ more \in Seq(LayerType) /\ Len(more) = Len(ls) + 1 /\ Apart(more)
             /\ \A p \in DOMAIN ls : \E q \in DOMAIN more : more[q] = ls[p]
<1> DEFINE more == Append(ls, layer)
           n == Len(ls)
<1>1. n \in Nat /\ DOMAIN ls = 1 .. n
  OBVIOUS
<1>2. more \in Seq(LayerType) /\ Len(more) = n + 1
      /\ \A k \in 1 .. (n + 1) : more[k] = IF k = n + 1 THEN layer ELSE ls[k]
  OBVIOUS
<1>3. DOMAIN more = 1 .. (n + 1)
  BY <1>2
<1> HIDE DEF more, n
<1>4. \A k \in 1 .. (n + 1) : k # n + 1 => k \in 1 .. n
  BY <1>1
<1>5. Apart(more)
  BY <1>1, <1>2, <1>3, <1>4 DEF Apart
<1>6. ASSUME NEW p \in 1 .. n PROVE \E q \in 1 .. (n + 1) : more[q] = ls[p]
  <2>1. p \in 1 .. (n + 1) /\ p # n + 1
    BY <1>1
  <2> QED
    BY <1>2, <2>1
<1> QED
  BY <1>1, <1>2, <1>3, <1>5, <1>6 DEF more, n

\* What has been saved stays right when every layer is kept as it was.
LEMMA SavedMore ==
  ASSUME NEW hs, NEW ls, Saved(hs, ls), NEW more,
         \A p \in DOMAIN ls : \E q \in DOMAIN more : more[q] = ls[p]
  PROVE  Saved(hs, more)
<1>1. ASSUME NEW h \in ToSet(hs) PROVE \E q \in DOMAIN more : more[q].source = h /\ Owns(more[q], h)
  <2>1. PICK p \in DOMAIN ls : ls[p].source = h /\ Owns(ls[p], h)
    BY DEF Saved
  <2>2. PICK q \in DOMAIN more : more[q] = ls[p]
    OBVIOUS
  <2> QED
    BY <2>1, <2>2
<1> QED
  BY <1>1 DEF Saved

\* A layer moved: the layers are the same in another order.
LEMMA MoveKeeps ==
  ASSUME Layered, NEW from \in Positions, NEW to \in Positions, MoveLayer(from, to)
  PROVE  Layered'
<1> DEFINE fewer == RemoveAt(layers, from)
           ls == InsertAt(fewer, to, layers[from])
<1>1. nodes' = nodes /\ layers' = ls /\ analyses' = SaveMoved(nodes, analyses, layers')
  BY DEF MoveLayer, SaveMoved
<1>2. layers \in Seq(LayerType) /\ Apart(layers) /\ Positions = DOMAIN layers
  BY DEF Layered, Positions
<1>3. layers[from] \in LayerType /\ Len(layers) \in Nat /\ DOMAIN layers = 1 .. Len(layers)
  BY <1>2
<1>4. /\ fewer \in Seq(LayerType) /\ Len(fewer) = Len(layers) - 1 /\ Apart(fewer)
      /\ \A q \in DOMAIN fewer : \E p \in DOMAIN layers : p # from /\ fewer[q] = layers[p]
      /\ \A p \in DOMAIN layers : p # from => \E q \in DOMAIN fewer : fewer[q] = layers[p]
  BY <1>2, LayerRemoved
<1> HIDE DEF fewer
<1>5. to \in 1 .. (Len(fewer) + 1)
  BY <1>2, <1>3, <1>4
<1>6. \A q \in DOMAIN fewer : fewer[q].lid # layers[from].lid /\ fewer[q].letter # layers[from].letter
  BY <1>2, <1>4 DEF Apart
<1>7. /\ ls \in Seq(LayerType) /\ Len(ls) = Len(fewer) + 1 /\ Apart(ls)
      /\ \A q \in DOMAIN fewer : \E r \in DOMAIN ls : ls[r] = fewer[q]
      /\ \E r \in DOMAIN ls : ls[r] = layers[from]
  BY <1>3, <1>4, <1>5, <1>6, LayerInserted
<1> HIDE DEF ls
<1>8. Len(ls) = Len(layers)
  BY <1>3, <1>4, <1>7
<1>9. \A p \in DOMAIN layers : \E r \in DOMAIN ls : ls[r] = layers[p]
  BY <1>4, <1>7
<1>10. Saved(analyses, ls)
  BY <1>9, SavedMore DEF Layered
<1>11. Saved(analyses', layers')
  BY <1>1, <1>7, <1>10, SavedMoved
<1> QED
  BY <1>1, <1>7, <1>8, <1>11 DEF Layered

\* A letter and an id that no layer has.
LEMMA FreshLayer ==
  ASSUME Layered, FreeLayers # {}
  PROVE  LET lid == CHOOSE l \in FreeLayers : TRUE
             letter == NextLetter(TakenLetters)
         IN  /\ lid \in Layers /\ letter \in 1 .. MaxLetter
             /\ \A p \in DOMAIN layers : layers[p].lid # lid /\ layers[p].letter # letter
<1> DEFINE lid == CHOOSE l \in FreeLayers : TRUE
           letter == NextLetter(TakenLetters)
<1>1. lid \in FreeLayers
  OBVIOUS
<1> HIDE DEF lid
<1>2. TakenLetters = {layers[p].letter : p \in DOMAIN layers}
  BY DEF TakenLetters, Positions
<1>3. Len(layers) <= MaxLayers
  BY UserActionsAssumption DEF UserActionsAssumption, Layered
<1>4. letter \in 1 .. MaxLetter /\ letter \notin TakenLetters
  BY <1>2, <1>3, NextLetterFree, UserActionsAssumption DEF Layered
<1> HIDE DEF letter
<1>5. lid \in Layers /\ \A p \in DOMAIN layers : layers[p].lid # lid
  BY <1>1 DEF FreeLayers, Positions
<1>6. \A p \in DOMAIN layers : layers[p].letter # letter
  BY <1>2, <1>4
<1> QED
  BY <1>4, <1>5, <1>6 DEF lid, letter

\* createLayerFromTable asks for a layer with a letter that is free.
LEMMA CreateLayerKeeps ==
  ASSUME Collections, requests = {}, NEW table, CreateLayerFromTable(table)
  PROVE  Collections'
<1> DEFINE letter == NextLetter(TakenLetters)
           lid == CHOOSE l \in FreeLayers : TRUE
           r == [kind |-> "layer", lid |-> lid, table |-> table, letter |-> letter]
           node == SourceNode(table)
<1>1. /\ Len(layers) + Cardinality({q \in requests : q.kind = "layer"}) < MaxLayers
      /\ FreeLayers # {}
      /\ nodes' = AddNode(nodes, Id(letter, 0), node)
      /\ requests' = requests \cup {r}
      /\ layers' = layers /\ analyses' = analyses /\ widgets' = widgets
  BY DEF CreateLayerFromTable
<1>2. /\ lid \in Layers /\ letter \in 1 .. MaxLetter
      /\ \A p \in DOMAIN layers : layers[p].lid # lid /\ layers[p].letter # letter
  BY <1>1, FreshLayer DEF Collections
<1> HIDE DEF letter, lid, node
<1>3. Len(layers) < MaxLayers
  <2>1. {q \in requests : q.kind = "layer"} = {} /\ Len(layers) \in Nat
    BY DEF Collections, Layered
  <2>2. Cardinality({}) = 0
    BY FS_EmptySet
  <2> QED
    BY <1>1, <2>1, <2>2
<1>4. DOMAIN nodes' \subseteq AnyId /\ IsFiniteSet(DOMAIN nodes')
  BY <1>1, <1>2, NewIds, AddedIds DEF Collections, Layered
<1>5. Layered'
  BY <1>1, <1>4 DEF Collections, Layered
<1>6. requests' = {r} /\ r.kind = "layer" /\ r.lid = lid /\ r.letter = letter
  BY <1>1
<1> HIDE DEF r
<1>7. Pending'
  BY <1>1, <1>2, <1>3, <1>6 DEF Pending
<1> QED
  BY <1>1, <1>5, <1>7 DEF Collections

\* The letter and the place are still free when the server answers.
LEMMA CreatedKeeps ==
  ASSUME Collections, NEW r \in requests, LayerCreated(r)
  PROVE  Collections'
<1> DEFINE layer == Layer(r.lid, r.letter, Id(r.letter, 0))
           ls == Append(layers, layer)
<1>1. /\ r.kind = "layer"
      /\ layers' = ls
      /\ analyses' = SaveCreated(nodes, analyses, layers')
      /\ requests' = requests \ {r}
      /\ nodes' = nodes /\ widgets' = widgets
  BY DEF LayerCreated, SaveCreated
<1>2. /\ requests = {r} /\ Len(layers) < MaxLayers
      /\ r.lid \in Layers /\ r.letter \in 1 .. MaxLetter
      /\ \A p \in DOMAIN layers : layers[p].lid # r.lid /\ layers[p].letter # r.letter
  BY <1>1 DEF Collections, Pending
<1>3. Id(r.letter, 0) \in AnyId
  BY <1>2, NewIds
<1>4. layer \in LayerType /\ layer.lid = r.lid /\ layer.letter = r.letter
  BY <1>2, <1>3 DEF LayerType, Layer
<1> HIDE DEF layer
<1>5. /\ ls \in Seq(LayerType) /\ Len(ls) = Len(layers) + 1 /\ Apart(ls)
      /\ \A p \in DOMAIN layers : \E q \in DOMAIN ls : ls[q] = layers[p]
  BY <1>2, <1>4, LayerAppended DEF Collections, Layered
<1> HIDE DEF ls
<1>6. Saved(analyses, ls)
  BY <1>5, SavedMore DEF Collections, Layered
<1>7. Saved(analyses', layers')
  BY <1>1, <1>5, <1>6, SavedCreated
<1>8. Len(layers') \in 1 .. MaxLayers
  <2>1. Len(layers) \in Nat /\ MaxLayers \in Nat
    BY UserActionsAssumption DEF UserActionsAssumption, Collections, Layered
  <2> QED
    BY <1>1, <1>2, <1>5, <2>1
<1>9. Layered'
  BY <1>1, <1>5, <1>7, <1>8 DEF Collections, Layered
<1>10. Pending'
  BY <1>1, <1>2 DEF Pending
<1> QED
  BY <1>1, <1>9, <1>10 DEF Collections

(* The nodes dragged out of a layer.                                       *)

\* The own nodes of a layer have its letter, and begin with its source.
LEMMA OwnNodesAre ==
  ASSUME NEW g, IsFiniteSet(DOMAIN g), NEW layer
  PROVE  LET list == OwnedPrimaryNodes(g, layer)
         IN  /\ list \in Seq(DOMAIN g)
             /\ \A k \in 1 .. Len(list) : list[k] \in DOMAIN g /\ Letter(list[k]) = layer.letter
             /\ Len(list) # 0 => list[1] = layer.source /\ Owns(layer, layer.source)
<1> DEFINE list == OwnedPrimaryNodes(g, layer)
           source == layer.source
<1>1. CASE source \in DOMAIN g /\ Owns(layer, source)
  <2>1. list = LinkedListBySameLetter(g, source)
    BY <1>1 DEF OwnedPrimaryNodes
  <2> HIDE DEF list, source
  <2>2. /\ list \in Seq(DOMAIN g)
        /\ list[1] = source
        /\ \A k \in 1 .. Len(list) : Letter(list[k]) = Letter(source)
    BY <1>1, <2>1, ListOfLetter
  <2>3. \A k \in 1 .. Len(list) : list[k] \in DOMAIN g
    BY <2>2
  <2> QED
    BY <1>1, <2>2, <2>3 DEF Owns, list, source
<1>2. CASE ~(source \in DOMAIN g /\ Owns(layer, source))
  <2>1. list = << >>
    BY <1>2 DEF OwnedPrimaryNodes
  <2> HIDE DEF list
  <2>2. list \in Seq(DOMAIN g) /\ Len(list) = 0
    BY <2>1
  <2> QED
    BY <2>2 DEF list
<1> QED
  BY <1>1, <1>2

\* A node that can be dragged out of a layer is one of its own.
LEMMA DraggableOwned ==
  ASSUME Layered, NEW p \in Positions, NEW i \in DraggableNodes(p)
  PROVE  i \in DOMAIN nodes /\ i \in AnyId /\ Letter(i) = layers[p].letter /\ layers[p] \in LayerType
<1> DEFINE list == OwnedPrimaryNodes(nodes, layers[p])
<1>1. i \in ToSet(list)
  BY DEF DraggableNodes
<1>2. list \in Seq(DOMAIN nodes)
      /\ \A k \in 1 .. Len(list) : list[k] \in DOMAIN nodes /\ Letter(list[k]) = layers[p].letter
  BY OwnNodesAre DEF Layered
<1> HIDE DEF list
<1>3. PICK k \in 1 .. Len(list) : i = list[k]
  BY <1>1, <1>2 DEF ToSet
<1>4. layers[p] \in LayerType
  BY DEF Layered, Positions
<1> QED
  BY <1>2, <1>3, <1>4 DEF Layered

\* Movement 1: the letter of the layer that was dragged from goes to the new layer, its analysis to the new letter.
LEMMA DragHeadKeeps ==
  ASSUME Layered, Len(layers) < MaxLayers, FreeLayers # {}, NEW p \in Positions,
         NEW i \in DraggableNodes(p), NEW at \in 1 .. (Len(layers) + 1), DragHead(p, i, at)
  PROVE  Layered'
<1> DEFINE prev == CHOOSE q \in HeadedBy(p, i) : TRUE
           newLetter == NextLetter(TakenLetters)
           renamed == Id(newLetter, 1)
           lid == CHOOSE l \in FreeLayers : TRUE
           g == ChangeSourceIds(AddNode(nodes, renamed, nodes[i]), i, renamed)
           newLayer == NewLayerOf(layers[prev].letter, nodes[i].prim)
           named == Append(analyses, renamed)
           repointed == [q \in Positions |->
                           IF AnalysesForLayer(named, layers[q]) = {} /\ layers[q].source = i
                           THEN [layers[q] EXCEPT !.source = renamed] ELSE layers[q]]
           without == [repointed EXCEPT ![prev] = newLayer]
           moved == Layer(layers[prev].lid, newLetter, renamed)
           ls == InsertAt(without, at, moved)
           n == Len(layers)
<1>1. /\ HeadedBy(p, i) # {} /\ HasPrimarySource(nodes, i)
      /\ EndWithout(RemoveNodes(g, {i}), ls, SaveAnalysis(g, named, newLayer))
  BY DEF DragHead
<1>2. /\ layers \in Seq(LayerType) /\ Apart(layers) /\ Positions = 1 .. n /\ n \in Nat
      /\ DOMAIN layers = 1 .. n /\ \A q \in 1 .. n : layers[q] \in LayerType
  BY DEF Layered, Positions
<1>3. prev \in 1 .. n /\ layers[prev].source = i /\ layers[prev].letter = layers[p].letter
  <2>1. prev \in HeadedBy(p, i)
    BY <1>1
  <2> QED
    BY <1>2, <2>1 DEF HeadedBy
<1>4. Letter(i) = layers[prev].letter
  BY <1>3, DraggableOwned
<1>5. /\ lid \in Layers /\ newLetter \in 1 .. MaxLetter
      /\ \A q \in 1 .. n : layers[q].lid # lid /\ layers[q].letter # newLetter
  BY <1>2, FreshLayer
<1>6. newLayer = Layer(lid, layers[prev].letter, nodes[i].prim)
  BY DEF NewLayerOf
<1> HIDE DEF prev, newLetter, lid, newLayer
<1>7. renamed \in AnyId /\ Letter(renamed) = newLetter
  BY <1>5, NewIds
<1>8. nodes[i].prim \in AnyId
  BY <1>1 DEF HasPrimarySource, Layered
<1> HIDE DEF renamed
<1>9. newLayer \in LayerType /\ newLayer.lid = lid /\ newLayer.letter = layers[prev].letter
  BY <1>2, <1>3, <1>5, <1>6, <1>8 DEF Layer, LayerType
<1>10. moved \in LayerType /\ moved.lid = layers[prev].lid /\ moved.letter = newLetter /\ moved.source = renamed
  BY <1>2, <1>3, <1>5, <1>7 DEF Layer, LayerType
<1> HIDE DEF moved
<1>11. named \in Seq(AnyId) /\ LettersDiffer(named)
       /\ \A h \in ToSet(named) : h = renamed \/ h \in ToSet(analyses)
  <2> DEFINE c == Len(analyses)
  <2>1. analyses \in Seq(AnyId) /\ LettersDiffer(analyses) /\ c \in Nat /\ DOMAIN analyses = 1 .. c
    BY DEF Layered, Saved
  <2>2. ASSUME NEW k \in 1 .. c PROVE Letter(analyses[k]) # newLetter
    <3>1. analyses[k] \in ToSet(analyses)
      BY <2>1 DEF ToSet
    <3>2. PICK q \in 1 .. n : Owns(layers[q], analyses[k])
      BY <1>2, <3>1 DEF Layered, Saved
    <3> QED
      BY <1>5, <3>2 DEF Owns
  <2>3. named \in Seq(AnyId) /\ DOMAIN named = 1 .. (c + 1)
        /\ \A k \in 1 .. (c + 1) : named[k] = IF k = c + 1 THEN renamed ELSE analyses[k]
    BY <1>7, <2>1
  <2>4. \A k \in 1 .. (c + 1) : k # c + 1 => k \in 1 .. c
    BY <2>1
  <2> HIDE DEF named, c
  <2>5. LettersDiffer(named)
    BY <1>7, <2>1, <2>2, <2>3, <2>4 DEF LettersDiffer
  <2>6. \A h \in ToSet(named) : h = renamed \/ h \in ToSet(analyses)
    BY <2>1, <2>3, <2>4 DEF ToSet
  <2> QED
    BY <2>3, <2>5, <2>6
<1> HIDE DEF named
<1>12. /\ DOMAIN repointed = 1 .. n
       /\ \A q \in 1 .. n :
            /\ repointed[q] \in LayerType
            /\ repointed[q].lid = layers[q].lid /\ repointed[q].letter = layers[q].letter
            /\ repointed[q] = layers[q] \/ layers[q].source = i
  <2>1. DOMAIN repointed = 1 .. n
    BY <1>2
  <2>2. ASSUME NEW q \in 1 .. n
        PROVE  /\ repointed[q] \in LayerType
               /\ repointed[q].lid = layers[q].lid /\ repointed[q].letter = layers[q].letter
               /\ repointed[q] = layers[q] \/ layers[q].source = i
    <3>1. repointed[q] = IF AnalysesForLayer(named, layers[q]) = {} /\ layers[q].source = i
                         THEN [layers[q] EXCEPT !.source = renamed] ELSE layers[q]
      BY <1>2
    <3>2. layers[q] \in LayerType
      BY <1>2
    <3> DEFINE other == [layers[q] EXCEPT !.source = renamed]
    <3>3. other \in LayerType /\ other.lid = layers[q].lid /\ other.letter = layers[q].letter
      BY <1>7, <3>2 DEF LayerType
    <3> HIDE DEF repointed, other
    <3>4. (repointed[q] = other /\ layers[q].source = i) \/ repointed[q] = layers[q]
      BY <3>1 DEF other
    <3> QED
      BY <3>2, <3>3, <3>4
  <2> QED
    BY <2>1, <2>2
<1>13. /\ DOMAIN without = 1 .. n
       /\ \A q \in 1 .. n : without[q] = IF q = prev THEN newLayer ELSE repointed[q]
  BY <1>3, <1>12
<1> HIDE DEF repointed
<1>14. without \in Seq(LayerType) /\ Len(without) = n
  <2>1. \A q \in 1 .. n : without[q] \in LayerType
    BY <1>9, <1>12, <1>13
  <2>2. without = [q \in 1 .. n |-> without[q]]
    BY <1>13
  <2> HIDE DEF without
  <2> QED
    BY <1>2, <2>1, <2>2
<1> HIDE DEF without
<1>15. Apart(without)
  BY <1>2, <1>3, <1>5, <1>9, <1>12, <1>13 DEF Apart
<1>16. \A q \in DOMAIN without : without[q].lid # moved.lid /\ without[q].letter # moved.letter
  BY <1>2, <1>3, <1>5, <1>9, <1>10, <1>12, <1>13 DEF Apart
<1>17. at \in 1 .. (Len(without) + 1)
  BY <1>14
<1>18. /\ ls \in Seq(LayerType) /\ Len(ls) = n + 1 /\ Apart(ls)
       /\ \A q \in DOMAIN without : \E r \in DOMAIN ls : ls[r] = without[q]
       /\ \E r \in DOMAIN ls : ls[r] = moved
  BY <1>10, <1>14, <1>15, <1>16, <1>17, LayerInserted
<1> HIDE DEF ls
<1>19. \E r \in DOMAIN ls : ls[r] = newLayer
  <2>1. prev \in DOMAIN without /\ without[prev] = newLayer
    BY <1>3, <1>13
  <2>2. \A q \in DOMAIN without : \E r \in DOMAIN ls : ls[r] = without[q]
    BY <1>18
  <2> QED
    BY <2>1, <2>2
<1>20. ASSUME NEW h \in ToSet(named), Letter(h) # newLayer.letter
       PROVE  \E q \in DOMAIN ls : ls[q].source = h /\ Owns(ls[q], h)
  <2>1. CASE h = renamed
    <3>1. Owns(moved, renamed)
      BY <1>7, <1>10 DEF Owns
    <3> QED
      BY <1>10, <1>18, <2>1, <3>1
  <2>2. CASE h \in ToSet(analyses)
    <3>1. PICK q \in 1 .. n : layers[q].source = h /\ Owns(layers[q], h)
      BY <1>2, <2>2 DEF Layered, Saved
    <3>2. q # prev
      BY <1>9, <1>20, <3>1 DEF Owns
    <3>3. h # i
      BY <1>4, <1>9, <1>20
    <3>4. without[q] = layers[q]
      BY <1>12, <1>13, <3>1, <3>2, <3>3
    <3>5. PICK r \in DOMAIN ls : ls[r] = layers[q]
      BY <1>13, <1>18, <3>4
    <3> QED
      BY <3>1, <3>5
  <2> QED
    BY <1>11, <2>1, <2>2
<1>21. Saved(SaveAnalysis(g, named, newLayer), ls)
  BY <1>9, <1>11, <1>19, <1>20, SavedWith
<1>22. DOMAIN g \subseteq AnyId /\ IsFiniteSet(DOMAIN g)
  <2>1. DOMAIN g = DOMAIN AddNode(nodes, renamed, nodes[i])
    BY DEF ChangeSourceIds
  <2> QED
    BY <1>7, <2>1, AddedIds DEF Layered
<1> HIDE DEF g
<1>23. DOMAIN RemoveNodes(g, {i}) \subseteq AnyId /\ IsFiniteSet(DOMAIN RemoveNodes(g, {i}))
  BY <1>22, RemovedIds
<1>24. Len(ls) \in 1 .. MaxLayers
  BY <1>2, <1>18, UserActionsAssumption DEF UserActionsAssumption
<1> QED
  BY <1>1, <1>18, <1>21, <1>23, <1>24, LayeredAtEnd

\* Movement 2: nothing changes but for a layer more.
LEMMA DragSourceKeeps ==
  ASSUME Layered, Len(layers) < MaxLayers, FreeLayers # {}, NEW p \in Positions,
         NEW i \in DraggableNodes(p), NEW at \in 1 .. (Len(layers) + 1), DragSource(p, i, at)
  PROVE  Layered'
<1> DEFINE letter == NextLetter(TakenLetters)
           lid == CHOOSE l \in FreeLayers : TRUE
           layer == NewLayerOf(letter, i)
           ls == InsertAt(layers, at, layer)
<1>1. EndWithout(nodes, ls, analyses)
  BY DEF DragSource
<1>2. /\ lid \in Layers /\ letter \in 1 .. MaxLetter
      /\ \A q \in DOMAIN layers : layers[q].lid # lid /\ layers[q].letter # letter
  BY FreshLayer
<1>3. layer = Layer(lid, letter, i)
  BY DEF NewLayerOf
<1> HIDE DEF letter, lid, layer
<1>4. i \in AnyId
  BY DraggableOwned
<1>5. layer \in LayerType /\ layer.lid = lid /\ layer.letter = letter
  BY <1>2, <1>3, <1>4 DEF Layer, LayerType
<1>6. /\ ls \in Seq(LayerType) /\ Len(ls) = Len(layers) + 1 /\ Apart(ls)
      /\ \A q \in DOMAIN layers : \E r \in DOMAIN ls : ls[r] = layers[q]
  BY <1>2, <1>5, LayerInserted DEF Layered
<1> HIDE DEF ls
<1>7. Saved(analyses, ls)
  BY <1>6, SavedMore DEF Layered
<1>8. Len(ls) \in 1 .. MaxLayers
  BY <1>6, UserActionsAssumption DEF UserActionsAssumption, Layered
<1> QED
  BY <1>1, <1>6, <1>7, <1>8, LayeredAtEnd DEF Layered

\* Nodes that change to the letter of a new layer.
LEMMA MovedIds ==
  ASSUME NEW base, DOMAIN base \subseteq AnyId, IsFiniteSet(DOMAIN base), NEW letter \in 1 .. MaxLetter,
         NEW m \in Nat, NEW list, DOMAIN list = 1 .. m,
         \A k \in 1 .. m : list[k] \in AnyId /\ Letter(list[k]) \in 1 .. MaxLetter
  PROVE  DOMAIN MoveNodes(base, list, letter) \subseteq AnyId
         /\ IsFiniteSet(DOMAIN MoveNodes(base, list, letter))
<1>0. DOMAIN list = 1 .. m
  OBVIOUS
<1>a. PICK f : MoveSteps(f, base, list, letter, m)
  BY <1>0, FoldMoveNode
<1>1. /\ f[0] = base
      /\ \A k \in 1 .. m : f[k] = MoveNode(f[k - 1], list[k], letter)
      /\ f[m] = MoveNodes(base, list, letter)
  BY <1>a DEF MoveSteps
<1> DEFINE T == {n \in Nat : n <= m => DOMAIN f[n] \subseteq AnyId /\ IsFiniteSet(DOMAIN f[n])}
<1>2. 0 \in T
  BY <1>1
<1>3. ASSUME NEW n \in Nat, n \in T PROVE n + 1 \in T
  <2>1. SUFFICES ASSUME n + 1 <= m
                 PROVE  DOMAIN f[n + 1] \subseteq AnyId /\ IsFiniteSet(DOMAIN f[n + 1])
    OBVIOUS
  <2>2. n + 1 \in 1 .. m /\ (n + 1) - 1 = n /\ DOMAIN f[n] \subseteq AnyId /\ IsFiniteSet(DOMAIN f[n])
    BY <1>3, <2>1
  <2> DEFINE old == list[n + 1]
             id == ChangeLetter(old, letter)
             more == AddNode(f[n], id, f[n][old])
  <2>3. f[n + 1] = MoveNode(f[n], old, letter)
    BY <1>1, <2>2
  <2>4. old \in AnyId /\ Letter(old) \in 1 .. MaxLetter
    BY <2>2
  <2> HIDE DEF old
  <2>5. id \in AnyId
    <3>1. Sequence(old) \in Nat
      BY <2>4, NumberedIds
    <3> QED
      BY <3>1, NewIds DEF ChangeLetter
  <2> HIDE DEF id
  <2>6. DOMAIN more \subseteq AnyId /\ IsFiniteSet(DOMAIN more)
    BY <2>2, <2>5, AddedIds
  <2> HIDE DEF more
  <2>7. f[n + 1] = ChangeSourceIds(more, old, id)
    BY <2>3 DEF MoveNode, more, id
  <2>8. DOMAIN f[n + 1] = DOMAIN more
    BY <2>7 DEF ChangeSourceIds
  <2> QED
    BY <2>6, <2>8
<1>4. m \in T
  <2> HIDE DEF T
  <2> QED
    BY <1>2, <1>3, NatSet
<1> QED
  BY <1>1, <1>4

\* Movement 3: the new layer's source and analysis have its letter.
LEMMA DragMiddleKeeps ==
  ASSUME Layered, Len(layers) < MaxLayers, FreeLayers # {}, NEW p \in Positions,
         NEW i \in DraggableNodes(p), NEW at \in 1 .. (Len(layers) + 1), DragMiddle(p, i, at)
  PROVE  Layered'
<1> DEFINE letter == NextLetter(TakenLetters)
           lid == CHOOSE l \in FreeLayers : TRUE
           list == LinkedListBySameLetter(nodes, i)
           id == ChangeLetter(i, letter)
           layer == NewLayerOf(letter, id)
           g == MoveNodes(nodes, list, letter)
           ls == InsertAt(layers, at, layer)
<1>1. EndWithout(RemoveNodes(g, {i}), ls, SaveAnalysis(g, analyses, layer))
  BY DEF DragMiddle, MoveNodes, MoveNode
<1>2. /\ lid \in Layers /\ letter \in 1 .. MaxLetter
      /\ \A q \in DOMAIN layers : layers[q].lid # lid /\ layers[q].letter # letter
  BY FreshLayer
<1>3. layer = Layer(lid, letter, id)
  BY DEF NewLayerOf
<1> HIDE DEF letter, lid, layer
<1>4. i \in DOMAIN nodes /\ i \in AnyId /\ Letter(i) \in 1 .. MaxLetter
  BY DraggableOwned DEF LayerType
<1>5. id \in AnyId
  BY <1>2, <1>4, NumberedIds, NewIds DEF ChangeLetter
<1> HIDE DEF id
<1>6. layer \in LayerType /\ layer.lid = lid /\ layer.letter = letter
  BY <1>2, <1>3, <1>5 DEF Layer, LayerType
<1>7. /\ ls \in Seq(LayerType) /\ Len(ls) = Len(layers) + 1 /\ Apart(ls)
      /\ \A q \in DOMAIN layers : \E r \in DOMAIN ls : ls[r] = layers[q]
      /\ \E r \in DOMAIN ls : ls[r] = layer
  BY <1>2, <1>6, LayerInserted DEF Layered
<1> HIDE DEF ls
<1>8. DOMAIN g \subseteq AnyId /\ IsFiniteSet(DOMAIN g)
  <2>1. list \in Seq(DOMAIN nodes) /\ \A k \in 1 .. Len(list) : Letter(list[k]) = Letter(i)
    BY <1>4, ListOfLetter DEF Layered
  <2> HIDE DEF list
  <2>2. Len(list) \in Nat /\ DOMAIN list = 1 .. Len(list)
        /\ \A k \in 1 .. Len(list) : list[k] \in AnyId /\ Letter(list[k]) \in 1 .. MaxLetter
    BY <1>4, <2>1 DEF Layered
  <2> QED
    BY <1>2, <2>2, MovedIds DEF Layered
<1> HIDE DEF g
<1>9. DOMAIN RemoveNodes(g, {i}) \subseteq AnyId /\ IsFiniteSet(DOMAIN RemoveNodes(g, {i}))
  BY <1>8, RemovedIds
<1>10. Saved(SaveAnalysis(g, analyses, layer), ls)
  <2>1. analyses \in Seq(AnyId) /\ LettersDiffer(analyses) /\ Saved(analyses, ls)
    BY <1>7, SavedMore DEF Layered, Saved
  <2>2. \A h \in ToSet(analyses) : \E q \in DOMAIN ls : ls[q].source = h /\ Owns(ls[q], h)
    BY <2>1 DEF Saved
  <2> QED
    BY <1>6, <1>7, <2>1, <2>2, SavedWith
<1>11. Len(ls) \in 1 .. MaxLayers
  BY <1>7, UserActionsAssumption DEF UserActionsAssumption, Layered
<1> QED
  BY <1>1, <1>7, <1>9, <1>10, <1>11, LayeredAtEnd

(* A layer deleted.                                                        *)

\* What is left without the layer, with a row for each layer that stays and
\* the analyses of those.
LEMMA WithoutIs ==
  ASSUME Layered, NEW p \in Positions, NEW n
  PROVE  LET W == Without(p, n)
         IN  /\ DOMAIN W.g \subseteq AnyId /\ IsFiniteSet(DOMAIN W.g)
             /\ W.ls \in Seq(LayerType) /\ Len(W.ls) <= Len(layers) /\ Apart(W.ls)
             /\ \A q \in DOMAIN W.ls : \E r \in DOMAIN layers : r # p /\ W.ls[q] = layers[r]
             /\ \A r \in DOMAIN layers : r # p /\ r \notin BuiltOn(p, n) =>
                   \E q \in DOMAIN W.ls : W.ls[q] = layers[r]
             /\ Saved(W.as, W.ls)
             /\ DOMAIN W.ws \subseteq DOMAIN widgets
<1> DEFINE W == Without(p, n)
           gone == BuiltOn(p, n) \cup {p}
           lost == {Min(AnalysesForLayer(analyses, layers[q])) :
                      q \in {m \in gone : AnalysesForLayer(analyses, layers[m]) # {}}}
           P == Positions \ gone
           K == DOMAIN analyses \ lost
           ls == Kept(layers, P)
           hs == Kept(analyses, K)
<1>1. W.g = RemoveNodes(nodes, Highest(p, n)) /\ W.ls = ls /\ W.as = hs
  BY DEF Without
<1>2. DOMAIN W.ws \subseteq DOMAIN widgets
  BY DEF Without, Restrict
<1> HIDE DEF W
<1>3. layers \in Seq(LayerType) /\ Apart(layers) /\ Positions = DOMAIN layers
      /\ analyses \in Seq(AnyId) /\ LettersDiffer(analyses)
  BY DEF Layered, Saved, Positions
<1>4. gone \subseteq DOMAIN layers /\ p \in gone
  BY <1>3 DEF BuiltOn
<1>5. \A q \in gone : \A k \in DOMAIN analyses : Letter(analyses[k]) = layers[q].letter => k \in lost
  <2>1. SUFFICES ASSUME NEW q \in gone, NEW k \in DOMAIN analyses, Letter(analyses[k]) = layers[q].letter
                 PROVE  k \in lost
    OBVIOUS
  <2> DEFINE found == AnalysesForLayer(analyses, layers[q])
  <2>2. k \in found
    BY <2>1 DEF AnalysesForLayer
  <2>3. found \in SUBSET Nat
    BY <1>3 DEF AnalysesForLayer
  <2>4. Min(found) \in found
    <3> HIDE DEF found
    <3> QED
      BY <2>2, <2>3, MinIs
  <2>5. Min(found) \in DOMAIN analyses /\ Letter(analyses[Min(found)]) = layers[q].letter
    BY <2>4 DEF AnalysesForLayer
  <2>6. Min(found) = k
    <3> HIDE DEF found
    <3> QED
      BY <1>3, <2>1, <2>5 DEF LettersDiffer
  <2>7. Min(found) \in lost
    BY <2>2
  <2> HIDE DEF found
  <2> QED
    BY <2>6, <2>7
<1>6. \A q \in DOMAIN layers : q \in P <=> q \notin gone
  BY <1>3
<1>7. \A k \in DOMAIN analyses : k \in K => k \notin lost
  OBVIOUS
<1>8. \A r \in DOMAIN layers : r # p /\ r \notin BuiltOn(p, n) => r \in P
  BY <1>3
<1> HIDE DEF gone, lost, P, K
<1>9. /\ ls \in Seq(LayerType) /\ Len(ls) <= Len(layers) /\ Apart(ls)
      /\ \A q \in DOMAIN ls : \E r \in DOMAIN layers : r \in P /\ ls[q] = layers[r]
      /\ \A r \in DOMAIN layers : r \in P => \E q \in DOMAIN ls : ls[q] = layers[r]
  BY <1>3, KeptLayers
<1>10. /\ hs \in Seq(AnyId) /\ LettersDiffer(hs)
       /\ \A x : x \in ToSet(hs) <=> \E k \in DOMAIN analyses : k \in K /\ analyses[k] = x
  BY <1>3, KeptHeads
<1> HIDE DEF ls, hs
<1>11. ASSUME NEW h \in ToSet(hs) PROVE \E q \in DOMAIN ls : ls[q].source = h /\ Owns(ls[q], h)
  <2>1. PICK k \in DOMAIN analyses : k \in K /\ analyses[k] = h
    BY <1>10
  <2>2. h \in ToSet(analyses)
    BY <2>1 DEF ToSet
  <2>3. PICK r \in DOMAIN layers : layers[r].source = h /\ Owns(layers[r], h)
    BY <2>2 DEF Layered, Saved
  <2>4. r \notin gone
    BY <1>5, <1>7, <2>1, <2>3 DEF Owns
  <2> QED
    BY <1>6, <1>9, <2>3, <2>4
<1>12. Saved(hs, ls)
  BY <1>10, <1>11 DEF Saved
<1>13. DOMAIN W.g \subseteq AnyId /\ IsFiniteSet(DOMAIN W.g)
  BY <1>1, RemovedIds DEF Layered
<1>14. \A q \in DOMAIN ls : \E r \in DOMAIN layers : r # p /\ ls[q] = layers[r]
  BY <1>4, <1>6, <1>9
<1>15. \A r \in DOMAIN layers : r # p /\ r \notin BuiltOn(p, n) => \E q \in DOMAIN ls : ls[q] = layers[r]
  BY <1>8, <1>9
<1> QED
  BY <1>1, <1>2, <1>9, <1>12, <1>13, <1>14, <1>15 DEF W

\* A layer that the user may delete leaves another one, when no node of its own is folded.
LEMMA SomeLayerStays ==
  ASSUME Layered, NEW p \in Positions, CanBeDeletedByUser(p),
         \A n \in 0 .. (Len(OwnNodes(p)) - 1) : Parents(p, n) = {}
  PROVE  \E r \in DOMAIN layers : r # p /\ r \notin BuiltOn(p, Len(OwnNodes(p)))
<1> DEFINE own == OwnNodes(p)
           N == Len(own)
           source == layers[p].source
<1>1. /\ own \in Seq(DOMAIN nodes)
      /\ N # 0 => own[1] = source /\ Owns(layers[p], source)
  BY OwnNodesAre DEF OwnNodes, Layered
<1>2. N \in Nat /\ ToSet(own) = {own[k] : k \in 1 .. N}
  BY <1>1 DEF ToSet
<1>3. Positions = DOMAIN layers /\ DOMAIN layers = 1 .. Len(layers) /\ Len(layers) \in Nat /\ Len(layers) > 1
  BY DEF Layered, Positions, CanBeDeletedByUser
<1>4. Highest(p, N) = ToSet(own)
  BY <1>2 DEF Highest
<1>5. \A r \in DOMAIN layers : r \in BuiltOn(p, N) <=> Contained(nodes, layers[r].source) \cap ToSet(own) # {}
  BY <1>3, <1>4 DEF BuiltOn
<1>6. CASE N = 0
  <2>1. ToSet(own) = {}
    BY <1>2, <1>6
  <2>2. \E r \in DOMAIN layers : r # p
    BY <1>3
  <2> QED
    BY <1>5, <2>1, <2>2
<1>7. CASE N # 0 /\ ~AllLayersDependOn(p)
  <2>a. 1 \in 1 .. N
    BY <1>2, <1>7
  <2>b. own[1] \in ToSet(own)
    BY <1>2, <2>a
  <2>1. ToSet(own) # {}
    BY <2>b
  <2>2. PICK r \in Positions \ {p} : ToSet(own) \cap Contained(nodes, layers[r].source) = {}
    BY <1>7, <2>1 DEF AllLayersDependOn, OwnNodes
  <2>3. r \in DOMAIN layers /\ r # p
    BY <1>3
  <2> QED
    BY <1>5, <2>2, <2>3
<1>8. CASE N # 0 /\ CanBeFolded(p)
  <2>1. PICK q \in Positions \ {p} : layers[q].source = source \/ BelowOwn(nodes, layers[q]) = source
    BY <1>8 DEF CanBeFolded
  <2>2. Highest(p, 0) = {}
    BY DEF Highest
  <2>3. {layers[r].lid : r \in BuiltOn(p, 0)} = {}
    BY <2>2 DEF BuiltOn
  <2>4. own[0 + 1] = source /\ Owns(layers[p], source)
    BY <1>1, <1>8
  <2>5. q # FindOwner(layers, source)
    <3>1. p \in Owners(layers, source)
      BY <1>3, <2>4 DEF Owners
    <3>2. FindOwner(layers, source) \in DOMAIN layers /\ Owns(layers[FindOwner(layers, source)], source)
      BY <3>1, OwnerIs DEF Layered
    <3>3. Owns(layers[q], source) => q = p
      BY <1>3, <2>4 DEF Owns, Layered, Apart
    <3> QED
      BY <3>2, <3>3
  <2>6. layers[q].source \in DOMAIN nodes
    BY DEF CanBeDeletedByUser
  <2>7. q \in ParentLayers(nodes, layers, source, {})
    BY <1>3, <2>1, <2>5, <2>6 DEF ParentLayers
  <2>8. Parents(p, 0) = ParentLayers(nodes, layers, own[0 + 1], {layers[r].lid : r \in BuiltOn(p, 0)})
    BY DEF Parents
  <2>9. Parents(p, 0) # {}
    <3> HIDE DEF own
    <3> QED
      BY <2>3, <2>4, <2>7, <2>8
  <2>10. 0 \in 0 .. (N - 1)
    BY <1>2, <1>8
  <2> QED
    BY <2>9, <2>10
<1>9. CanBeFolded(p) \/ ~AllLayersDependOn(p)
  BY DEF CanBeDeletedByUser
<1> QED
  BY <1>6, <1>7, <1>8, <1>9

\* A layer deleted with all its own nodes.
LEMMA WholeKeeps ==
  ASSUME Layered, NEW p \in Positions, CanBeDeletedByUser(p), DeleteWhole(p)
  PROVE  Layered' /\ DOMAIN widgets' \subseteq DOMAIN widgets
<1> DEFINE W == Without(p, Len(OwnNodes(p)))
<1>1. /\ \A n \in 0 .. (Len(OwnNodes(p)) - 1) : Parents(p, n) = {}
      /\ EndWithout(W.g, W.ls, W.as)
      /\ widgets' = W.ws
  BY DEF DeleteWhole
<1>2. /\ DOMAIN W.g \subseteq AnyId /\ IsFiniteSet(DOMAIN W.g)
      /\ W.ls \in Seq(LayerType) /\ Len(W.ls) <= Len(layers) /\ Apart(W.ls)
      /\ \A r \in DOMAIN layers : r # p /\ r \notin BuiltOn(p, Len(OwnNodes(p))) =>
            \E q \in DOMAIN W.ls : W.ls[q] = layers[r]
      /\ Saved(W.as, W.ls)
      /\ DOMAIN W.ws \subseteq DOMAIN widgets
  BY WithoutIs
<1>3. \E r \in DOMAIN layers : r # p /\ r \notin BuiltOn(p, Len(OwnNodes(p)))
  BY <1>1, SomeLayerStays
<1> HIDE DEF W
<1>4. DOMAIN W.ls # {}
  BY <1>2, <1>3
<1>5. Len(W.ls) \in 1 .. MaxLayers
  <2>1. Len(W.ls) \in Nat /\ DOMAIN W.ls = 1 .. Len(W.ls) /\ Len(layers) \in 1 .. MaxLayers /\ MaxLayers \in Nat
    BY <1>2, UserActionsAssumption DEF Layered, UserActionsAssumption
  <2> QED
    BY <1>2, <1>4, <2>1
<1> QED
  BY <1>1, <1>2, <1>5, LayeredAtEnd

\* Each node of a list takes an id of the letter.
LEMMA FoldedIdsAre ==
  ASSUME NEW g, NEW letter \in 1 .. MaxLetter, NEW list \in Seq(AnyId), list # << >>,
         Sequence(list[1]) \in Nat
  PROVE  \A n \in DOMAIN list : /\ FoldedIds(g, list, letter)[n] \in AnyId
                                /\ Letter(FoldedIds(g, list, letter)[n]) = letter
<1> DEFINE m == Len(list)
<1>m. m \in Nat /\ m >= 1 /\ DOMAIN list = 1 .. m /\ Len(list) = m
  OBVIOUS
<1> HIDE DEF m
<1> DEFINE highest == IF Len(list) <= Sequence(list[1]) THEN Sequence(list[1]) ELSE Len(list)
           start == IF IsSourceType(g, Last(list)) THEN highest ELSE highest + 1
           Is(h) == h = [n \in DOMAIN list |-> PrevId(IF n = 1 THEN Id(letter, start) ELSE h[n - 1])]
           ids == CHOOSE h : Is(h)
<1>1. FoldedIds(g, list, letter) = ids
  BY DEF FoldedIds
<1>2. start \in Nat
  BY <1>m
<1> HIDE DEF start
<1>3. ASSUME NEW s \in Nat
      PROVE  PrevId(Id(letter, s)) = Id(letter, IF s > 0 THEN s - 1 ELSE 0)
  BY DEF PrevId, Id, Letter, Sequence
<1>4. \E h : Is(h)
  <2> DEFINE low(n) == IF start > n THEN start - n ELSE 0
             h == [n \in 1 .. m |-> Id(letter, low(n))]
  <2>1. ASSUME NEW n \in 1 .. m
        PROVE  h[n] = PrevId(IF n = 1 THEN Id(letter, start) ELSE h[n - 1])
    <3>1. CASE n = 1
      <4>1. low(n) = IF start > 0 THEN start - 1 ELSE 0
        BY <1>2, <3>1
      <4> HIDE DEF low
      <4> QED
        BY <1>2, <1>3, <3>1, <4>1
    <3>2. CASE n # 1
      <4>1. n - 1 \in 1 .. m /\ low(n - 1) \in Nat
        BY <1>2, <1>m, <3>2
      <4>2. low(n) = IF low(n - 1) > 0 THEN low(n - 1) - 1 ELSE 0
        BY <1>2, <3>2
      <4> HIDE DEF low
      <4>3. h[n - 1] = Id(letter, low(n - 1)) /\ h[n] = Id(letter, low(n))
        BY <4>1
      <4> HIDE DEF h
      <4> QED
        BY <1>3, <3>2, <4>1, <4>2, <4>3
    <3> QED
      BY <3>1, <3>2
  <2>2. h = [n \in DOMAIN list |-> h[n]]
    BY <1>m
  <2> HIDE DEF h
  <2>3. Is(h)
    BY <1>m, <2>1, <2>2
  <2> QED
    BY <2>3
<1>5. Is(ids)
  <2> HIDE DEF Is
  <2> QED
    BY <1>4
<1> HIDE DEF ids
<1> DEFINE T == {n \in Nat : n + 1 <= m => \E s \in Nat : ids[n + 1] = Id(letter, s)}
<1>6. 0 \in T
  <2>1. 0 + 1 \in DOMAIN list /\ 0 + 1 = 1
    BY <1>m
  <2>2. ids[0 + 1] = PrevId(Id(letter, start))
    BY <1>5, <2>1
  <2>3. (IF start > 0 THEN start - 1 ELSE 0) \in Nat
    BY <1>2
  <2> QED
    BY <1>2, <1>3, <2>2, <2>3
<1>7. ASSUME NEW n \in Nat, n \in T PROVE n + 1 \in T
  <2>1. SUFFICES ASSUME n + 1 + 1 <= m PROVE \E s \in Nat : ids[n + 1 + 1] = Id(letter, s)
    OBVIOUS
  <2>2. PICK s \in Nat : ids[n + 1] = Id(letter, s)
    BY <1>7, <1>m, <2>1
  <2>3. n + 1 + 1 \in DOMAIN list /\ n + 1 + 1 # 1 /\ (n + 1 + 1) - 1 = n + 1
    BY <1>m, <2>1
  <2>4. ids[n + 1 + 1] = PrevId(ids[n + 1])
    BY <1>5, <2>3
  <2>5. (IF s > 0 THEN s - 1 ELSE 0) \in Nat
    OBVIOUS
  <2> QED
    BY <1>3, <2>2, <2>4, <2>5
<1>8. \A n \in Nat : n \in T
  <2> HIDE DEF T
  <2> QED
    BY <1>6, <1>7, NatSet
<1>9. ASSUME NEW n \in 1 .. m PROVE ids[n] \in AnyId /\ Letter(ids[n]) = letter
  <2>1. n - 1 \in Nat /\ (n - 1) + 1 = n /\ (n - 1) + 1 <= m
    BY <1>m
  <2>2. n - 1 \in T
    BY <1>8, <2>1
  <2>3. PICK s \in Nat : ids[n] = Id(letter, s)
    BY <2>1, <2>2
  <2> QED
    BY <2>3, NewIds
<1> QED
  BY <1>1, <1>9, <1>m

\* One node renamed in what is left of a map.
LEMMA RenamedIs ==
  ASSUME NEW st, DOMAIN st.g \subseteq AnyId, IsFiniteSet(DOMAIN st.g), st.ls \in Seq(LayerType),
         NEW old, NEW new \in AnyId
  PROVE  LET r == Renamed(st, old, new)
         IN  /\ DOMAIN r.g \subseteq AnyId /\ IsFiniteSet(DOMAIN r.g)
             /\ r.ls \in Seq(LayerType) /\ Len(r.ls) = Len(st.ls) /\ Alike(r.ls, st.ls)
             /\ \A q \in DOMAIN st.ls : st.ls[q].source # old => r.ls[q].source = st.ls[q].source
             /\ r.as = st.as /\ DOMAIN r.ws = DOMAIN st.ws
<1> DEFINE r == Renamed(st, old, new)
           to(source) == IF source = old THEN new ELSE source
           n == Len(st.ls)
<1>1. /\ r.g = RenameNode(st.g, old, new)
      /\ r.ls = [q \in DOMAIN st.ls |-> [st.ls[q] EXCEPT !.source = to(@)]]
      /\ r.as = st.as /\ DOMAIN r.ws = DOMAIN st.ws
  BY DEF Renamed
<1> HIDE DEF r
<1>2. DOMAIN r.g = (DOMAIN st.g \ {old}) \cup {new}
  BY <1>1 DEF RenameNode, ChangeSourceIds
<1>3. IsFiniteSet((DOMAIN st.g \ {old}) \cup {new})
  <2>1. IsFiniteSet(DOMAIN st.g \ {old})
    BY FS_Difference
  <2> QED
    BY <2>1, FS_AddElement
<1>4. n \in Nat /\ DOMAIN st.ls = 1 .. n /\ \A q \in 1 .. n : st.ls[q] \in LayerType
  OBVIOUS
<1>5. DOMAIN r.ls = 1 .. n
  BY <1>1, <1>4
<1>6. ASSUME NEW q \in 1 .. n
      PROVE  /\ r.ls[q] \in LayerType
             /\ r.ls[q].lid = st.ls[q].lid /\ r.ls[q].letter = st.ls[q].letter
             /\ st.ls[q].source # old => r.ls[q].source = st.ls[q].source
  <2>1. r.ls[q] = [st.ls[q] EXCEPT !.source = to(st.ls[q].source)]
    BY <1>1, <1>4
  <2>2. st.ls[q] \in LayerType
    BY <1>4
  <2>3. to(st.ls[q].source) \in AnyId
    BY <2>2 DEF LayerType
  <2>4. st.ls[q].source # old => to(st.ls[q].source) = st.ls[q].source
    OBVIOUS
  <2> HIDE DEF to
  <2> DEFINE layer == st.ls[q]
             source == to(st.ls[q].source)
  <2>5. layer \in LayerType /\ source \in AnyId /\ r.ls[q] = [layer EXCEPT !.source = source]
    BY <2>1, <2>2, <2>3
  <2> HIDE DEF layer, source
  <2>6. r.ls[q] \in LayerType /\ r.ls[q].lid = layer.lid /\ r.ls[q].letter = layer.letter
        /\ r.ls[q].source = source
    BY <2>5 DEF LayerType
  <2> QED
    BY <2>4, <2>6 DEF layer, source
<1>7. r.ls \in Seq(LayerType) /\ Len(r.ls) = n
  <2>1. r.ls = [q \in 1 .. n |-> r.ls[q]]
    BY <1>1, <1>4, <1>5
  <2> QED
    BY <1>4, <1>6, <2>1
<1>8. Alike(r.ls, st.ls)
  BY <1>4, <1>5, <1>6 DEF Alike
<1> QED
  BY <1>1, <1>2, <1>3, <1>4, <1>6, <1>7, <1>8 DEF r, n

\* What is left of a map, and what it is after nodes of the letters have been renamed.
Followed(moved, W, letters) ==
    /\ DOMAIN moved.g \subseteq AnyId /\ IsFiniteSet(DOMAIN moved.g)
    /\ moved.ls \in Seq(LayerType) /\ Len(moved.ls) = Len(W.ls) /\ Alike(moved.ls, W.ls)
    /\ \A q \in DOMAIN W.ls :
          Letter(W.ls[q].source) \notin letters => moved.ls[q].source = W.ls[q].source
    /\ moved.as = W.as /\ DOMAIN moved.ws = DOMAIN W.ws

\* Renaming the nodes of some letters leaves the layers on other letters as they were.
LEMMA Folding ==
  ASSUME NEW W, DOMAIN W.g \subseteq AnyId, IsFiniteSet(DOMAIN W.g), W.ls \in Seq(LayerType),
         NEW m \in Nat, NEW list, NEW ids, NEW letters,
         \A k \in 1 .. m : ids[k] \in AnyId /\ Letter(list[k]) \in letters,
         NEW order, DOMAIN order = 1 .. m, \A k \in 1 .. m : order[k] = k
  PROVE  Followed(Renames(W, list, ids, order), W, letters)
<1> DEFINE Good(st) == Followed(st, W, letters)
<1>0. DOMAIN order = 1 .. m /\ \A k \in 1 .. m : order[k] = k
  OBVIOUS
<1>a. PICK f : RenameSteps(f, W, list, ids, order, m)
  BY <1>0, FoldRenamed
<1>1. /\ f[0] = W
      /\ \A k \in 1 .. m : f[k] = Renamed(f[k - 1], list[order[k]], ids[order[k]])
      /\ f[m] = Renames(W, list, ids, order)
  BY <1>a DEF RenameSteps
<1> DEFINE T == {n \in Nat : n <= m => Good(f[n])}
<1>2. 0 \in T
  <2>1. Good(W)
    BY DEF Alike, Followed
  <2> QED
    BY <1>1, <2>1
<1>3. ASSUME NEW n \in Nat, n \in T PROVE n + 1 \in T
  <2>1. SUFFICES ASSUME n + 1 <= m PROVE Good(f[n + 1])
    OBVIOUS
  <2>2. n + 1 \in 1 .. m /\ (n + 1) - 1 = n /\ Good(f[n])
    BY <1>3, <2>1
  <2> DEFINE st == f[n]
             old == list[n + 1]
             new == ids[n + 1]
             r == Renamed(st, old, new)
  <2>3. f[n + 1] = r
    BY <1>0, <1>1, <2>2
  <2>a. new \in AnyId /\ Letter(old) \in letters
    BY <2>2
  <2>b. Good(st)
    BY <2>2
  <2> HIDE DEF st, old, new
  <2>4. /\ DOMAIN st.g \subseteq AnyId /\ IsFiniteSet(DOMAIN st.g)
        /\ st.ls \in Seq(LayerType) /\ Len(st.ls) = Len(W.ls) /\ Alike(st.ls, W.ls)
        /\ \A q \in DOMAIN W.ls :
              Letter(W.ls[q].source) \notin letters => st.ls[q].source = W.ls[q].source
        /\ st.as = W.as /\ DOMAIN st.ws = DOMAIN W.ws
    BY <2>b DEF Followed
  <2>5. /\ DOMAIN r.g \subseteq AnyId /\ IsFiniteSet(DOMAIN r.g)
        /\ r.ls \in Seq(LayerType) /\ Len(r.ls) = Len(st.ls) /\ Alike(r.ls, st.ls)
        /\ \A q \in DOMAIN st.ls : st.ls[q].source # old => r.ls[q].source = st.ls[q].source
        /\ r.as = st.as /\ DOMAIN r.ws = DOMAIN st.ws
    BY <2>4, <2>a, RenamedIs
  <2> HIDE DEF r
  <2>6. Alike(r.ls, W.ls) /\ DOMAIN st.ls = DOMAIN W.ls
    BY <2>4, <2>5 DEF Alike
  <2>7. ASSUME NEW q \in DOMAIN W.ls, Letter(W.ls[q].source) \notin letters
        PROVE  r.ls[q].source = W.ls[q].source
    BY <2>4, <2>5, <2>6, <2>7, <2>a
  <2>8. Good(r)
    BY <2>4, <2>5, <2>6, <2>7 DEF Followed
  <2> QED
    BY <2>3, <2>8
<1>4. Good(f[m])
  <2>1. m \in T
    <3> HIDE DEF T
    <3> QED
      BY <1>2, <1>3, NatSet
  <2> HIDE DEF Good
  <2> QED
    BY <2>1
<1> QED
  BY <1>1, <1>4

\* The layer that takes the nodes is the only one whose analysis changes; that of the deleted layer is gone.
LEMMA FoldKeeps ==
  ASSUME Layered, NEW p \in Positions, NEW n \in 0 .. (Len(OwnNodes(p)) - 1),
         Parents(p, n) # {}, FoldUnder(p, n, Min(Parents(p, n)))
  PROVE  Layered' /\ DOMAIN widgets' \subseteq DOMAIN widgets
<1> DEFINE parent == Min(Parents(p, n))
           top == OwnNodes(p)[n + 1]
           above == OwnNodes(parent)
           below == LinkedListBySameLetter(nodes, top)
           letter == layers[parent].letter
           W == Without(p, n)
           letters == {letter, layers[p].letter}
<1>0. IsFiniteSet(DOMAIN nodes) /\ DOMAIN nodes \subseteq AnyId /\ layers \in Seq(LayerType)
      /\ Positions = DOMAIN layers /\ Apart(layers) /\ Len(layers) \in 1 .. MaxLayers
  BY DEF Layered, Positions
<1>a. \E list \in {above \o below} :
      \E ids \in {FoldedIds(nodes, list, letter)} :
      \E moved \in {Renames(W, list, ids, [k \in DOMAIN list |-> k])} :
      \E q \in DOMAIN moved.ls :
         /\ moved.ls[q].lid = layers[parent].lid
         /\ \E ls \in {[moved.ls EXCEPT ![q].source = ids[1]]} :
              EndWithout(moved.g, ls, SaveAnalysis(moved.g, moved.as, ls[q]))
         /\ widgets' = moved.ws
  BY Zenon DEF FoldUnder, Renames
<1>b. PICK list \in {above \o below} :
      \E ids \in {FoldedIds(nodes, list, letter)} :
      \E moved \in {Renames(W, list, ids, [k \in DOMAIN list |-> k])} :
      \E q \in DOMAIN moved.ls :
         /\ moved.ls[q].lid = layers[parent].lid
         /\ \E ls \in {[moved.ls EXCEPT ![q].source = ids[1]]} :
              EndWithout(moved.g, ls, SaveAnalysis(moved.g, moved.as, ls[q]))
         /\ widgets' = moved.ws
  BY <1>a
<1>c. PICK ids \in {FoldedIds(nodes, list, letter)} :
      \E moved \in {Renames(W, list, ids, [k \in DOMAIN list |-> k])} :
      \E q \in DOMAIN moved.ls :
         /\ moved.ls[q].lid = layers[parent].lid
         /\ \E ls \in {[moved.ls EXCEPT ![q].source = ids[1]]} :
              EndWithout(moved.g, ls, SaveAnalysis(moved.g, moved.as, ls[q]))
         /\ widgets' = moved.ws
  BY <1>b
<1>d. PICK moved \in {Renames(W, list, ids, [k \in DOMAIN list |-> k])} :
      \E q \in DOMAIN moved.ls :
         /\ moved.ls[q].lid = layers[parent].lid
         /\ \E ls \in {[moved.ls EXCEPT ![q].source = ids[1]]} :
              EndWithout(moved.g, ls, SaveAnalysis(moved.g, moved.as, ls[q]))
         /\ widgets' = moved.ws
  BY <1>c
<1>1. PICK q \in DOMAIN moved.ls :
         /\ moved.ls[q].lid = layers[parent].lid
         /\ \E ls \in {[moved.ls EXCEPT ![q].source = ids[1]]} :
              EndWithout(moved.g, ls, SaveAnalysis(moved.g, moved.as, ls[q]))
         /\ widgets' = moved.ws
  BY <1>d
<1>e. list = above \o below /\ ids = FoldedIds(nodes, list, letter)
      /\ moved = Renames(W, list, ids, [k \in DOMAIN list |-> k])
  OBVIOUS
<1>2. parent \in DOMAIN layers
  <2>1. Parents(p, n) \subseteq DOMAIN layers
    BY DEF Parents, ParentLayers
  <2>2. Parents(p, n) \in SUBSET Nat
    BY <1>0, <2>1
  <2> QED
    BY <2>1, <2>2, MinIs
<1> HIDE DEF parent
<1>3. layers[parent] \in LayerType /\ letter \in 1 .. MaxLetter /\ layers[p] \in LayerType
      /\ layers[p].letter \in 1 .. MaxLetter
  <2>1. layers[parent] \in LayerType /\ layers[p] \in LayerType
    BY <1>0, <1>2
  <2> QED
    BY <2>1 DEF LayerType
<1>4. above \in Seq(DOMAIN nodes) /\ \A k \in 1 .. Len(above) : Letter(above[k]) = letter
  BY <1>0, OwnNodesAre DEF OwnNodes
<1>5. top \in DOMAIN nodes /\ Letter(top) = layers[p].letter
  <2> DEFINE own == OwnNodes(p)
  <2>1. own \in Seq(DOMAIN nodes)
        /\ \A k \in 1 .. Len(own) : own[k] \in DOMAIN nodes /\ Letter(own[k]) = layers[p].letter
    BY <1>0, OwnNodesAre DEF OwnNodes
  <2>2. n \in 0 .. (Len(own) - 1)
    OBVIOUS
  <2> HIDE DEF own
  <2>3. n + 1 \in 1 .. Len(own)
    BY <2>1, <2>2
  <2> QED
    BY <2>1, <2>3 DEF own
<1> HIDE DEF top
<1>6. below \in Seq(DOMAIN nodes) /\ Len(below) >= 1
      /\ \A k \in 1 .. Len(below) : Letter(below[k]) = layers[p].letter
  <2>1. below \in Seq(DOMAIN nodes) /\ Len(below) \in 1 .. (Cardinality(DOMAIN nodes) + 1)
        /\ \A k \in 1 .. Len(below) : Letter(below[k]) = Letter(top)
    BY <1>0, <1>5, ListOfLetter
  <2> QED
    BY <1>5, <2>1
<1> HIDE DEF above, below
<1> DEFINE a == Len(above)
           b == Len(below)
           m == a + b
<1>7. a \in Nat /\ b \in Nat /\ b >= 1 /\ m \in Nat /\ m >= 1
  BY <1>4, <1>6
<1>8. /\ list \in Seq(DOMAIN nodes) /\ Len(list) = m
      /\ \A k \in 1 .. m : list[k] = IF k <= a THEN above[k] ELSE below[k - a]
  BY <1>4, <1>6, <1>e, ConcatProperties
<1>9. DOMAIN list = 1 .. m /\ \A k \in 1 .. m : list[k] \in DOMAIN nodes
  BY <1>8
<1>10. \A k \in 1 .. m : Letter(list[k]) \in letters
  <2>1. \A k \in 1 .. m : k <= a => k \in 1 .. a
    BY <1>7
  <2>2. \A k \in 1 .. m : ~(k <= a) => k - a \in 1 .. b
    BY <1>7
  <2> HIDE DEF a, b, m
  <2> QED
    BY <1>4, <1>6, <1>8, <2>1, <2>2 DEF a, b
<1> HIDE DEF m, a, b, letter
<1>11. Sequence(list[1]) \in Nat
  <2>1. 1 \in 1 .. m
    BY <1>7
  <2>2. list[1] \in AnyId /\ Letter(list[1]) \in 1 .. MaxLetter
    BY <1>0, <1>3, <1>9, <1>10, <2>1
  <2> QED
    BY <2>2, NumberedIds
<1>12. \A k \in 1 .. m : ids[k] \in AnyId /\ Letter(ids[k]) = letter
  <2>1. list \in Seq(AnyId) /\ list # << >>
    BY <1>0, <1>7, <1>8
  <2>2. \A k \in DOMAIN list : /\ FoldedIds(nodes, list, letter)[k] \in AnyId
                               /\ Letter(FoldedIds(nodes, list, letter)[k]) = letter
    BY <1>3, <1>11, <2>1, FoldedIdsAre
  <2> QED
    BY <1>9, <1>e, <2>2
<1>13. /\ DOMAIN W.g \subseteq AnyId /\ IsFiniteSet(DOMAIN W.g)
       /\ W.ls \in Seq(LayerType) /\ Len(W.ls) <= Len(layers) /\ Apart(W.ls)
       /\ \A r \in DOMAIN W.ls : \E s \in DOMAIN layers : s # p /\ W.ls[r] = layers[s]
       /\ Saved(W.as, W.ls)
       /\ DOMAIN W.ws \subseteq DOMAIN widgets
  BY WithoutIs
<1> HIDE DEF W
<1>14. /\ DOMAIN moved.g \subseteq AnyId /\ IsFiniteSet(DOMAIN moved.g)
       /\ moved.ls \in Seq(LayerType) /\ Len(moved.ls) = Len(W.ls) /\ Alike(moved.ls, W.ls)
       /\ \A r \in DOMAIN W.ls :
             Letter(W.ls[r].source) \notin letters => moved.ls[r].source = W.ls[r].source
       /\ moved.as = W.as /\ DOMAIN moved.ws = DOMAIN W.ws
  <2> DEFINE order == [k \in DOMAIN list |-> k]
  <2>1. DOMAIN order = 1 .. m /\ \A k \in 1 .. m : order[k] = k
    BY <1>9
  <2>2. moved = Renames(W, list, ids, order)
    BY <1>e
  <2> HIDE DEF letters, order
  <2>3. \A k \in 1 .. m : ids[k] \in AnyId /\ Letter(list[k]) \in letters
    BY <1>10, <1>12
  <2>4. Followed(Renames(W, list, ids, order), W, letters)
    BY <1>7, <1>13, <2>1, <2>3, Folding
  <2> QED
    BY <2>2, <2>4 DEF Followed
<1> DEFINE rest == moved.ls
           id == ids[1]
           ls == [rest EXCEPT ![q].source = id]
<1>15. EndWithout(moved.g, ls, SaveAnalysis(moved.g, moved.as, ls[q])) /\ widgets' = moved.ws
       /\ moved.ls[q].lid = layers[parent].lid
  BY <1>1
<1>16. id \in AnyId /\ q \in DOMAIN rest /\ rest \in Seq(LayerType)
  BY <1>1, <1>7, <1>12, <1>14
<1> HIDE DEF rest, id
<1>m. /\ ls \in Seq(LayerType) /\ Len(ls) = Len(rest) /\ Alike(ls, rest)
      /\ \A r \in DOMAIN rest : r # q => ls[r] = rest[r]
  BY <1>16, SourceMoved
<1>17. /\ ls \in Seq(LayerType) /\ Len(ls) = Len(moved.ls) /\ Alike(ls, moved.ls)
       /\ \A r \in DOMAIN moved.ls : r # q => ls[r] = moved.ls[r]
  BY <1>m DEF rest
<1> HIDE DEF ls
<1>18. Alike(ls, W.ls) /\ DOMAIN ls = DOMAIN W.ls /\ DOMAIN moved.ls = DOMAIN W.ls /\ q \in DOMAIN W.ls
  BY <1>1, <1>14, <1>17 DEF Alike
<1>19. Apart(ls)
  BY <1>13, <1>18, AlikeApart
<1>20. W.ls[q].letter = letter
  <2>1. W.ls[q].lid = layers[parent].lid
    BY <1>14, <1>15, <1>18 DEF Alike
  <2>2. PICK s \in DOMAIN layers : W.ls[q] = layers[s]
    BY <1>13, <1>18
  <2>3. s = parent
    BY <1>0, <1>2, <2>1, <2>2 DEF Apart
  <2> QED
    BY <2>2, <2>3 DEF letter
<1>21. ls[q] \in LayerType /\ ls[q].letter = letter
  BY <1>17, <1>18, <1>20 DEF Alike
<1>22. ASSUME NEW h \in ToSet(moved.as), Letter(h) # ls[q].letter
       PROVE  \E r \in DOMAIN ls : ls[r].source = h /\ Owns(ls[r], h)
  <2>1. PICK r \in DOMAIN W.ls : W.ls[r].source = h /\ Owns(W.ls[r], h)
    BY <1>13, <1>14 DEF Saved
  <2>2. r # q
    BY <1>20, <1>21, <1>22, <2>1 DEF Owns
  <2>3. PICK s \in DOMAIN layers : s # p /\ W.ls[r] = layers[s]
    BY <1>13
  <2>4. Letter(h) # layers[p].letter
    BY <1>0, <2>1, <2>3 DEF Apart, Owns
  <2>5. Letter(h) \notin letters
    BY <1>21, <1>22, <2>4
  <2>6. moved.ls[r].source = h /\ moved.ls[r].letter = W.ls[r].letter
    BY <1>14, <1>18, <2>1, <2>5 DEF Alike
  <2>7. ls[r] = moved.ls[r]
    BY <1>17, <1>18, <2>2
  <2> QED
    BY <1>18, <2>1, <2>6, <2>7 DEF Owns
<1>23. Saved(SaveAnalysis(moved.g, moved.as, ls[q]), ls)
  <2>1. moved.as \in Seq(AnyId) /\ LettersDiffer(moved.as)
    BY <1>13, <1>14 DEF Saved
  <2>2. \E r \in DOMAIN ls : ls[r] = ls[q]
    BY <1>18
  <2> QED
    BY <1>21, <1>22, <2>1, <2>2, SavedWith
<1>24. Len(ls) \in 1 .. MaxLayers
  <2>1. DOMAIN ls = 1 .. Len(ls) /\ Len(ls) \in Nat /\ Len(ls) <= Len(layers)
    BY <1>13, <1>14, <1>17
  <2>2. MaxLayers \in Nat /\ Len(layers) \in 1 .. MaxLayers
    BY <1>0, UserActionsAssumption DEF UserActionsAssumption
  <2> QED
    BY <1>18, <2>1, <2>2
<1>25. Layered'
  BY <1>14, <1>15, <1>17, <1>19, <1>23, <1>24, LayeredAtEnd
<1> QED
  BY <1>13, <1>14, <1>15, <1>25

(* A step of a careful user, or an answer of the server.                   *)

\* With no request under way there is nothing to say of any.
LEMMA NothingPending ==
  ASSUME requests = {}, UNCHANGED requests
  PROVE  Pending'
BY DEF Pending

\* A step on the analyses of a layer.
LEMMA AnalyseKeeps ==
  ASSUME Collections, requests = {}, CarefulAnalyse
  PROVE  Collections'
<1>1. PICK p \in Positions :
        \/ \E kind \in Kinds : \E sec \in Seconds : CreateAnalysisNode(p, kind, sec)
        \/ \E i \in DOMAIN nodes, sec \in Seconds :
              EditAnalysisNode(p, i, sec) /\ Independent(i, sec)
        \/ \E table \in Tables : SaveAnalysisSourceQuery(p, table)
        \/ \E i \in FormNodes(p) : DeleteAnalysisNode(p, i) /\ NodeGoesAlone(i)
  BY DEF CarefulAnalyse
<1>2. Layered
  BY DEF Collections
<1>3. CASE \E kind \in Kinds : \E sec \in Seconds : CreateAnalysisNode(p, kind, sec)
  <2>1. PICK kind \in Kinds : \E sec \in Seconds : CreateAnalysisNode(p, kind, sec)
    BY <1>3
  <2>2. PICK sec \in Seconds : CreateAnalysisNode(p, kind, sec)
    BY <2>1
  <2>3. Layered'
    BY <1>2, <2>2, CreateKeeps
  <2>4. widgets' = widgets /\ UNCHANGED requests
    BY <2>2 DEF CreateAnalysisNode
  <2> QED
    BY <2>3, <2>4, NothingPending DEF Collections
<1>4. CASE \E i \in DOMAIN nodes, sec \in Seconds : EditAnalysisNode(p, i, sec) /\ Independent(i, sec)
  <2>1. PICK i \in DOMAIN nodes, sec \in Seconds : EditAnalysisNode(p, i, sec)
    BY <1>4
  <2>2. Layered'
    BY <1>2, <2>1, EditKeeps
  <2>3. widgets' = widgets /\ UNCHANGED requests
    BY <2>1 DEF EditAnalysisNode
  <2> QED
    BY <2>2, <2>3, NothingPending DEF Collections
<1>5. CASE \E table \in Tables : SaveAnalysisSourceQuery(p, table)
  <2>1. PICK table \in Tables : SaveAnalysisSourceQuery(p, table)
    BY <1>5
  <2>2. Layered'
    BY <1>2, <2>1, QueryKeeps
  <2>3. widgets' = widgets /\ UNCHANGED requests
    BY <2>1 DEF SaveAnalysisSourceQuery
  <2> QED
    BY <2>2, <2>3, NothingPending DEF Collections
<1>6. CASE \E i \in FormNodes(p) : DeleteAnalysisNode(p, i) /\ NodeGoesAlone(i)
  <2>1. PICK i \in FormNodes(p) : DeleteAnalysisNode(p, i)
    BY <1>6
  <2>2. Layered'
    BY <1>2, <2>1, DeleteNodeKeeps
  <2>3. DOMAIN widgets' \subseteq DOMAIN widgets /\ UNCHANGED requests
    BY <2>1 DEF DeleteAnalysisNode
  <2> QED
    BY <2>2, <2>3, NothingPending DEF Collections
<1> QED
  BY <1>1, <1>3, <1>4, <1>5, <1>6

\* The widgets that a drag is to create again are those that it destroys.
LEMMA RecreateKeeps ==
  ASSUME requests = {}, DOMAIN widgets \subseteq Widgets, NEW lid, NEW again,
         DOMAIN again \subseteq DOMAIN widgets, Recreate(lid, again)
  PROVE  DOMAIN widgets' \subseteq Widgets /\ Pending'
<1> DEFINE r == [kind |-> "drag", lid |-> lid, widgets |-> again]
<1>1. DOMAIN widgets' \subseteq DOMAIN widgets /\ requests' = {r}
  BY DEF Recreate
<1>2. r.kind = "drag" /\ DOMAIN r.widgets \subseteq Widgets
  OBVIOUS
<1> HIDE DEF r
<1>3. Pending'
  BY <1>1, <1>2 DEF Pending
<1> QED
  BY <1>1, <1>3

\* The three movements.
LEMMA DragKeeps ==
  ASSUME Collections, requests = {}, NEW p \in Positions, NEW i \in DraggableNodes(p),
         NEW at \in 1 .. (Len(layers) + 1), CreateLayerForAnalysisNode(p, i, at)
  PROVE  Collections'
<1>1. Layered /\ Len(layers) < MaxLayers /\ FreeLayers # {} /\ DOMAIN widgets \subseteq Widgets
  BY DEF Collections, CreateLayerForAnalysisNode
<1>2. CASE DragHead(p, i, at)
  <2>1. Layered'
    BY <1>1, <1>2, DragHeadKeeps
  <2>2. \E lid, again : DOMAIN again \subseteq DOMAIN widgets /\ Recreate(lid, again)
    <3> DEFINE prev == CHOOSE q \in HeadedBy(p, i) : TRUE
               renamed == Id(NextLetter(TakenLetters), 1)
               g == ChangeSourceIds(AddNode(nodes, renamed, nodes[i]), i, renamed)
               newLayer == NewLayerOf(layers[prev].letter, nodes[i].prim)
               affected == {w \in DOMAIN widgets :
                              widgets[w] \in ToSet(OwnedPrimaryNodes(g, layers[prev]))}
               again == [w \in affected |-> IF widgets[w] = i THEN renamed ELSE widgets[w]]
    <3>1. Recreate(newLayer.lid, again)
      BY <1>2 DEF DragHead
    <3>2. DOMAIN again \subseteq DOMAIN widgets
      OBVIOUS
    <3> HIDE DEF again, newLayer
    <3> QED
      BY <3>1, <3>2
  <2>3. PICK lid, again : DOMAIN again \subseteq DOMAIN widgets /\ Recreate(lid, again)
    BY <2>2
  <2>4. DOMAIN widgets' \subseteq Widgets /\ Pending'
    BY <1>1, <2>3, RecreateKeeps
  <2> QED
    BY <2>1, <2>4 DEF Collections
<1>3. CASE DragSource(p, i, at)
  <2>1. Layered'
    BY <1>1, <1>3, DragSourceKeeps
  <2>2. widgets' = widgets /\ UNCHANGED requests
    BY <1>3 DEF DragSource
  <2> QED
    BY <1>1, <2>1, <2>2, NothingPending DEF Collections
<1>4. CASE DragMiddle(p, i, at)
  <2>1. Layered'
    BY <1>1, <1>4, DragMiddleKeeps
  <2>2. \E lid, again : DOMAIN again \subseteq DOMAIN widgets /\ Recreate(lid, again)
    <3> DEFINE letter == NextLetter(TakenLetters)
               list == LinkedListBySameLetter(nodes, i)
               newId(old) == ChangeLetter(old, letter)
               newLayer == NewLayerOf(letter, newId(i))
               affected == {w \in DOMAIN widgets : widgets[w] \in ToSet(list)}
               again == [w \in affected |-> newId(widgets[w])]
    <3>1. Recreate(newLayer.lid, again)
      BY <1>4 DEF DragMiddle
    <3>2. DOMAIN again \subseteq DOMAIN widgets
      OBVIOUS
    <3> HIDE DEF again, newLayer
    <3> QED
      BY <3>1, <3>2
  <2>3. PICK lid, again : DOMAIN again \subseteq DOMAIN widgets /\ Recreate(lid, again)
    BY <2>2
  <2>4. DOMAIN widgets' \subseteq Widgets /\ Pending'
    BY <1>1, <2>3, RecreateKeeps
  <2> QED
    BY <2>1, <2>4 DEF Collections
<1> QED
  BY <1>2, <1>3, <1>4 DEF CreateLayerForAnalysisNode

\* A layer deleted, with or without nodes folded.
LEMMA DeleteLayerKeeps ==
  ASSUME Collections, requests = {}, NEW p \in Positions, DeleteLayer(p)
  PROVE  Collections'
<1>1. Layered /\ CanBeDeletedByUser(p) /\ UNCHANGED requests /\ DOMAIN widgets \subseteq Widgets
  BY DEF Collections, DeleteLayer
<1>2. CASE DeleteWhole(p)
  <2>1. Layered' /\ DOMAIN widgets' \subseteq DOMAIN widgets
    BY <1>1, <1>2, WholeKeeps
  <2> QED
    BY <1>1, <2>1, NothingPending DEF Collections
<1>3. CASE ~DeleteWhole(p)
  <2>1. PICK n \in 0 .. (Len(OwnNodes(p)) - 1) :
          Parents(p, n) # {} /\ FoldUnder(p, n, Min(Parents(p, n)))
    BY <1>3 DEF DeleteLayer
  <2>2. Layered' /\ DOMAIN widgets' \subseteq DOMAIN widgets
    BY <1>1, <2>1, FoldKeeps
  <2> QED
    BY <1>1, <2>2, NothingPending DEF Collections
<1> QED
  BY <1>2, <1>3

\* A step on the layers.
LEMMA RearrangeKeeps ==
  ASSUME Collections, requests = {}, NEW anyFold, CarefulRearrange(anyFold)
  PROVE  Collections'
<1>1. PICK p \in Positions :
        \/ SaveLayer(p)
        \/ \E to \in Positions : MoveLayer(p, to)
        \/ \E i \in DraggableNodes(p) :
              /\ LetterIsFresh /\ OnlyHere(p, i)
              /\ \E at \in 1 .. (Len(layers) + 1) : CreateLayerForAnalysisNode(p, i, at)
        \/ DeleteLayer(p) /\ LayerGoesAlone(p) /\ (anyFold \/ FoldsUnderItsHead(p))
  BY DEF CarefulRearrange
<1>2. Layered
  BY DEF Collections
<1>3. CASE SaveLayer(p)
  <2>1. Layered'
    BY <1>2, <1>3, SaveLayerKeeps
  <2>2. widgets' = widgets /\ UNCHANGED requests
    BY <1>3 DEF SaveLayer
  <2> QED
    BY <2>1, <2>2, NothingPending DEF Collections
<1>4. CASE \E to \in Positions : MoveLayer(p, to)
  <2>1. PICK to \in Positions : MoveLayer(p, to)
    BY <1>4
  <2>2. Layered'
    BY <1>2, <2>1, MoveKeeps
  <2>3. widgets' = widgets /\ UNCHANGED requests
    BY <2>1 DEF MoveLayer
  <2> QED
    BY <2>2, <2>3, NothingPending DEF Collections
<1>5. CASE \E i \in DraggableNodes(p) :
              /\ LetterIsFresh /\ OnlyHere(p, i)
              /\ \E at \in 1 .. (Len(layers) + 1) : CreateLayerForAnalysisNode(p, i, at)
  <2>1. PICK i \in DraggableNodes(p) :
              \E at \in 1 .. (Len(layers) + 1) : CreateLayerForAnalysisNode(p, i, at)
    BY <1>5
  <2>2. PICK at \in 1 .. (Len(layers) + 1) : CreateLayerForAnalysisNode(p, i, at)
    BY <2>1
  <2> QED
    BY <2>2, DragKeeps
<1>6. CASE DeleteLayer(p)
  BY <1>6, DeleteLayerKeeps
<1> QED
  BY <1>1, <1>3, <1>4, <1>5, <1>6

\* addWidget saves the analysis of the owner of the node before it asks for the widget.
LEMMA WidgetKeeps ==
  ASSUME Collections, requests = {}, NEW w \in Widgets, NEW i, AddWidget(w, i)
  PROVE  Collections'
<1> DEFINE owner == layers[FindOwner(layers, i)]
           r == [kind |-> "widget", lid |-> owner.lid, w |-> w, source |-> i]
<1>1. /\ Owners(layers, i) # {}
      /\ analyses' = SaveAnalysis(nodes, analyses, owner)
      /\ requests' = {r}
      /\ nodes' = nodes /\ layers' = layers /\ widgets' = widgets
  BY DEF AddWidget
<1>2. FindOwner(layers, i) \in DOMAIN layers
  BY <1>1, OwnerIs DEF Collections, Layered
<1>3. Saved(analyses', layers')
  BY <1>1, <1>2, SavedOne DEF Collections, Layered
<1>4. r.kind = "widget" /\ r.w = w
  OBVIOUS
<1> HIDE DEF r
<1>5. Pending'
  BY <1>1, <1>4 DEF Pending
<1> QED
  BY <1>1, <1>3, <1>5 DEF Collections, Layered

\* An answer of the server.
LEMMA AnswerKeeps ==
  ASSUME Collections, NEW r \in requests, Answer(r)
  PROVE  Collections'
<1>1. CASE LayerCreated(r)
  BY <1>1, CreatedKeeps
<1>2. CASE DragSaved(r)
  <2> DEFINE widget(w) == [kind |-> "widget", lid |-> r.lid, w |-> w, source |-> r.widgets[w]]
  <2>1. /\ r.kind = "drag" /\ requests' = (requests \ {r}) \cup {widget(w) : w \in DOMAIN r.widgets}
        /\ UNCHANGED <<nodes, layers, analyses, widgets>>
    BY <1>2 DEF DragSaved
  <2>2. DOMAIN r.widgets \subseteq Widgets
    BY <2>1 DEF Collections, Pending
  <2>3. \A w : widget(w).kind = "widget" /\ widget(w).w = w
    OBVIOUS
  <2> HIDE DEF widget
  <2>4. ASSUME NEW q \in requests'
        PROVE  q.kind # "layer" /\ (q.kind = "drag" => DOMAIN q.widgets \subseteq Widgets)
               /\ (q.kind = "widget" => q.w \in Widgets)
    <3>1. CASE q \in requests \ {r}
      BY <3>1 DEF Collections, Pending
    <3>2. CASE q \notin requests \ {r}
      <4>1. PICK w \in DOMAIN r.widgets : q = widget(w)
        BY <2>1, <3>2
      <4> QED
        BY <2>2, <2>3, <4>1
    <3> QED
      BY <3>1, <3>2
  <2>5. Pending'
    BY <2>4 DEF Pending
  <2> QED
    BY <2>1, <2>5 DEF Collections, Layered
<1>3. CASE WidgetCreated(r) \/ Refused(r)
  <2>1. requests' = requests \ {r} /\ UNCHANGED <<nodes, layers, analyses>>
    BY <1>3 DEF WidgetCreated, Refused
  <2>2. DOMAIN widgets' \subseteq Widgets
    <3>1. CASE WidgetCreated(r)
      BY <3>1 DEF WidgetCreated, Collections, Pending
    <3>2. CASE Refused(r)
      BY <3>2 DEF Refused, Collections
    <3> QED
      BY <1>3, <3>1, <3>2
  <2>3. Pending'
    BY <2>1 DEF Collections, Pending
  <2> QED
    BY <2>1, <2>2, <2>3 DEF Collections, Layered
<1> QED
  BY <1>1, <1>2, <1>3 DEF Answer

\* The invariant holds after every step.
LEMMA CollectionsInductive ==
  ASSUME Collections, NEW anyFold, [CarefulNext(anyFold)]_vars
  PROVE  Collections'
<1>1. CASE requests = {} /\ CarefulAnalyse
  BY <1>1, AnalyseKeeps
<1>2. CASE requests = {} /\ CarefulRearrange(anyFold)
  BY <1>2, RearrangeKeeps
<1>3. CASE requests = {} /\ \E table \in Tables : CreateLayerFromTable(table)
  BY <1>3, CreateLayerKeeps
<1>4. CASE requests = {} /\ \E w \in Widgets, i \in DOMAIN nodes : AddWidget(w, i)
  BY <1>4, WidgetKeeps
<1>5. CASE \E r \in requests : Answer(r)
  BY <1>5, AnswerKeeps
<1>6. CASE UNCHANGED vars
  BY <1>6 DEF vars, Collections, Layered, Pending
<1> QED
  BY <1>1, <1>2, <1>3, <1>4, <1>5, <1>6 DEF CarefulNext

\* With one request at a time, two layers never have one letter, nor one id,
\* there are at most max_layers, every layer has a source that could be a node,
\* and what is saved on the server follows the layers: for any number of letters,
\* layers, tables, widgets and nodes, whatever is dragged, deleted and folded.
THEOREM CollectionsTheorem == CarefulSpec => []Collections
<1>1. CarefulSpec => UserActionsInit /\ [][CarefulNext(FALSE)]_vars
  BY DEF CarefulSpec
<1>2. UserActionsInit => Collections
  BY InitCollections
<1>3. Collections /\ [CarefulNext(FALSE)]_vars => Collections'
  BY CollectionsInductive
<1> QED
  BY <1>1, <1>2, <1>3, PTL

\* saveAnalysisForLayer and deleteOrphanedAnalyses, wherever user-actions.js calls
\* them, leave at most one analysis for a layer on a node of its own, with the
\* layer's source as its head, and none for a layer on another layer's node.
THEOREM AnalysesOfLayersTheorem == CarefulSpec => []AnalysesOfLayers
<1>1. Collections => AnalysesOfLayers
  BY Heads DEF Collections
<1> QED
  BY <1>1, CollectionsTheorem, PTL

\* The same when a layer that shows a third layer's node takes those of a deleted
\* one: what goes wrong there (DeletionKeeps) is not what is saved.
THEOREM AnalysesOfFoldsTheorem == FoldSpec => []AnalysesOfLayers
<1>1. FoldSpec => UserActionsInit /\ [][CarefulNext(TRUE)]_vars
  BY DEF FoldSpec
<1>2. UserActionsInit => Collections
  BY InitCollections
<1>3. Collections /\ [CarefulNext(TRUE)]_vars => Collections'
  BY CollectionsInductive
<1>4. Collections => AnalysesOfLayers
  BY Heads DEF Collections
<1> QED
  BY <1>1, <1>2, <1>3, <1>4, PTL
=============================================================================
