--------------------------- MODULE QueryObjectsProofs ---------------------------
(* QueryObjects, for any queries and any number of things that the user does.  *)
(* What each handler leaves is stated of the record that it works on, and      *)
(* composed in the order in which the events call them. The schema and the     *)
(* requests come first: SchemaOfQuery and LoadingEnds.                         *)
EXTENDS QueryObjects, FiniteSetTheorems, TLAPS

Kinds == {"schema", "geometry", "rows"}

SchemaType ==
    [query : Queries, status : Statuses, columns : Queries \cup {NoQuery},
     errors : {"unset", "empty", "own", "rows"}, repeated : 0..MaxRepeatedErrors]
GeometryType ==
    [query : Queries, status : Statuses, of : Queries \cup {NoQuery},
     repeated : 0..MaxRepeatedErrors]
RowsType == [status : Statuses, of : Queries \cup {NoQuery}, repeated : 0..MaxRepeatedErrors]

QuestionType ==
    [of : Kinds, query : Queries, xhr : BOOLEAN, column : {"the_geom", "the_geom_webmercator"},
     saves : BOOLEAN, previous : Statuses]
RequestType ==
    [id : Nat \ {0}, of : Kinds, query : Queries, xhr : BOOLEAN,
     column : {"the_geom", "the_geom_webmercator"}, saves : BOOLEAN, previous : Statuses]

\* What a handler works on.
World ==
    [schema : SchemaType, geometry : GeometryType, rows : RowsType,
     requests : SUBSET RequestType, waiting : SUBSET Kinds, onSync : BOOLEAN,
     due : SUBSET {"refetch", "rows"}]
IsWorld(w) == w \in World /\ IsFiniteSet(w.requests)

\* The schema has one request at most, which it knows.
OneSchema(rs) ==
    /\ \A r \in rs : r.of = "schema" => r.xhr
    /\ \A r, q \in rs : r.of = "schema" /\ q.of = "schema" => r = q

\* It is for the query that is applied.
ForQuery(w) == \A r \in w.requests : r.of = "schema" => r.query = w.schema.query

FetchedIsOfQuery(w) == w.schema.status = "fetched" => w.schema.columns = w.schema.query

Asked(rs, of) == \E r \in rs : r.of = of

\* What shows as loading is asked for.
SchemaLoads(w) == w.schema.status = "fetching" => Asked(w.requests, "schema")
GeometryLoads(w) == w.geometry.status = "fetching" => Asked(w.requests, "geometry")
RowsLoad(w) == w.rows.status = "fetching" => Asked(w.requests, "rows")

\* While a query is being applied the request of the schema is still the earlier one's.
Core(w) == IsWorld(w) /\ FetchedIsOfQuery(w) /\ OneSchema(w.requests) /\ GeometryLoads(w)

\* The inductive invariant.
Good(w) == Core(w) /\ ForQuery(w) /\ SchemaLoads(w) /\ RowsLoad(w)

---------------------------------------------------------------------------------
(* Sets of requests. *)

LEMMA FreeId ==
    ASSUME NEW rs \in SUBSET RequestType, IsFiniteSet(rs)
    PROVE  \E n \in 1..(Cardinality(rs) + 1) : n \notin {r.id : r \in rs}
<1> DEFINE ids == {r.id : r \in rs}
           idOf == [r \in rs |-> r.id]
           span == 1..(Cardinality(rs) + 1)
<1>1. idOf \in Surjection(rs, ids)
  BY DEF Surjection
<1>2. Cardinality(rs) \in Nat
  BY FS_CardinalityType
<1>3. IsFiniteSet(ids) /\ Cardinality(ids) <= Cardinality(rs)
  BY <1>1, FS_Surjection
<1>4. Cardinality(ids) \in Nat
  BY <1>3, FS_CardinalityType
<1>5. Cardinality(span) = Cardinality(rs) + 1
  BY <1>2, FS_Interval
<1> HIDE DEF ids, span
<1>6. ~(span \subseteq ids)
  BY <1>2, <1>3, <1>4, <1>5, FS_Subset
<1> QED
  BY <1>6 DEF ids, span

LEMMA SentAdds ==
    ASSUME NEW rs \in SUBSET RequestType, IsFiniteSet(rs), NEW q \in QuestionType
    PROVE  \E n \in RequestType :
              /\ Sent(rs, q) = rs \cup {n} /\ IsFiniteSet(rs \cup {n})
              /\ n.of = q.of /\ n.query = q.query /\ n.xhr = q.xhr
<1> DEFINE ids == {r.id : r \in rs}
           free == CHOOSE k \in 1..(Cardinality(rs) + 1) : k \notin ids
           n == [id |-> free, of |-> q.of, query |-> q.query, xhr |-> q.xhr,
                 column |-> q.column, saves |-> q.saves, previous |-> q.previous]
<1>1. Sent(rs, q) = rs \cup {n}
  BY DEF Sent
<1>2. free \in Nat \ {0}
  <2>1. Cardinality(rs) \in Nat
    BY FS_CardinalityType
  <2>2. free \in 1..(Cardinality(rs) + 1)
    BY FreeId
  <2> HIDE DEF free
  <2> QED
    BY <2>1, <2>2
<1> HIDE DEF free
<1>3. n \in RequestType /\ n.of = q.of /\ n.query = q.query /\ n.xhr = q.xhr
  BY <1>2 DEF RequestType, QuestionType
<1> HIDE DEF n
<1>4. IsFiniteSet(rs \cup {n})
  BY FS_AddElement
<1> QED
  BY <1>1, <1>3, <1>4

LEMMA EndedKeeps ==
    ASSUME NEW rs \in SUBSET RequestType, IsFiniteSet(rs), NEW e \in RequestType
    PROVE  /\ Ended(rs, e) \in SUBSET RequestType /\ IsFiniteSet(Ended(rs, e))
           /\ \A x \in Ended(rs, e) : x.of # e.of => x \in rs
           /\ \A x \in Ended(rs, e) : \E y \in rs \ {e} : y.of = x.of /\ y.query = x.query
           /\ \A y \in rs : y.of # e.of => y \in Ended(rs, e)
<1> DEFINE left(x) == [x EXCEPT !.xhr = @ /\ x.of # e.of]
           ends == [x \in rs \ {e} |-> left(x)]
<1>1. Ended(rs, e) = {left(x) : x \in rs \ {e}}
  BY DEF Ended
<1>2. ASSUME NEW x \in rs
      PROVE  /\ left(x) \in RequestType /\ left(x).of = x.of /\ left(x).query = x.query
             /\ x.of # e.of => left(x) = x
  BY DEF RequestType
<1> HIDE DEF left
<1>3. ends \in Surjection(rs \ {e}, Ended(rs, e))
  BY <1>1 DEF Surjection
<1>4. IsFiniteSet(Ended(rs, e))
  BY <1>3, FS_Surjection, FS_RemoveElement
<1> QED
  BY <1>1, <1>2, <1>4

---------------------------------------------------------------------------------
(* What each handler leaves. *)

LEMMA SchemaStatusLeaves ==
    ASSUME NEW w, IsWorld(w), NEW status \in Statuses
    PROVE  LET v == SchemaStatus(w, status)
           IN /\ IsWorld(v) /\ v.waiting \subseteq w.waiting
              /\ v.schema.status = status
              /\ v.schema.query = w.schema.query /\ v.schema.columns = w.schema.columns
              /\ v.geometry = w.geometry /\ v.rows = w.rows /\ v.requests = w.requests
<1>1. CASE w.schema.status = status
  BY <1>1 DEF SchemaStatus
<1>2. CASE w.schema.status # status
  BY <1>2 DEF SchemaStatus, IsWorld, World, SchemaType
<1> QED
  BY <1>1, <1>2

LEMMA GeometryStatusLeaves ==
    ASSUME NEW w, IsWorld(w), NEW status \in Statuses
    PROVE  LET v == GeometryStatus(w, status)
           IN /\ IsWorld(v) /\ v.waiting \subseteq w.waiting
              /\ v.geometry.status = status /\ v.geometry.query = w.geometry.query
              /\ v.schema = w.schema /\ v.rows = w.rows /\ v.requests = w.requests
  BY DEF GeometryStatus, IsWorld, World, GeometryType

LEMMA RowsStatusLeaves ==
    ASSUME NEW w, IsWorld(w), NEW status \in Statuses
    PROVE  LET v == RowsStatus(w, status)
           IN /\ IsWorld(v) /\ v.waiting \subseteq w.waiting
              /\ v.rows.status = status
              /\ v.schema = w.schema /\ v.geometry = w.geometry /\ v.requests = w.requests
  BY DEF RowsStatus, IsWorld, World, RowsType

LEMMA EmptyRowsLeaves ==
    ASSUME NEW w, IsWorld(w)
    PROVE  LET v == EmptyRows(w)
           IN /\ IsWorld(v) /\ v.waiting = w.waiting
              /\ v.rows.status = "unfetched"
              /\ v.schema = w.schema /\ v.geometry = w.geometry /\ v.requests = w.requests
  BY DEF EmptyRows, IsWorld, World, RowsType, Statuses

LEMMA FetchSchemaLeaves ==
    ASSUME NEW w, IsWorld(w), OneSchema(w.requests)
    PROVE  LET v == FetchSchema(w)
           IN /\ IsWorld(v) /\ v.waiting \subseteq w.waiting
              /\ v.schema.status = "fetching" /\ v.schema.query = w.schema.query
              /\ v.geometry = w.geometry /\ v.rows = w.rows
              /\ \E n \in RequestType :
                    /\ n.of = "schema" /\ n.query = w.schema.query /\ n.xhr
                    /\ v.requests = {r \in w.requests : r.of # "schema"} \cup {n}
<1> DEFINE v == SchemaStatus(w, "fetching")
           q == Request("schema", w.schema.query)
           rs == Aborted(v.requests, "schema")
<1>1. /\ IsWorld(v) /\ v.waiting \subseteq w.waiting
      /\ v.schema.status = "fetching" /\ v.schema.query = w.schema.query
      /\ v.geometry = w.geometry /\ v.rows = w.rows /\ v.requests = w.requests
  BY SchemaStatusLeaves DEF Statuses
<1>2. rs = {r \in w.requests : r.of # "schema"}
  BY <1>1 DEF Aborted, Known, OneSchema
<1>3. q \in QuestionType /\ q.of = "schema" /\ q.query = w.schema.query /\ q.xhr = TRUE
  BY DEF Request, QuestionType, IsWorld, World, SchemaType, Kinds, Statuses
<1>4. rs \in SUBSET RequestType /\ IsFiniteSet(rs)
  BY <1>1, <1>2, FS_Subset DEF IsWorld, World
<1>5. FetchSchema(w) = [v EXCEPT !.requests = Sent(rs, q)]
  BY DEF FetchSchema
<1> HIDE DEF v, q, rs
<1>6. PICK n \in RequestType :
         /\ Sent(rs, q) = rs \cup {n} /\ IsFiniteSet(rs \cup {n})
         /\ n.of = q.of /\ n.query = q.query /\ n.xhr = q.xhr
  BY <1>3, <1>4, SentAdds
<1> DEFINE u == [v EXCEPT !.requests = rs \cup {n}]
<1>7. /\ IsWorld(u) /\ u.requests = rs \cup {n}
      /\ u.waiting = v.waiting /\ u.schema = v.schema
      /\ u.geometry = v.geometry /\ u.rows = v.rows
  BY <1>1, <1>4, <1>6 DEF IsWorld, World
<1>8. FetchSchema(w) = u
  BY <1>5, <1>6
<1> HIDE DEF u
<1> QED
  BY <1>1, <1>2, <1>3, <1>6, <1>7, <1>8

LEMMA FetchGeometryLeaves ==
    ASSUME NEW w, IsWorld(w), NEW saves \in BOOLEAN
    PROVE  LET v == FetchGeometry(w, saves)
           IN /\ IsWorld(v) /\ v.waiting \subseteq w.waiting
              /\ v.geometry.status = "fetching"
              /\ v.schema = w.schema /\ v.rows = w.rows
              /\ \E n \in RequestType :
                    /\ n.of = "geometry"
                    /\ v.requests = Aborted(w.requests, "geometry") \cup {n}
<1> DEFINE v == GeometryStatus(w, "fetching")
           q == [Request("geometry", w.geometry.query) EXCEPT !.saves = saves]
           rs == Aborted(v.requests, "geometry")
<1>1. /\ IsWorld(v) /\ v.waiting \subseteq w.waiting
      /\ v.geometry.status = "fetching"
      /\ v.schema = w.schema /\ v.rows = w.rows /\ v.requests = w.requests
  BY GeometryStatusLeaves DEF Statuses
<1>3. q \in QuestionType /\ q.of = "geometry"
  BY DEF Request, QuestionType, IsWorld, World, GeometryType, Kinds, Statuses
<1>4. rs \in SUBSET RequestType /\ IsFiniteSet(rs)
  BY <1>1, FS_Subset DEF IsWorld, World, Aborted
<1>5. FetchGeometry(w, saves) = [v EXCEPT !.requests = Sent(rs, q)]
  BY DEF FetchGeometry
<1>9. rs = Aborted(w.requests, "geometry")
  BY <1>1
<1> HIDE DEF v, q, rs
<1>6. PICK n \in RequestType :
         /\ Sent(rs, q) = rs \cup {n} /\ IsFiniteSet(rs \cup {n})
         /\ n.of = q.of /\ n.query = q.query /\ n.xhr = q.xhr
  BY <1>3, <1>4, SentAdds
<1> DEFINE u == [v EXCEPT !.requests = rs \cup {n}]
<1>7. /\ IsWorld(u) /\ u.requests = rs \cup {n}
      /\ u.waiting = v.waiting /\ u.schema = v.schema
      /\ u.geometry = v.geometry /\ u.rows = v.rows
  BY <1>1, <1>4, <1>6 DEF IsWorld, World
<1>8. FetchGeometry(w, saves) = u
  BY <1>5, <1>6
<1> HIDE DEF u
<1> QED
  BY <1>1, <1>3, <1>6, <1>7, <1>8, <1>9

\* What the rows do: their status, their requests and their errors in the schema.
RowsOnly(w, v) ==
    /\ IsWorld(v) /\ v.geometry = w.geometry /\ v.waiting \subseteq w.waiting
    /\ v.schema.query = w.schema.query /\ v.schema.columns = w.schema.columns
    /\ v.schema.status \in {w.schema.status, "errored", "unavailable"}
    /\ \A r \in RequestType : r.of # "rows" => (r \in v.requests <=> r \in w.requests)

LEMMA RowsOnlyRefl == ASSUME NEW w, IsWorld(w) PROVE RowsOnly(w, w)
  BY DEF RowsOnly

LEMMA RowsOnlyTrans ==
    ASSUME NEW w, NEW v, NEW u, RowsOnly(w, v), RowsOnly(v, u) PROVE RowsOnly(w, u)
  BY DEF RowsOnly

LEMMA RowsOnlyKeeps ==
    ASSUME NEW w, Core(w), NEW v, RowsOnly(w, v)
    PROVE  /\ Core(v)
           /\ ForQuery(w) => ForQuery(v)
           /\ SchemaLoads(w) => SchemaLoads(v)
<1>1. \A r \in v.requests \cup w.requests : r \in RequestType
  BY DEF Core, RowsOnly, IsWorld, World
<1>2. ASSUME NEW of, of # "rows" PROVE Asked(w.requests, of) <=> Asked(v.requests, of)
  BY <1>1, <1>2 DEF Asked, RowsOnly
<1>3. OneSchema(v.requests)
  BY <1>1 DEF Core, RowsOnly, OneSchema
<1>4. GeometryLoads(v)
  BY <1>2 DEF Core, RowsOnly, GeometryLoads
<1>5. FetchedIsOfQuery(v)
  BY DEF Core, RowsOnly, FetchedIsOfQuery
<1>6. ForQuery(w) => ForQuery(v)
  BY <1>1 DEF RowsOnly, ForQuery
<1>7. SchemaLoads(w) => SchemaLoads(v)
  BY <1>2 DEF RowsOnly, SchemaLoads
<1> QED
  BY <1>3, <1>4, <1>5, <1>6, <1>7 DEF Core, RowsOnly

LEMMA ErrorCounts ==
    ASSUME NEW n \in 0..MaxRepeatedErrors
    PROVE  /\ Repeated(n) \in 0..MaxRepeatedErrors
           /\ StatusOfError(n) \in {"errored", "unavailable"}
           /\ StatusOfError(n) \in Statuses
  BY DEF Repeated, StatusOfError, MaxRepeatedErrors, Statuses

LEMMA SetErrorLeaves ==
    ASSUME NEW w, IsWorld(w)
    PROVE  LET v == SetError(w)
           IN RowsOnly(w, v) /\ v.rows = w.rows /\ v.requests = w.requests
<1>1. CASE w.schema.errors = "own"
  BY <1>1 DEF SetError, RowsOnly
<1>2. CASE w.schema.errors # "own"
  <2> DEFINE repeated == Repeated(w.schema.repeated)
             noted == [w EXCEPT !.schema.errors = "rows", !.schema.repeated = repeated]
             v == SchemaStatus(noted, StatusOfError(repeated))
  <2>1. w.schema.repeated \in 0..MaxRepeatedErrors
    BY DEF IsWorld, World, SchemaType
  <2>2. repeated \in 0..MaxRepeatedErrors
    BY <2>1, ErrorCounts
  <2>3. SetError(w) = v
    BY <1>2 DEF SetError
  <2> HIDE DEF repeated
  <2>4. /\ IsWorld(noted) /\ noted.waiting = w.waiting
        /\ noted.schema.query = w.schema.query /\ noted.schema.columns = w.schema.columns
        /\ noted.geometry = w.geometry /\ noted.rows = w.rows /\ noted.requests = w.requests
    BY <2>2 DEF IsWorld, World, SchemaType
  <2>5. /\ StatusOfError(repeated) \in {"errored", "unavailable"}
        /\ StatusOfError(repeated) \in Statuses
    BY <2>2, ErrorCounts
  <2> HIDE DEF noted
  <2>6. /\ IsWorld(v) /\ v.waiting \subseteq noted.waiting
        /\ v.schema.status = StatusOfError(repeated)
        /\ v.schema.query = noted.schema.query /\ v.schema.columns = noted.schema.columns
        /\ v.geometry = noted.geometry /\ v.rows = noted.rows /\ v.requests = noted.requests
    BY <2>4, <2>5, SchemaStatusLeaves
  <2> HIDE DEF v
  <2> QED
    BY <2>3, <2>4, <2>5, <2>6 DEF RowsOnly
<1> QED
  BY <1>1, <1>2

LEMMA RowsErrorLeaves ==
    ASSUME NEW w, IsWorld(w), NEW r
    PROVE  LET v == RowsError(w, r)
           IN /\ RowsOnly(w, v) /\ v.requests = w.requests
              /\ v.rows.status \in {"errored", "unavailable"}
<1> DEFINE repeated == IF r.previous = "unavailable" THEN Repeated(w.rows.repeated)
                                                     ELSE w.rows.repeated
           counted == [w EXCEPT !.rows.repeated = repeated]
           told == SetError(counted)
           v == RowsStatus(told, StatusOfError(repeated))
<1>1. RowsError(w, r) = v
  BY DEF RowsError
<1>2. w.rows.repeated \in 0..MaxRepeatedErrors
  BY DEF IsWorld, World, RowsType
<1>3. repeated \in 0..MaxRepeatedErrors
  BY <1>2, ErrorCounts
<1> HIDE DEF repeated
<1>4. /\ IsWorld(counted) /\ counted.waiting = w.waiting /\ counted.schema = w.schema
      /\ counted.geometry = w.geometry /\ counted.requests = w.requests
  BY <1>3 DEF IsWorld, World, RowsType
<1>5. RowsOnly(w, counted)
  BY <1>4 DEF RowsOnly
<1> HIDE DEF counted
<1>6. RowsOnly(counted, told) /\ told.requests = counted.requests /\ IsWorld(told)
  BY <1>4, SetErrorLeaves DEF RowsOnly
<1>7. /\ StatusOfError(repeated) \in {"errored", "unavailable"}
      /\ StatusOfError(repeated) \in Statuses
  BY <1>3, ErrorCounts
<1> HIDE DEF told
<1>8. /\ IsWorld(v) /\ v.waiting \subseteq told.waiting
      /\ v.rows.status = StatusOfError(repeated)
      /\ v.schema = told.schema /\ v.geometry = told.geometry /\ v.requests = told.requests
  BY <1>6, <1>7, RowsStatusLeaves
<1> HIDE DEF v
<1>9. RowsOnly(told, v)
  BY <1>8 DEF RowsOnly
<1>10. RowsOnly(w, v)
  BY <1>5, <1>6, <1>9, RowsOnlyTrans
<1> QED
  BY <1>1, <1>4, <1>6, <1>7, <1>8, <1>10

LEMMA FetchRowsLeaves ==
    ASSUME NEW w, IsWorld(w)
    PROVE  LET v == FetchRows(w)
           IN RowsOnly(w, v) /\ (RowsLoad(w) => RowsLoad(v))
<1>1. CASE w.rows.status = "fetching"
  BY <1>1, RowsOnlyRefl DEF FetchRows
<1>2. CASE w.rows.status # "fetching"
  <2> DEFINE fetching == [w EXCEPT !.rows.status = "fetching"]
             old == CHOOSE r \in Known(w.requests, "rows") : TRUE
             without == [fetching EXCEPT !.requests = Ended(@, old)]
             aborting == IF Known(w.requests, "rows") = {} THEN fetching
                         ELSE RowsError(without, old)
             q == [Request("rows", w.schema.query) EXCEPT !.previous = w.rows.status]
             v == [aborting EXCEPT !.requests = Sent(@, q)]
  <2>1. FetchRows(w) = v
    BY <1>2 DEF FetchRows
  <2>2. q \in QuestionType /\ q.of = "rows"
    BY DEF Request, QuestionType, IsWorld, World, SchemaType, RowsType, Kinds, Statuses
  <2>3. /\ IsWorld(fetching) /\ fetching.requests = w.requests
        /\ fetching.waiting = w.waiting
        /\ fetching.schema = w.schema /\ fetching.geometry = w.geometry
    BY DEF IsWorld, World, RowsType, Statuses
  <2>4. RowsOnly(w, fetching)
    BY <2>3 DEF RowsOnly
  <2> HIDE DEF fetching, q
  <2>5. RowsOnly(w, aborting)
    <3>1. CASE Known(w.requests, "rows") = {}
      BY <2>4, <3>1
    <3>2. CASE Known(w.requests, "rows") # {}
      <4>1. old \in w.requests /\ old.of = "rows"
        BY <3>2 DEF Known
      <4> HIDE DEF old
      <4>2. old \in RequestType
        BY <4>1 DEF IsWorld, World
      <4> DEFINE left == Ended(w.requests, old)
      <4>3. /\ left \in SUBSET RequestType /\ IsFiniteSet(left)
            /\ \A x \in left : x.of # old.of => x \in w.requests
            /\ \A y \in w.requests : y.of # old.of => y \in left
        BY <4>2, EndedKeeps DEF IsWorld, World
      <4>4. without = [fetching EXCEPT !.requests = left]
        BY <2>3
      <4> HIDE DEF left, without
      <4>5. /\ IsWorld(without) /\ without.requests = left
            /\ without.waiting = fetching.waiting
            /\ without.schema = fetching.schema /\ without.geometry = fetching.geometry
        BY <2>3, <4>3, <4>4 DEF IsWorld, World
      <4>6. RowsOnly(w, without)
        BY <2>3, <4>1, <4>3, <4>5 DEF RowsOnly
      <4>7. RowsOnly(without, RowsError(without, old))
        BY <4>5, RowsErrorLeaves
      <4>8. RowsOnly(w, RowsError(without, old))
        BY <4>6, <4>7, RowsOnlyTrans
      <4> QED
        BY <3>2, <4>8
    <3> QED
      BY <3>1, <3>2
  <2> HIDE DEF aborting
  <2>6. /\ IsWorld(aborting)
        /\ aborting.requests \in SUBSET RequestType /\ IsFiniteSet(aborting.requests)
    BY <2>5 DEF RowsOnly, IsWorld, World
  <2>7. PICK n \in RequestType :
           /\ Sent(aborting.requests, q) = aborting.requests \cup {n}
           /\ IsFiniteSet(aborting.requests \cup {n}) /\ n.of = q.of
    BY <2>2, <2>6, SentAdds
  <2> DEFINE u == [aborting EXCEPT !.requests = aborting.requests \cup {n}]
  <2>8. v = u
    BY <2>7
  <2>9. /\ IsWorld(u) /\ u.requests = aborting.requests \cup {n}
        /\ u.waiting = aborting.waiting /\ u.schema = aborting.schema
        /\ u.geometry = aborting.geometry
    BY <2>6, <2>7 DEF IsWorld, World
  <2> HIDE DEF u, v
  <2>10. RowsOnly(aborting, u)
    BY <2>2, <2>7, <2>9 DEF RowsOnly
  <2>11. RowsLoad(u)
    BY <2>2, <2>7, <2>9 DEF RowsLoad, Asked
  <2> QED
    BY <2>1, <2>5, <2>8, <2>10, <2>11, RowsOnlyTrans
<1> QED
  BY <1>1, <1>2

---------------------------------------------------------------------------------
(* What each handler keeps. *)

LEMMA SchemaStatusKeeps ==
    ASSUME NEW w, Good(w), NEW status \in Statuses \ {"fetching", "fetched"}
    PROVE  Good(SchemaStatus(w, status)) /\ SchemaStatus(w, status).waiting \subseteq w.waiting
  BY SchemaStatusLeaves
  DEF Good, Core, FetchedIsOfQuery, GeometryLoads, ForQuery, SchemaLoads, RowsLoad

LEMMA GeometryStatusKeeps ==
    ASSUME NEW w, Good(w), NEW status \in Statuses \ {"fetching"}
    PROVE  /\ Good(GeometryStatus(w, status))
           /\ GeometryStatus(w, status).waiting \subseteq w.waiting
  BY GeometryStatusLeaves
  DEF Good, Core, FetchedIsOfQuery, GeometryLoads, ForQuery, SchemaLoads, RowsLoad

LEMMA EmptyRowsKeeps ==
    ASSUME NEW w, Good(w)
    PROVE  Good(EmptyRows(w)) /\ EmptyRows(w).waiting = w.waiting
  BY EmptyRowsLeaves
  DEF Good, Core, FetchedIsOfQuery, GeometryLoads, ForQuery, SchemaLoads, RowsLoad

\* Whatever query the schema asked for before, it now asks for the one applied.
LEMMA FetchSchemaKeeps ==
    ASSUME NEW w, Core(w), RowsLoad(w)
    PROVE  Good(FetchSchema(w)) /\ FetchSchema(w).waiting \subseteq w.waiting
<1> DEFINE v == FetchSchema(w)
<1>1. PICK n \in RequestType :
         /\ n.of = "schema" /\ n.query = w.schema.query /\ n.xhr
         /\ v.requests = {r \in w.requests : r.of # "schema"} \cup {n}
  BY FetchSchemaLeaves DEF Core
<1>2. /\ IsWorld(v) /\ v.waiting \subseteq w.waiting
      /\ v.schema.status = "fetching" /\ v.schema.query = w.schema.query
      /\ v.geometry = w.geometry /\ v.rows = w.rows
  BY FetchSchemaLeaves DEF Core
<1> HIDE DEF v
<1>3. OneSchema(v.requests) /\ ForQuery(v) /\ SchemaLoads(v)
  BY <1>1, <1>2 DEF OneSchema, ForQuery, SchemaLoads, Asked
<1>4. GeometryLoads(v) /\ RowsLoad(v)
  BY <1>1, <1>2 DEF Core, GeometryLoads, RowsLoad, Asked
<1>5. FetchedIsOfQuery(v)
  BY <1>2 DEF FetchedIsOfQuery
<1> QED
  BY <1>2, <1>3, <1>4, <1>5 DEF Good, Core, v

LEMMA FetchGeometryKeeps ==
    ASSUME NEW w, Good(w), NEW saves \in BOOLEAN
    PROVE  Good(FetchGeometry(w, saves)) /\ FetchGeometry(w, saves).waiting \subseteq w.waiting
<1> DEFINE v == FetchGeometry(w, saves)
<1>1. PICK n \in RequestType :
         n.of = "geometry" /\ v.requests = Aborted(w.requests, "geometry") \cup {n}
  BY FetchGeometryLeaves DEF Good, Core
<1>2. /\ IsWorld(v) /\ v.waiting \subseteq w.waiting /\ v.geometry.status = "fetching"
      /\ v.schema = w.schema /\ v.rows = w.rows
  BY FetchGeometryLeaves DEF Good, Core
<1> HIDE DEF v
<1>3. \A r : r.of \in {"schema", "rows"} => (r \in v.requests <=> r \in w.requests)
  BY <1>1 DEF Aborted, Known
<1>4. OneSchema(v.requests) /\ ForQuery(v)
  BY <1>2, <1>3 DEF Good, Core, OneSchema, ForQuery
<1>5. SchemaLoads(v) /\ RowsLoad(v)
  BY <1>2, <1>3 DEF Good, SchemaLoads, RowsLoad, Asked
<1>6. GeometryLoads(v)
  BY <1>1 DEF GeometryLoads, Asked
<1>7. FetchedIsOfQuery(v)
  BY <1>2 DEF Good, Core, FetchedIsOfQuery
<1> QED
  BY <1>2, <1>4, <1>5, <1>6, <1>7 DEF Good, Core, v

LEMMA FetchRowsKeeps ==
    ASSUME NEW w, Good(w)
    PROVE  Good(FetchRows(w)) /\ FetchRows(w).waiting \subseteq w.waiting
<1>1. RowsOnly(w, FetchRows(w)) /\ RowsLoad(FetchRows(w))
  BY FetchRowsLeaves DEF Good, Core
<1> QED
  BY <1>1, RowsOnlyKeeps DEF Good, RowsOnly

LEMMA ClearErrorsKeeps ==
    ASSUME NEW w, Good(w)
    PROVE  Good(ClearErrors(w)) /\ ClearErrors(w).waiting \subseteq w.waiting
<1> DEFINE cleared == [w EXCEPT !.schema.errors = "empty"]
<1>1. /\ IsWorld(cleared) /\ cleared.waiting = w.waiting
      /\ cleared.schema.query = w.schema.query /\ cleared.schema.columns = w.schema.columns
      /\ cleared.schema.status = w.schema.status
      /\ cleared.geometry = w.geometry /\ cleared.rows = w.rows
      /\ cleared.requests = w.requests
  BY DEF Good, Core, IsWorld, World, SchemaType
<1>2. \/ ClearErrors(w) = w
      \/ ClearErrors(w) = cleared
      \/ ClearErrors(w) = FetchSchema(cleared)
  BY DEF ClearErrors
<1> HIDE DEF cleared
<1>3. Good(cleared)
  BY <1>1
  DEF Good, Core, FetchedIsOfQuery, GeometryLoads, ForQuery, SchemaLoads, RowsLoad
<1>4. Good(FetchSchema(cleared)) /\ FetchSchema(cleared).waiting \subseteq cleared.waiting
  BY <1>3, FetchSchemaKeeps DEF Good
<1> QED
  BY <1>1, <1>2, <1>3, <1>4

LEMMA SetGeometryQueryKeeps ==
    ASSUME NEW w, Good(w), NEW query \in Queries
    PROVE  /\ Good(SetGeometryQuery(w, query))
           /\ SetGeometryQuery(w, query).waiting \subseteq w.waiting
<1> DEFINE changed == [w EXCEPT !.geometry.query = query]
           stale == [changed EXCEPT !.geometry.status = "unfetched"]
<1>1. /\ IsWorld(changed) /\ changed.waiting = w.waiting
      /\ changed.geometry.status = w.geometry.status
      /\ changed.schema = w.schema /\ changed.rows = w.rows
      /\ changed.requests = w.requests
  BY DEF Good, Core, IsWorld, World, GeometryType
<1>2. \/ SetGeometryQuery(w, query) = w
      \/ SetGeometryQuery(w, query) = FetchGeometry(changed, FALSE)
      \/ SetGeometryQuery(w, query) = stale
  BY DEF SetGeometryQuery
<1> HIDE DEF changed
<1>3. /\ IsWorld(stale) /\ stale.waiting = changed.waiting
      /\ stale.geometry.status = "unfetched"
      /\ stale.schema = changed.schema /\ stale.rows = changed.rows
      /\ stale.requests = changed.requests
  BY <1>1 DEF IsWorld, World, GeometryType, Statuses
<1> HIDE DEF stale
<1>4. Good(changed)
  BY <1>1
  DEF Good, Core, FetchedIsOfQuery, GeometryLoads, ForQuery, SchemaLoads, RowsLoad
<1>5. Good(stale)
  BY <1>3, <1>4
  DEF Good, Core, FetchedIsOfQuery, GeometryLoads, ForQuery, SchemaLoads, RowsLoad
<1>6. /\ Good(FetchGeometry(changed, FALSE))
      /\ FetchGeometry(changed, FALSE).waiting \subseteq changed.waiting
  BY <1>4, FetchGeometryKeeps
<1> QED
  BY <1>1, <1>2, <1>3, <1>5, <1>6

\* A query that is applied leaves the request of the earlier one to FetchSchema.
LEMMA SetSchemaQueryLeaves ==
    ASSUME NEW w, Good(w), NEW query \in Queries
    PROVE  LET v == SetSchemaQuery(w, query)
           IN Core(v) /\ RowsLoad(v) /\ v.waiting \subseteq w.waiting
<1> DEFINE unfetched == SchemaStatus(w, "unfetched")
           asked == [unfetched EXCEPT !.schema.query = query]
           changed == EmptyRows(asked)
           v == [changed EXCEPT !.schema.columns = NoQuery, !.onSync = TRUE,
                                !.due = @ \cup {"refetch"}]
<1>1. SetSchemaQuery(w, query) = (IF query = w.schema.query THEN unfetched ELSE v)
  BY DEF SetSchemaQuery
<1>2. /\ Good(unfetched) /\ unfetched.waiting \subseteq w.waiting
      /\ unfetched.schema.status = "unfetched"
  BY SchemaStatusKeeps, SchemaStatusLeaves DEF Good, Core, Statuses
<1> HIDE DEF unfetched
<1>3. /\ IsWorld(asked) /\ asked.waiting = unfetched.waiting
      /\ asked.schema.status = "unfetched"
      /\ asked.geometry = unfetched.geometry /\ asked.requests = unfetched.requests
  BY <1>2 DEF Good, Core, IsWorld, World, SchemaType
<1> HIDE DEF asked
<1>4. /\ IsWorld(changed) /\ changed.waiting = asked.waiting
      /\ changed.rows.status = "unfetched" /\ changed.schema = asked.schema
      /\ changed.geometry = asked.geometry /\ changed.requests = asked.requests
  BY <1>3, EmptyRowsLeaves
<1> HIDE DEF changed
<1>5. /\ IsWorld(v) /\ v.waiting = changed.waiting
      /\ v.schema.status = changed.schema.status /\ v.rows = changed.rows
      /\ v.geometry = changed.geometry /\ v.requests = changed.requests
  BY <1>4 DEF IsWorld, World, SchemaType
<1> HIDE DEF v
<1>6. Core(v) /\ RowsLoad(v)
  BY <1>2, <1>3, <1>4, <1>5 DEF Good, Core, FetchedIsOfQuery, GeometryLoads, RowsLoad
<1> QED
  BY <1>1, <1>2, <1>3, <1>4, <1>5, <1>6 DEF Good

LEMMA RunQueryKeeps ==
    ASSUME NEW w, Good(w), NEW query \in Queries
    PROVE  Good(RunQuery(w, query)) /\ RunQuery(w, query).waiting \subseteq w.waiting
<1> DEFINE located == SetGeometryQuery(w, query)
           set == SetSchemaQuery(located, query)
           fetching == FetchSchema(set)
<1>1. Good(located) /\ located.waiting \subseteq w.waiting
  BY SetGeometryQueryKeeps
<1> HIDE DEF located
<1>2. Core(set) /\ RowsLoad(set) /\ set.waiting \subseteq located.waiting
  BY <1>1, SetSchemaQueryLeaves
<1> HIDE DEF set
<1>3. Good(fetching) /\ fetching.waiting \subseteq set.waiting
  BY <1>2, FetchSchemaKeeps
<1> HIDE DEF fetching
<1>4. /\ Good(FetchGeometry(fetching, TRUE))
      /\ FetchGeometry(fetching, TRUE).waiting \subseteq fetching.waiting
  BY <1>3, FetchGeometryKeeps
<1>5. RunQuery(w, query) = FetchGeometry(fetching, TRUE)
  BY DEF RunQuery, located, set, fetching
<1> QED
  BY <1>1, <1>2, <1>3, <1>4, <1>5

LEMMA ResetKeeps ==
    ASSUME NEW w, Good(w)
    PROVE  Good(ResetDueToAlteredData(w)) /\ ResetDueToAlteredData(w).waiting \subseteq w.waiting
<1> DEFINE unfetched == SchemaStatus(w, "unfetched")
<1>1. Good(unfetched) /\ unfetched.waiting \subseteq w.waiting
  BY SchemaStatusKeeps DEF Statuses
<1>2. ResetDueToAlteredData(w) = FetchSchema(unfetched)
  BY DEF ResetDueToAlteredData
<1> HIDE DEF unfetched
<1>3. Good(FetchSchema(unfetched)) /\ FetchSchema(unfetched).waiting \subseteq unfetched.waiting
  BY <1>1, FetchSchemaKeeps DEF Good
<1> QED
  BY <1>1, <1>2, <1>3

\* The columns that arrive are those of the query applied: the schema may be fetched with them.
LEMMA ColumnsResetLeaves ==
    ASSUME NEW w, Core(w), ForQuery(w), RowsLoad(w)
    PROVE  LET v == ColumnsReset(w, w.schema.query)
           IN /\ Core(v) /\ ForQuery(v) /\ RowsLoad(v)
              /\ v.waiting \subseteq w.waiting
              /\ v.schema.query = w.schema.query /\ v.schema.columns = w.schema.query
<1> DEFINE set == [w EXCEPT !.schema.columns = w.schema.query]
           reset == EmptyRows(set)
<1>1. ColumnsReset(w, w.schema.query)
        = (IF w.schema.status = "fetched" THEN FetchRows(reset) ELSE reset)
  BY DEF ColumnsReset
<1>2. /\ IsWorld(set) /\ set.waiting = w.waiting
      /\ set.schema.status = w.schema.status /\ set.schema.query = w.schema.query
      /\ set.schema.columns = w.schema.query
      /\ set.geometry = w.geometry /\ set.rows = w.rows /\ set.requests = w.requests
  BY DEF Core, IsWorld, World, SchemaType
<1> HIDE DEF set
<1>3. /\ IsWorld(reset) /\ reset.waiting = w.waiting /\ reset.rows.status = "unfetched"
      /\ reset.schema.status = w.schema.status /\ reset.schema.query = w.schema.query
      /\ reset.schema.columns = w.schema.query
      /\ reset.geometry = w.geometry /\ reset.requests = w.requests
  BY <1>2, EmptyRowsLeaves
<1> HIDE DEF reset
<1>4. Core(reset) /\ ForQuery(reset) /\ RowsLoad(reset)
  BY <1>3 DEF Core, FetchedIsOfQuery, GeometryLoads, ForQuery, RowsLoad
<1>5. RowsOnly(reset, FetchRows(reset)) /\ RowsLoad(FetchRows(reset))
  BY <1>4, FetchRowsLeaves DEF Core
<1>6. Core(FetchRows(reset)) /\ ForQuery(FetchRows(reset))
  BY <1>4, <1>5, RowsOnlyKeeps
<1> QED
  BY <1>1, <1>3, <1>4, <1>5, <1>6 DEF RowsOnly

LEMMA FetchModelKeeps ==
    ASSUME NEW w, Good(w), NEW of \in Kinds
    PROVE  Good(FetchModel(w, of)) /\ FetchModel(w, of).waiting \subseteq w.waiting \cup {of}
<1> DEFINE fetched == IF ShouldFetch(w, of) THEN Fetch(w, of) ELSE w
           joined == [fetched EXCEPT !.waiting = @ \cup {of}]
<1>1. FetchModel(w, of) \in {fetched, joined}
  BY DEF FetchModel
<1>2. Fetch(w, of) \in {FetchSchema(w), FetchGeometry(w, FALSE), FetchRows(w)}
  BY DEF Fetch, Kinds
<1>3. Good(fetched) /\ fetched.waiting \subseteq w.waiting
  BY <1>2, FetchSchemaKeeps, FetchGeometryKeeps, FetchRowsKeeps DEF Good
<1> HIDE DEF fetched
<1>4. /\ IsWorld(joined) /\ joined.waiting = fetched.waiting \cup {of}
      /\ joined.schema = fetched.schema /\ joined.geometry = fetched.geometry
      /\ joined.rows = fetched.rows /\ joined.requests = fetched.requests
  BY <1>3 DEF Good, Core, IsWorld, World
<1> HIDE DEF joined
<1>5. Good(joined)
  BY <1>3, <1>4
  DEF Good, Core, FetchedIsOfQuery, GeometryLoads, ForQuery, SchemaLoads, RowsLoad
<1> QED
  BY <1>1, <1>3, <1>4, <1>5

\* Who waits waits for both, or for the rows.
Waits(of) == of \subseteq {"schema", "geometry"} \/ of = {"rows"}

LEMMA AfterBothKeeps ==
    ASSUME NEW w, Good(w), Waits(w.waiting)
    PROVE  Good(AfterBoth(w)) /\ Waits(AfterBoth(w).waiting)
<1>1. Good(FetchModel(w, "rows")) /\ FetchModel(w, "rows").waiting \subseteq w.waiting \cup {"rows"}
  BY FetchModelKeeps DEF Kinds
<1>2. \/ AfterBoth(w) = w
      \/ AfterBoth(w) = FetchModel(w, "rows") /\ w.waiting = {}
  BY DEF AfterBoth
<1>3. ASSUME NEW s, s \subseteq {"rows"} PROVE Waits(s)
  BY <1>3 DEF Waits
<1> QED
  BY <1>1, <1>2, <1>3

---------------------------------------------------------------------------------
(* What each event keeps. *)

QueryInv == Good(Now) /\ Waits(waiting) /\ acts \in 0..MaxActs

LEMMA NowIs ==
    /\ Now.schema = schema /\ Now.geometry = geometry /\ Now.rows = rows
    /\ Now.requests = requests /\ Now.waiting = waiting /\ Now.onSync = onSync /\ Now.due = due
  BY DEF Now

LEMMA BecomeKeeps ==
    ASSUME NEW w, Good(w), Waits(w.waiting), Become(w)
    PROVE  Good(Now)' /\ Waits(waiting)'
<1> DEFINE v == [schema |-> w.schema, geometry |-> w.geometry, rows |-> w.rows,
                 requests |-> w.requests, waiting |-> w.waiting, onSync |-> w.onSync,
                 due |-> w.due]
<1>1. Now' = v
  BY DEF Now, Become
<1>2. /\ IsWorld(v) /\ v.schema = w.schema /\ v.geometry = w.geometry
      /\ v.rows = w.rows /\ v.requests = w.requests
  BY DEF Good, Core, IsWorld, World
<1> HIDE DEF v
<1>3. Good(v)
  BY <1>2
  DEF Good, Core, FetchedIsOfQuery, GeometryLoads, ForQuery, SchemaLoads, RowsLoad
<1>4. Good(Now')
  BY <1>1, <1>3
<1>5. waiting' = w.waiting
  BY DEF Become
<1> QED
  BY <1>4, <1>5

LEMMA RunsKeep ==
    ASSUME NEW w, Good(w), Waits(w.waiting), Runs(w)
    PROVE  Good(Now)' /\ Waits(waiting)'
  BY AfterBothKeeps, BecomeKeeps DEF Runs

\* A part of what is waited for is waited for in the same way, or not at all.
LEMMA WaitsLess ==
    ASSUME NEW of, Waits(of), NEW less, less \subseteq of PROVE Waits(less)
<1>1. CASE of \subseteq {"schema", "geometry"}
  BY <1>1 DEF Waits
<1>2. CASE of = {"rows"} /\ "rows" \in less
  BY <1>2 DEF Waits
<1>3. CASE of = {"rows"} /\ "rows" \notin less
  BY <1>3 DEF Waits
<1> QED
  BY <1>1, <1>2, <1>3 DEF Waits

LEMMA UserKeeps ==
    ASSUME QueryInv, User PROVE Good(Now)' /\ Waits(waiting)'
<1>1. Good(Now) /\ Waits(Now.waiting)
  BY NowIs DEF QueryInv
<1>2. ASSUME NEW query \in Queries, ApplyQuery(query) PROVE Good(Now)' /\ Waits(waiting)'
  BY <1>1, <1>2, RunQueryKeeps, WaitsLess, RunsKeep DEF ApplyQuery
<1>3. ASSUME AlterData PROVE Good(Now)' /\ Waits(waiting)'
  <2>1. Good(ClearErrors(Now)) /\ Waits(ClearErrors(Now).waiting)
    BY <1>1, ClearErrorsKeeps, WaitsLess
  <2>2. /\ Good(ResetDueToAlteredData(ClearErrors(Now)))
        /\ Waits(ResetDueToAlteredData(ClearErrors(Now)).waiting)
    BY <2>1, ResetKeeps, WaitsLess
  <2>3. /\ Good(RunQuery(ResetDueToAlteredData(ClearErrors(Now)), DefaultQuery))
        /\ Waits(RunQuery(ResetDueToAlteredData(ClearErrors(Now)), DefaultQuery).waiting)
    BY <2>2, RunQueryKeeps, WaitsLess, QueryObjectsAssumption
  <2> QED
    BY <1>3, <2>3, RunsKeep DEF AlterData
<1>4. ASSUME ChangeColumns PROVE Good(Now)' /\ Waits(waiting)'
  BY <1>1, <1>4, ResetKeeps, WaitsLess, RunsKeep DEF ChangeColumns
<1>5. ASSUME RemoveLastRow PROVE Good(Now)' /\ Waits(waiting)'
  <2>1. Good(GeometryStatus(Now, "unfetched")) /\ Waits(GeometryStatus(Now, "unfetched").waiting)
    BY <1>1, GeometryStatusKeeps, WaitsLess DEF Statuses
  <2>2. /\ Good(EmptyRows(GeometryStatus(Now, "unfetched")))
        /\ Waits(EmptyRows(GeometryStatus(Now, "unfetched")).waiting)
    BY <2>1, EmptyRowsKeeps
  <2> QED
    BY <1>5, <2>2, RunsKeep DEF RemoveLastRow
<1>6. ASSUME FetchAllQueryObjects PROVE Good(Now)' /\ Waits(waiting)'
  <2> DEFINE first == FetchModel(Now, "schema")
             both == FetchModel(first, "geometry")
             all == FetchModel(both, "rows")
  <2>1. Good(first) /\ first.waiting \subseteq {"schema"}
    BY <1>1, <1>6, NowIs, FetchModelKeeps DEF FetchAllQueryObjects, Kinds
  <2>2. Become(IF both.waiting = {} THEN all ELSE both)
    BY <1>6 DEF FetchAllQueryObjects
  <2> HIDE DEF first
  <2>3. Good(both) /\ both.waiting \subseteq first.waiting \cup {"geometry"}
    BY <2>1, FetchModelKeeps DEF Kinds
  <2> HIDE DEF both
  <2>4. Good(all) /\ all.waiting \subseteq both.waiting \cup {"rows"}
    BY <2>3, FetchModelKeeps DEF Kinds
  <2> HIDE DEF all
  <2>5. CASE both.waiting = {}
    <3>1. Waits(all.waiting)
      BY <2>4, <2>5, WaitsLess DEF Waits
    <3> QED
      BY <2>2, <2>4, <2>5, <3>1, BecomeKeeps
  <2>6. CASE both.waiting # {}
    <3>1. Waits(both.waiting)
      BY <2>1, <2>3 DEF Waits
    <3> QED
      BY <2>2, <2>3, <2>6, <3>1, BecomeKeeps
  <2> QED
    BY <2>5, <2>6
<1> QED
  BY <1>2, <1>3, <1>4, <1>5, <1>6 DEF User

LEMMA TimerKeeps ==
    ASSUME QueryInv, OnChangeQueryOrStatus \/ FetchRowsData
    PROVE  Good(Now)' /\ Waits(waiting)'
<1> DEFINE w(handler) == [Now EXCEPT !.due = @ \ {handler}]
<1>1. Good(Now) /\ Waits(Now.waiting)
  BY NowIs DEF QueryInv
<1>2. ASSUME NEW handler PROVE Good(w(handler)) /\ Waits(w(handler).waiting)
  <2> DEFINE v == w(handler)
  <2>1. /\ IsWorld(v) /\ v.schema = Now.schema /\ v.geometry = Now.geometry
        /\ v.rows = Now.rows /\ v.requests = Now.requests /\ v.waiting = Now.waiting
    BY <1>1 DEF Good, Core, IsWorld, World
  <2> HIDE DEF v
  <2>2. Good(v) /\ Waits(v.waiting)
    BY <1>1, <2>1
    DEF Good, Core, FetchedIsOfQuery, GeometryLoads, ForQuery, SchemaLoads, RowsLoad
  <2> QED
    BY <2>2 DEF v
<1>3. ASSUME OnChangeQueryOrStatus PROVE Good(Now)' /\ Waits(waiting)'
  <2> DEFINE s == IF schema.status = "unfetched" THEN FetchSchema(w("refetch"))
                  ELSE w("refetch")
             g == IF geometry.status = "unfetched" THEN FetchGeometry(s, FALSE) ELSE s
  <2>1. Runs(g)
    BY <1>3 DEF OnChangeQueryOrStatus
  <2>2. Good(s) /\ Waits(s.waiting)
    <3>1. Good(w("refetch")) /\ Waits(w("refetch").waiting)
      BY <1>2
    <3> HIDE DEF w
    <3> QED
      BY <3>1, FetchSchemaKeeps, WaitsLess DEF Good
  <2> HIDE DEF s
  <2>3. Good(g) /\ Waits(g.waiting)
    BY <2>2, FetchGeometryKeeps, WaitsLess
  <2> HIDE DEF g
  <2> QED
    BY <2>1, <2>3, RunsKeep
<1>4. ASSUME FetchRowsData PROVE Good(Now)' /\ Waits(waiting)'
  <2> DEFINE g == IF schema.status = "fetched" THEN FetchRows(w("rows")) ELSE w("rows")
  <2>1. Runs(g)
    BY <1>4 DEF FetchRowsData
  <2>2. Good(w("rows")) /\ Waits(w("rows").waiting)
    BY <1>2
  <2> HIDE DEF w
  <2>3. Good(g) /\ Waits(g.waiting)
    BY <2>2, FetchRowsKeeps, WaitsLess
  <2> HIDE DEF g
  <2> QED
    BY <2>1, <2>3, RunsKeep
<1> QED
  BY <1>3, <1>4

---------------------------------------------------------------------------------
(* The answers. *)

\* What is left of an answered request's kind is unknown, but of the schema's nothing is.
LEMMA WithoutLeaves ==
    ASSUME QueryInv, NEW r \in requests
    PROVE  LET v == Without(r)
           IN /\ r \in RequestType
              /\ IsWorld(v) /\ v.waiting = waiting /\ v.schema = schema
              /\ v.geometry = geometry /\ v.rows = rows
              /\ FetchedIsOfQuery(v) /\ OneSchema(v.requests) /\ ForQuery(v)
              /\ r.of = "schema" => r.query = schema.query
              /\ r.of # "schema" => SchemaLoads(v)
              /\ r.of # "geometry" => GeometryLoads(v)
              /\ r.of # "rows" => RowsLoad(v)
<1> DEFINE left == Ended(requests, r)
           v == Without(r)
<1>1. Good(Now)
  BY DEF QueryInv
<1>2. requests \in SUBSET RequestType /\ IsFiniteSet(requests)
  BY <1>1, NowIs DEF Good, Core, IsWorld, World
<1>3. r \in RequestType
  BY <1>2
<1>4. /\ left \in SUBSET RequestType /\ IsFiniteSet(left)
      /\ \A x \in left : x.of # r.of => x \in requests
      /\ \A x \in left : \E y \in requests \ {r} : y.of = x.of /\ y.query = x.query
      /\ \A y \in requests : y.of # r.of => y \in left
  BY <1>2, <1>3, EndedKeeps
<1>5. v = [Now EXCEPT !.requests = left]
  BY NowIs DEF Without
<1> HIDE DEF left, v
<1>6. /\ IsWorld(v) /\ v.requests = left /\ v.waiting = waiting /\ v.schema = schema
      /\ v.geometry = geometry /\ v.rows = rows
  BY <1>1, <1>4, <1>5, NowIs DEF Good, Core, IsWorld, World
<1>7. OneSchema(requests) /\ (\A x \in requests : x.of = "schema" => x.query = schema.query)
  BY <1>1, NowIs DEF Good, Core, ForQuery
<1>8. OneSchema(left)
  <2>1. CASE r.of = "schema"
    BY <1>4, <1>7, <2>1 DEF OneSchema
  <2>2. CASE r.of # "schema"
    BY <1>4, <1>7, <2>2 DEF OneSchema
  <2> QED
    BY <2>1, <2>2
<1>9. ForQuery(v)
  BY <1>4, <1>6, <1>7 DEF ForQuery
<1>10. FetchedIsOfQuery(v)
  BY <1>1, <1>6, NowIs DEF Good, Core, FetchedIsOfQuery
<1>11. r.of # "schema" => SchemaLoads(v)
  BY <1>1, <1>4, <1>6, NowIs DEF Good, SchemaLoads, Asked
<1>12. r.of # "geometry" => GeometryLoads(v)
  BY <1>1, <1>4, <1>6, NowIs DEF Good, Core, GeometryLoads, Asked
<1>13. r.of # "rows" => RowsLoad(v)
  BY <1>1, <1>4, <1>6, NowIs DEF Good, RowsLoad, Asked
<1> QED
  BY <1>3, <1>6, <1>7, <1>8, <1>9, <1>10, <1>11, <1>12, <1>13 DEF v

LEMMA SchemaAnsweredKeeps ==
    ASSUME QueryInv, NEW r \in requests, r.of = "schema", SchemaAnswered(r)
    PROVE  Good(Now)' /\ Waits(waiting)'
<1> DEFINE left == Without(r)
           parsed == ColumnsReset(left, r.query)
           ready == SchemaStatus(parsed, "fetched")
           fetched == [ready EXCEPT !.schema.repeated = 0, !.onSync = FALSE]
           g == IF onSync THEN FetchRows(fetched) ELSE fetched
<1>0. 0 \in 0..MaxRepeatedErrors
  BY DEF MaxRepeatedErrors
<1>1. Runs(g)
  BY DEF SchemaAnswered
<1>2. /\ Core(left) /\ ForQuery(left) /\ RowsLoad(left)
      /\ left.waiting = waiting /\ r.query = left.schema.query
  BY WithoutLeaves DEF Core
<1> HIDE DEF left
<1>3. /\ Core(parsed) /\ ForQuery(parsed) /\ RowsLoad(parsed)
      /\ parsed.waiting \subseteq waiting /\ parsed.schema.columns = parsed.schema.query
  BY <1>2, ColumnsResetLeaves
<1> HIDE DEF parsed
<1>4. /\ IsWorld(ready) /\ ready.waiting \subseteq parsed.waiting
      /\ ready.schema.status = "fetched"
      /\ ready.schema.query = parsed.schema.query /\ ready.schema.columns = parsed.schema.columns
      /\ ready.geometry = parsed.geometry /\ ready.rows = parsed.rows
      /\ ready.requests = parsed.requests
  BY <1>3, SchemaStatusLeaves DEF Core, Statuses
<1> HIDE DEF ready
<1>5. /\ IsWorld(fetched) /\ fetched.waiting = ready.waiting
      /\ fetched.schema.status = "fetched"
      /\ fetched.schema.query = ready.schema.query
      /\ fetched.schema.columns = ready.schema.columns
      /\ fetched.geometry = ready.geometry /\ fetched.rows = ready.rows
      /\ fetched.requests = ready.requests
  BY <1>0, <1>4 DEF IsWorld, World, SchemaType
<1> HIDE DEF fetched
<1>6. Good(fetched)
  BY <1>3, <1>4, <1>5
  DEF Good, Core, FetchedIsOfQuery, GeometryLoads, ForQuery, SchemaLoads, RowsLoad
<1>7. Good(g) /\ g.waiting \subseteq waiting
  BY <1>3, <1>4, <1>5, <1>6, FetchRowsKeeps
<1> HIDE DEF g
<1> QED
  BY <1>1, <1>7, WaitsLess, RunsKeep DEF QueryInv

LEMMA SchemaFailedKeeps ==
    ASSUME QueryInv, NEW r \in requests, r.of = "schema", SchemaFailed(r)
    PROVE  Good(Now)' /\ Waits(waiting)'
<1> DEFINE repeated == Repeated(schema.repeated)
<1>1. PICK errors \in {"own", "empty"} :
         Runs(SchemaStatus([Without(r) EXCEPT !.schema.errors = errors,
                                              !.schema.repeated = repeated],
                           StatusOfError(repeated)))
  BY DEF SchemaFailed
<1> DEFINE left == Without(r)
           noted == [left EXCEPT !.schema.errors = errors, !.schema.repeated = repeated]
           g == SchemaStatus(noted, StatusOfError(repeated))
<1>2. /\ IsWorld(left) /\ OneSchema(left.requests) /\ ForQuery(left)
      /\ GeometryLoads(left) /\ RowsLoad(left) /\ left.waiting = waiting
      /\ left.schema = schema
  BY WithoutLeaves
<1>3. Runs(g)
  BY <1>1
<1> HIDE DEF left
<1>4. /\ repeated \in 0..MaxRepeatedErrors
      /\ StatusOfError(repeated) \in {"errored", "unavailable"}
      /\ StatusOfError(repeated) \in Statuses
  <2>1. schema.repeated \in 0..MaxRepeatedErrors
    BY <1>2 DEF IsWorld, World, SchemaType
  <2> QED
    BY <2>1, ErrorCounts
<1> HIDE DEF repeated
<1>5. /\ IsWorld(noted) /\ noted.waiting = waiting
      /\ noted.schema.query = left.schema.query
      /\ noted.geometry = left.geometry /\ noted.rows = left.rows
      /\ noted.requests = left.requests
  BY <1>2, <1>4 DEF IsWorld, World, SchemaType
<1> HIDE DEF noted
<1>6. /\ IsWorld(g) /\ g.waiting \subseteq noted.waiting
      /\ g.schema.status = StatusOfError(repeated)
      /\ g.schema.query = noted.schema.query
      /\ g.geometry = noted.geometry /\ g.rows = noted.rows /\ g.requests = noted.requests
  BY <1>4, <1>5, SchemaStatusLeaves
<1> HIDE DEF g
<1>7. Good(g)
  BY <1>2, <1>4, <1>5, <1>6
  DEF Good, Core, FetchedIsOfQuery, GeometryLoads, ForQuery, SchemaLoads, RowsLoad
<1> QED
  BY <1>3, <1>5, <1>6, <1>7, WaitsLess, RunsKeep DEF QueryInv

LEMMA GeometryAnsweredKeeps ==
    ASSUME QueryInv, NEW r \in requests, r.of = "geometry", GeometryAnswered(r)
    PROVE  Good(Now)' /\ Waits(waiting)'
<1> DEFINE left == Without(r)
           ready == GeometryStatus(left, "fetched")
           fetched == [ready EXCEPT !.geometry.of = r.query, !.geometry.repeated = 0]
           g == IF r.saves THEN ClearErrors(fetched) ELSE fetched
<1>0. 0 \in 0..MaxRepeatedErrors
  BY DEF MaxRepeatedErrors
<1>1. Runs(g)
  BY DEF GeometryAnswered
<1>2. /\ IsWorld(left) /\ FetchedIsOfQuery(left) /\ OneSchema(left.requests)
      /\ ForQuery(left) /\ SchemaLoads(left) /\ RowsLoad(left) /\ left.waiting = waiting
      /\ r.query \in Queries
  BY WithoutLeaves DEF RequestType
<1> HIDE DEF left
<1>3. /\ IsWorld(ready) /\ ready.waiting \subseteq waiting
      /\ ready.geometry.status = "fetched"
      /\ ready.schema = left.schema /\ ready.rows = left.rows /\ ready.requests = left.requests
  BY <1>2, GeometryStatusLeaves DEF Statuses
<1> HIDE DEF ready
<1>4. /\ IsWorld(fetched) /\ fetched.waiting = ready.waiting
      /\ fetched.geometry.status = "fetched"
      /\ fetched.schema = ready.schema /\ fetched.rows = ready.rows
      /\ fetched.requests = ready.requests
  BY <1>0, <1>2, <1>3 DEF IsWorld, World, GeometryType
<1> HIDE DEF fetched
<1>5. Good(fetched)
  BY <1>2, <1>3, <1>4
  DEF Good, Core, FetchedIsOfQuery, GeometryLoads, ForQuery, SchemaLoads, RowsLoad
<1>6. Good(g) /\ g.waiting \subseteq waiting
  BY <1>3, <1>4, <1>5, ClearErrorsKeeps
<1> HIDE DEF g
<1> QED
  BY <1>1, <1>6, WaitsLess, RunsKeep DEF QueryInv

LEMMA GeometryNotFoundKeeps ==
    ASSUME QueryInv, NEW r \in requests, r.of = "geometry", GeometryNotFound(r)
    PROVE  Good(Now)' /\ Waits(waiting)'
<1> DEFINE fetching == GeometryStatus(Now, "fetching")
           q == [Request("geometry", geometry.query) EXCEPT
                   !.xhr = FALSE, !.column = "the_geom_webmercator", !.saves = r.saves]
           others == Aborted(requests \ {r}, "geometry")
           left == Ended(others, r)
           g == [fetching EXCEPT !.requests = Sent(Ended(Aborted(@ \ {r}, "geometry"), r), q)]
<1>1. Runs(g)
  BY DEF GeometryNotFound
<1>2. Good(Now) /\ Waits(waiting)
  BY DEF QueryInv
<1>3. requests \in SUBSET RequestType /\ IsFiniteSet(requests) /\ r \in RequestType
  BY <1>2, NowIs DEF Good, Core, IsWorld, World
<1>4. /\ IsWorld(fetching) /\ fetching.waiting \subseteq waiting
      /\ fetching.geometry.status = "fetching"
      /\ fetching.schema = schema /\ fetching.rows = rows /\ fetching.requests = requests
  BY <1>2, NowIs, GeometryStatusLeaves DEF Good, Core, Statuses
<1>5. q \in QuestionType /\ q.of = "geometry"
  <2>1. geometry.query \in Queries /\ r.saves \in BOOLEAN
    BY <1>2, <1>3, NowIs DEF Good, Core, IsWorld, World, GeometryType, RequestType
  <2> QED
    BY <2>1 DEF Request, QuestionType, Kinds, Statuses
<1>6. /\ others \in SUBSET RequestType /\ IsFiniteSet(others)
      /\ \A x \in RequestType : x.of # "geometry" => (x \in others <=> x \in requests)
  BY <1>3, FS_Subset DEF Aborted, Known
<1>7. g = [fetching EXCEPT !.requests = Sent(left, q)]
  BY <1>4
<1> HIDE DEF g, fetching, q, others
<1>8. /\ left \in SUBSET RequestType /\ IsFiniteSet(left)
      /\ \A x \in RequestType : x.of # "geometry" => (x \in left <=> x \in requests)
  BY <1>3, <1>6, EndedKeeps
<1> HIDE DEF left
<1>9. PICK n \in RequestType :
         /\ Sent(left, q) = left \cup {n} /\ IsFiniteSet(left \cup {n}) /\ n.of = q.of
  BY <1>5, <1>8, SentAdds
<1>10. /\ IsWorld(g) /\ g.requests = left \cup {n} /\ g.waiting = fetching.waiting
       /\ g.schema = schema /\ g.rows = rows
  BY <1>4, <1>7, <1>8, <1>9 DEF IsWorld, World
<1>11. \A x \in RequestType : x.of # "geometry" => (x \in g.requests <=> x \in requests)
  BY <1>5, <1>8, <1>9, <1>10
<1>12. \A x \in g.requests \cup requests : x \in RequestType
  BY <1>3, <1>10 DEF IsWorld, World
<1>13. OneSchema(g.requests)
  BY <1>2, <1>11, <1>12, NowIs DEF Good, Core, OneSchema
<1>14. ForQuery(g) /\ FetchedIsOfQuery(g)
  BY <1>2, <1>10, <1>11, <1>12, NowIs DEF Good, Core, ForQuery, FetchedIsOfQuery
<1>15. SchemaLoads(g) /\ RowsLoad(g)
  BY <1>2, <1>10, <1>11, <1>12, NowIs DEF Good, SchemaLoads, RowsLoad, Asked
<1>16. GeometryLoads(g)
  BY <1>5, <1>9, <1>10 DEF GeometryLoads, Asked
<1>17. Good(g)
  BY <1>10, <1>13, <1>14, <1>15, <1>16 DEF Good, Core
<1> QED
  BY <1>1, <1>2, <1>4, <1>10, <1>17, WaitsLess, RunsKeep

LEMMA GeometryFailedKeeps ==
    ASSUME QueryInv, NEW r \in requests, r.of = "geometry", GeometryFailed(r)
    PROVE  Good(Now)' /\ Waits(waiting)'
<1> DEFINE repeated == Repeated(geometry.repeated)
           left == Without(r)
           ready == GeometryStatus(left, StatusOfError(repeated))
           g == [ready EXCEPT !.geometry.of = NoQuery, !.geometry.repeated = repeated]
<1>1. Runs(g)
  BY DEF GeometryFailed
<1>2. /\ IsWorld(left) /\ FetchedIsOfQuery(left) /\ OneSchema(left.requests)
      /\ ForQuery(left) /\ SchemaLoads(left) /\ RowsLoad(left) /\ left.waiting = waiting
      /\ left.geometry = geometry
  BY WithoutLeaves
<1> HIDE DEF left
<1>3. /\ repeated \in 0..MaxRepeatedErrors
      /\ StatusOfError(repeated) \in {"errored", "unavailable"}
      /\ StatusOfError(repeated) \in Statuses
  <2>1. geometry.repeated \in 0..MaxRepeatedErrors
    BY <1>2 DEF IsWorld, World, GeometryType
  <2> QED
    BY <2>1, ErrorCounts
<1> HIDE DEF repeated
<1>4. /\ IsWorld(ready) /\ ready.waiting \subseteq waiting
      /\ ready.geometry.status = StatusOfError(repeated)
      /\ ready.schema = left.schema /\ ready.rows = left.rows /\ ready.requests = left.requests
  BY <1>2, <1>3, GeometryStatusLeaves
<1> HIDE DEF ready
<1>5. /\ IsWorld(g) /\ g.waiting = ready.waiting
      /\ g.geometry.status = ready.geometry.status
      /\ g.schema = ready.schema /\ g.rows = ready.rows /\ g.requests = ready.requests
  BY <1>3, <1>4 DEF IsWorld, World, GeometryType
<1> HIDE DEF g
<1>6. Good(g)
  BY <1>2, <1>3, <1>4, <1>5
  DEF Good, Core, FetchedIsOfQuery, GeometryLoads, ForQuery, SchemaLoads, RowsLoad
<1> QED
  BY <1>1, <1>4, <1>5, <1>6, WaitsLess, RunsKeep DEF QueryInv

LEMMA RowsAnsweredKeeps ==
    ASSUME QueryInv, NEW r \in requests, r.of = "rows", RowsAnswered(r)
    PROVE  Good(Now)' /\ Waits(waiting)'
<1> DEFINE left == Without(r)
           shown == [left EXCEPT !.rows.of = r.query, !.rows.repeated = 0]
           g == RowsStatus(shown, "fetched")
<1>0. 0 \in 0..MaxRepeatedErrors
  BY DEF MaxRepeatedErrors
<1>1. Runs(g)
  BY DEF RowsAnswered
<1>2. /\ IsWorld(left) /\ FetchedIsOfQuery(left) /\ OneSchema(left.requests)
      /\ ForQuery(left) /\ SchemaLoads(left) /\ GeometryLoads(left)
      /\ left.waiting = waiting /\ r.query \in Queries
  BY WithoutLeaves DEF RequestType
<1> HIDE DEF left
<1>3. /\ IsWorld(shown) /\ shown.waiting = waiting
      /\ shown.schema = left.schema /\ shown.geometry = left.geometry
      /\ shown.requests = left.requests
  BY <1>0, <1>2 DEF IsWorld, World, RowsType
<1> HIDE DEF shown
<1>4. /\ IsWorld(g) /\ g.waiting \subseteq waiting /\ g.rows.status = "fetched"
      /\ g.schema = left.schema /\ g.geometry = left.geometry /\ g.requests = left.requests
  BY <1>3, RowsStatusLeaves DEF Statuses
<1> HIDE DEF g
<1>5. Good(g)
  BY <1>2, <1>4
  DEF Good, Core, FetchedIsOfQuery, GeometryLoads, ForQuery, SchemaLoads, RowsLoad
<1> QED
  BY <1>1, <1>4, <1>5, WaitsLess, RunsKeep DEF QueryInv

LEMMA RowsFailedKeeps ==
    ASSUME QueryInv, NEW r \in requests, r.of = "rows", RowsFailed(r)
    PROVE  Good(Now)' /\ Waits(waiting)'
<1> DEFINE left == Without(r)
           g == RowsError(left, r)
<1>1. Runs(g)
  BY DEF RowsFailed
<1>2. Core(left) /\ ForQuery(left) /\ SchemaLoads(left) /\ left.waiting = waiting
  BY WithoutLeaves DEF Core
<1> HIDE DEF left
<1>3. RowsOnly(left, g) /\ g.rows.status \in {"errored", "unavailable"}
  BY <1>2, RowsErrorLeaves DEF Core
<1> HIDE DEF g
<1>4. Good(g)
  BY <1>2, <1>3, RowsOnlyKeeps DEF Good, RowsLoad
<1>5. g.waiting \subseteq waiting
  BY <1>2, <1>3 DEF RowsOnly
<1> QED
  BY <1>1, <1>4, <1>5, WaitsLess, RunsKeep DEF QueryInv

---------------------------------------------------------------------------------
(* The theorems. *)

LEMMA QueryInvInit == Init => QueryInv
<1> SUFFICES ASSUME Init PROVE QueryInv
  OBVIOUS
<1> DEFINE q == Request("schema", DefaultQuery)
<1>1. q \in QuestionType /\ q.of = "schema" /\ q.query = DefaultQuery /\ q.xhr = TRUE
  BY QueryObjectsAssumption DEF Request, QuestionType, Kinds, Statuses
<1>2. requests = Sent({}, q)
  BY DEF Init
<1> HIDE DEF q
<1> DEFINE none == {}
<1>0. none \in SUBSET RequestType /\ IsFiniteSet(none)
  BY FS_EmptySet
<1> HIDE DEF none
<1>3. PICK n \in RequestType :
         /\ Sent(none, q) = none \cup {n} /\ IsFiniteSet(none \cup {n})
         /\ n.of = q.of /\ n.query = q.query /\ n.xhr = q.xhr
  BY <1>0, <1>1, SentAdds
<1>4. /\ requests = {n} /\ IsFiniteSet(requests) /\ requests \in SUBSET RequestType
  BY <1>2, <1>3 DEF none
<1>5. 0 \in 0..MaxRepeatedErrors /\ 0 \in 0..MaxActs
  BY QueryObjectsAssumption DEF MaxRepeatedErrors
<1>6. schema \in SchemaType /\ schema.status = "fetching" /\ schema.query = DefaultQuery
  BY <1>5, QueryObjectsAssumption DEF Init, SchemaType, Statuses
<1>7. geometry \in GeometryType /\ geometry.status # "fetching"
  BY <1>5, QueryObjectsAssumption DEF Init, GeometryType, Statuses
<1>8. rows \in RowsType /\ rows.status = "initial"
  BY <1>5, QueryObjectsAssumption DEF Init, RowsType, Statuses
<1>9. /\ waiting = {} /\ onSync \in BOOLEAN /\ due \in SUBSET {"refetch", "rows"} /\ acts = 0
  BY DEF Init
<1>10. IsWorld(Now)
  BY <1>4, <1>6, <1>7, <1>8, <1>9 DEF Now, IsWorld, World
<1>11. Good(Now)
  BY <1>1, <1>3, <1>4, <1>6, <1>7, <1>8, <1>10, NowIs
  DEF Good, Core, FetchedIsOfQuery, OneSchema, GeometryLoads, ForQuery, SchemaLoads, RowsLoad,
      Asked
<1>12. Waits(waiting)
  BY <1>9 DEF Waits
<1> QED
  BY <1>5, <1>9, <1>11, <1>12 DEF QueryInv

LEMMA QueryInvStep == QueryInv /\ [Next]_vars => QueryInv'
<1> SUFFICES ASSUME QueryInv, [Next]_vars PROVE QueryInv'
  OBVIOUS
<1>1. CASE User
  <2>1. acts' \in 0..MaxActs
    BY <1>1, QueryObjectsAssumption
    DEF QueryInv, User, Acts, ApplyQuery, AlterData, ChangeColumns, RemoveLastRow,
        FetchAllQueryObjects
  <2> QED
    BY <1>1, <2>1, UserKeeps DEF QueryInv
<1>2. CASE OnChangeQueryOrStatus \/ FetchRowsData
  <2>1. acts' = acts
    BY <1>2 DEF OnChangeQueryOrStatus, FetchRowsData
  <2> QED
    BY <1>2, <2>1, TimerKeeps DEF QueryInv
<1>3. CASE \E r \in requests : Answered(r)
  <2>1. PICK r \in requests : Answered(r)
    BY <1>3
  <2>2. acts' = acts
    BY <2>1 DEF Answered
  <2>3. Good(Now)' /\ Waits(waiting)'
    <3>1. CASE r.of = "schema" /\ (SchemaAnswered(r) \/ SchemaFailed(r))
      BY <3>1, SchemaAnsweredKeeps, SchemaFailedKeeps
    <3>2. CASE /\ r.of = "geometry"
               /\ GeometryAnswered(r) \/ GeometryNotFound(r) \/ GeometryFailed(r)
      BY <3>2, GeometryAnsweredKeeps, GeometryNotFoundKeeps, GeometryFailedKeeps
    <3>3. CASE r.of = "rows" /\ (RowsAnswered(r) \/ RowsFailed(r))
      BY <3>3, RowsAnsweredKeeps, RowsFailedKeeps
    <3> QED
      BY <2>1, <3>1, <3>2, <3>3 DEF Answered
  <2> QED
    BY <2>2, <2>3 DEF QueryInv
<1>4. CASE UNCHANGED vars
  <2>1. Now' = Now /\ waiting' = waiting /\ acts' = acts
    BY <1>4 DEF vars, Now
  <2> QED
    BY <2>1 DEF QueryInv
<1> QED
  BY <1>1, <1>2, <1>3, <1>4 DEF Next, Browser

\* The inductive invariant holds of every behaviour.
THEOREM QueryInvAlways == Spec => []QueryInv
  BY QueryInvInit, QueryInvStep, PTL DEF Spec

\* Every variable keeps its type: above all who waits for all the query objects
\* waits for the schema and the geometry or, after both, for the rows alone.
THEOREM QueryTypes == Spec => []TypeOK
<1>1. QueryInv => TypeOK
  <2> SUFFICES ASSUME QueryInv PROVE TypeOK
    OBVIOUS
  <2>1. /\ schema \in SchemaType /\ geometry \in GeometryType /\ rows \in RowsType
        /\ requests \in SUBSET RequestType /\ onSync \in BOOLEAN
        /\ due \in SUBSET {"refetch", "rows"}
    BY NowIs DEF QueryInv, Good, Core, IsWorld, World
  <2> QED
    BY <2>1 DEF QueryInv, Waits, TypeOK, SchemaType, GeometryType, RowsType, RequestType, Kinds
<1> QED
  BY <1>1, QueryInvAlways, PTL

\* A fetched schema has the columns of the query applied, for any queries and any
\* number of them: the schema has one request at most, always for that query.
THEOREM SchemaOfQueryTheorem == Spec => []SchemaOfQuery
<1>1. QueryInv => SchemaOfQuery
  BY NowIs DEF QueryInv, Good, Core, FetchedIsOfQuery, SchemaOfQuery
<1> QED
  BY <1>1, QueryInvAlways, PTL

\* What shows as loading is asked for, whatever is aborted, fails or is retried.
THEOREM LoadingEndsTheorem == Spec => []LoadingEnds
<1>1. QueryInv => LoadingEnds
  <2> SUFFICES ASSUME QueryInv PROVE LoadingEnds
    OBVIOUS
  <2>1. SchemaLoads(Now) /\ GeometryLoads(Now) /\ RowsLoad(Now)
    BY DEF QueryInv, Good, Core
  <2> QED
    BY <2>1, NowIs
    DEF LoadingEnds, Status, UnderWay, SchemaLoads, GeometryLoads, RowsLoad, Asked
<1> QED
  BY <1>1, QueryInvAlways, PTL

---------------------------------------------------------------------------------
(* The rows and the promise of fetchAllQueryObjects: RowsOfQuery and AllServed. *)
(* Most handlers are calm: they finish nothing behind the back of who waits,    *)
(* and leave to the rows what is due. The rest is FetchRows, a query that is    *)
(* applied, and the answers.                                                    *)

\* Who waits for a part waits for something that is still to come.
Serves(w) ==
    /\ "schema" \in w.waiting => w.schema.status \notin Final
    /\ "geometry" \in w.waiting =>
          w.geometry.status \notin Final /\ Asked(w.requests, "geometry")
    /\ "rows" \in w.waiting => w.rows.status # "fetched"

\* The rows have one request at most, which they know.
OneRows(rs) ==
    /\ \A r \in rs : r.of = "rows" => r.xhr
    /\ \A r, q \in rs : r.of = "rows" /\ q.of = "rows" => r = q

RowsAsked(w) == \A r \in w.requests : r.of = "rows" => r.query = w.schema.query

\* Rows of an earlier query, shown or still to arrive, are to be fetched again.
UpToDate(w) ==
    w.schema.status = "fetched" =>
        \/ "rows" \in w.due
        \/ RowsAsked(w) /\ (w.rows.status = "fetched" => w.rows.of = w.schema.query)

RowsInv(w) ==
    /\ OneRows(w.requests) /\ UpToDate(w)
    /\ w.rows.status = "fetching" => RowsAsked(w)

\* What a handler may do to v in w's place without regard to who waits...
Calm(w, v) ==
    /\ w.due \subseteq v.due /\ v.waiting \subseteq w.waiting
    /\ "schema" \in v.waiting =>
          v.schema.status = w.schema.status \/ v.schema.status \notin Final
    /\ "geometry" \in v.waiting =>
          v.geometry.status = w.geometry.status \/ v.geometry.status \notin Final
    /\ Asked(w.requests, "geometry") => Asked(v.requests, "geometry")
    /\ v.rows.status = "fetched" => w.rows.status = "fetched"
    /\ v.schema.status = "fetched" => w.schema.status = "fetched" \/ "rows" \in v.due

\* ... and to the rows.
SameRows(w, v) ==
    /\ v.schema.query = w.schema.query
    /\ v.rows.status = "fetched" => v.rows.of = w.rows.of
    /\ v.rows.status = "fetching" => w.rows.status = "fetching"
    /\ \A r \in RequestType : r.of = "rows" => (r \in v.requests <=> r \in w.requests)

LEMMA CalmTrans ==
    ASSUME NEW w, NEW v, NEW u, Calm(w, v), Calm(v, u) PROVE Calm(w, u)
  BY DEF Calm

LEMMA SameRowsTrans ==
    ASSUME NEW w, NEW v, NEW u, Calm(v, u), SameRows(w, v), SameRows(v, u) PROVE SameRows(w, u)
  BY DEF Calm, SameRows

LEMMA CalmRefl == ASSUME NEW w PROVE Calm(w, w) /\ SameRows(w, w)
  BY DEF Calm, SameRows

LEMMA CalmServes == ASSUME NEW w, NEW v, Serves(w), Calm(w, v) PROVE Serves(v)
<1>1. "schema" \in v.waiting => v.schema.status \notin Final
  BY DEF Serves, Calm
<1>2. "geometry" \in v.waiting => v.geometry.status \notin Final /\ Asked(v.requests, "geometry")
  BY DEF Serves, Calm
<1>3. "rows" \in v.waiting => v.rows.status # "fetched"
  BY DEF Serves, Calm
<1> QED
  BY <1>1, <1>2, <1>3 DEF Serves

LEMMA CalmRows ==
    ASSUME NEW w, NEW v, IsWorld(w), IsWorld(v), RowsInv(w), Calm(w, v), SameRows(w, v)
    PROVE  RowsInv(v)
<1>1. \A r \in v.requests \cup w.requests : r \in RequestType
  BY DEF IsWorld, World
<1>2. OneRows(v.requests)
  BY <1>1 DEF RowsInv, OneRows, SameRows
<1>3. RowsAsked(w) => RowsAsked(v)
  BY <1>1 DEF RowsAsked, SameRows
<1>4. UpToDate(v)
  BY <1>3 DEF RowsInv, UpToDate, Calm, SameRows
<1>5. v.rows.status = "fetching" => RowsAsked(v)
  BY <1>3 DEF RowsInv, SameRows
<1> QED
  BY <1>2, <1>4, <1>5 DEF RowsInv

---------------------------------------------------------------------------------
(* The calm handlers. *)

LEMMA SchemaStatusCalm ==
    ASSUME NEW w, IsWorld(w), NEW status \in Statuses
    PROVE  Calm(w, SchemaStatus(w, status)) /\ SameRows(w, SchemaStatus(w, status))
<1> DEFINE v == SchemaStatus(w, status)
<1>1. CASE w.schema.status = status
  BY <1>1, CalmRefl DEF SchemaStatus
<1>2. CASE w.schema.status # status
  <2>1. /\ v.due = {"refetch", "rows"}
        /\ v.waiting = (IF status \in Final THEN w.waiting \ {"schema"} ELSE w.waiting)
    BY <1>2 DEF SchemaStatus, IsWorld, World
  <2>2. /\ v.schema.status = status /\ v.schema.query = w.schema.query
        /\ v.geometry = w.geometry /\ v.rows = w.rows /\ v.requests = w.requests
    BY SchemaStatusLeaves
  <2>3. w.due \subseteq v.due
    BY <2>1 DEF IsWorld, World
  <2> HIDE DEF v
  <2>4. Calm(w, v) /\ SameRows(w, v)
    BY <2>1, <2>2, <2>3 DEF Calm, SameRows
  <2> QED
    BY <2>4 DEF v
<1> QED
  BY <1>1, <1>2

LEMMA GeometryStatusCalm ==
    ASSUME NEW w, IsWorld(w), NEW status \in Statuses
    PROVE  Calm(w, GeometryStatus(w, status)) /\ SameRows(w, GeometryStatus(w, status))
<1> DEFINE v == GeometryStatus(w, status)
<1>1. /\ v.due = w.due
      /\ v.waiting = (IF status \in Final /\ w.geometry.status # status
                      THEN w.waiting \ {"geometry"} ELSE w.waiting)
  BY DEF GeometryStatus, IsWorld, World
<1>2. /\ v.geometry.status = status
      /\ v.schema = w.schema /\ v.rows = w.rows /\ v.requests = w.requests
  BY GeometryStatusLeaves
<1> HIDE DEF v
<1>3. Calm(w, v) /\ SameRows(w, v)
  BY <1>1, <1>2 DEF Calm, SameRows
<1> QED
  BY <1>3 DEF v

LEMMA RowsStatusCalm ==
    ASSUME NEW w, IsWorld(w), NEW status \in {"errored", "unavailable"}
    PROVE  Calm(w, RowsStatus(w, status)) /\ SameRows(w, RowsStatus(w, status))
<1> DEFINE v == RowsStatus(w, status)
<1>1. v.due = w.due
  BY DEF RowsStatus, IsWorld, World
<1>2. /\ v.waiting \subseteq w.waiting /\ v.rows.status = status
      /\ v.schema = w.schema /\ v.geometry = w.geometry /\ v.requests = w.requests
  BY RowsStatusLeaves DEF Statuses
<1> HIDE DEF v
<1>3. Calm(w, v) /\ SameRows(w, v)
  BY <1>1, <1>2 DEF Calm, SameRows
<1> QED
  BY <1>3 DEF v

LEMMA EmptyRowsCalm ==
    ASSUME NEW w, IsWorld(w)
    PROVE  Calm(w, EmptyRows(w)) /\ SameRows(w, EmptyRows(w))
<1> DEFINE v == EmptyRows(w)
<1>1. v.due = w.due
  BY DEF EmptyRows, IsWorld, World
<1>2. /\ v.waiting = w.waiting /\ v.rows.status = "unfetched"
      /\ v.schema = w.schema /\ v.geometry = w.geometry /\ v.requests = w.requests
  BY EmptyRowsLeaves
<1> HIDE DEF v
<1>3. Calm(w, v) /\ SameRows(w, v)
  BY <1>1, <1>2 DEF Calm, SameRows
<1> QED
  BY <1>3 DEF v

LEMMA FetchSchemaCalm ==
    ASSUME NEW w, IsWorld(w), OneSchema(w.requests)
    PROVE  Calm(w, FetchSchema(w)) /\ SameRows(w, FetchSchema(w))
<1> DEFINE s == SchemaStatus(w, "fetching")
           v == FetchSchema(w)
<1>1. IsWorld(s) /\ Calm(w, s)
  BY SchemaStatusLeaves, SchemaStatusCalm DEF Statuses
<1>2. v.due = s.due /\ v.waiting = s.waiting
  <2> HIDE DEF s
  <2>1. FetchSchema(w)
          = [s EXCEPT !.requests = Sent(Aborted(@, "schema"), Request("schema", w.schema.query))]
    BY DEF FetchSchema, s
  <2> QED
    BY <1>1, <2>1 DEF IsWorld, World
<1>3. PICK n \in RequestType :
         n.of = "schema" /\ v.requests = {r \in w.requests : r.of # "schema"} \cup {n}
  BY FetchSchemaLeaves
<1>4. /\ v.schema.status = "fetching" /\ v.schema.query = w.schema.query
      /\ v.geometry = w.geometry /\ v.rows = w.rows
  BY FetchSchemaLeaves
<1> HIDE DEF v, s
<1>5. \A r \in RequestType : r.of # "schema" => (r \in v.requests <=> r \in w.requests)
  BY <1>3
<1>6. Asked(w.requests, "geometry") => Asked(v.requests, "geometry")
  BY <1>3 DEF Asked
<1>7. Calm(w, v)
  BY <1>1, <1>2, <1>4, <1>6 DEF Calm, Final
<1>8. SameRows(w, v)
  BY <1>4, <1>5 DEF SameRows
<1> QED
  BY <1>7, <1>8 DEF v

LEMMA FetchGeometryCalm ==
    ASSUME NEW w, IsWorld(w), NEW saves \in BOOLEAN
    PROVE  Calm(w, FetchGeometry(w, saves)) /\ SameRows(w, FetchGeometry(w, saves))
<1> DEFINE s == GeometryStatus(w, "fetching")
           q == [Request("geometry", w.geometry.query) EXCEPT !.saves = saves]
           v == FetchGeometry(w, saves)
<1>1. IsWorld(s) /\ Calm(w, s)
  BY GeometryStatusLeaves, GeometryStatusCalm DEF Statuses
<1>2. v.due = s.due /\ v.waiting = s.waiting
  <2>1. FetchGeometry(w, saves) = [s EXCEPT !.requests = Sent(Aborted(@, "geometry"), q)]
    BY DEF FetchGeometry
  <2> HIDE DEF s, q
  <2> QED
    BY <1>1, <2>1 DEF IsWorld, World
<1>3. PICK n \in RequestType :
         n.of = "geometry" /\ v.requests = Aborted(w.requests, "geometry") \cup {n}
  BY FetchGeometryLeaves
<1>4. v.geometry.status = "fetching" /\ v.schema = w.schema /\ v.rows = w.rows
  BY FetchGeometryLeaves
<1> HIDE DEF v, s
<1>5. \A r \in RequestType : r.of # "geometry" => (r \in v.requests <=> r \in w.requests)
  BY <1>3 DEF Aborted, Known
<1>6. Asked(v.requests, "geometry")
  BY <1>3 DEF Asked
<1>7. Calm(w, v)
  BY <1>1, <1>2, <1>4, <1>6 DEF Calm, Final
<1>8. SameRows(w, v)
  BY <1>4, <1>5 DEF SameRows
<1> QED
  BY <1>7, <1>8 DEF v

LEMMA SetErrorCalm ==
    ASSUME NEW w, IsWorld(w)
    PROVE  Calm(w, SetError(w)) /\ SameRows(w, SetError(w))
<1>1. CASE w.schema.errors = "own"
  BY <1>1, CalmRefl DEF SetError
<1>2. CASE w.schema.errors # "own"
  <2> DEFINE repeated == Repeated(w.schema.repeated)
             noted == [w EXCEPT !.schema.errors = "rows", !.schema.repeated = repeated]
             v == SchemaStatus(noted, StatusOfError(repeated))
  <2>1. w.schema.repeated \in 0..MaxRepeatedErrors
    BY DEF IsWorld, World, SchemaType
  <2>2. repeated \in 0..MaxRepeatedErrors
    BY <2>1, ErrorCounts
  <2>3. SetError(w) = v
    BY <1>2 DEF SetError
  <2> HIDE DEF repeated
  <2>4. /\ IsWorld(noted) /\ noted.waiting = w.waiting /\ noted.due = w.due
        /\ noted.schema.query = w.schema.query /\ noted.schema.status = w.schema.status
        /\ noted.geometry = w.geometry /\ noted.rows = w.rows /\ noted.requests = w.requests
    BY <2>2 DEF IsWorld, World, SchemaType
  <2> HIDE DEF noted
  <2>5. Calm(w, noted) /\ SameRows(w, noted)
    BY <2>4 DEF Calm, SameRows
  <2>6. Calm(noted, v) /\ SameRows(noted, v)
    BY <2>2, <2>4, ErrorCounts, SchemaStatusCalm
  <2> HIDE DEF v
  <2> QED
    BY <2>3, <2>5, <2>6, CalmTrans, SameRowsTrans
<1> QED
  BY <1>1, <1>2

LEMMA RowsErrorCalm ==
    ASSUME NEW w, IsWorld(w), NEW r
    PROVE  Calm(w, RowsError(w, r)) /\ SameRows(w, RowsError(w, r))
<1> DEFINE repeated == IF r.previous = "unavailable" THEN Repeated(w.rows.repeated)
                                                     ELSE w.rows.repeated
           counted == [w EXCEPT !.rows.repeated = repeated]
           told == SetError(counted)
           v == RowsStatus(told, StatusOfError(repeated))
<1>1. RowsError(w, r) = v
  BY DEF RowsError
<1>2. w.rows.repeated \in 0..MaxRepeatedErrors
  BY DEF IsWorld, World, RowsType
<1>3. repeated \in 0..MaxRepeatedErrors
  BY <1>2, ErrorCounts
<1> HIDE DEF repeated
<1>4. /\ IsWorld(counted) /\ counted.waiting = w.waiting /\ counted.due = w.due
      /\ counted.schema = w.schema /\ counted.geometry = w.geometry
      /\ counted.rows.status = w.rows.status /\ counted.rows.of = w.rows.of
      /\ counted.requests = w.requests
  BY <1>3 DEF IsWorld, World, RowsType
<1> HIDE DEF counted
<1>5. Calm(w, counted) /\ SameRows(w, counted)
  BY <1>4 DEF Calm, SameRows
<1>6. IsWorld(told) /\ Calm(counted, told) /\ SameRows(counted, told)
  BY <1>4, SetErrorLeaves, SetErrorCalm DEF RowsOnly
<1> HIDE DEF told
<1>7. Calm(told, v) /\ SameRows(told, v)
  BY <1>3, <1>6, ErrorCounts, RowsStatusCalm
<1> HIDE DEF v
<1>8. Calm(w, told) /\ SameRows(w, told)
  BY <1>5, <1>6, CalmTrans, SameRowsTrans
<1> QED
  BY <1>1, <1>7, <1>8, CalmTrans, SameRowsTrans

LEMMA ClearErrorsCalm ==
    ASSUME NEW w, IsWorld(w), OneSchema(w.requests)
    PROVE  /\ IsWorld(ClearErrors(w))
           /\ Calm(w, ClearErrors(w)) /\ SameRows(w, ClearErrors(w))
<1> DEFINE cleared == [w EXCEPT !.schema.errors = "empty"]
<1>1. /\ IsWorld(cleared) /\ cleared.waiting = w.waiting /\ cleared.due = w.due
      /\ cleared.schema.query = w.schema.query /\ cleared.schema.status = w.schema.status
      /\ cleared.geometry = w.geometry /\ cleared.rows = w.rows
      /\ cleared.requests = w.requests
  BY DEF IsWorld, World, SchemaType
<1>2. \/ ClearErrors(w) = w
      \/ ClearErrors(w) = cleared
      \/ ClearErrors(w) = FetchSchema(cleared)
  BY DEF ClearErrors
<1> HIDE DEF cleared
<1>3. Calm(w, cleared) /\ SameRows(w, cleared)
  BY <1>1 DEF Calm, SameRows
<1>4. /\ IsWorld(FetchSchema(cleared))
      /\ Calm(cleared, FetchSchema(cleared)) /\ SameRows(cleared, FetchSchema(cleared))
  BY <1>1, FetchSchemaLeaves, FetchSchemaCalm
<1> QED
  BY <1>1, <1>2, <1>3, <1>4, CalmTrans, SameRowsTrans, CalmRefl

LEMMA SetGeometryQueryCalm ==
    ASSUME NEW w, Good(w), NEW query \in Queries
    PROVE  Calm(w, SetGeometryQuery(w, query)) /\ SameRows(w, SetGeometryQuery(w, query))
<1> DEFINE changed == [w EXCEPT !.geometry.query = query]
           stale == [changed EXCEPT !.geometry.status = "unfetched"]
           again == FetchGeometry(changed, FALSE)
<1>1. /\ IsWorld(changed) /\ changed.waiting = w.waiting /\ changed.due = w.due
      /\ changed.geometry.status = w.geometry.status
      /\ changed.schema = w.schema /\ changed.rows = w.rows
      /\ changed.requests = w.requests
  BY DEF Good, Core, IsWorld, World, GeometryType
<1>2. \/ SetGeometryQuery(w, query) = w
      \/ SetGeometryQuery(w, query) = again
      \/ SetGeometryQuery(w, query) = stale
  BY DEF SetGeometryQuery
<1> HIDE DEF changed
<1>3. /\ stale.waiting = changed.waiting /\ stale.due = changed.due
      /\ stale.geometry.status = "unfetched"
      /\ stale.schema = changed.schema /\ stale.rows = changed.rows
      /\ stale.requests = changed.requests
  BY <1>1 DEF IsWorld, World, GeometryType
<1> HIDE DEF stale
<1>4. Calm(w, changed) /\ SameRows(w, changed)
  BY <1>1 DEF Calm, SameRows
<1>5. Calm(w, stale) /\ SameRows(w, stale)
  BY <1>1, <1>3 DEF Calm, SameRows, Final
<1>6. Calm(changed, again) /\ SameRows(changed, again)
  BY <1>1, FetchGeometryCalm
<1> HIDE DEF again
<1>7. Calm(w, again) /\ SameRows(w, again)
  BY <1>4, <1>6, CalmTrans, SameRowsTrans
<1> QED
  BY <1>2, <1>5, <1>7, CalmRefl

---------------------------------------------------------------------------------
(* The other handlers. *)

\* What every event restores.
Sealed(w) == Serves(w) /\ RowsInv(w)

LEMMA CalmSealed ==
    ASSUME NEW w, NEW v, IsWorld(w), IsWorld(v), Sealed(w), Calm(w, v), SameRows(w, v)
    PROVE  Sealed(v)
  BY CalmServes, CalmRows DEF Sealed

\* The request of the earlier rows, if there is one, is aborted: the new one is alone.
LEMMA FetchRowsAlone ==
    ASSUME NEW w, IsWorld(w), Serves(w), OneRows(w.requests), w.rows.status # "fetching"
    PROVE  Sealed(FetchRows(w)) /\ FetchRows(w).rows.status # "fetched"
<1> DEFINE fetching == [w EXCEPT !.rows.status = "fetching"]
           old == CHOOSE r \in Known(w.requests, "rows") : TRUE
           without == [fetching EXCEPT !.requests = Ended(@, old)]
           aborting == IF Known(w.requests, "rows") = {} THEN fetching
                       ELSE RowsError(without, old)
           q == [Request("rows", w.schema.query) EXCEPT !.previous = w.rows.status]
           v == [aborting EXCEPT !.requests = Sent(@, q)]
<1>1. FetchRows(w) = v
  BY DEF FetchRows
<1>2. q \in QuestionType /\ q.of = "rows" /\ q.query = w.schema.query /\ q.xhr = TRUE
  BY DEF Request, QuestionType, IsWorld, World, SchemaType, RowsType, Kinds, Statuses
<1>3. /\ IsWorld(fetching) /\ fetching.requests = w.requests
      /\ fetching.waiting = w.waiting /\ fetching.due = w.due
      /\ fetching.schema = w.schema /\ fetching.geometry = w.geometry
      /\ fetching.rows.status = "fetching"
  BY DEF IsWorld, World, RowsType, Statuses
<1>4. Calm(w, fetching)
  BY <1>3 DEF Calm
<1> HIDE DEF fetching, q
<1>5. /\ IsWorld(aborting) /\ Calm(w, aborting)
      /\ aborting.schema.query = w.schema.query
      /\ aborting.rows.status \in {"fetching", "errored", "unavailable"}
      /\ \A r \in aborting.requests : r.of # "rows"
  <2>1. CASE Known(w.requests, "rows") = {}
    <3>1. \A r \in w.requests : r.of # "rows"
      BY <2>1 DEF OneRows, Known
    <3> QED
      BY <1>3, <1>4, <2>1, <3>1
  <2>2. CASE Known(w.requests, "rows") # {}
    <3>1. old \in w.requests /\ old.of = "rows"
      BY <2>2 DEF Known
    <3> HIDE DEF old
    <3>2. old \in RequestType
      BY <3>1 DEF IsWorld, World
    <3> DEFINE left == Ended(w.requests, old)
    <3>3. /\ left \in SUBSET RequestType /\ IsFiniteSet(left)
          /\ \A x \in left : \E y \in w.requests \ {old} : y.of = x.of
          /\ \A y \in w.requests : y.of # old.of => y \in left
      BY <3>2, EndedKeeps DEF IsWorld, World
    <3>4. without = [fetching EXCEPT !.requests = left]
      BY <1>3
    <3> HIDE DEF left, without
    <3>5. /\ IsWorld(without) /\ without.requests = left
          /\ without.waiting = fetching.waiting /\ without.due = fetching.due
          /\ without.schema = fetching.schema /\ without.geometry = fetching.geometry
          /\ without.rows = fetching.rows
      BY <1>3, <3>3, <3>4 DEF IsWorld, World
    <3>6. Asked(w.requests, "geometry") => Asked(left, "geometry")
      BY <3>1, <3>3 DEF Asked
    <3>7. Calm(w, without)
      BY <1>3, <3>5, <3>6 DEF Calm
    <3>8. \A x \in left : x.of # "rows"
      BY <3>1, <3>3 DEF OneRows
    <3> DEFINE u == RowsError(without, old)
    <3>9. /\ RowsOnly(without, u) /\ u.requests = left
          /\ u.rows.status \in {"errored", "unavailable"}
          /\ Calm(without, u)
      BY <3>5, RowsErrorLeaves, RowsErrorCalm
    <3>10. aborting = u
      BY <2>2
    <3> HIDE DEF u, aborting
    <3>11. Calm(w, u)
      BY <3>7, <3>9, CalmTrans
    <3> QED
      BY <1>3, <3>5, <3>8, <3>9, <3>10, <3>11 DEF RowsOnly
  <2> QED
    BY <2>1, <2>2
<1> HIDE DEF aborting
<1>6. aborting.requests \in SUBSET RequestType /\ IsFiniteSet(aborting.requests)
  BY <1>5 DEF IsWorld, World
<1>7. PICK n \in RequestType :
         /\ Sent(aborting.requests, q) = aborting.requests \cup {n}
         /\ IsFiniteSet(aborting.requests \cup {n})
         /\ n.of = q.of /\ n.query = q.query /\ n.xhr = q.xhr
  BY <1>2, <1>6, SentAdds
<1> DEFINE u == [aborting EXCEPT !.requests = aborting.requests \cup {n}]
<1>8. v = u
  BY <1>7
<1>9. /\ u.requests = aborting.requests \cup {n}
      /\ u.waiting = aborting.waiting /\ u.due = aborting.due
      /\ u.schema = aborting.schema /\ u.geometry = aborting.geometry
      /\ u.rows = aborting.rows
  BY <1>5 DEF IsWorld, World
<1> HIDE DEF u, v
<1>10. Asked(aborting.requests, "geometry") => Asked(u.requests, "geometry")
  BY <1>9 DEF Asked
<1>11. Calm(aborting, u)
  BY <1>9, <1>10 DEF Calm
<1>12. Calm(w, u)
  BY <1>5, <1>11, CalmTrans
<1>13. OneRows(u.requests) /\ RowsAsked(u) /\ u.rows.status # "fetched"
  BY <1>2, <1>5, <1>7, <1>9 DEF OneRows, RowsAsked
<1>14. RowsInv(u)
  BY <1>13 DEF RowsInv, UpToDate
<1> QED
  BY <1>1, <1>8, <1>12, <1>13, <1>14, CalmServes DEF Sealed

LEMMA FetchRowsSealed ==
    ASSUME NEW w, IsWorld(w), Sealed(w)
    PROVE  /\ Sealed(FetchRows(w))
           /\ FetchRows(w) = w \/ FetchRows(w).rows.status # "fetched"
<1>1. CASE w.rows.status = "fetching"
  BY <1>1 DEF FetchRows
<1>2. CASE w.rows.status # "fetching"
  BY <1>2, FetchRowsAlone DEF Sealed, RowsInv
<1> QED
  BY <1>1, <1>2

\* The schema of the query that is applied is not fetched: nothing of the rows is promised.
LEMMA SetSchemaQuerySealed ==
    ASSUME NEW w, Good(w), Sealed(w), NEW query \in Queries
    PROVE  Sealed(SetSchemaQuery(w, query))
<1> DEFINE unfetched == SchemaStatus(w, "unfetched")
           asked == [unfetched EXCEPT !.schema.query = query]
           changed == EmptyRows(asked)
           v == [changed EXCEPT !.schema.columns = NoQuery, !.onSync = TRUE,
                                !.due = @ \cup {"refetch"}]
<1>1. SetSchemaQuery(w, query) = (IF query = w.schema.query THEN unfetched ELSE v)
  BY DEF SetSchemaQuery
<1>2. /\ IsWorld(unfetched) /\ Calm(w, unfetched) /\ SameRows(w, unfetched)
      /\ unfetched.schema.status = "unfetched"
  BY SchemaStatusLeaves, SchemaStatusCalm DEF Good, Core, Statuses
<1>3. Sealed(unfetched)
  BY <1>2, CalmSealed DEF Good, Core
<1> HIDE DEF unfetched
<1>4. /\ IsWorld(asked) /\ asked.waiting = unfetched.waiting
      /\ asked.schema.status = "unfetched"
      /\ asked.geometry = unfetched.geometry /\ asked.requests = unfetched.requests
  BY <1>2 DEF IsWorld, World, SchemaType
<1> HIDE DEF asked
<1>5. /\ IsWorld(changed) /\ changed.waiting = asked.waiting
      /\ changed.rows.status = "unfetched" /\ changed.schema = asked.schema
      /\ changed.geometry = asked.geometry /\ changed.requests = asked.requests
  BY <1>4, EmptyRowsLeaves
<1> HIDE DEF changed
<1>6. /\ v.waiting = unfetched.waiting
      /\ v.schema.status = "unfetched" /\ v.rows.status = "unfetched"
      /\ v.geometry = unfetched.geometry /\ v.requests = unfetched.requests
  BY <1>4, <1>5 DEF IsWorld, World, SchemaType
<1> HIDE DEF v
<1>7. RowsInv(v)
  BY <1>3, <1>6 DEF Sealed, RowsInv, UpToDate
<1>8. Serves(v)
  BY <1>3, <1>6 DEF Sealed, Serves, Final
<1> QED
  BY <1>1, <1>3, <1>7, <1>8 DEF Sealed

LEMMA RunQuerySealed ==
    ASSUME NEW w, Good(w), Sealed(w), NEW query \in Queries
    PROVE  Sealed(RunQuery(w, query))
<1> DEFINE located == SetGeometryQuery(w, query)
           set == SetSchemaQuery(located, query)
           fetching == FetchSchema(set)
           again == FetchGeometry(fetching, TRUE)
<1>1. Good(located) /\ Calm(w, located) /\ SameRows(w, located)
  BY SetGeometryQueryKeeps, SetGeometryQueryCalm
<1> HIDE DEF located
<1>2. Sealed(located)
  BY <1>1, CalmSealed DEF Good, Core
<1>3. Core(set) /\ RowsLoad(set) /\ Sealed(set)
  BY <1>1, <1>2, SetSchemaQueryLeaves, SetSchemaQuerySealed
<1> HIDE DEF set
<1>4. Good(fetching) /\ Calm(set, fetching) /\ SameRows(set, fetching)
  BY <1>3, FetchSchemaKeeps, FetchSchemaCalm DEF Core
<1> HIDE DEF fetching
<1>5. Sealed(fetching)
  BY <1>3, <1>4, CalmSealed DEF Good, Core
<1>6. Good(again) /\ Calm(fetching, again) /\ SameRows(fetching, again)
  BY <1>4, FetchGeometryKeeps, FetchGeometryCalm DEF Good, Core
<1>7. RunQuery(w, query) = again
  BY DEF RunQuery, located, set, fetching
<1> HIDE DEF again
<1>8. Sealed(again)
  BY <1>4, <1>5, <1>6, CalmSealed DEF Good, Core
<1> QED
  BY <1>7, <1>8

LEMMA ResetSealed ==
    ASSUME NEW w, Good(w), Sealed(w) PROVE Sealed(ResetDueToAlteredData(w))
<1> DEFINE unfetched == SchemaStatus(w, "unfetched")
           v == FetchSchema(unfetched)
<1>1. Good(unfetched) /\ Calm(w, unfetched) /\ SameRows(w, unfetched)
  BY SchemaStatusKeeps, SchemaStatusCalm DEF Statuses, Good, Core
<1>2. ResetDueToAlteredData(w) = v
  BY DEF ResetDueToAlteredData
<1> HIDE DEF unfetched
<1>3. Good(v) /\ Calm(unfetched, v) /\ SameRows(unfetched, v)
  BY <1>1, FetchSchemaKeeps, FetchSchemaCalm DEF Good, Core
<1> HIDE DEF v
<1>4. Sealed(unfetched)
  BY <1>1, CalmSealed DEF Good, Core
<1> QED
  BY <1>1, <1>2, <1>3, <1>4, CalmSealed DEF Good, Core

LEMMA ColumnsResetSealed ==
    ASSUME NEW w, IsWorld(w), Sealed(w), NEW query \in Queries
    PROVE  Sealed(ColumnsReset(w, query))
<1> DEFINE set == [w EXCEPT !.schema.columns = query]
           reset == EmptyRows(set)
<1>1. ColumnsReset(w, query)
        = (IF w.schema.status = "fetched" THEN FetchRows(reset) ELSE reset)
  BY DEF ColumnsReset
<1>2. /\ IsWorld(set) /\ set.waiting = w.waiting /\ set.due = w.due
      /\ set.schema.status = w.schema.status /\ set.schema.query = w.schema.query
      /\ set.geometry = w.geometry /\ set.rows = w.rows /\ set.requests = w.requests
  BY DEF IsWorld, World, SchemaType
<1> HIDE DEF set
<1>3. Calm(w, set) /\ SameRows(w, set)
  BY <1>2 DEF Calm, SameRows
<1>4. Sealed(set)
  BY <1>2, <1>3, CalmSealed
<1>5. IsWorld(reset) /\ Calm(set, reset) /\ SameRows(set, reset)
  BY <1>2, EmptyRowsLeaves, EmptyRowsCalm
<1> HIDE DEF reset
<1>6. Sealed(reset)
  BY <1>2, <1>4, <1>5, CalmSealed
<1>7. Sealed(FetchRows(reset))
  BY <1>5, <1>6, FetchRowsSealed
<1> QED
  BY <1>1, <1>6, <1>7

\* Who joins joins something that is fetching, or that is about to be fetched.
LEMMA FetchModelSealed ==
    ASSUME NEW w, IsWorld(w), Sealed(w), NEW of \in Kinds, of # "rows" => Good(w)
    PROVE  Sealed(FetchModel(w, of))
<1> DEFINE fetched == IF ShouldFetch(w, of) THEN Fetch(w, of) ELSE w
           joined == [fetched EXCEPT !.waiting = @ \cup {of}]
           joins == ShouldFetch(w, of) \/ Status(w, of) \notin Final
<1>1. FetchModel(w, of) = (IF joins THEN joined ELSE fetched)
  BY DEF FetchModel
<1>2. /\ IsWorld(fetched) /\ Sealed(fetched)
      /\ joins => /\ of = "schema" => fetched.schema.status \notin Final
                  /\ of = "geometry" => /\ fetched.geometry.status \notin Final
                                        /\ Asked(fetched.requests, "geometry")
                  /\ of = "rows" => fetched.rows.status # "fetched"
  <2>1. CASE ~ShouldFetch(w, of)
    <3>1. fetched = w
      BY <2>1
    <3>2. joins => Status(w, of) \notin Final
      BY <2>1
    <3> HIDE DEF fetched, joins
    <3>3. w.geometry.status \in Statuses
      BY DEF IsWorld, World, GeometryType
    <3>4. of = "geometry" /\ w.geometry.status \notin Final => w.geometry.status = "fetching"
      BY <2>1, <3>3 DEF ShouldFetch, Statuses, Final
    <3>5. of = "geometry" /\ w.geometry.status \notin Final => Asked(w.requests, "geometry")
      BY <3>4 DEF Good, Core, GeometryLoads
    <3> QED
      BY <3>1, <3>2, <3>5 DEF Status, Final
  <2>2. CASE ShouldFetch(w, of) /\ of = "schema"
    <3> DEFINE v == FetchSchema(w)
    <3>1. fetched = v
      BY <2>2 DEF Fetch
    <3>2. /\ IsWorld(v) /\ v.schema.status = "fetching"
          /\ Calm(w, v) /\ SameRows(w, v)
      BY <2>2, FetchSchemaLeaves, FetchSchemaCalm DEF Good, Core
    <3> HIDE DEF v, fetched, joins
    <3>3. Sealed(v)
      BY <3>2, CalmSealed
    <3> QED
      BY <2>2, <3>1, <3>2, <3>3 DEF Final
  <2>3. CASE ShouldFetch(w, of) /\ of = "geometry"
    <3> DEFINE v == FetchGeometry(w, FALSE)
    <3>1. fetched = v
      BY <2>3 DEF Fetch
    <3>2. /\ IsWorld(v) /\ v.geometry.status = "fetching" /\ GeometryLoads(v)
          /\ Calm(w, v) /\ SameRows(w, v)
      BY <2>3, FetchGeometryLeaves, FetchGeometryKeeps, FetchGeometryCalm DEF Good, Core
    <3> HIDE DEF v, fetched, joins
    <3>3. Sealed(v)
      BY <3>2, CalmSealed
    <3> QED
      BY <2>3, <3>1, <3>2, <3>3 DEF Final, GeometryLoads
  <2>4. CASE ShouldFetch(w, of) /\ of = "rows"
    <3> DEFINE v == FetchRows(w)
    <3>1. fetched = v
      BY <2>4 DEF Fetch
    <3>2. w.rows.status # "fetched"
      BY <2>4 DEF ShouldFetch
    <3>3. IsWorld(v) /\ Sealed(v) /\ v.rows.status # "fetched"
      BY <3>2, FetchRowsSealed, FetchRowsLeaves DEF RowsOnly
    <3> HIDE DEF v, fetched, joins
    <3> QED
      BY <2>4, <3>1, <3>3
  <2> QED
    BY <2>1, <2>2, <2>3, <2>4 DEF Kinds
<1> HIDE DEF fetched, joins
<1>3. /\ joined.waiting = fetched.waiting \cup {of} /\ joined.due = fetched.due
      /\ joined.schema = fetched.schema /\ joined.geometry = fetched.geometry
      /\ joined.rows = fetched.rows /\ joined.requests = fetched.requests
  BY <1>2 DEF IsWorld, World
<1> HIDE DEF joined
<1>4. joins => Serves(joined)
  BY <1>2, <1>3 DEF Sealed, Serves
<1>5. RowsInv(joined)
  BY <1>2, <1>3 DEF Sealed, RowsInv, UpToDate, RowsAsked
<1> QED
  BY <1>1, <1>2, <1>4, <1>5 DEF Sealed

LEMMA AfterBothSealed ==
    ASSUME NEW w, IsWorld(w), Sealed(w) PROVE Sealed(AfterBoth(w))
  BY FetchModelSealed DEF AfterBoth, Kinds

---------------------------------------------------------------------------------
(* The events. *)

ServedInv == QueryInv /\ Sealed(Now)

LEMMA BecomeSealed ==
    ASSUME NEW w, Sealed(w), Become(w) PROVE Sealed(Now)'
<1> DEFINE v == [schema |-> w.schema, geometry |-> w.geometry, rows |-> w.rows,
                 requests |-> w.requests, waiting |-> w.waiting, onSync |-> w.onSync,
                 due |-> w.due]
<1>1. Now' = v
  BY DEF Now, Become
<1>2. /\ v.schema = w.schema /\ v.geometry = w.geometry /\ v.rows = w.rows
      /\ v.requests = w.requests /\ v.waiting = w.waiting /\ v.due = w.due
  OBVIOUS
<1> HIDE DEF v
<1>3. RowsInv(v)
  BY <1>2 DEF Sealed, RowsInv, UpToDate, RowsAsked
<1>4. Serves(v)
  BY <1>2 DEF Sealed, Serves
<1>5. Sealed(v)
  BY <1>3, <1>4 DEF Sealed
<1> QED
  BY <1>1, <1>5

LEMMA RunsSealed ==
    ASSUME NEW w, IsWorld(w), Sealed(w), Runs(w) PROVE Sealed(Now)'
  BY AfterBothSealed, BecomeSealed DEF Runs

LEMMA UserSealed == ASSUME ServedInv, User PROVE Sealed(Now)'
<1>1. Good(Now) /\ Sealed(Now)
  BY DEF ServedInv, QueryInv
<1>2. ASSUME NEW query \in Queries, ApplyQuery(query) PROVE Sealed(Now)'
  BY <1>1, <1>2, RunQueryKeeps, RunQuerySealed, RunsSealed DEF ApplyQuery, Good, Core
<1>3. ASSUME AlterData PROVE Sealed(Now)'
  <2> DEFINE cleared == ClearErrors(Now)
             reset == ResetDueToAlteredData(cleared)
             applied == RunQuery(reset, DefaultQuery)
  <2>1. Runs(applied)
    BY <1>3 DEF AlterData
  <2>2. Good(cleared) /\ Calm(Now, cleared) /\ SameRows(Now, cleared)
    BY <1>1, ClearErrorsKeeps, ClearErrorsCalm DEF Good, Core
  <2> HIDE DEF cleared
  <2>3. Sealed(cleared)
    BY <1>1, <2>2, CalmSealed DEF Good, Core
  <2>4. Good(reset) /\ Sealed(reset)
    BY <2>2, <2>3, ResetKeeps, ResetSealed
  <2> HIDE DEF reset
  <2>5. Good(applied) /\ Sealed(applied)
    BY <2>4, RunQueryKeeps, RunQuerySealed, QueryObjectsAssumption
  <2> HIDE DEF applied
  <2> QED
    BY <2>1, <2>5, RunsSealed DEF Good, Core
<1>4. ASSUME ChangeColumns PROVE Sealed(Now)'
  BY <1>1, <1>4, ResetKeeps, ResetSealed, RunsSealed DEF ChangeColumns, Good, Core
<1>5. ASSUME RemoveLastRow PROVE Sealed(Now)'
  <2> DEFINE unknown == GeometryStatus(Now, "unfetched")
             empty == EmptyRows(unknown)
  <2>1. Runs(empty)
    BY <1>5 DEF RemoveLastRow
  <2>2. Good(unknown) /\ Calm(Now, unknown) /\ SameRows(Now, unknown)
    BY <1>1, GeometryStatusKeeps, GeometryStatusCalm DEF Statuses, Good, Core
  <2> HIDE DEF unknown
  <2>3. Sealed(unknown)
    BY <1>1, <2>2, CalmSealed DEF Good, Core
  <2>4. Good(empty) /\ Calm(unknown, empty) /\ SameRows(unknown, empty)
    BY <2>2, EmptyRowsKeeps, EmptyRowsCalm DEF Good, Core
  <2> HIDE DEF empty
  <2>5. Sealed(empty)
    BY <2>2, <2>3, <2>4, CalmSealed DEF Good, Core
  <2> QED
    BY <2>1, <2>4, <2>5, RunsSealed DEF Good, Core
<1>6. ASSUME FetchAllQueryObjects PROVE Sealed(Now)'
  <2> DEFINE first == FetchModel(Now, "schema")
             both == FetchModel(first, "geometry")
             all == FetchModel(both, "rows")
  <2>1. Become(IF both.waiting = {} THEN all ELSE both)
    BY <1>6 DEF FetchAllQueryObjects
  <2>2. Good(first) /\ Sealed(first)
    BY <1>1, FetchModelKeeps, FetchModelSealed DEF Kinds, Good, Core
  <2> HIDE DEF first
  <2>3. Good(both) /\ Sealed(both)
    BY <2>2, FetchModelKeeps, FetchModelSealed DEF Kinds, Good, Core
  <2> HIDE DEF both
  <2>4. Sealed(all)
    BY <2>3, FetchModelSealed DEF Kinds, Good, Core
  <2> HIDE DEF all
  <2> QED
    BY <2>1, <2>3, <2>4, BecomeSealed
<1> QED
  BY <1>2, <1>3, <1>4, <1>5, <1>6 DEF User

\* The rows that are due are fetched, unless they are being fetched, for this query.
LEMMA TimerSealed ==
    ASSUME ServedInv, OnChangeQueryOrStatus \/ FetchRowsData PROVE Sealed(Now)'
<1> DEFINE w(handler) == [Now EXCEPT !.due = @ \ {handler}]
<1>1. Good(Now) /\ Sealed(Now)
  BY DEF ServedInv, QueryInv
<1>2. ASSUME NEW handler
      PROVE  /\ Good(w(handler)) /\ w(handler).due = due \ {handler}
             /\ w(handler).schema = schema /\ w(handler).geometry = geometry
             /\ w(handler).rows = rows /\ w(handler).requests = requests
             /\ w(handler).waiting = waiting
  <2> DEFINE v == w(handler)
  <2>1. /\ IsWorld(v) /\ v.schema = Now.schema /\ v.geometry = Now.geometry
        /\ v.rows = Now.rows /\ v.requests = Now.requests /\ v.waiting = Now.waiting
        /\ v.due = Now.due \ {handler}
    BY <1>1 DEF Good, Core, IsWorld, World
  <2> HIDE DEF v
  <2>2. Good(v)
    BY <1>1, <2>1
    DEF Good, Core, FetchedIsOfQuery, GeometryLoads, ForQuery, SchemaLoads, RowsLoad
  <2> QED
    BY <2>1, <2>2, NowIs DEF v
<1>3. ASSUME OnChangeQueryOrStatus PROVE Sealed(Now)'
  <2> DEFINE v == w("refetch")
             s == IF schema.status = "unfetched" THEN FetchSchema(v) ELSE v
             g == IF geometry.status = "unfetched" THEN FetchGeometry(s, FALSE) ELSE s
  <2>1. Runs(g)
    BY <1>3 DEF OnChangeQueryOrStatus
  <2>2. /\ Good(v) /\ v.due = due \ {"refetch"} /\ v.schema = schema
        /\ v.geometry = geometry /\ v.rows = rows /\ v.requests = requests
        /\ v.waiting = waiting
    BY <1>2
  <2> HIDE DEF v
  <2>3. Serves(v)
    BY <1>1, <2>2, NowIs DEF Sealed, Serves
  <2>4. RowsInv(v)
    BY <1>1, <2>2, NowIs DEF Sealed, RowsInv, UpToDate, RowsAsked
  <2>5. Good(s) /\ Sealed(s)
    <3>1. Sealed(v)
      BY <2>3, <2>4 DEF Sealed
    <3> DEFINE u == FetchSchema(v)
    <3>2. Good(u) /\ Calm(v, u) /\ SameRows(v, u)
      BY <2>2, FetchSchemaKeeps, FetchSchemaCalm DEF Good, Core
    <3> HIDE DEF u
    <3>3. Sealed(u)
      BY <2>2, <3>1, <3>2, CalmSealed DEF Good, Core
    <3> QED
      BY <2>2, <3>1, <3>2, <3>3 DEF u
  <2> HIDE DEF s
  <2>6. Good(g) /\ Sealed(g)
    <3> DEFINE u == FetchGeometry(s, FALSE)
    <3>1. Good(u) /\ Calm(s, u) /\ SameRows(s, u)
      BY <2>5, FetchGeometryKeeps, FetchGeometryCalm DEF Good, Core
    <3> HIDE DEF u
    <3>2. Sealed(u)
      BY <2>5, <3>1, CalmSealed DEF Good, Core
    <3> QED
      BY <2>5, <3>1, <3>2 DEF u
  <2> HIDE DEF g
  <2> QED
    BY <2>1, <2>6, RunsSealed DEF Good, Core
<1>4. ASSUME FetchRowsData PROVE Sealed(Now)'
  <2> DEFINE v == w("rows")
             g == IF schema.status = "fetched" THEN FetchRows(v) ELSE v
  <2>1. Runs(g)
    BY <1>4 DEF FetchRowsData
  <2>2. /\ Good(v) /\ v.due = due \ {"rows"} /\ v.schema = schema
        /\ v.geometry = geometry /\ v.rows = rows /\ v.requests = requests
        /\ v.waiting = waiting
    BY <1>2
  <2> HIDE DEF v
  <2>3. Serves(v)
    BY <1>1, <2>2, NowIs DEF Sealed, Serves
  <2>4. OneRows(v.requests) /\ (v.rows.status = "fetching" => RowsAsked(v))
    BY <1>1, <2>2, NowIs DEF Sealed, RowsInv, RowsAsked
  <2>5. Good(g)
    BY <2>2, FetchRowsKeeps
  <2>6. CASE schema.status # "fetched"
    <3>1. RowsInv(v)
      BY <2>2, <2>4, <2>6 DEF RowsInv, UpToDate
    <3> QED
      BY <2>1, <2>2, <2>3, <2>6, <3>1, RunsSealed DEF Sealed, Good, Core
  <2>7. CASE schema.status = "fetched"
    <3>1. CASE rows.status = "fetching"
      <4>1. RowsInv(v)
        BY <2>2, <2>4, <3>1 DEF RowsInv, UpToDate
      <4>2. FetchRows(v) = v
        BY <2>2, <3>1 DEF FetchRows
      <4> QED
        BY <2>1, <2>2, <2>3, <2>7, <4>1, <4>2, RunsSealed DEF Sealed, Good, Core
    <3>2. CASE rows.status # "fetching"
      <4>1. Sealed(FetchRows(v))
        BY <2>2, <2>3, <2>4, <3>2, FetchRowsAlone DEF Good, Core
      <4> QED
        BY <2>1, <2>5, <2>7, <4>1, RunsSealed DEF Good, Core
    <3> QED
      BY <3>1, <3>2
  <2> QED
    BY <2>6, <2>7
<1> QED
  BY <1>3, <1>4

\* What an answer leaves: only who waits for the geometry may wait for nothing.
LEMMA WithoutSealed ==
    ASSUME ServedInv, NEW r \in requests
    PROVE  LET v == Without(r)
           IN /\ IsWorld(v) /\ RowsInv(v) /\ v.due = due /\ v.waiting = waiting
              /\ v.schema = schema /\ v.geometry = geometry /\ v.rows = rows
              /\ r \in RequestType
              /\ r.of # "geometry" => Serves(v)
              /\ r.of = "rows" => RowsAsked(v)
              /\ r.of = "rows" /\ RowsAsked(Now) => r.query = schema.query
<1> DEFINE left == Ended(requests, r)
           v == Without(r)
<1>1. Good(Now) /\ Serves(Now) /\ RowsInv(Now)
  BY DEF ServedInv, QueryInv, Sealed
<1>2. requests \in SUBSET RequestType /\ IsFiniteSet(requests) /\ r \in RequestType
  BY <1>1, NowIs DEF Good, Core, IsWorld, World
<1>3. /\ left \in SUBSET RequestType /\ IsFiniteSet(left)
      /\ \A x \in left : x.of # r.of => x \in requests
      /\ \A x \in left : \E y \in requests \ {r} : y.of = x.of /\ y.query = x.query
      /\ \A y \in requests : y.of # r.of => y \in left
  BY <1>2, EndedKeeps
<1>4. v = [Now EXCEPT !.requests = left]
  BY NowIs DEF Without
<1> HIDE DEF left, v
<1>5. /\ IsWorld(v) /\ v.requests = left /\ v.waiting = waiting /\ v.due = due
      /\ v.schema = schema /\ v.geometry = geometry /\ v.rows = rows
  BY <1>1, <1>3, <1>4, NowIs DEF Good, Core, IsWorld, World
<1>6. OneRows(requests)
  BY <1>1, NowIs DEF RowsInv
<1>7. OneRows(left)
  <2>1. CASE r.of = "rows"
    BY <1>3, <1>6, <2>1 DEF OneRows
  <2>2. CASE r.of # "rows"
    BY <1>3, <1>6, <2>2 DEF OneRows
  <2> QED
    BY <2>1, <2>2
<1>8. r.of = "rows" => RowsAsked(v)
  BY <1>3, <1>5, <1>6 DEF OneRows, RowsAsked
<1>9. RowsAsked(Now) => RowsAsked(v)
  BY <1>3, <1>5, NowIs DEF RowsAsked
<1>10. RowsInv(v)
  BY <1>1, <1>5, <1>7, <1>9, NowIs DEF RowsInv, UpToDate
<1>11. r.of = "rows" /\ RowsAsked(Now) => r.query = schema.query
  BY NowIs DEF RowsAsked
<1>12. r.of # "geometry" => Serves(v)
  <2>1. r.of # "geometry" /\ Asked(requests, "geometry") => Asked(left, "geometry")
    BY <1>3 DEF Asked
  <2> QED
    BY <1>1, <1>5, <2>1, NowIs DEF Serves
<1> QED
  BY <1>2, <1>5, <1>8, <1>10, <1>11, <1>12 DEF v

LEMMA SchemaAnsweredSealed ==
    ASSUME ServedInv, NEW r \in requests, r.of = "schema", SchemaAnswered(r)
    PROVE  Sealed(Now)'
<1> DEFINE left == Without(r)
           parsed == ColumnsReset(left, r.query)
           ready == SchemaStatus(parsed, "fetched")
           fetched == [ready EXCEPT !.schema.repeated = 0, !.onSync = FALSE]
           g == IF onSync THEN FetchRows(fetched) ELSE fetched
<1>0. 0 \in 0..MaxRepeatedErrors
  BY DEF MaxRepeatedErrors
<1>1. Runs(g)
  BY DEF SchemaAnswered
<1>2. /\ Sealed(left) /\ r.query \in Queries /\ Core(left) /\ ForQuery(left)
      /\ RowsLoad(left) /\ r.query = left.schema.query
  BY WithoutLeaves, WithoutSealed DEF ServedInv, Sealed, RequestType, Core
<1> HIDE DEF left
<1>3. IsWorld(parsed) /\ Sealed(parsed)
  BY <1>2, ColumnsResetLeaves, ColumnsResetSealed DEF Core
<1> HIDE DEF parsed
<1>4. IsWorld(ready) /\ Calm(parsed, ready) /\ SameRows(parsed, ready)
  BY <1>3, SchemaStatusLeaves, SchemaStatusCalm DEF Statuses
<1> HIDE DEF ready
<1>5. Sealed(ready)
  BY <1>3, <1>4, CalmSealed
<1>6. /\ IsWorld(fetched) /\ fetched.waiting = ready.waiting /\ fetched.due = ready.due
      /\ fetched.schema.status = ready.schema.status
      /\ fetched.schema.query = ready.schema.query
      /\ fetched.geometry = ready.geometry /\ fetched.rows = ready.rows
      /\ fetched.requests = ready.requests
  BY <1>0, <1>4 DEF IsWorld, World, SchemaType
<1> HIDE DEF fetched
<1>7. Calm(ready, fetched) /\ SameRows(ready, fetched)
  BY <1>6 DEF Calm, SameRows
<1>8. Sealed(fetched)
  BY <1>4, <1>5, <1>6, <1>7, CalmSealed
<1>9. IsWorld(FetchRows(fetched)) /\ Sealed(FetchRows(fetched))
  BY <1>6, <1>8, FetchRowsSealed, FetchRowsLeaves DEF RowsOnly
<1>10. IsWorld(g) /\ Sealed(g)
  BY <1>6, <1>8, <1>9
<1> HIDE DEF g
<1> QED
  BY <1>1, <1>10, RunsSealed

LEMMA SchemaFailedSealed ==
    ASSUME ServedInv, NEW r \in requests, r.of = "schema", SchemaFailed(r)
    PROVE  Sealed(Now)'
<1> DEFINE repeated == Repeated(schema.repeated)
<1>1. PICK errors \in {"own", "empty"} :
         Runs(SchemaStatus([Without(r) EXCEPT !.schema.errors = errors,
                                              !.schema.repeated = repeated],
                           StatusOfError(repeated)))
  BY DEF SchemaFailed
<1> DEFINE left == Without(r)
           noted == [left EXCEPT !.schema.errors = errors, !.schema.repeated = repeated]
           g == SchemaStatus(noted, StatusOfError(repeated))
<1>2. IsWorld(left) /\ Sealed(left) /\ left.schema = schema
  BY WithoutSealed DEF Sealed
<1>3. Runs(g)
  BY <1>1
<1> HIDE DEF left
<1>4. repeated \in 0..MaxRepeatedErrors /\ StatusOfError(repeated) \in Statuses
  <2>1. schema.repeated \in 0..MaxRepeatedErrors
    BY <1>2 DEF IsWorld, World, SchemaType
  <2> QED
    BY <2>1, ErrorCounts
<1> HIDE DEF repeated
<1>5. /\ IsWorld(noted) /\ noted.waiting = left.waiting /\ noted.due = left.due
      /\ noted.schema.query = left.schema.query /\ noted.schema.status = left.schema.status
      /\ noted.geometry = left.geometry /\ noted.rows = left.rows
      /\ noted.requests = left.requests
  BY <1>2, <1>4 DEF IsWorld, World, SchemaType
<1> HIDE DEF noted
<1>6. Calm(left, noted) /\ SameRows(left, noted)
  BY <1>5 DEF Calm, SameRows
<1>7. Sealed(noted)
  BY <1>2, <1>5, <1>6, CalmSealed
<1>8. IsWorld(g) /\ Calm(noted, g) /\ SameRows(noted, g)
  BY <1>4, <1>5, SchemaStatusLeaves, SchemaStatusCalm
<1> HIDE DEF g
<1>9. Sealed(g)
  BY <1>5, <1>7, <1>8, CalmSealed
<1> QED
  BY <1>3, <1>8, <1>9, RunsSealed

\* A final status of the geometry serves who waits for it.
LEMMA GeometryEnds ==
    ASSUME ServedInv, NEW r \in requests, r.of = "geometry",
           NEW status \in Statuses \cap Final
    PROVE  LET v == GeometryStatus(Without(r), status) IN IsWorld(v) /\ Sealed(v)
<1> DEFINE left == Without(r)
           v == GeometryStatus(left, status)
<1>1. /\ IsWorld(left) /\ RowsInv(left) /\ left.waiting = waiting
      /\ left.schema = schema /\ left.geometry = geometry /\ left.rows = rows
  BY WithoutSealed
<1>2. Serves(Now)
  BY DEF ServedInv, Sealed
<1>3. v.waiting = (IF left.geometry.status # status THEN left.waiting \ {"geometry"}
                                                    ELSE left.waiting)
  <2> HIDE DEF left
  <2> QED
    BY <1>1 DEF GeometryStatus, IsWorld, World
<1> HIDE DEF left
<1>4. /\ IsWorld(v) /\ Calm(left, v) /\ SameRows(left, v)
      /\ v.schema = schema /\ v.rows = rows
  BY <1>1, GeometryStatusLeaves, GeometryStatusCalm
<1> HIDE DEF v
<1>5. RowsInv(v)
  BY <1>1, <1>4, CalmRows
<1>6. "geometry" \notin v.waiting
  BY <1>1, <1>2, <1>3, NowIs DEF Serves
<1>7. Serves(v)
  BY <1>1, <1>2, <1>4, <1>6, NowIs DEF Serves, Calm
<1> QED
  BY <1>4, <1>5, <1>7 DEF Sealed, v, left

LEMMA GeometryNoted ==
    ASSUME NEW w, IsWorld(w), Sealed(w), NEW of \in Queries \cup {NoQuery},
           NEW repeated \in 0..MaxRepeatedErrors
    PROVE  LET v == [w EXCEPT !.geometry.of = of, !.geometry.repeated = repeated]
           IN IsWorld(v) /\ Sealed(v)
<1> DEFINE v == [w EXCEPT !.geometry.of = of, !.geometry.repeated = repeated]
<1>1. /\ IsWorld(v) /\ v.waiting = w.waiting /\ v.due = w.due /\ v.schema = w.schema
      /\ v.geometry.status = w.geometry.status /\ v.rows = w.rows /\ v.requests = w.requests
  BY DEF IsWorld, World, GeometryType
<1> HIDE DEF v
<1>2. Calm(w, v) /\ SameRows(w, v)
  BY <1>1 DEF Calm, SameRows
<1>3. Sealed(v)
  BY <1>1, <1>2, CalmSealed
<1> QED
  BY <1>1, <1>3 DEF v

LEMMA GeometryAnsweredSealed ==
    ASSUME ServedInv, NEW r \in requests, r.of = "geometry", GeometryAnswered(r)
    PROVE  Sealed(Now)'
<1> DEFINE left == Without(r)
           ready == GeometryStatus(left, "fetched")
           fetched == [ready EXCEPT !.geometry.of = r.query, !.geometry.repeated = 0]
           g == IF r.saves THEN ClearErrors(fetched) ELSE fetched
<1>0. 0 \in 0..MaxRepeatedErrors
  BY DEF MaxRepeatedErrors
<1>1. Runs(g)
  BY DEF GeometryAnswered
<1>2. IsWorld(left) /\ OneSchema(left.requests) /\ r.query \in Queries
  BY WithoutLeaves DEF ServedInv, RequestType
<1>3. IsWorld(ready) /\ Sealed(ready)
  BY GeometryEnds DEF Statuses, Final
<1>4. ready.requests = left.requests
  BY <1>2, GeometryStatusLeaves DEF Statuses
<1> HIDE DEF left, ready
<1>5. IsWorld(fetched) /\ Sealed(fetched)
  BY <1>0, <1>2, <1>3, GeometryNoted
<1>6. fetched.requests = ready.requests
  BY <1>3 DEF IsWorld, World
<1> HIDE DEF fetched
<1>7. /\ IsWorld(ClearErrors(fetched))
      /\ Calm(fetched, ClearErrors(fetched)) /\ SameRows(fetched, ClearErrors(fetched))
  BY <1>2, <1>4, <1>5, <1>6, ClearErrorsCalm
<1>8. Sealed(ClearErrors(fetched))
  BY <1>5, <1>7, CalmSealed
<1>9. IsWorld(g) /\ Sealed(g)
  BY <1>5, <1>7, <1>8
<1> HIDE DEF g
<1> QED
  BY <1>1, <1>9, RunsSealed

LEMMA GeometryNotFoundSealed ==
    ASSUME ServedInv, NEW r \in requests, r.of = "geometry", GeometryNotFound(r)
    PROVE  Sealed(Now)'
<1> DEFINE fetching == GeometryStatus(Now, "fetching")
           q == [Request("geometry", geometry.query) EXCEPT
                   !.xhr = FALSE, !.column = "the_geom_webmercator", !.saves = r.saves]
           others == Aborted(requests \ {r}, "geometry")
           left == Ended(others, r)
           g == [fetching EXCEPT !.requests = Sent(Ended(Aborted(@ \ {r}, "geometry"), r), q)]
<1>1. Runs(g)
  BY DEF GeometryNotFound
<1>2. IsWorld(Now) /\ Sealed(Now)
  BY DEF ServedInv, QueryInv, Good, Core
<1>3. requests \in SUBSET RequestType /\ IsFiniteSet(requests) /\ r \in RequestType
  BY <1>2, NowIs DEF IsWorld, World
<1>4. /\ IsWorld(fetching) /\ Calm(Now, fetching)
      /\ fetching.geometry.status = "fetching" /\ fetching.requests = requests
      /\ fetching.schema = schema /\ fetching.rows = rows
  BY <1>2, NowIs, GeometryStatusLeaves, GeometryStatusCalm DEF Statuses
<1>5. q \in QuestionType /\ q.of = "geometry"
  <2>1. geometry.query \in Queries /\ r.saves \in BOOLEAN
    BY <1>2, <1>3, NowIs DEF IsWorld, World, GeometryType, RequestType
  <2> QED
    BY <2>1 DEF Request, QuestionType, Kinds, Statuses
<1>6. /\ others \in SUBSET RequestType /\ IsFiniteSet(others)
      /\ \A x \in RequestType : x.of # "geometry" => (x \in others <=> x \in requests)
  BY <1>3, FS_Subset DEF Aborted, Known
<1>7. g = [fetching EXCEPT !.requests = Sent(left, q)]
  BY <1>4
<1> HIDE DEF g, fetching, q, others
<1>8. /\ left \in SUBSET RequestType /\ IsFiniteSet(left)
      /\ \A x \in RequestType : x.of # "geometry" => (x \in left <=> x \in requests)
  BY <1>3, <1>6, EndedKeeps
<1> HIDE DEF left
<1>9. PICK n \in RequestType :
         /\ Sent(left, q) = left \cup {n} /\ IsFiniteSet(left \cup {n}) /\ n.of = q.of
  BY <1>5, <1>8, SentAdds
<1>10. /\ IsWorld(g) /\ g.requests = left \cup {n} /\ g.waiting = fetching.waiting
       /\ g.due = fetching.due /\ g.geometry = fetching.geometry
       /\ g.schema = schema /\ g.rows = rows
  BY <1>4, <1>7, <1>8, <1>9 DEF IsWorld, World
<1>11. Asked(g.requests, "geometry")
  BY <1>5, <1>9, <1>10 DEF Asked
<1>12. Calm(Now, g)
  BY <1>4, <1>10, <1>11, NowIs DEF Calm, Final
<1>13. SameRows(Now, g)
  BY <1>5, <1>8, <1>9, <1>10, NowIs DEF SameRows
<1>14. Sealed(g)
  BY <1>2, <1>10, <1>12, <1>13, CalmSealed
<1> QED
  BY <1>1, <1>10, <1>14, RunsSealed

LEMMA GeometryFailedSealed ==
    ASSUME ServedInv, NEW r \in requests, r.of = "geometry", GeometryFailed(r)
    PROVE  Sealed(Now)'
<1> DEFINE repeated == Repeated(geometry.repeated)
           ready == GeometryStatus(Without(r), StatusOfError(repeated))
           g == [ready EXCEPT !.geometry.of = NoQuery, !.geometry.repeated = repeated]
<1>1. Runs(g)
  BY DEF GeometryFailed
<1>2. repeated \in 0..MaxRepeatedErrors
  <2>1. geometry.repeated \in 0..MaxRepeatedErrors
    BY NowIs DEF ServedInv, QueryInv, Good, Core, IsWorld, World, GeometryType
  <2> QED
    BY <2>1, ErrorCounts
<1> HIDE DEF repeated
<1>3. StatusOfError(repeated) \in Statuses \cap Final
  BY <1>2, ErrorCounts DEF Final
<1>4. IsWorld(ready) /\ Sealed(ready)
  BY <1>3, GeometryEnds
<1> HIDE DEF ready
<1>5. IsWorld(g) /\ Sealed(g)
  BY <1>2, <1>4, GeometryNoted
<1> HIDE DEF g
<1> QED
  BY <1>1, <1>5, RunsSealed

\* Rows of an earlier query arrive only while the rows are due.
LEMMA RowsAnsweredSealed ==
    ASSUME ServedInv, NEW r \in requests, r.of = "rows", RowsAnswered(r)
    PROVE  Sealed(Now)'
<1> DEFINE left == Without(r)
           shown == [left EXCEPT !.rows.of = r.query, !.rows.repeated = 0]
           g == RowsStatus(shown, "fetched")
<1>0. 0 \in 0..MaxRepeatedErrors
  BY DEF MaxRepeatedErrors
<1>1. Runs(g)
  BY DEF RowsAnswered
<1>2. /\ IsWorld(left) /\ Serves(left) /\ RowsInv(left) /\ RowsAsked(left)
      /\ left.schema = schema /\ left.due = due /\ left.rows = rows
      /\ RowsAsked(Now) => r.query = schema.query
      /\ r.query \in Queries
  BY WithoutSealed DEF RequestType
<1>3. UpToDate(Now)
  BY DEF ServedInv, Sealed, RowsInv
<1> HIDE DEF left
<1>4. /\ IsWorld(shown) /\ shown.waiting = left.waiting /\ shown.due = left.due
      /\ shown.schema = left.schema /\ shown.geometry = left.geometry
      /\ shown.rows.of = r.query /\ shown.rows.status = left.rows.status
      /\ shown.requests = left.requests
  BY <1>0, <1>2 DEF IsWorld, World, RowsType
<1> HIDE DEF shown
<1>5. /\ IsWorld(g) /\ g.rows.status = "fetched" /\ g.schema = left.schema
      /\ g.geometry = left.geometry /\ g.requests = left.requests
  BY <1>4, RowsStatusLeaves DEF Statuses
<1>6. /\ g.due = left.due /\ g.rows.of = r.query
      /\ g.waiting = (IF left.rows.status # "fetched" THEN left.waiting \ {"rows"}
                                                       ELSE left.waiting)
  BY <1>4 DEF RowsStatus, IsWorld, World, RowsType, Final
<1> HIDE DEF g
<1>7. Serves(g)
  BY <1>2, <1>5, <1>6 DEF Serves
<1>8. RowsAsked(g)
  BY <1>2, <1>5 DEF RowsAsked
<1>9. UpToDate(g)
  BY <1>2, <1>3, <1>5, <1>6, <1>8, NowIs DEF UpToDate
<1>10. RowsInv(g)
  BY <1>2, <1>5, <1>8, <1>9 DEF RowsInv
<1> QED
  BY <1>1, <1>5, <1>7, <1>10, RunsSealed DEF Sealed

LEMMA RowsFailedSealed ==
    ASSUME ServedInv, NEW r \in requests, r.of = "rows", RowsFailed(r)
    PROVE  Sealed(Now)'
<1> DEFINE left == Without(r)
           g == RowsError(left, r)
<1>1. Runs(g)
  BY DEF RowsFailed
<1>2. IsWorld(left) /\ Sealed(left)
  BY WithoutSealed DEF Sealed
<1> HIDE DEF left
<1>3. IsWorld(g) /\ Calm(left, g) /\ SameRows(left, g)
  BY <1>2, RowsErrorLeaves, RowsErrorCalm DEF RowsOnly
<1> HIDE DEF g
<1>4. Sealed(g)
  BY <1>2, <1>3, CalmSealed
<1> QED
  BY <1>1, <1>3, <1>4, RunsSealed

---------------------------------------------------------------------------------
(* The theorems. *)

LEMMA ServedInvInit == Init => ServedInv
<1> SUFFICES ASSUME Init PROVE ServedInv
  OBVIOUS
<1>1. QueryInv
  BY QueryInvInit
<1>2. waiting = {} /\ rows.status = "initial" /\ schema.status = "fetching"
  BY DEF Init
<1> DEFINE q == Request("schema", DefaultQuery)
           none == {}
<1>3. q \in QuestionType /\ q.of = "schema"
  BY QueryObjectsAssumption DEF Request, QuestionType, Kinds, Statuses
<1>4. requests = Sent(none, q)
  BY DEF Init
<1>5. none \in SUBSET RequestType /\ IsFiniteSet(none)
  BY FS_EmptySet
<1> HIDE DEF q, none
<1>6. PICK n \in RequestType : Sent(none, q) = none \cup {n} /\ n.of = q.of
  BY <1>3, <1>5, SentAdds
<1>7. \A r \in requests : r.of # "rows"
  BY <1>3, <1>4, <1>6 DEF none
<1>8. RowsInv(Now)
  BY <1>2, <1>7, NowIs DEF RowsInv, OneRows, UpToDate, RowsAsked
<1>9. Serves(Now)
  BY <1>2, NowIs DEF Serves
<1> QED
  BY <1>1, <1>8, <1>9 DEF ServedInv, Sealed

LEMMA ServedInvStep == ServedInv /\ [Next]_vars => ServedInv'
<1> SUFFICES ASSUME ServedInv, [Next]_vars PROVE ServedInv'
  OBVIOUS
<1>1. QueryInv'
  BY QueryInvStep DEF ServedInv
<1>2. Sealed(Now)'
  <2>1. CASE User
    BY <2>1, UserSealed
  <2>2. CASE OnChangeQueryOrStatus \/ FetchRowsData
    BY <2>2, TimerSealed
  <2>3. CASE \E r \in requests : Answered(r)
    <3>1. PICK r \in requests : Answered(r)
      BY <2>3
    <3>2. CASE r.of = "schema" /\ (SchemaAnswered(r) \/ SchemaFailed(r))
      BY <3>2, SchemaAnsweredSealed, SchemaFailedSealed
    <3>3. CASE /\ r.of = "geometry"
               /\ GeometryAnswered(r) \/ GeometryNotFound(r) \/ GeometryFailed(r)
      BY <3>3, GeometryAnsweredSealed, GeometryNotFoundSealed, GeometryFailedSealed
    <3>4. CASE r.of = "rows" /\ (RowsAnswered(r) \/ RowsFailed(r))
      BY <3>4, RowsAnsweredSealed, RowsFailedSealed
    <3> QED
      BY <3>1, <3>2, <3>3, <3>4 DEF Answered
  <2>4. CASE UNCHANGED vars
    <3>1. Now' = Now
      BY <2>4 DEF vars, Now
    <3> QED
      BY <3>1 DEF ServedInv
  <2> QED
    BY <2>1, <2>2, <2>3, <2>4 DEF Next, Browser
<1> QED
  BY <1>1, <1>2 DEF ServedInv

\* The inductive invariant of the rows and of who waits holds of every behaviour.
THEOREM ServedInvAlways == Spec => []ServedInv
  BY ServedInvInit, ServedInvStep, PTL DEF Spec

\* Once nothing is under way nor due, fetched rows are those of a fetched schema,
\* whichever of the answers came last (table-view.js).
THEOREM RowsOfQueryTheorem == Spec => []RowsOfQuery
<1>1. ServedInv => RowsOfQuery
  <2> SUFFICES ASSUME ServedInv, Quiet, schema.status = "fetched", rows.status = "fetched"
               PROVE  rows.of = schema.query
    BY DEF RowsOfQuery
  <2>1. UpToDate(Now) /\ "rows" \notin due
    BY DEF ServedInv, Sealed, RowsInv, Quiet
  <2> QED
    BY <2>1, NowIs DEF UpToDate
<1> QED
  BY <1>1, ServedInvAlways, PTL

\* Once nothing is under way nor due, and schema and rows are fetched, nobody waits
\* any longer for all the query objects (fetch-all-query-objects.js).
THEOREM AllServedTheorem == Spec => []AllServed
<1>1. ServedInv => AllServed
  <2> SUFFICES ASSUME ServedInv, Quiet, schema.status = "fetched", rows.status = "fetched"
               PROVE  waiting = {}
    BY DEF AllServed
  <2>1. Serves(Now) /\ waiting \in SUBSET Kinds
    BY NowIs DEF ServedInv, Sealed, QueryInv, Good, Core, IsWorld, World
  <2>2. "schema" \notin waiting /\ "rows" \notin waiting
    BY <2>1, NowIs DEF Serves, Final
  <2>3. "geometry" \notin waiting
    BY <2>1, NowIs DEF Serves, Asked, Quiet
  <2> QED
    BY <2>1, <2>2, <2>3 DEF Kinds
<1> QED
  BY <1>1, ServedInvAlways, PTL
=================================================================================
