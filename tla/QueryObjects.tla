----------------------------- MODULE QueryObjects ------------------------------
(* The query objects of a source node of the builder: schema, geometry type    *)
(* and first rows of one SQL query, each fetched by a request of its own       *)
(* (builder/data/query-*.js), with the SQL editor, the table and the layer     *)
(* that use them. A step is what one event of the browser runs: a click, a     *)
(* timer or the answer of a request, with every handler that it calls before   *)
(* it returns, resolved promises included.                                     *)
EXTENDS Integers, FiniteSets

CONSTANTS Queries,      \* queries a user may apply
          DefaultQuery, \* SELECT * FROM the table of the node
          NoQuery,      \* of an empty collection
          MaxActs       \* bound: what the user does

ASSUME QueryObjectsAssumption ==
    /\ DefaultQuery \in Queries /\ NoQuery \notin Queries
    /\ MaxActs \in Nat

VARIABLES schema,       \* querySchemaModel
          geometry,     \* queryGeometryModel
          rows,         \* queryRowsCollection
          requests,     \* requests to the SQL API under way
          waiting,      \* fetchAllQueryObjects: what its promise waits for
          onSync,       \* the layer fetches rows at the next sync of the schema
          due,          \* debounced handlers of the table that are to run
          acts          \* bound: what the user has done

vars == <<schema, geometry, rows, requests, waiting, onSync, due, acts>>

Statuses == {"initial", "unavailable", "unfetched", "fetching", "fetched", "errored"}
Final == {"unavailable", "fetched", "errored"}
MaxRepeatedErrors == 3

(* A handler calls others in the middle of its own: each is a function from    *)
(* the state it finds to the one it leaves, w, a record of the variables.      *)
Now == [schema |-> schema, geometry |-> geometry, rows |-> rows, requests |-> requests,
        waiting |-> waiting, onSync |-> onSync, due |-> due]

Become(w) ==
    /\ schema' = w.schema /\ geometry' = w.geometry /\ rows' = w.rows
    /\ requests' = w.requests /\ waiting' = w.waiting
    /\ onSync' = w.onSync /\ due' = w.due

--------------------------------------------------------------------------------
(* Requests. A model knows one of its requests, _xhr, and aborts it when it    *)
(* sends another; the end of any of them makes it forget the one it knows.     *)

Request(of, query) ==
    [of |-> of, query |-> query, xhr |-> TRUE, column |-> "the_geom",
     saves |-> FALSE, previous |-> "initial"]

Sent(rs, request) ==
    LET ids == {r.id : r \in rs}
        id == CHOOSE n \in 1..(Cardinality(rs) + 1) : n \notin ids
    IN rs \cup {[id |-> id, of |-> request.of, query |-> request.query, xhr |-> request.xhr,
                 column |-> request.column, saves |-> request.saves,
                 previous |-> request.previous]}

Known(rs, of) == {r \in rs : r.of = of /\ r.xhr}

Aborted(rs, of) == rs \ Known(rs, of)

Ended(rs, r) ==
    {[x EXCEPT !.xhr = @ /\ x.of # r.of] : x \in rs \ {r}}

--------------------------------------------------------------------------------
(* The schema. *)

Repeated(n) == IF n < MaxRepeatedErrors THEN n + 1 ELSE n
StatusOfError(repeated) == IF repeated >= MaxRepeatedErrors THEN "errored" ELSE "unavailable"

\* status is set: the table hears of it, and who waits for a final status.
SchemaStatus(w, status) ==
    IF w.schema.status = status THEN w
    ELSE [w EXCEPT !.schema.status = status,
                   !.due = {"refetch", "rows"},
                   !.waiting = IF status \in Final THEN @ \ {"schema"} ELSE @]

FetchSchema(w) ==
    LET fetching == SchemaStatus(w, "fetching")
    IN [fetching EXCEPT
          !.requests = Sent(Aborted(@, "schema"), Request("schema", w.schema.query))]

\* The rows go, and are to be fetched again.
EmptyRows(w) == [w EXCEPT !.rows.status = "unfetched", !.rows.of = NoQuery]

\* A query is applied, with the status unfetched.
SetSchemaQuery(w, query) ==
    LET unfetched == SchemaStatus(w, "unfetched")
        changed == EmptyRows([unfetched EXCEPT !.schema.query = query])
    IN IF query = w.schema.query THEN unfetched
       ELSE [changed EXCEPT !.schema.columns = NoQuery, !.onSync = TRUE,
                            !.due = @ \cup {"refetch"}]

\* query_errors is set to []: any change but of the status redoes a fetch under way.
ClearErrors(w) ==
    LET cleared == [w EXCEPT !.schema.errors = "empty"]
    IN IF w.schema.errors = "empty" THEN w
       ELSE IF w.schema.status = "fetching" THEN FetchSchema(cleared)
       ELSE cleared

\* An error of the rows, kept as one of the schema.
SetError(w) ==
    LET repeated == Repeated(w.schema.repeated)
    IN IF w.schema.errors = "own" THEN w
       ELSE SchemaStatus([w EXCEPT !.schema.errors = "rows", !.schema.repeated = repeated],
                         StatusOfError(repeated))

--------------------------------------------------------------------------------
(* The geometry type. *)

\* Mutant: who waits hears of success only.
GeometryStatusFetched(w, status) ==
    [w EXCEPT !.geometry.status = status,
              !.waiting = IF status = "fetched" THEN @ \ {"geometry"} ELSE @]

GeometryStatus(w, status) ==
    [w EXCEPT !.geometry.status = status,
              !.waiting = IF status \in Final /\ w.geometry.status # status
                          THEN @ \ {"geometry"} ELSE @]

FetchGeometry(w, saves) ==
    LET fetching == GeometryStatus(w, "fetching")
    IN [fetching EXCEPT
          !.requests = Sent(Aborted(@, "geometry"),
                            [Request("geometry", w.geometry.query) EXCEPT !.saves = saves])]

SetGeometryQuery(w, query) ==
    LET changed == [w EXCEPT !.geometry.query = query]
    IN IF query = w.geometry.query THEN w
       ELSE IF w.geometry.status = "fetching" THEN FetchGeometry(changed, FALSE)
       ELSE [changed EXCEPT !.geometry.status = "unfetched"]

--------------------------------------------------------------------------------
(* The rows. *)

RowsStatus(w, status) ==
    [w EXCEPT !.rows.status = status,
              !.waiting = IF status \in Final /\ w.rows.status # status
                          THEN @ \ {"rows"} ELSE @]

\* opts.error: what resp.error holds is never empty, in a jqXHR it is a function.
RowsError(w, r) ==
    LET repeated == IF r.previous = "unavailable" THEN Repeated(w.rows.repeated)
                                                  ELSE w.rows.repeated
    IN RowsStatus(SetError([w EXCEPT !.rows.repeated = repeated]), StatusOfError(repeated))

\* Mutant: the request under way is left.
FetchRowsBeside(w) ==
    LET fetching == [w EXCEPT !.rows.status = "fetching"]
        request == [Request("rows", w.schema.query) EXCEPT !.previous = w.rows.status]
    IN IF w.rows.status = "fetching" THEN w
       ELSE [fetching EXCEPT !.requests = Sent(@, request)]

\* The request that is aborted ends with an error before the new one is sent.
FetchRows(w) ==
    LET fetching == [w EXCEPT !.rows.status = "fetching"]
        old == CHOOSE r \in Known(w.requests, "rows") : TRUE
        aborting == IF Known(w.requests, "rows") = {} THEN fetching
                    ELSE RowsError([fetching EXCEPT !.requests = Ended(@, old)], old)
        request == [Request("rows", w.schema.query) EXCEPT !.previous = w.rows.status]
    IN IF w.rows.status = "fetching" THEN w
       ELSE [aborting EXCEPT !.requests = Sent(@, request)]

\* columnsCollection is reset.
ColumnsReset(w, query) ==
    LET reset == EmptyRows([w EXCEPT !.schema.columns = query])
    IN IF w.schema.status = "fetched" THEN FetchRows(reset) ELSE reset

--------------------------------------------------------------------------------
(* fetchAllQueryObjects: schema and geometry, then the rows. *)

ShouldFetch(w, of) ==
    CASE of = "schema" -> w.schema.status \notin {"fetched", "fetching", "errored"}
      [] of = "geometry" -> w.geometry.status \notin {"fetched", "fetching", "errored"}
      [] of = "rows" -> /\ w.rows.status \notin {"fetched", "fetching", "errored"}
                        /\ w.schema.status = "fetched"

Status(w, of) ==
    CASE of = "schema" -> w.schema.status
      [] of = "geometry" -> w.geometry.status
      [] of = "rows" -> w.rows.status

Fetch(w, of) ==
    CASE of = "schema" -> FetchSchema(w)
      [] of = "geometry" -> FetchGeometry(w, FALSE)
      [] of = "rows" -> FetchRows(w)

FetchModel(w, of) ==
    LET fetched == IF ShouldFetch(w, of) THEN Fetch(w, of) ELSE w
    IN IF ShouldFetch(w, of) \/ Status(w, of) \notin Final
       THEN [fetched EXCEPT !.waiting = @ \cup {of}] ELSE fetched

\* Mutant: the rows are fetched when one of both is there.
AfterEither(w) ==
    IF waiting \cap {"schema", "geometry"} # {} /\ w.waiting # waiting
    THEN FetchModel(w, "rows") ELSE w

\* What is left when an event has run: the promise of both goes on with the rows.
AfterBoth(w) ==
    IF waiting \cap {"schema", "geometry"} # {} /\ w.waiting = {} THEN FetchModel(w, "rows") ELSE w

Runs(w) == Become(AfterBoth(w))

--------------------------------------------------------------------------------
(* What the user does. *)

\* The node has been made, and the table of its layer opens.
Init ==
    /\ schema = [query |-> DefaultQuery, status |-> "fetching", columns |-> NoQuery,
                 errors |-> "unset", repeated |-> 0]
    /\ geometry \in {[query |-> DefaultQuery, status |-> "unfetched", of |-> NoQuery, repeated |-> 0],
                     [query |-> DefaultQuery, status |-> "fetched", of |-> DefaultQuery, repeated |-> 0]}
    /\ rows = [status |-> "initial", of |-> NoQuery, repeated |-> 0]
    /\ requests = Sent({}, Request("schema", DefaultQuery))
    /\ waiting = {} /\ onSync = FALSE
    /\ due = {"refetch", "rows"}
    /\ acts = 0

Acts == acts < MaxActs /\ acts' = acts + 1

\* Mutant: the schema is left to the table.
RunQueryNoFetch(w, query) == FetchGeometry(SetSchemaQuery(SetGeometryQuery(w, query), query), TRUE)

\* The geometry's query is changed before the schema's; then both are fetched.
RunQuery(w, query) ==
    LET set == SetSchemaQuery(SetGeometryQuery(w, query), query)
    IN FetchGeometry(FetchSchema(set), TRUE)

ApplyQuery(query) ==
    /\ Acts
    /\ query # schema.query
    /\ Runs(RunQuery(Now, query))

\* A query that alters data has been executed.
ResetDueToAlteredData(w) == FetchSchema(SchemaStatus(w, "unfetched"))

AlterData ==
    /\ Acts
    /\ Runs(RunQuery(ResetDueToAlteredData(ClearErrors(Now)), DefaultQuery))

\* A column is added, removed or changed.
ChangeColumns ==
    /\ Acts
    /\ Runs(ResetDueToAlteredData(Now))

\* The last row of the table is removed.
RemoveLastRow ==
    /\ Acts
    /\ rows.status = "fetched" /\ rows.of # NoQuery
    /\ Runs(EmptyRows(GeometryStatus(Now, "unfetched")))

\* The layer asks for what is missing.
FetchAllQueryObjects ==
    /\ Acts
    /\ waiting = {}
    /\ LET both == FetchModel(FetchModel(Now, "schema"), "geometry")
       IN Become(IF both.waiting = {} THEN FetchModel(both, "rows") ELSE both)

--------------------------------------------------------------------------------
(* Timers and answers. *)

OnChangeQueryOrStatus ==
    LET w == [Now EXCEPT !.due = @ \ {"refetch"}]
        s == IF schema.status = "unfetched" THEN FetchSchema(w) ELSE w
    IN /\ "refetch" \in due
       /\ Runs(IF geometry.status = "unfetched" THEN FetchGeometry(s, FALSE) ELSE s)
       /\ UNCHANGED acts

FetchRowsData ==
    LET w == [Now EXCEPT !.due = @ \ {"rows"}]
    IN /\ "rows" \in due
       /\ Runs(IF schema.status = "fetched" THEN FetchRows(w) ELSE w)
       /\ UNCHANGED acts

Without(r) == [Now EXCEPT !.requests = Ended(@, r)]

SchemaAnswered(r) ==
    LET parsed == ColumnsReset(Without(r), r.query)
        fetched == [SchemaStatus(parsed, "fetched") EXCEPT !.schema.repeated = 0, !.onSync = FALSE]
    IN Runs(IF onSync THEN FetchRows(fetched) ELSE fetched)

SchemaFailed(r) ==
    LET repeated == Repeated(schema.repeated)
    IN \E errors \in {"own", "empty"} :
          Runs(SchemaStatus([Without(r) EXCEPT !.schema.errors = errors,
                                               !.schema.repeated = repeated],
                            StatusOfError(repeated)))

\* With the query that was saved, the errors of the schema are cleared.
GeometryAnswered(r) ==
    LET fetched == [GeometryStatus(Without(r), "fetched") EXCEPT
                      !.geometry.of = r.query, !.geometry.repeated = 0]
    IN Runs(IF r.saves THEN ClearErrors(fetched) ELSE fetched)

\* There is no the_geom: the other column is tried. What the model knows of the
\* new request it forgets when the handlers of the old one end.
GeometryNotFound(r) ==
    LET retry == [Request("geometry", geometry.query) EXCEPT
                    !.xhr = FALSE, !.column = "the_geom_webmercator", !.saves = r.saves]
    IN /\ r.column = "the_geom"
       /\ Runs([GeometryStatus(Now, "fetching") EXCEPT
                  !.requests = Sent(Ended(Aborted(@ \ {r}, "geometry"), r), retry)])

\* Mutant: the error of the other column is not looked at.
GeometryFailedOnce(r) ==
    LET repeated == Repeated(geometry.repeated)
    IN Runs(IF r.column = "the_geom_webmercator" THEN Without(r)
            ELSE [GeometryStatus(Without(r), StatusOfError(repeated)) EXCEPT
                    !.geometry.of = NoQuery, !.geometry.repeated = repeated])

GeometryFailed(r) ==
    LET repeated == Repeated(geometry.repeated)
    IN Runs([GeometryStatus(Without(r), StatusOfError(repeated)) EXCEPT
               !.geometry.of = NoQuery, !.geometry.repeated = repeated])

RowsAnswered(r) ==
    Runs(RowsStatus([Without(r) EXCEPT !.rows.of = r.query, !.rows.repeated = 0], "fetched"))

RowsFailed(r) == Runs(RowsError(Without(r), r))

Answered(r) ==
    /\ \/ r.of = "schema" /\ (SchemaAnswered(r) \/ SchemaFailed(r))
       \/ r.of = "geometry" /\ (GeometryAnswered(r) \/ GeometryNotFound(r) \/ GeometryFailed(r))
       \/ r.of = "rows" /\ (RowsAnswered(r) \/ RowsFailed(r))
    /\ UNCHANGED acts

User ==
    \/ \E query \in Queries : ApplyQuery(query)
    \/ AlterData
    \/ ChangeColumns
    \/ RemoveLastRow
    \/ FetchAllQueryObjects

Browser ==
    \/ OnChangeQueryOrStatus
    \/ FetchRowsData
    \/ \E r \in requests : Answered(r)

Next == User \/ Browser

Spec == Init /\ [][Next]_vars

--------------------------------------------------------------------------------
(* Properties *)

TypeOK ==
    /\ schema \in [query : Queries, status : Statuses, columns : Queries \cup {NoQuery},
                   errors : {"unset", "empty", "own", "rows"}, repeated : 0..MaxRepeatedErrors]
    /\ geometry \in [query : Queries, status : Statuses, of : Queries \cup {NoQuery},
                     repeated : 0..MaxRepeatedErrors]
    /\ rows \in [status : Statuses, of : Queries \cup {NoQuery}, repeated : 0..MaxRepeatedErrors]
    /\ \A r \in requests :
          r \in [id : Nat \ {0}, of : {"schema", "geometry", "rows"}, query : Queries,
                xhr : BOOLEAN, column : {"the_geom", "the_geom_webmercator"},
                saves : BOOLEAN, previous : Statuses]
    /\ waiting \subseteq {"schema", "geometry"} \/ waiting = {"rows"}
    /\ onSync \in BOOLEAN
    /\ due \subseteq {"refetch", "rows"}
    /\ acts \in 0..MaxActs

\* A fetched schema has the columns of the query that is applied now, however
\* many were applied while their answers were under way (sync-abort.js).
SchemaOfQuery == schema.status = "fetched" => schema.columns = schema.query

\* What shows as loading is being asked for: no abort, error or retry leaves the
\* status at fetching with nothing under way.
UnderWay(of) == \E r \in requests : r.of = of
LoadingEnds ==
    \A of \in {"schema", "geometry", "rows"} : Status(Now, of) = "fetching" => UnderWay(of)

\* When nothing is under way nor due, fetched rows are those of the schema: rows
\* of an earlier query, which may arrive last, are asked for again (table-view.js).
Quiet == requests = {} /\ due = {}
RowsOfQuery ==
    Quiet /\ schema.status = "fetched" /\ rows.status = "fetched" => rows.of = schema.query

\* When nothing is under way and schema and rows are fetched, who asked for all
\* has been answered, whatever was aborted, failed or asked for again meanwhile
\* (fetch-all-query-objects.js).
AllServed == Quiet /\ schema.status = "fetched" /\ rows.status = "fetched" => waiting = {}

\* Nobody waits for query objects that are all in a final status
\* (fetch-all-query-objects.spec.js:29).
FinalServed ==
    Quiet /\ (\A of \in {"schema", "geometry", "rows"} : Status(Now, of) \in Final) => waiting = {}
================================================================================
