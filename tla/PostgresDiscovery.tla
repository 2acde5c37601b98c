------------------------- MODULE PostgresDiscovery -------------------------
(***************************************************************************)
(* The PostgreSQL discoverer: discoverer.go, schema_discovery.go,          *)
(* table_discovery.go, column_discovery.go and constraint_discovery.go of  *)
(* src/internal/connection/postgres.  Each statement sees the catalog of   *)
(* its own moment; the table is followed by its oid.                       *)
(***************************************************************************)
EXTENDS Discovery

\* How a statement fails, by what the driver says, and what to tell of it.
PgFailures ==
    [c57014 |-> "query_timeout", c42501 |-> "database_permission_denied",
     c08006 |-> "database_unavailable", safeToRetry |-> "database_unavailable",
     cXX000 |-> "internal", broken |-> "internal",
     dialTimeout |-> "query_timeout", poolClosed |-> "cancelled"]

\* The sentinel of a failure while both contexts are live: an error of a context is
\* looked for in it before the code.
PgSentinel(code) ==
    CASE code = "poolClosed" -> "ErrCancelled"
      [] code \in {"dialTimeout", "c57014"} -> "ErrQueryTimeout"
      [] code = "c42501" -> "ErrDatabasePermissionDenied"
      [] code \in {"c08006", "safeToRetry"} -> "ErrDatabaseUnavailable"
      [] OTHER -> "ErrInternal"

\* Mutant: the error is looked at before the contexts.
BugClassifyQueryError(code) == {PgSentinel(code)}

\* classifyQueryError: the request's context, the statements', then the error, which
\* is wrapped unless the request was given up.
classifyQueryError(code) ==
    IF ctx = "cancelled" THEN {"ErrCancelled", "context.Canceled"}
    ELSE DriverSays(code) \cup
            {IF query = "deadline" THEN "ErrQueryTimeout" ELSE PgSentinel(code)}

PgFails ==
    \/ Interrupted /\ Fails(classifyQueryError("interrupted"), {}, "answer")
    \/ \E code \in DOMAIN PgFailures :
          Fails(classifyQueryError(code), {PgFailures[code]}, "answer")

PgFirst ==
    IF operation = "schemas" THEN "rows" ELSE "schema"

PgOpen ==
    engine = "postgres" /\ Open({<<{"ErrDatabaseUnavailable"}, {"database_unavailable"}>>}, PgFirst)

PgStep(at) == engine = "postgres" /\ pc = at /\ UNCHANGED <<unread, ctx, query>>

\* checkSchema.
PgCheckSchema ==
    /\ PgStep("schema") /\ UNCHANGED <<call, page>>
    /\ LET absent == call.request.schema = "wrong" \/ place = "no schema" IN
       \/ PgFails
       \/ absent /\ Fails({"ErrSchemaNotFound"}, {"schema_not_found"}, "answer")
       \/ /\ ~absent /\ place = "schema denied"
          /\ Fails({"ErrDatabasePermissionDenied"}, {"database_permission_denied"}, "answer")
       \/ /\ ~absent /\ place # "schema denied"
          /\ pc' = IF operation = "columns" THEN "relation" ELSE "rows"
          /\ UNCHANGED <<err, causes>>

\* resolveRelation and relationKind: the table's oid, if it may be read and is of
\* a kind that has columns to tell.
PgResolveRelation ==
    /\ PgStep("relation") /\ UNCHANGED page
    /\ \/ PgFails /\ UNCHANGED call
       \/ /\ place \in {"no schema", "no relation"}
          /\ Fails({"ErrRelationNotFound"}, {"relation_not_found"}, "answer") /\ UNCHANGED call
       \/ /\ place = "relation denied"
          /\ Fails({"ErrDatabasePermissionDenied"}, {"database_permission_denied"}, "answer")
          /\ UNCHANGED call
       \/ /\ place = "other kind"
          /\ Fails({"ErrUnsupportedRelationKind"}, {"unsupported_relation_kind"}, "answer")
          /\ UNCHANGED call
       \/ /\ place \in {"there", "schema denied"}
          /\ call' = [call EXCEPT !.oid = oid]
          /\ pc' = "rows"
          /\ UNCHANGED <<err, causes>>

\* The table that was resolved is still the one there is.
PgSameRelation == operation = "columns" => call.oid = oid

\* The rows of ListSchemas, ListTables or ListColumns, read to the end.
PgListRows ==
    /\ PgStep("rows") /\ UNCHANGED call
    /\ \/ PgFails /\ UNCHANGED page
       \/ /\ page' = IF PgSameRelation THEN ReadPage(call.request, call.after) ELSE NoPage
          /\ pc' = IF operation = "columns" THEN "constraints" ELSE "answer"
          /\ UNCHANGED <<err, causes>>

\* listConstraints: those of any column of the page; none for an empty page.
PgListConstraints ==
    /\ PgStep("constraints") /\ UNCHANGED call
    /\ \/ page.objects # {} /\ PgFails /\ UNCHANGED page
       \/ /\ page' = [page EXCEPT !.constraints =
                 {k \in Existing : PgSameRelation /\ k \cap page.objects # {}}]
          /\ pc' = "answer"
          /\ UNCHANGED <<err, causes>>

PgNext == PgOpen \/ PgCheckSchema \/ PgResolveRelation \/ PgListRows \/ PgListConstraints
===========================================================================
