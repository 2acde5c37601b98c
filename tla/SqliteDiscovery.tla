-------------------------- MODULE SqliteDiscovery --------------------------
(***************************************************************************)
(* The SQLite discoverer: discoverer.go, schema_discovery.go,              *)
(* table_discovery.go, column_discovery.go, constraint_discovery.go and    *)
(* the end of query_error.go of src/internal/connection/sqlite.  A call    *)
(* opens a connection of its own and closes it at the end; what fails then *)
(* is joined to the error there was.                                       *)
(***************************************************************************)
EXTENDS Discovery

\* SQLite's result codes, and what they mean.
LiteFailures ==
    [IOERR |-> "database_unavailable", BUSY |-> "database_conflict",
     AUTH |-> "database_permission_denied", CORRUPT |-> "database_error"]

\* projectSQLiteContextError.
LiteContext ==
    IF ctx = "cancelled" THEN {"ErrCancelled", "context.Canceled"}
    ELSE IF query = "deadline" THEN {"ErrQueryTimeout"} ELSE {}

\* projectSQLiteDiscoveryError: the contexts, else a DatabaseFailure with SQLite's
\* code, in which errors.Is finds no sentinel.
projectSQLiteDiscoveryError == IF LiteContext # {} THEN LiteContext ELSE {"DatabaseFailure"}

LiteFails(next) ==
    \/ Interrupted /\ Fails(err \cup LiteContext, {}, next)
    \/ \E code \in DOMAIN LiteFailures :
          Fails(err \cup projectSQLiteDiscoveryError, {LiteFailures[code]}, next)

\* A file that is not there is unavailable; what SQLite says of it is projected.
LiteOpen ==
    /\ engine = "sqlite"
    /\ Open({<<{"ErrDatabaseUnavailable"}, {"database_unavailable"}>>} \cup
            {<<{"DatabaseFailure"}, {LiteFailures[code]}>> : code \in DOMAIN LiteFailures}, "schema")

LiteCheckSchema ==
    /\ engine = "sqlite"
    /\ CheckOnlySchema(IF operation = "columns" THEN "relation" ELSE "rows", "close")

LiteListSchemas == engine = "sqlite" /\ ListOnlySchema("close")

LiteStep(at) == engine = "sqlite" /\ pc = at /\ UNCHANGED <<unread, call, ctx, query>>

\* resolveRelationKind.
LiteResolveRelation ==
    /\ LiteStep("relation") /\ UNCHANGED page
    /\ \/ LiteFails("close")
       \/ /\ place = "no relation"
          /\ Fails({"ErrRelationNotFound"}, {"relation_not_found"}, "close")
       \/ place = "there" /\ pc' = "rows" /\ UNCHANGED <<err, causes>>

\* The rows of ListTables or ListColumns; constraints come with the first page.
LiteListRows ==
    /\ LiteStep("rows") /\ ~OneSchema
    /\ \/ LiteFails("close") /\ UNCHANGED page
       \/ /\ page' = ReadPage(call.request, call.after)
          /\ pc' = IF operation = "columns" /\ call.after = 0 THEN "constraints" ELSE "close"
          /\ UNCHANGED <<err, causes>>

\* listSQLiteConstraints: all of the table's, its three statements in one step.
LiteListConstraints ==
    /\ LiteStep("constraints")
    /\ \/ LiteFails("close") /\ UNCHANGED page
       \/ page' = [page EXCEPT !.constraints = Existing] /\ pc' = "close" /\ UNCHANGED <<err, causes>>

\* client.close, deferred.
LiteClose ==
    /\ LiteStep("close") /\ UNCHANGED page
    /\ \/ LiteFails("answer")
       \/ pc' = "answer" /\ UNCHANGED <<err, causes>>

LiteNext ==
    \/ LiteOpen \/ LiteCheckSchema \/ LiteListSchemas \/ LiteResolveRelation
    \/ LiteListRows \/ LiteListConstraints \/ LiteClose
===========================================================================
