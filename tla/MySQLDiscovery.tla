-------------------------- MODULE MySQLDiscovery --------------------------
(***************************************************************************)
(* The MySQL discoverer: discoverer.go, schema_discovery.go,               *)
(* table_discovery.go, column_discovery.go and constraint_discovery.go of  *)
(* src/internal/connection/mysql.  The only schema is the database of the  *)
(* definition; the table is followed by its name.                          *)
(***************************************************************************)
EXTENDS Discovery

\* How a statement fails, and what mysqlErrorCategory makes of it.  A value of the
\* catalog that the discoverer cannot read is its own ErrInternal.
MyFailures ==
    [m1142 |-> "database_permission_denied", m3024 |-> "query_timeout",
     m1317 |-> "cancelled", m1040 |-> "database_unavailable",
     badConnection |-> "database_unavailable", m1205 |-> "internal", m1064 |-> "internal",
     dialTimeout |-> "query_timeout", poolClosed |-> "cancelled", badCatalog |-> "internal"]

\* The sentinel of a failure while both contexts are live: an error of a context is
\* looked for in it before the code (mysqlDiscoveryClassification).
MySentinel ==
    [dialTimeout |-> "ErrQueryTimeout", poolClosed |-> "ErrCancelled",
     m1142 |-> "ErrDatabasePermissionDenied", m3024 |-> "ErrQueryTimeout",
     m1317 |-> "ErrCancelled", m1040 |-> "ErrDatabaseUnavailable",
     badConnection |-> "ErrDatabaseUnavailable", m1205 |-> "ErrInternal", m1064 |-> "ErrInternal"]

\* mysqlDiscoveryContextClassification.
MyContext ==
    IF ctx = "cancelled" THEN {"ErrCancelled"}
    ELSE IF query = "deadline" THEN {"ErrQueryTimeout"} ELSE {}

\* classifyDiscoveryQueryError: an error that has its sentinel stays as it is, another
\* one is wrapped.
classifyDiscoveryQueryError(code) ==
    IF code = "badCatalog" THEN {"ErrInternal"}
    ELSE DriverSays(code) \cup (IF MyContext # {} THEN MyContext ELSE {MySentinel[code]})

\* A statement fails; closing its rows may fail as well.
MyFails ==
    \E closing \in {{}, {"ErrInternal"}} :
       \/ Interrupted /\ Fails(classifyDiscoveryQueryError("interrupted") \cup closing, {}, "answer")
       \/ \E code \in DOMAIN MyFailures :
             Fails(classifyDiscoveryQueryError(code) \cup closing, {MyFailures[code]}, "answer")
       \/ closing # {} /\ Fails(closing, {"internal"}, "answer")

\* The opener's error is wrapped with its cause.
MyOpenFailures ==
    {<<{"ErrDatabaseUnavailable"}, {"database_unavailable"}>>,
     <<{"ErrDatabaseUnavailable", "context.DeadlineExceeded"},
       {"database_unavailable", "query_timeout"}>>}

MyOpen == engine = "mysql" /\ Open(MyOpenFailures, "schema")

MyCheckSchema ==
    /\ engine = "mysql"
    /\ CheckOnlySchema(IF operation = "columns" THEN "relation" ELSE "rows", "answer")

MyStep(at) == engine = "mysql" /\ pc = at /\ UNCHANGED <<unread, ctx, query>>

\* resolveRelation, by the name.
MyResolveRelation ==
    /\ MyStep("relation") /\ UNCHANGED <<call, page>>
    /\ \/ MyFails
       \/ /\ place = "no relation"
          /\ Fails({"ErrRelationNotFound"}, {"relation_not_found"}, "answer")
       \/ place = "there" /\ pc' = "rows" /\ UNCHANGED <<err, causes>>

\* The rows of ListTables or ListColumns.  Constraints come with the first page.
MyListRows ==
    /\ MyStep("rows") /\ ~OneSchema /\ UNCHANGED call
    /\ \/ MyFails /\ UNCHANGED page
       \/ /\ page' = ReadPage(call.request, call.after)
          /\ pc' = IF operation = "columns" /\ call.after = 0 THEN "constraints" ELSE "answer"
          /\ UNCHANGED <<err, causes>>

\* listConstraints and hasRetainedColumn: those of a column of the page.
MyListConstraints ==
    /\ MyStep("constraints") /\ UNCHANGED call
    /\ \/ MyFails /\ UNCHANGED page
       \/ /\ page' = [page EXCEPT !.constraints = {k \in Existing : k \cap page.objects # {}}]
          /\ pc' = "answer"
          /\ UNCHANGED <<err, causes>>

MyListSchemas == engine = "mysql" /\ ListOnlySchema("answer")

MyNext ==
    \/ MyOpen \/ MyCheckSchema \/ MyListSchemas
    \/ MyResolveRelation \/ MyListRows \/ MyListConstraints
===========================================================================
