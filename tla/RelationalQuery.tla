-------------------------- MODULE RelationalQuery --------------------------
(***************************************************************************)
(* A relational query from the MCP tool to the engine's executor and back: *)
(* what the three engines have in common.                                  *)
(*   src/internal/transports/mcp/query.go       the tool and its answer    *)
(*   src/internal/execution/query.go            the checks of the service  *)
(*   src/internal/execution/query_errors.go     the category of an error   *)
(* The executors are in PostgresQuery, MySQLQuery and SqliteQuery.         *)
(*                                                                         *)
(* An error is what errors.Is and errors.As find in it: the sentinels, the *)
(* category the driver's error stands for (driver) and the DatabaseError   *)
(* or DatabaseFailure an engine made of it (projected).                    *)
(***************************************************************************)
EXTENDS ResultBudget, FiniteSetsExt

CONSTANTS Queries,     \* calls of the tool, one each
          Conns,       \* the connections of the engine's pool
          FixedSizes,  \* lengths of the fixed parts of an encoded result
          RowKinds,    \* rows a database may send, sequences of cells
          MaxRows,     \* bound: rows a database sends for one query
          RowLimit,    \* QueryOptions.RowLimit
          DetailSizes, \* lengths of what a database says of an error
          WireFrame,   \* length of the fixed parts of an encoded tool result
          None         \* no connection, no error

ASSUME RelationalQueryAssumption ==
    /\ RowKinds \subseteq Seq(Cell)
    /\ FixedSizes \subseteq Nat
    /\ DetailSizes \subseteq Nat
    /\ MaxRows \in Nat
    /\ RowLimit \in Nat \ {0}
    /\ WireFrame \in Nat
    /\ WireFrame <= ByteLimit \div 8  \* the configuration takes no limit below 64 KiB
    /\ Conns \cap Queries = {}
    /\ None \notin Conns \cup Queries

VARIABLES
    engine,      \* the kind of the source, one for the whole behaviour
    truncation,  \* QueryOptions.TruncationEnabled
    pc,          \* where each query is
    request,     \* the request's context: "live", "cancelled"
    query,       \* the query's context: "none", "live", "canceled", "deadline"
    conn,        \* the connection a query holds
    open,        \* physical connections to the database that are up
    marks,       \* what a connection's session holds of the queries run in it
    budget,      \* queryResultBudget
    out,         \* the result read so far
    err,         \* returnErr
    answer,      \* what the tool answered
    others,      \* connections in use by discovery
    causes       \* history: what went wrong, as the categories that would tell it

config == <<engine, truncation>>
contexts == <<request, query>>
sessions == <<conn, open, marks, others>>
result == <<budget, out>>
vars == <<config, pc, contexts, sessions, result, err, answer, causes>>

NoError == [is |-> {}, driver |-> None, projected |-> None]
NoAnswer == [category |-> "none", retryable |-> FALSE]
NoResult == [fixed |-> 0, rows |-> 0, bytes |-> 0, again |-> 0, state |-> "none", refused |-> 0]

Pooled == engine \in {"postgres", "mysql"}

\* A pool starts with the connection the opener pinged; a SQLite connection is
\* opened by a query for itself and bears its name.
Init ==
    /\ engine \in {"postgres", "mysql", "sqlite"}
    /\ truncation \in BOOLEAN
    /\ pc = [q \in Queries |-> "idle"]
    /\ request = [q \in Queries |-> "live"]
    /\ query = [q \in Queries |-> "none"]
    /\ conn = [q \in Queries |-> None]
    /\ open = IF Pooled THEN Conns ELSE {}
    /\ marks = [c \in Conns \cup Queries |-> {}]
    /\ budget = [q \in Queries |-> NewBudget(0)]
    /\ out = [q \in Queries |-> NoResult]
    /\ err = [q \in Queries |-> NoError]
    /\ answer = [q \in Queries |-> NoAnswer]
    /\ causes = [q \in Queries |-> {}]
    /\ others = {}
---------------------------------------------------------------------------
Is(tags) == [NoError EXCEPT !.is = tags]
DriverError(meaning) == [NoError EXCEPT !.driver = meaning]

\* errors.Join, and fmt.Errorf with two %w: errors.As takes the first it finds.
Join(e, f) ==
    [is |-> e.is \cup f.is,
     driver |-> IF e.driver = None THEN f.driver ELSE e.driver,
     projected |-> IF e.projected = None THEN f.projected ELSE e.projected]

\* queryContext.Err().
Ended(q) == query[q] \in {"canceled", "deadline"}
ContextError(q) ==
    Is({IF query[q] = "deadline" THEN "context.DeadlineExceeded" ELSE "context.Canceled"})

Category(name) == [category |-> name, retryable |-> FALSE]
Retryable(name) == [category |-> name, retryable |-> TRUE]

\* How a call to the database fails: its context ended, its connection broke, or
\* the database refused it with one of the codes.  why is what to tell the client.
Failed(e, why, up) == [error |-> e, why |-> why, up |-> up]
Interrupted(q) == IF Ended(q) THEN {Failed(ContextError(q), {}, FALSE)} ELSE {}
Refused(Meaning) ==
    {Failed(DriverError(code), {Meaning[code]}, TRUE) : code \in DOMAIN Meaning}
Broken ==
    {Failed(Is({"unavailable"}), {"database_unavailable"}, FALSE),
     Failed(NoError, {"internal"}, FALSE)}

\* A new connection is not made in time, of which Go says that a deadline was
\* exceeded; or its pool is closed by an invalidation, which cancels the dialing.
DialTimeout ==
    Failed(Is({"unavailable", "context.DeadlineExceeded"}),
           {"query_timeout", "database_unavailable"}, FALSE)
PoolClosed == Failed(Is({"context.Canceled"}), {"cancelled"}, FALSE)
---------------------------------------------------------------------------
Go(q, next) == pc' = [pc EXCEPT ![q] = next]
SetErr(q, e) == err' = [err EXCEPT ![q] = e]
Blame(q, why) == causes' = [causes EXCEPT ![q] = @ \cup why]

\* The connection that failed in q's hands is down; pgx and the MySQL driver
\* close it themselves.
Drop(q, up) == open' = IF up THEN open ELSE open \ {conn[q]}

\* A free slot of the pool, with an idle connection or none.
Free(c) == c \notin others /\ \A q \in Queries : conn[q] # c

\* Discovery shares the pool, and may keep a connection for as long as it likes.
BorrowConnection(c) ==
    /\ Pooled /\ Free(c)
    /\ others' = others \cup {c}
    /\ open' = open \cup {c}
    /\ marks' = [marks EXCEPT ![c] = IF c \in open THEN @ ELSE {}]
    /\ UNCHANGED <<config, pc, contexts, conn, result, err, answer, causes>>

ReturnConnection(c) ==
    /\ c \in others
    /\ others' = others \ {c}
    /\ UNCHANGED <<config, pc, contexts, conn, open, marks, result, err, answer, causes>>

\* Service.QueryRelationalDatabase: what it refuses before an executor sees it.
ServiceErrors ==
    [malformed |-> "ErrInvalidRequest", unsupported |-> "ErrInvalidRequest",
     unknown |-> "ErrSourceNotFound", otherKind |-> "ErrSourceKindMismatch"]
ServiceCategory ==
    [ErrInvalidRequest |-> "invalid_request", ErrSourceNotFound |-> "source_not_found",
     ErrSourceKindMismatch |-> "source_kind_mismatch"]

RefuseRequest(q) ==
    /\ pc[q] = "idle"
    /\ \E input \in DOMAIN ServiceErrors :
          /\ SetErr(q, Is({ServiceErrors[input]}))
          /\ Blame(q, {ServiceCategory[ServiceErrors[input]]})
    /\ Go(q, "respond")
    /\ UNCHANGED <<config, contexts, sessions, result, answer>>

\* The executor starts: the timer of the query begins to run, unless the request
\* was given up before.
QueryRelationalDatabase(q) ==
    /\ pc[q] = "idle"
    /\ IF request[q] = "cancelled"
       THEN /\ SetErr(q, Is({"ErrCancelled", "context.Canceled"}))
            /\ Go(q, "respond")
            /\ UNCHANGED query
       ELSE /\ query' = [query EXCEPT ![q] = "live"]
            /\ Go(q, "open")
            /\ UNCHANGED err
    /\ UNCHANGED <<config, request, sessions, result, answer, causes>>

\* The client's connection breaks off, or it cancels its request.
CancelRequest(q) ==
    /\ pc[q] # "done"
    /\ request[q] = "live"
    /\ request' = [request EXCEPT ![q] = "cancelled"]
    /\ query' = [query EXCEPT ![q] = IF @ = "live" THEN "canceled" ELSE @]
    /\ UNCHANGED <<config, pc, sessions, result, err, answer, causes>>

\* Mutant: the query is run under the request's context.
BugQueryTimeout(q) == FALSE /\ UNCHANGED vars

\* context.WithTimeout(requestContext, e.timeout) fires.
QueryTimeout(q) ==
    /\ query[q] = "live"
    /\ pc[q] \notin {"respond", "done"}
    /\ query' = [query EXCEPT ![q] = "deadline"]
    /\ UNCHANGED <<config, pc, request, sessions, result, err, answer, causes>>
---------------------------------------------------------------------------
\* ClassifyRelationalQuery: the sentinels in the order it asks for them.
SentinelOrder ==
    << <<"ErrInvalidRequest", Category("invalid_request")>>,
       <<"ErrSourceNotFound", Category("source_not_found")>>,
       <<"ErrSourceKindMismatch", Category("source_kind_mismatch")>>,
       <<"ErrInvalidQuery", Category("invalid_query")>>,
       <<"ErrQueryCancelled", Category("query_cancelled")>>,
       <<"ErrQueryTimeout", Category("query_timeout")>>,
       <<"context.DeadlineExceeded", Category("query_timeout")>>,
       <<"ErrCancelled", Category("cancelled")>>,
       <<"context.Canceled", Category("cancelled")>>,
       <<"ErrDatabaseUnavailable", Retryable("database_unavailable")>> >>

ClassifyRelationalQuery(q, e) ==
    IF request[q] = "cancelled" THEN Category("cancelled")
    ELSE IF "ErrResultTooLarge" \in e.is THEN Category("result_too_large")
    ELSE IF e.projected # None THEN e.projected
    ELSE LET found == {i \in DOMAIN SentinelOrder : SentinelOrder[i][1] \in e.is} IN
         IF found # {} THEN SentinelOrder[Min(found)][2] ELSE Category("internal")

\* relationalQueryCallToolResult: the result as JSON, and once more as a text in
\* which that JSON is escaped.
WireSize(q) ==
    WireFrame + 2 * EncodedSize(out[q].fixed, out[q].rows, out[q].bytes) + out[q].again

\* The next request comes.
NextRequest(q) ==
    /\ pc[q] = "done"
    /\ Go(q, "idle")
    /\ request' = [request EXCEPT ![q] = "live"]
    /\ query' = [query EXCEPT ![q] = "none"]
    /\ out' = [out EXCEPT ![q] = NoResult]
    /\ SetErr(q, NoError)
    /\ answer' = [answer EXCEPT ![q] = NoAnswer]
    /\ causes' = [causes EXCEPT ![q] = {}]
    /\ UNCHANGED <<config, sessions, budget>>

\* boundRelationalQueryFailure: what the database said of its error is cut to a
\* sixteenth of the limit.
BoundedDetail(n) ==
    LET bound == IF ByteLimit \div 16 < 65536 THEN ByteLimit \div 16 ELSE 65536 IN
    IF n < bound THEN n ELSE bound

\* relationalQueryFailureWire, at its worst: a byte becomes up to seven when it is
\* escaped twice, and the message is told twice.
FailureWireSize(n) == WireFrame + 14 * BoundedDetail(n)

\* The tool's handler and finishRelationalQueryError.
Respond(q) ==
    /\ pc[q] = "respond"
    /\ Go(q, "done")
    /\ \E detail \in DetailSizes :
          LET oversize == err[q] = NoError /\ WireSize(q) > ByteLimit
              told == IF oversize THEN Is({"ErrResultTooLarge"}) ELSE err[q]
              lengthy == told.projected # None /\ FailureWireSize(detail) > ByteLimit
          IN
          /\ answer' = [answer EXCEPT ![q] =
                 IF told = NoError THEN Category("ok")
                 ELSE ClassifyRelationalQuery(q, IF lengthy THEN Is({"ErrResultTooLarge"}) ELSE told)]
          /\ Blame(q, IF oversize THEN {"result_too_large"} ELSE {})
    /\ UNCHANGED <<config, contexts, sessions, result, err>>
---------------------------------------------------------------------------
\* The reading is over, and the budget with it; an error takes the result back.
EndReading(q) ==
    /\ budget' = [budget EXCEPT ![q] = NewBudget(0)]
    /\ out' = [out EXCEPT ![q] = IF err'[q] = NoError THEN @ ELSE NoResult]

\* A row is retained.
Retain(q, row, sizes) ==
    /\ budget' = [budget EXCEPT ![q] = RetainRow(@, rowSize(sizes))]
    /\ out' = [out EXCEPT ![q].rows = @ + 1,
                          ![q].bytes = @ + EncodedRow(sizes),
                          ![q].again = @ + Total([i \in DOMAIN row |-> row[i].again])]

\* The columns are known: with names too long for the limit there is no result.
StartResult(q, after) ==
    \E size \in FixedSizes :
        /\ budget' = [budget EXCEPT ![q] = NewBudget(size)]
        /\ out' = [out EXCEPT ![q] = [NoResult EXCEPT !.fixed = size, !.state = "reading"]]
        /\ \/ newBudgetFits(size) /\ Go(q, "rows") /\ UNCHANGED <<err, causes>>
           \/ /\ ~newBudgetFits(size)
              /\ SetErr(q, Is({"ErrResultTooLarge"}))
              /\ Blame(q, {"result_too_large"})
              /\ Go(q, after)

\* One round of the loop over the rows: the context, the row limit, the budget.
\* The database may send rows as long as the query runs.
ReadRow(q, row, sizes, fit, after) ==
    /\ pc[q] = "rows"
    /\ out[q].rows < MaxRows
    /\ conn[q] \in open
    /\ \/ /\ Ended(q)
          /\ SetErr(q, ContextError(q))
          /\ Go(q, after)
          /\ UNCHANGED <<result, causes>>
       \/ /\ ~Ended(q) /\ truncation /\ out[q].rows = RowLimit
          /\ out' = [out EXCEPT ![q].state = "truncated"]
          /\ Go(q, after)
          /\ UNCHANGED <<budget, err, causes>>
       \/ /\ ~Ended(q) /\ ~(truncation /\ out[q].rows = RowLimit) /\ ~fit
          /\ SetErr(q, Is({"ErrResultTooLarge"}))
          /\ Blame(q, {"result_too_large"})
          /\ out' = [out EXCEPT ![q].refused = EncodedRow(sizes)]
          /\ Go(q, after)
          /\ UNCHANGED budget
       \/ /\ ~Ended(q) /\ ~(truncation /\ out[q].rows = RowLimit) /\ fit
          /\ Retain(q, row, sizes)
          /\ UNCHANGED <<pc, err, causes>>
    /\ UNCHANGED <<config, contexts, sessions, answer>>
===========================================================================
