--------------------------- MODULE QueryExecution ---------------------------
(***************************************************************************)
(* Relational queries on each of the three engines: the steps of the tool  *)
(* and the service (RelationalQuery) with those of the engine's executor.  *)
(***************************************************************************)
EXTENDS PostgresQuery, MySQLQuery, SqliteQuery

\* No error is none of the codes, nor what an executor makes of one.
ASSUME NoErrorAssumption ==
    /\ None \notin DOMAIN PgCategory \cup DOMAIN MyCategory \cup LiteCodes
    /\ \A code \in DOMAIN PgCategory : None # PgCategory[code]
    /\ \A code \in DOMAIN MyCategory : None # MyCategory[code]
    /\ \A code \in LiteCodes, phase \in Phases : None # sqliteErrorCategory(code, phase)

Next ==
    \/ \E q \in Queries :
          \/ RefuseRequest(q) \/ QueryRelationalDatabase(q) \/ Respond(q) \/ NextRequest(q)
          \/ CancelRequest(q) \/ QueryTimeout(q)
          \/ PgNext(q) \/ MyNext(q) \/ LiteNext(q)
    \/ \E c \in Conns : BorrowConnection(c) \/ ReturnConnection(c)

Spec == Init /\ [][Next]_vars

\* Timers fire, and what needs nothing of the database goes on.  A database need
\* never answer, nor stop sending rows; a clean-up has deadlines of its own.
Fairness ==
    \A q \in Queries :
        /\ WF_vars(QueryTimeout(q))
        /\ WF_vars(engine = "postgres" /\ PgProgress(q))
        /\ WF_vars(engine = "mysql" /\ MyProgress(q))
        /\ WF_vars(engine = "sqlite" /\ LiteProgress(q))
        /\ WF_vars(Respond(q))

FairSpec == Spec /\ Fairness
---------------------------------------------------------------------------
Holders(c) == {q \in Queries : conn[q] = c}

(* A connection nobody holds is fit for the next query: it is in no        *)
(* transaction and keeps no prepared statement or setting of the last one, *)
(* whatever failed or timed out in between (cleanup of the executors); no  *)
(* two queries share one, and SQLite's go with their query.                *)
PooledConnectionsAreClean ==
    /\ \A c \in open : Holders(c) = {} => c \in Conns /\ marks[c] = {}
    /\ \A c \in Conns : Cardinality(Holders(c)) <= 1
    /\ \A q \in Queries : pc[q] \in {"idle", "respond", "done"} => conn[q] = None

(* The budget is the size of the encoded result to the byte: what was      *)
(* retained fits the limit with every comma and digit, and a row that was  *)
(* refused would have exceeded it (query_result.go of the engines).        *)
BudgetIsExact ==
    \A q \in Queries :
        LET b == budget[q]
            o == out[q]
        IN
        /\ o.state = "reading" /\ pc[q] = "rows" => b.retainedRows = o.rows
        /\ o.state = "reading" /\ pc[q] = "rows" => b.rowsSize = 2 + o.bytes + (IF o.rows > 0 THEN o.rows - 1 ELSE 0)
        /\ o.rows > 0 => EncodedSize(o.fixed, o.rows, o.bytes) <= ByteLimit
        /\ o.refused > 0 =>
              EncodedSize(o.fixed, o.rows + 1, o.bytes + o.refused) > ByteLimit

(* The answer tells what happened.  A result is only handed out if nothing *)
(* failed, neither the query nor the clean-up after it, and it is complete *)
(* or says that it was cut at the row limit.  A failure is told by the     *)
(* category of something that really happened, a cancelled request always  *)
(* as such, and a retry is only suggested where it may help                *)
(* (ClassifyRelationalQuery over the errors of the executors).             *)
AnswerIsExplained ==
    \A q \in Queries : pc[q] = "done" =>
        LET a == answer[q] IN
        /\ a.category = "ok" =>
              /\ causes[q] = {}
              /\ \/ out[q].state = "complete"
                 \/ out[q].state = "truncated" /\ truncation /\ out[q].rows = RowLimit
        /\ a.category # "ok" =>
              \/ a.category \in causes[q]
              \/ a.category = "cancelled" /\ request[q] = "cancelled"
              \/ a.category = "query_timeout" /\ query[q] = "deadline"
        /\ a.category # "ok" /\ request[q] = "cancelled" => a.category = "cancelled"
        /\ a.retryable <=> a.category \in {"database_unavailable", "database_conflict"}

(* Every query is answered and gives its connection back, whatever the     *)
(* database does.                                                          *)
QueriesEnd == \A q \in Queries : pc[q] # "idle" ~> pc[q] = "done" /\ conn[q] = None
===========================================================================
