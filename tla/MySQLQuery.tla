----------------------------- MODULE MySQLQuery -----------------------------
(***************************************************************************)
(* The MySQL executor: query.go, query_result.go, query_error.go and       *)
(* query_runtime.go of src/internal/connection/mysql.                      *)
(*                                                                         *)
(* Unlike PostgreSQL's it trusts no session after a query: the connection  *)
(* is rolled back and then always destroyed.                               *)
(***************************************************************************)
EXTENDS RelationalQuery

\* mysqlErrorCategory: error numbers, and SQLSTATEs where no number is listed.
MyCategory ==
    [e1045 |-> Category("database_authentication_failed"),
     e1142 |-> Category("database_permission_denied"),
     e1792 |-> Category("read_only_violation"),
     e1317 |-> Category("query_cancelled"),
     e3024 |-> Category("query_timeout"),
     e1213 |-> Retryable("database_conflict"),
     e1040 |-> Retryable("database_unavailable"),
     e1037 |-> Category("database_resource_exhausted"),
     s08S01 |-> Retryable("database_unavailable"),
     s42000 |-> Category("invalid_query"),
     sHY000 |-> Category("database_error")]

\* What MySQL means by them (its server error reference).
MyMeaning ==
    [e1045 |-> "database_authentication_failed", e1142 |-> "database_permission_denied",
     e1792 |-> "read_only_violation", e1317 |-> "query_cancelled", e3024 |-> "query_timeout",
     e1213 |-> "database_conflict", e1040 |-> "database_unavailable",
     e1037 |-> "database_resource_exhausted", s08S01 |-> "database_unavailable",
     s42000 |-> "invalid_query", sHY000 |-> "database_error"]

MyOpening == [code \in {"e1045", "e1040"} |-> MyMeaning[code]]
MyCleanUp == [code \in {"sHY000"} |-> MyMeaning[code]]

MyKnown ==
    {"ErrInvalidRequest", "ErrInvalidQuery", "ErrResultTooLarge", "ErrCancelled",
     "ErrQueryTimeout", "ErrDatabaseUnavailable", "ErrInternal"}

\* projectMySQLQueryErrorWithoutContext.
MyProject(e) ==
    IF e.projected # None \/ e.is \cap MyKnown # {} THEN e
    ELSE IF e.driver # None THEN [e EXCEPT !.projected = MyCategory[e.driver]]
    ELSE Join(e, Is({IF "unavailable" \in e.is THEN "ErrDatabaseUnavailable"
                     ELSE IF "context.Canceled" \in e.is THEN "ErrCancelled"
                     ELSE IF "context.DeadlineExceeded" \in e.is THEN "ErrQueryTimeout"
                     ELSE "ErrInternal"}))

\* executionError: a context that ended takes the place of the error.
MyExecutionError(q, e) ==
    IF request[q] = "cancelled" THEN Is({"ErrCancelled", "context.Canceled"})
    ELSE IF query[q] = "deadline" THEN Is({"ErrQueryTimeout", "context.DeadlineExceeded"})
    ELSE IF e.is \cap MyKnown # {} THEN e
    ELSE MyProject(e)

MyFails(q, failure, next) ==
    /\ SetErr(q, MyExecutionError(q, Join(err[q], failure.error)))
    /\ Blame(q, failure.why)
    /\ Go(q, next)
---------------------------------------------------------------------------
\* OpenQuery: MySQLOpener.
MyOpen(q) ==
    /\ pc[q] = "open"
    /\ \/ Go(q, "acquire") /\ UNCHANGED <<err, causes>>
       \/ \E failure \in Interrupted(q) \cup Broken \cup {DialTimeout} \cup Refused(MyOpening) :
             MyFails(q, failure, "respond")
    /\ UNCHANGED <<config, contexts, sessions, result, answer>>

\* sql.DB.Conn.
MyAcquire(q) ==
    /\ pc[q] = "acquire"
    /\ \/ \E c \in Conns :
             /\ Free(c)
             /\ conn' = [conn EXCEPT ![q] = c]
             /\ open' = open \cup {c}
             /\ marks' = [marks EXCEPT ![c] = IF c \in open THEN @ ELSE {}]
             /\ Go(q, "begin")
             /\ UNCHANGED <<others, err, causes>>
       \/ /\ \E failure \in Interrupted(q) \cup
                   (IF Conns \subseteq open THEN {}
                    ELSE Broken \cup {DialTimeout, PoolClosed} \cup Refused(MyOpening)) :
                MyFails(q, failure, "respond")
          /\ UNCHANGED sessions
    /\ UNCHANGED <<config, contexts, result, answer>>

\* BeginTx with ReadOnly; failing, it leaves no transaction to roll back.
MyBegin(q) ==
    /\ pc[q] = "begin"
    /\ \/ /\ marks' = [marks EXCEPT ![conn[q]] = @ \cup {"transaction"}]
          /\ Go(q, "query")
          /\ UNCHANGED <<open, err, causes>>
       \/ \E failure \in Interrupted(q) \cup Broken \cup Refused(MyCleanUp) :
             /\ MyFails(q, failure, "destroy")
             /\ Drop(q, failure.up)
             /\ UNCHANGED marks
    /\ UNCHANGED <<config, contexts, conn, others, result, answer>>

\* QueryContext, and the columns of the rows.
MyQuery(q) ==
    /\ pc[q] = "query"
    /\ \/ /\ \E left \in {{}, {"statements", "settings"}} :
                marks' = [marks EXCEPT ![conn[q]] = @ \cup left]
          /\ \/ StartResult(q, "drain")
             \/ /\ SetErr(q, Is({"ErrInvalidQuery"}))
                /\ Blame(q, {"invalid_query"})
                /\ Go(q, "drain")
                /\ UNCHANGED result
          /\ UNCHANGED open
       \/ \E failure \in Interrupted(q) \cup Broken \cup Refused(MyMeaning) :
             /\ MyFails(q, failure, "rollback")
             /\ Drop(q, failure.up)
             /\ UNCHANGED <<marks, result>>
    /\ UNCHANGED <<config, contexts, conn, others, answer>>

\* mysqlCellString: binary values are told as X'...' with two digits a byte.
MyCellSize(cell) ==
    IF cell.kind = "binary" THEN 3 + 2 * cell.raw + 2 ELSE TextSize(cell)

\* Values that cannot fit are refused before they are converted.
MyTooLong(cell) ==
    \/ cell.kind = "binary" /\ (ByteLimit < 3 \/ cell.raw > (ByteLimit - 3) \div 2)
    \/ cell.kind = "text" /\ cell.raw > ByteLimit

MySizes(row) == [i \in DOMAIN row |-> MyCellSize(row[i])]

MyRowFits(b, row) == (\A i \in DOMAIN row : ~MyTooLong(row[i])) /\ RowFits(b, MySizes(row))

\* mysqlCellString's default: a value of a Go type it does not know, such as the
\* float32 the driver makes of a FLOAT.  rows.Scan, into any, takes every value and
\* fails only when the context has ended, which is ReadRow's first case.
MyUnknownValue(q) ==
    /\ pc[q] = "rows"
    /\ out[q].rows < MaxRows
    /\ conn[q] \in open
    /\ ~Ended(q) /\ ~(truncation /\ out[q].rows = RowLimit)
    /\ SetErr(q, Is({"ErrInternal"}))
    /\ Blame(q, {"internal"})
    /\ Go(q, "drain")
    /\ UNCHANGED <<config, contexts, sessions, result, answer>>

\* readResult: another row came.
MyRow(q) ==
    \/ \E row \in RowKinds :
           ReadRow(q, row, MySizes(row), MyRowFits(budget[q], row), "drain")
    \/ MyUnknownValue(q)

\* rows.Next returns false.
MyRowsEnd(q) ==
    /\ pc[q] = "rows"
    /\ \/ /\ ~Ended(q)
          /\ out' = [out EXCEPT ![q].state = "complete"]
          /\ budget' = [budget EXCEPT ![q] = NewBudget(0)]
          /\ Go(q, "rollback")
          /\ UNCHANGED <<err, causes, open>>
       \/ \E failure \in Interrupted(q) \cup Broken \cup Refused(MyCleanUp) :
             /\ MyFails(q, failure, "rollback")
             /\ Drop(q, failure.up)
             /\ EndReading(q)
    /\ UNCHANGED <<config, contexts, conn, marks, others, answer>>

\* The deferred rows.Close and rows.Err take the result back when they fail.
MyDrain(q) ==
    /\ pc[q] = "drain"
    /\ \/ /\ IF err[q] = NoError THEN UNCHANGED err
             ELSE SetErr(q, MyExecutionError(q, err[q]))
          /\ Go(q, "rollback")
          /\ UNCHANGED <<causes, open>>
       \/ \E failure \in Interrupted(q) \cup Broken \cup Refused(MyCleanUp) :
             /\ MyFails(q, failure, "rollback")
             /\ Drop(q, failure.up)
    /\ EndReading(q)
    /\ UNCHANGED <<config, contexts, conn, marks, others, answer>>
---------------------------------------------------------------------------
\* Mutant: a failed rollback is not reported.
BugMyRollback(q) ==
    /\ pc[q] = "rollback"
    /\ \E failure \in Broken : Blame(q, failure.why)
    /\ Go(q, "destroy")
    /\ UNCHANGED <<config, contexts, sessions, result, err, answer>>

\* cleanup: Rollback takes no context; the connection's read and write timeouts
\* end it.  database/sql has rolled back by itself when the context ended.
MyRollback(q) ==
    /\ pc[q] = "rollback"
    /\ \/ /\ conn[q] \in open
          /\ marks' = [marks EXCEPT ![conn[q]] = @ \ {"transaction"}]
          /\ Go(q, "destroy")
          /\ UNCHANGED <<err, causes>>
       \/ \E failure \in Broken \cup (IF conn[q] \in open THEN Refused(MyCleanUp) ELSE {}) :
             /\ SetErr(q, Join(err[q], MyExecutionError(q, failure.error)))
             /\ Blame(q, failure.why)
             /\ Go(q, "destroy")
             /\ UNCHANGED marks
    /\ EndReading(q)
    /\ UNCHANGED <<config, contexts, conn, open, others, answer>>

\* Destroy: driver.ErrBadConn makes sql.DB drop the connection.
MyDestroy(q) ==
    /\ pc[q] = "destroy"
    /\ open' = open \ {conn[q]}
    /\ conn' = [conn EXCEPT ![q] = None]
    /\ Go(q, "respond")
    /\ UNCHANGED <<config, contexts, marks, others, result, err, answer, causes>>
---------------------------------------------------------------------------
MyProgress(q) ==
    \/ Ended(q) /\ (MyOpen(q) \/ MyAcquire(q) \/ MyBegin(q) \/ MyQuery(q) \/ MyDrain(q))
    \/ Ended(q) /\ MyRowsEnd(q)
    \/ MyRollback(q) \/ MyDestroy(q)

MyNext(q) ==
    /\ engine = "mysql"
    /\ \/ MyOpen(q) \/ MyAcquire(q) \/ MyBegin(q) \/ MyQuery(q)
       \/ MyRow(q) \/ MyRowsEnd(q) \/ MyDrain(q) \/ MyRollback(q) \/ MyDestroy(q)
===========================================================================
