--------------------------- MODULE PostgresQuery ---------------------------
(***************************************************************************)
(* The PostgreSQL executor: query.go, query_result.go, query_error.go and  *)
(* query_runtime.go of src/internal/connection/postgres.                   *)
(*                                                                         *)
(* A pooled connection runs the query in a read-only transaction.  After   *)
(* it the transaction is rolled back, prepared statements and settings are *)
(* discarded, and the connection goes back to the pool; if any of this     *)
(* fails, under a deadline of its own, the connection is destroyed and the *)
(* result withheld.                                                        *)
(***************************************************************************)
EXTENDS RelationalQuery

\* classifyDatabaseError: SQLSTATEs and what they are told as.
PgCategory ==
    [c42501 |-> Category("database_permission_denied"),
     c25006 |-> Category("read_only_violation"),
     c57014 |-> Category("query_cancelled"),
     c25P03 |-> Category("query_timeout"),
     c28P01 |-> Category("database_authentication_failed"),
     c40001 |-> Retryable("database_conflict"),
     c08006 |-> Retryable("database_unavailable"),
     c57P01 |-> Retryable("database_unavailable"),
     c53300 |-> Retryable("database_unavailable"),
     c53200 |-> Category("database_resource_exhausted"),
     c42601 |-> Category("invalid_query"),
     cXX000 |-> Category("database_error")]

\* What PostgreSQL means by them (appendix A of its manual).
PgMeaning ==
    [c42501 |-> "database_permission_denied", c25006 |-> "read_only_violation",
     c57014 |-> "query_cancelled", c25P03 |-> "query_timeout",
     c28P01 |-> "database_authentication_failed", c40001 |-> "database_conflict",
     c08006 |-> "database_unavailable", c57P01 |-> "database_unavailable",
     c53300 |-> "database_unavailable", c53200 |-> "database_resource_exhausted",
     c42601 |-> "invalid_query", cXX000 |-> "database_error"]

\* Those of the moment: at the opening, of the query, and of the clean-up.
PgOpening == [code \in {"c28P01", "c53300"} |-> PgMeaning[code]]
PgCleanUp == [code \in {"cXX000"} |-> PgMeaning[code]]

\* projectRelationalQueryError.
PgProject(e) ==
    IF e.projected # None THEN e
    ELSE IF e.driver # None THEN [e EXCEPT !.projected = PgCategory[e.driver]]
    ELSE Join(e, Is({IF "context.Canceled" \in e.is THEN "ErrCancelled"
                     ELSE IF "context.DeadlineExceeded" \in e.is THEN "ErrQueryTimeout"
                     ELSE IF "unavailable" \in e.is THEN "ErrDatabaseUnavailable"
                     ELSE "ErrInternal"}))

PgKnown ==
    {"ErrInvalidRequest", "ErrInvalidQuery", "ErrResultTooLarge", "ErrCancelled",
     "ErrQueryTimeout", "ErrDatabaseUnavailable", "ErrInternal"}

\* executionError.
PgExecutionError(q, e) ==
    IF request[q] = "cancelled" THEN Is({"ErrCancelled", "context.Canceled"})
    ELSE IF query[q] = "deadline" THEN Join(Is({"ErrQueryTimeout"}), e)
    ELSE IF e.projected # None \/ e.is \cap PgKnown # {} THEN e
    ELSE PgProject(e)
---------------------------------------------------------------------------
\* A call fails, is blamed for, and the query goes on to its clean-up.
PgFails(q, failure, next) ==
    /\ SetErr(q, PgExecutionError(q, Join(err[q], failure.error)))
    /\ Blame(q, failure.why)
    /\ Go(q, next)

\* OpenQuery: PostgresOpener, its errors as they are.
PgOpen(q) ==
    /\ pc[q] = "open"
    /\ \/ Go(q, "acquire") /\ UNCHANGED <<err, causes>>
       \/ \E failure \in Interrupted(q) \cup Broken \cup {DialTimeout} \cup Refused(PgOpening) :
             PgFails(q, failure, "respond")
    /\ UNCHANGED <<config, contexts, sessions, result, answer>>

\* pgxpool.Pool.Acquire: an idle connection or a new one, when there is room.
PgAcquire(q) ==
    /\ pc[q] = "acquire"
    /\ \/ \E c \in Conns :
             /\ Free(c)
             /\ conn' = [conn EXCEPT ![q] = c]
             /\ open' = open \cup {c}
             /\ marks' = [marks EXCEPT ![c] = IF c \in open THEN @ ELSE {}]
             /\ Go(q, "begin")
             /\ UNCHANGED <<others, err, causes>>
       \/ /\ \E failure \in Interrupted(q) \cup
                   (IF Conns \subseteq open THEN {}
                    ELSE Broken \cup {DialTimeout, PoolClosed} \cup Refused(PgOpening)) :
                PgFails(q, failure, "respond")
          /\ UNCHANGED sessions
    /\ UNCHANGED <<config, contexts, result, answer>>

\* BeginTx with AccessMode ReadOnly.  A begin that fails, for whatever reason,
\* leaves the connection closed and no transaction to clean up.
PgBegin(q) ==
    /\ pc[q] = "begin"
    /\ \/ /\ marks' = [marks EXCEPT ![conn[q]] = @ \cup {"transaction"}]
          /\ Go(q, "query")
          /\ UNCHANGED <<open, err, causes>>
       \/ \E failure \in Interrupted(q) \cup Broken \cup Refused(PgCleanUp) :
             /\ PgFails(q, failure, "release")
             /\ open' = open \ {conn[q]}
             /\ UNCHANGED marks
    /\ UNCHANGED <<config, contexts, conn, others, result, answer>>

\* transaction.Query.  What ran may have left prepared statements and settings in
\* the session.  Without columns there is nothing to return.
PgQuery(q) ==
    /\ pc[q] = "query"
    /\ \/ /\ \E left \in {{}, {"statements", "settings"}} :
                marks' = [marks EXCEPT ![conn[q]] = @ \cup left]
          /\ \/ StartResult(q, "drain")
             \/ /\ PgFails(q, Failed(Is({"ErrInvalidQuery"}), {"invalid_query"}, TRUE), "rollback")
                /\ UNCHANGED result
          /\ UNCHANGED open
       \/ \E failure \in Interrupted(q) \cup Broken \cup Refused(PgMeaning) :
             /\ PgFails(q, failure, "rollback")
             /\ Drop(q, failure.up)
             /\ UNCHANGED <<marks, result>>
    /\ UNCHANGED <<config, contexts, conn, others, answer>>

\* Every value is the text the database sent.
PgSizes(row) == [i \in DOMAIN row |-> TextSize(row[i])]

\* readRows: another row came.
PgRow(q) ==
    \E row \in RowKinds :
        ReadRow(q, row, PgSizes(row), RowFits(budget[q], PgSizes(row)), "drain")

\* rows.Next returns false: the database sent all of them, or the connection or
\* the query failed; the context is asked first.
PgRowsEnd(q) ==
    /\ pc[q] = "rows"
    /\ \/ /\ ~Ended(q)
          /\ out' = [out EXCEPT ![q].state = "complete"]
          /\ budget' = [budget EXCEPT ![q] = NewBudget(0)]
          /\ Go(q, "rollback")
          /\ UNCHANGED <<err, causes, open>>
       \/ \E failure \in Interrupted(q) \cup Broken \cup Refused(PgCleanUp) :
             /\ PgFails(q, failure, "rollback")
             /\ Drop(q, failure.up)
             /\ EndReading(q)
    /\ UNCHANGED <<config, contexts, conn, marks, others, answer>>

\* rows.Close reads to the end what the database still sends; rows.Err tells how
\* that went, and takes the result back.
PgDrain(q) ==
    /\ pc[q] = "drain"
    /\ \/ /\ IF err[q] = NoError THEN UNCHANGED err
             ELSE SetErr(q, PgExecutionError(q, err[q]))
          /\ Go(q, "rollback")
          /\ UNCHANGED <<causes, open>>
       \/ \E failure \in Interrupted(q) \cup Broken \cup Refused(PgCleanUp) :
             /\ PgFails(q, failure, "rollback")
             /\ Drop(q, failure.up)
    /\ EndReading(q)
    /\ UNCHANGED <<config, contexts, conn, marks, others, answer>>
---------------------------------------------------------------------------
\* cleanup: how a step of it fails, which a connection that is down makes it do.
\* Its deadline is its own; a clean-up that fails is internal, unless the database
\* said why.
PgCleanUpFailures(q) ==
    {Failed(Is({"ErrInternal"}), {"internal"}, FALSE)} \cup
    (IF conn[q] \notin open THEN {}
     ELSE {Failed(Is({"ErrInternal", "context.DeadlineExceeded"}), {"query_timeout"}, FALSE)}
          \cup {Failed(PgProject(f.error), f.why, FALSE) : f \in Refused(PgCleanUp)})

PgCleanUpStep(q, at, clears, next) ==
    /\ pc[q] = at
    /\ \/ /\ conn[q] \in open
          /\ marks' = [marks EXCEPT ![conn[q]] = @ \ clears]
          /\ Go(q, next)
          /\ UNCHANGED <<err, causes>>
       \/ \E failure \in PgCleanUpFailures(q) :
             /\ SetErr(q, Join(err[q], failure.error))
             /\ Blame(q, failure.why)
             /\ Go(q, "destroy")
             /\ UNCHANGED marks
    /\ EndReading(q)
    /\ UNCHANGED <<config, contexts, conn, open, others, answer>>

PgRollback(q) == PgCleanUpStep(q, "rollback", {"transaction"}, "deallocate")
PgDeallocateAll(q) == PgCleanUpStep(q, "deallocate", {"statements"}, "discard")
PgDiscardAll(q) == PgCleanUpStep(q, "discard", {"statements", "settings"}, "release")

\* Release: the pool keeps a connection that is up and in no transaction.
PgRelease(q) ==
    /\ pc[q] = "release"
    /\ open' = IF "transaction" \in marks[conn[q]] THEN open \ {conn[q]} ELSE open
    /\ conn' = [conn EXCEPT ![q] = None]
    /\ Go(q, "respond")
    /\ UNCHANGED <<config, contexts, marks, others, result, err, answer, causes>>

\* Mutant: a connection whose clean-up failed goes back to the pool.
BugPgDestroy(q) ==
    /\ pc[q] = "destroy"
    /\ conn' = [conn EXCEPT ![q] = None]
    /\ Go(q, "respond")
    /\ UNCHANGED <<config, contexts, open, marks, others, result, err, answer, causes>>

\* Destroy: taken from the pool (Hijack) and closed.
PgDestroy(q) ==
    /\ pc[q] = "destroy"
    /\ open' = open \ {conn[q]}
    /\ conn' = [conn EXCEPT ![q] = None]
    /\ Go(q, "respond")
    /\ UNCHANGED <<config, contexts, marks, others, result, err, answer, causes>>
---------------------------------------------------------------------------
\* What ends by itself or by a context that ended; the rest is the database's.
PgProgress(q) ==
    \/ Ended(q) /\ (PgOpen(q) \/ PgAcquire(q) \/ PgBegin(q) \/ PgQuery(q) \/ PgDrain(q))
    \/ Ended(q) /\ PgRowsEnd(q)
    \/ PgRollback(q) \/ PgDeallocateAll(q) \/ PgDiscardAll(q) \/ PgRelease(q) \/ PgDestroy(q)

PgNext(q) ==
    /\ engine = "postgres"
    /\ \/ PgOpen(q) \/ PgAcquire(q) \/ PgBegin(q) \/ PgQuery(q)
       \/ PgRow(q) \/ PgRowsEnd(q) \/ PgDrain(q)
       \/ PgRollback(q) \/ PgDeallocateAll(q) \/ PgDiscardAll(q) \/ PgRelease(q) \/ PgDestroy(q)
===========================================================================
