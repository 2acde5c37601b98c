---------------------------- MODULE SqliteQuery ----------------------------
(***************************************************************************)
(* The SQLite executor: query.go, query_result.go and query_error.go of    *)
(* src/internal/connection/sqlite.                                         *)
(*                                                                         *)
(* Every query has a connection of its own, opened under a lease of        *)
(* SqliteRuntime and closed with the query; the query's context interrupts *)
(* what runs on it.  What an error means depends on the phase it came in.  *)
(***************************************************************************)
EXTENDS RelationalQuery

\* isSQLiteInvalidQueryCode.
InvalidQueryCodes == {"ERROR", "RANGE", "MISMATCH", "MISUSE"}

LiteCodes == {"ERROR", "AUTH", "READONLY", "BUSY", "INTERRUPT", "IOERR", "TOOBIG", "CORRUPT"}

\* What a query was doing when it failed.
Phases == {"open", "prepare", "step", "close"}

\* sqliteErrorCategory.
sqliteErrorCategory(code, phase) ==
    IF phase = "prepare" /\ code \in InvalidQueryCodes THEN Category("invalid_query")
    ELSE IF code \in {"AUTH", "PERM"} THEN Category("database_permission_denied")
    ELSE IF code = "READONLY" THEN Category("read_only_violation")
    ELSE IF code \in {"BUSY", "LOCKED"} THEN Retryable("database_conflict")
    ELSE IF code = "INTERRUPT" THEN Category("query_cancelled")
    ELSE IF code \in {"CANTOPEN", "IOERR"} THEN Retryable("database_unavailable")
    ELSE IF code \in {"TOOBIG", "NOMEM", "FULL"} THEN Category("database_resource_exhausted")
    ELSE Category("database_error")

\* What SQLite means by them (its list of result codes): SQLITE_ERROR is the
\* statement's fault only while it is being compiled.
LiteMeaning(phase) ==
    [code \in LiteCodes |->
        [ERROR |-> IF phase = "prepare" THEN "invalid_query" ELSE "database_error",
         AUTH |-> "database_permission_denied", READONLY |-> "read_only_violation",
         BUSY |-> "database_conflict", INTERRUPT |-> "query_cancelled",
         IOERR |-> "database_unavailable", TOOBIG |-> "database_resource_exhausted",
         CORRUPT |-> "database_error"][code]]

LiteOpening == [code \in {"IOERR", "CORRUPT"} |-> LiteMeaning("open")[code]]
LiteClosing == [code \in {"IOERR"} |-> LiteMeaning("close")[code]]

LiteKnown ==
    {"ErrInvalidRequest", "ErrInvalidQuery", "ErrResultTooLarge", "ErrCancelled",
     "ErrQueryTimeout", "ErrDatabaseUnavailable", "ErrInternal"}

\* projectSQLiteError.
LiteProject(q, e, phase) ==
    IF request[q] = "cancelled" THEN Is({"ErrCancelled", "context.Canceled"})
    ELSE IF query[q] = "deadline" THEN Join(Is({"ErrQueryTimeout"}), e)
    ELSE IF (e.projected # None \/ e.is \cap LiteKnown # {}) /\ e.driver = None THEN e
    ELSE IF "unavailable" \in e.is THEN Is({"ErrDatabaseUnavailable"})
    ELSE [NoError EXCEPT !.projected =
             IF e.driver = None THEN Category("database_error")
             ELSE sqliteErrorCategory(e.driver, phase)]

LiteFails(q, failure, phase, next) ==
    /\ SetErr(q, Join(err[q], LiteProject(q, failure.error, phase)))
    /\ Blame(q, failure.why)
    /\ Go(q, next)

\* A failure of SQLite that has no result code.
Unknown == {Failed(NoError, {"database_error"}, TRUE)}
---------------------------------------------------------------------------
\* sqliteRuntime.open: a lease and a connection.
LiteOpen(q) ==
    /\ pc[q] = "open"
    /\ \/ /\ conn' = [conn EXCEPT ![q] = q]
          /\ open' = open \cup {q}
          /\ Go(q, "prepare")
          /\ UNCHANGED <<err, causes>>
       \/ /\ \E failure \in Interrupted(q) \cup Refused(LiteOpening) \cup Unknown \cup
                   {Failed(Is({"unavailable"}), {"database_unavailable"}, FALSE)} :
                LiteFails(q, failure, "open", "respond")
          /\ UNCHANGED <<conn, open>>
    /\ UNCHANGED <<config, contexts, marks, others, result, answer>>

\* Prepare; a statement must be there, alone, without parameters, with columns.
LitePrepare(q) ==
    /\ pc[q] = "prepare"
    /\ \/ StartResult(q, "ended")
       \/ /\ SetErr(q, Is({"ErrInvalidQuery"}))
          /\ Blame(q, {"invalid_query"})
          /\ \E next \in {"close client", "close statement"} : Go(q, next)
          /\ UNCHANGED result
       \/ /\ \E failure \in Interrupted(q) \cup Refused(LiteMeaning("prepare")) :
                LiteFails(q, failure, "prepare", "close client")
          /\ UNCHANGED result
    /\ UNCHANGED <<config, contexts, sessions, answer>>

\* cellValue: numbers as text, binary values as X'...'.
LiteCellSize(cell) ==
    IF cell.kind = "binary" THEN 3 + 2 * cell.raw + 2 ELSE TextSize(cell)

LiteTooLong(cell) ==
    \/ cell.kind = "binary" /\ (ByteLimit < 3 \/ cell.raw > (ByteLimit - 3) \div 2)
    \/ cell.kind = "text" /\ cell.raw > ByteLimit

LiteSizes(row) == [i \in DOMAIN row |-> LiteCellSize(row[i])]

LiteRowFits(b, row) ==
    (\A i \in DOMAIN row : ~LiteTooLong(row[i])) /\ RowFits(b, LiteSizes(row))

\* readRows: Step returns true.
LiteRow(q) ==
    \E row \in RowKinds :
        ReadRow(q, row, LiteSizes(row), LiteRowFits(budget[q], row), "ended")

\* Step returns false; stmt.Err is asked before the context.
LiteStepEnds(q) ==
    /\ pc[q] = "rows"
    /\ Go(q, "ended")
    /\ \/ /\ ~Ended(q)
          /\ out' = [out EXCEPT ![q].state = "complete"]
          /\ UNCHANGED <<err, causes>>
       \/ /\ \E failure \in Interrupted(q) \cup Refused(LiteMeaning("step")) :
                /\ SetErr(q, failure.error)
                /\ Blame(q, failure.why)
          /\ UNCHANGED out
    /\ UNCHANGED <<config, contexts, sessions, budget, answer>>

\* The loop is over: a context that ended since takes the result back.
LiteReadEnds(q) ==
    /\ pc[q] = "ended"
    /\ Go(q, "close statement")
    /\ IF err[q] = NoError /\ ~Ended(q) THEN UNCHANGED err
       ELSE SetErr(q, LiteProject(q, IF err[q] = NoError THEN ContextError(q) ELSE err[q], "step"))
    /\ EndReading(q)
    /\ UNCHANGED <<config, contexts, sessions, answer, causes>>
---------------------------------------------------------------------------
\* The deferred stmt.Close.
LiteCloseStatement(q) ==
    /\ pc[q] = "close statement"
    /\ \/ Go(q, "close client") /\ UNCHANGED <<err, causes>>
       \/ \E failure \in Refused(LiteClosing) : LiteFails(q, failure, "close", "close client")
    /\ EndReading(q)
    /\ UNCHANGED <<config, contexts, sessions, answer>>

\* The deferred client.close: the connection and the lease are given up even if it
\* fails.
LiteCloseClient(q) ==
    /\ pc[q] = "close client"
    /\ conn' = [conn EXCEPT ![q] = None]
    /\ open' = open \ {q}
    /\ \/ Go(q, "respond") /\ UNCHANGED <<err, causes>>
       \/ \E failure \in Refused(LiteClosing) : LiteFails(q, failure, "close", "respond")
    /\ EndReading(q)
    /\ UNCHANGED <<config, contexts, marks, others, answer>>
---------------------------------------------------------------------------
LiteProgress(q) ==
    \/ Ended(q) /\ (LiteOpen(q) \/ LitePrepare(q) \/ LiteStepEnds(q))
    \/ LiteReadEnds(q) \/ LiteCloseStatement(q) \/ LiteCloseClient(q)

LiteNext(q) ==
    /\ engine = "sqlite"
    /\ \/ LiteOpen(q) \/ LitePrepare(q) \/ LiteRow(q) \/ LiteStepEnds(q) \/ LiteReadEnds(q)
       \/ LiteCloseStatement(q) \/ LiteCloseClient(q)
===========================================================================
