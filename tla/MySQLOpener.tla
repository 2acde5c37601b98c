---------------------------- MODULE MySQLOpener ----------------------------
(***************************************************************************)
(* The MySQL runtime cache: src/internal/connection/mysql/opener.go.       *)
(*                                                                         *)
(* It is the machine of PostgresOpener over a database/sql pool, and the   *)
(* actions below are those of PostgresOpener except where the code differs: *)
(*   - a client opened for nothing is rejected with errOpenInvalidated, and *)
(*     the errors of an attempt are projected by projectMySQLQueryError;   *)
(*   - the Close of a pool does not wait for the connections in use, and   *)
(*     may return an error, which Opener.Close reports to its caller;      *)
(*   - Close does not look at closeDone before it locks, nor a second time *)
(*     when its own context ends.                                          *)
(***************************************************************************)
EXTENDS PostgresOpener

VARIABLES
    failed,    \* history: pools whose Close returned an error
    closeErr,  \* Opener.closeErr: pools whose errors were joined into it
    report     \* the error a caller of Close was given

closeVars == <<failed, closeErr, report>>
myVars == <<vars, closeVars>>

MyInit ==
    /\ Init
    /\ failed = {}
    /\ closeErr = {}
    /\ report = [s \in Closers |-> {}]
---------------------------------------------------------------------------
\* projectMySQLQueryError without a context that ended: what a caller may be told of
\* an attempt's error.  A database that is unavailable is one for the driver's errors
\* of the network and for the server's refusals, which keep a category of their own;
\* it is internal for connection.ErrDatabaseUnavailable and for a pool that could not
\* be made, and so is a definition that is not there.
QueryErrors(err) ==
    CASE err = "unsupported" -> {"unsupported"}
      [] err \in {"timeout", "closed", "invalidated"} -> {"unavailable"}
      [] err = "unavailable" -> {"unavailable", "internal"}
      [] OTHER -> {"internal"}

OpenClosedDatabase(c, id) ==
    /\ isClosed
    /\ caller[c] = "idle"
    /\ ctx' = [ctx EXCEPT ![c] = "live"]
    /\ reply' = [reply EXCEPT ![c] = "unavailable"]
    /\ UNCHANGED <<caller, request>>
    /\ UNCHANGED <<isClosed, generations, entries, attemptVars, completing, closer>>

openRaw(c, id) ==
    /\ \/ OpenClosedDatabase(c, id) \/ OpenCached(c, id)
       \/ OpenJoin(c, id) \/ OpenStart(c, id)
    /\ UNCHANGED closeVars

waitForAttempt(c) ==
    LET a == request[c].attempt IN
    /\ caller[c] = "waiting"
    /\ \/ pc[a] \in Finished /\ ctx[c] = "live" /\ outcome[a] = "client" /\ Answer(c, "client")
       \/ pc[a] \in Finished /\ ctx[c] = "live" /\ outcome[a] # "client"
             /\ \E told \in QueryErrors(outcome[a]) : Answer(c, told)
       \/ ctx[c] = "cancelled" /\ Answer(c, "ctx")
    /\ UNCHANGED <<isClosed, generations, entries, attemptVars, completing, closer, closeVars>>

UseClient(c) == (CancelCall(c) \/ Acquire(c) \/ Release(c)) /\ UNCHANGED closeVars
---------------------------------------------------------------------------
openRuntime(a) ==
    /\ Prepare(a) \/ CreatePool(a) \/ Ping(a) \/ Verify(a) \/ DiscardPool(a)
    /\ UNCHANGED closeVars

Timeout(a) == Expire(a) /\ UNCHANGED closeVars

\* Mutant: a rejected client is left in the hands of its waiters.
BugFinish(a) ==
    /\ pc[a] = "finish"
    /\ \/ isCurrent(a) /\ publishAttemptLocked(a)
       \/ ~isCurrent(a) /\ Go(a, "exit") /\ UNCHANGED <<entries, outcome>>
    /\ UNCHANGED <<isClosed, generations, started, target, gen, cause, pool,
                   completing, callerVars, closer, closeVars>>

\* finishAttempt: the outcome of a client that lost its entry tells why.
Finish(a) ==
    /\ pc[a] = "finish"
    /\ \/ isCurrent(a) /\ publishAttemptLocked(a)
       \/ /\ ~isCurrent(a)
          /\ Return(a, IF outcome[a] = "client" THEN "stale" ELSE "exit",
                    IF isClosed THEN "closed"
                    ELSE IF outcome[a] = "client" THEN "invalidated" ELSE outcome[a])
          /\ UNCHANGED entries
    /\ UNCHANGED <<isClosed, generations, started, target, gen, cause, pool,
                   completing, callerVars, closer, closeVars>>

closeStalePool(a) == CloseStale(a) /\ UNCHANGED closeVars

\* Mutant: the deferred attempts.Done() is lost.
BugRunAttemptReturns(a) == FALSE /\ UNCHANGED myVars

runAttemptReturns(a) == EndAttempt(a) /\ UNCHANGED closeVars

Closed(a) == pool' = [pool EXCEPT ![a] = "closed"]

\* pool.Close() returns, whether or not connections are in use.
PoolClosedWell(a) ==
    /\ pool[a] = "closing"
    /\ a \notin failed
    /\ Closed(a)
    /\ UNCHANGED <<isClosed, generations, entries, started, target, gen, pc, cause, outcome,
                   completing, callerVars, closer, closeVars>>

\* Mutant: closers.Done() runs before the error is joined.
BugPoolCloseFailed(a) ==
    /\ pool[a] = "closing"
    /\ a \notin failed
    /\ failed' = failed \cup {a}
    /\ Closed(a)
    /\ UNCHANGED <<isClosed, generations, entries, started, target, gen, pc, cause, outcome,
                   completing, callerVars, closer, closeErr, report>>

PoolCloseFailed(a) ==
    /\ pool[a] = "closing"
    /\ a \notin failed
    /\ failed' = failed \cup {a}
    /\ UNCHANGED <<isClosed, generations, entries, attemptVars,
                   completing, callerVars, closer, closeErr, report>>

\* startTrackedClose: the error is joined under the mutex, then closers.Done().
JoinCloseErr(a) ==
    /\ a \in failed \ closeErr
    /\ closeErr' = closeErr \cup {a}
    /\ Closed(a)
    /\ UNCHANGED <<isClosed, generations, entries, started, target, gen, pc, cause, outcome,
                   completing, callerVars, closer, failed, report>>
---------------------------------------------------------------------------
InvalidateDatabase(id) == Invalidate(id) /\ UNCHANGED closeVars

BeginClose(s) == (CloseFirst(s) \/ CloseAgain(s)) /\ UNCHANGED closeVars

\* Once closeDone is closed Close answers with closeErr, or that its context
\* ended if both are ready.
FinishClose(s) ==
    /\ closer[s] = "waiting"
    /\ \/ /\ closeDone
          /\ closer' = [closer EXCEPT ![s] = "ok"]
          /\ report' = [report EXCEPT ![s] = closeErr]
       \/ /\ closer' = [closer EXCEPT ![s] = "timeout"]
          /\ UNCHANGED report
    /\ UNCHANGED <<isClosed, generations, entries, attemptVars, completing, callerVars,
                   failed, closeErr>>

finishShutdown == completeClose /\ UNCHANGED closeVars
---------------------------------------------------------------------------
MyAttemptStep(a) ==
    openRuntime(a) \/ Finish(a) \/ closeStalePool(a) \/ runAttemptReturns(a)

PoolStep(a) == PoolClosedWell(a) \/ PoolCloseFailed(a) \/ JoinCloseErr(a)

MyNext ==
    \/ \E a \in Attempt : MyAttemptStep(a) \/ Timeout(a) \/ PoolStep(a)
    \/ \E c \in Callers : waitForAttempt(c) \/ UseClient(c) \/ \E id \in Ids : openRaw(c, id)
    \/ \E id \in Ids : InvalidateDatabase(id)
    \/ \E s \in Closers : BeginClose(s) \/ FinishClose(s)
    \/ finishShutdown

\* As in PostgresOpener, but a pool's Close needs nothing of the callers.
MyFairness ==
    /\ \A a \in Attempt :
          /\ WF_myVars(Timeout(a))
          /\ WF_myVars(cause[a] # "none" /\ MyAttemptStep(a))
          /\ WF_myVars(pc[a] \notin {"prepare", "create", "ping"} /\ MyAttemptStep(a))
          /\ WF_myVars(PoolStep(a))
    /\ \A c \in Callers : WF_myVars(waitForAttempt(c))
    /\ WF_myVars(finishShutdown)

MySpec == MyInit /\ [][MyNext]_myVars /\ MyFairness
---------------------------------------------------------------------------
(* Close keeps no error to itself: when it returns before its context ends, *)
(* every goroutine has ended, every pool is closed, and its error holds    *)
(* what every pool's Close answered, in whatever order they closed.        *)
CloseReportsErrors ==
    \A s \in Closers : closer[s] = "ok" =>
        /\ report[s] = failed
        /\ AttemptsDone
        /\ \A a \in Attempt : pool[a] \in {"none", "closed"}

(* A client whose generation was invalidated while it was being opened is  *)
(* given to nobody: every client a caller holds was cached when its        *)
(* attempt ended, and was opened after the invalidations that came before  *)
(* the call.                                                                *)
HeldClientsWereCached ==
    \A c \in Callers : caller[c] \in {"holding", "using"} =>
        LET a == request[c].attempt IN
        /\ gen[a] >= request[c].since
        /\ outcome[a] = "client"
        /\ pool[a] = "open" => \E id \in Ids : entries[id].client = a
===========================================================================
