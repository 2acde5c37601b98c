-------------------------- MODULE PostgresOpener --------------------------
(***************************************************************************)
(* The PostgreSQL runtime cache: src/internal/connection/postgres/opener.go *)
(*                                                                         *)
(* Opener keeps one authenticated pool per database id.  A caller of Open  *)
(* is given the cached client, joins the attempt in flight or starts one;  *)
(* the attempt is a goroutine of its own that prepares the definition,     *)
(* creates a pool and pings it, and then publishes the client or rejects   *)
(* it.  Invalidate detaches an id's entry while attempts and callers are   *)
(* still at work, and Close shuts everything down and waits for it.        *)
(*                                                                         *)
(* Every action below is one critical section of the mutex, one call an    *)
(* attempt makes outside it, or one step of a waiting goroutine.  Attempts *)
(* are numbered in the order they start; a pool and the client around it   *)
(* carry the number of the attempt that created them.                      *)
(***************************************************************************)
EXTENDS Integers, FiniteSets

CONSTANTS Ids,            \* database ids
          Callers,        \* goroutines that call Open and then use the client
          Closers,        \* goroutines that call Close
          MaxAttempts,    \* bound: opening attempts in one behaviour
          MaxGeneration   \* bound: invalidations of one id

ASSUME OpenerAssumption ==
    /\ MaxAttempts \in Nat
    /\ MaxGeneration \in Nat

Attempt == 1..MaxAttempts
None == 0

VARIABLES
    isClosed,     \* Opener.isClosed
    generations,  \* Opener.generations
    entries,      \* Opener.entries; [attempt |-> None, client |-> None] is no entry
    started,      \* number of attempts started so far
    target,       \* id and
    gen,          \* generation an attempt was started for
    pc,           \* where the attempt's goroutine is
    cause,        \* cancellation cause of the attempt's context
    outcome,      \* what openRuntime returned; once done, attempt.client / attempt.err
    pool,         \* the pool the attempt created
    completing,   \* the completeClose goroutine
    caller,       \* state of every caller of Open
    ctx,          \* the context of the caller's current call
    request,      \* id asked for, attempt waited for or client held, generation at the call
    reply,        \* what the last call returned
    closer        \* state of every caller of Close

attemptVars == <<started, target, gen, pc, cause, outcome, pool>>
callerVars  == <<caller, ctx, request, reply>>
vars == <<isClosed, generations, entries, attemptVars, completing, callerVars, closer>>

NoEntry == [attempt |-> None, client |-> None]
Entry   == [attempt : Attempt \cup {None}, client : Attempt \cup {None}]

\* The calls of openRuntime that are still ahead of an attempt, in order.
Opening == {"prepare", "create", "ping", "verify"}
\* attempt.done is closed in finishAttempt, before the goroutine ends.
Finished == {"stale", "exit", "ended"}
AttemptPC == {"unused", "discard", "finish"} \cup Opening \cup Finished

NoRequest == [id |-> None, attempt |-> None, since |-> 0]

Causes == {"none", "timeout", "invalidated", "closed"}
OpenErrors == {"timeout", "invalidated", "closed", "notfound", "unsupported", "unavailable"}

\* The attempts WaitGroup is at zero; the closers WaitGroup is at zero.
AttemptsDone == \A a \in Attempt : pc[a] \in {"unused", "ended"}
ClosersDone  == \A a \in Attempt : pool[a] # "closing"
closeDone    == completing = "done"

Init ==
    /\ isClosed = FALSE
    /\ generations = [id \in Ids |-> 0]
    /\ entries = [id \in Ids |-> NoEntry]
    /\ started = 0
    /\ target = [a \in Attempt |-> None]
    /\ gen = [a \in Attempt |-> 0]
    /\ pc = [a \in Attempt |-> "unused"]
    /\ cause = [a \in Attempt |-> "none"]
    /\ outcome = [a \in Attempt |-> "none"]
    /\ pool = [a \in Attempt |-> "none"]
    /\ completing = "no"
    /\ caller = [c \in Callers |-> "idle"]
    /\ ctx = [c \in Callers |-> "live"]
    /\ request = [c \in Callers |-> NoRequest]
    /\ reply = [c \in Callers |-> "none"]
    /\ closer = [s \in Closers |-> "idle"]
---------------------------------------------------------------------------
(***************************************************************************)
(* Open and OpenQuery.  The early returns of openRaw for a missing or      *)
(* cancelled context and for an invalid id touch no state and are left     *)
(* out: every call starts with a live context.                             *)
(***************************************************************************)

Calling(c, id, a, state, answer) ==
    /\ caller[c] = "idle"
    /\ caller' = [caller EXCEPT ![c] = state]
    /\ ctx' = [ctx EXCEPT ![c] = "live"]
    /\ request' = [request EXCEPT ![c] = [id |-> id, attempt |-> a, since |-> generations[id]]]
    /\ reply' = [reply EXCEPT ![c] = answer]

OpenClosed(c, id) ==
    /\ isClosed
    /\ caller[c] = "idle"
    /\ ctx' = [ctx EXCEPT ![c] = "live"]
    /\ reply' = [reply EXCEPT ![c] = "closed"]
    /\ UNCHANGED <<caller, request>>
    /\ UNCHANGED <<isClosed, generations, entries, attemptVars, completing, closer>>

OpenCached(c, id) ==
    /\ ~isClosed
    /\ entries[id].client # None
    /\ Calling(c, id, entries[id].client, "holding", "client")
    /\ UNCHANGED <<isClosed, generations, entries, attemptVars, completing, closer>>

OpenJoin(c, id) ==
    /\ ~isClosed
    /\ entries[id].client = None
    /\ entries[id].attempt # None
    /\ Calling(c, id, entries[id].attempt, "waiting", "none")
    /\ UNCHANGED <<isClosed, generations, entries, attemptVars, completing, closer>>

\* The attempt's context is detached from the caller's (context.WithoutCancel),
\* and attempts.Add(1) happens before the mutex is released.
OpenStart(c, id) ==
    /\ ~isClosed
    /\ entries[id] = NoEntry
    /\ started < MaxAttempts
    /\ LET a == started + 1 IN
          /\ started' = a
          /\ target' = [target EXCEPT ![a] = id]
          /\ gen' = [gen EXCEPT ![a] = generations[id]]
          /\ pc' = [pc EXCEPT ![a] = "prepare"]
          /\ entries' = [entries EXCEPT ![id] = [attempt |-> a, client |-> None]]
          /\ Calling(c, id, a, "waiting", "none")
    /\ UNCHANGED <<isClosed, generations, cause, outcome, pool, completing, closer>>

\* Mutant: errors are handed to the caller as they are.
BugOpenError(err) == err

\* discoveryOpenError: what the caller is told of an attempt's error.
OpenError(err) ==
    IF err \in {"timeout", "unsupported", "closed", "notfound"} THEN err ELSE "unavailable"

Answer(c, answer) ==
    /\ reply' = [reply EXCEPT ![c] = answer]
    /\ \/ /\ answer = "client"
          /\ caller' = [caller EXCEPT ![c] = "holding"]
          /\ UNCHANGED request
       \/ /\ answer # "client"
          /\ caller' = [caller EXCEPT ![c] = "idle"]
          /\ request' = [request EXCEPT ![c] = NoRequest]
    /\ UNCHANGED ctx

\* waitForAttempt returns because attempt.done is closed: the caller's own
\* context is looked at first.
WaitDone(c) ==
    LET a == request[c].attempt IN
    /\ caller[c] = "waiting"
    /\ pc[a] \in Finished
    /\ \/ ctx[c] = "cancelled" /\ Answer(c, "ctx")
       \/ ctx[c] = "live" /\ outcome[a] = "client" /\ Answer(c, "client")
       \/ ctx[c] = "live" /\ outcome[a] # "client" /\ Answer(c, OpenError(outcome[a]))
    /\ UNCHANGED <<isClosed, generations, entries, attemptVars, completing, closer>>

\* waitForAttempt returns because the caller's context is done.
WaitCancelled(c) ==
    /\ caller[c] = "waiting"
    /\ ctx[c] = "cancelled"
    /\ Answer(c, "ctx")
    /\ UNCHANGED <<isClosed, generations, entries, attemptVars, completing, closer>>

\* Mutant: the attempt runs under the context of the caller that waits for it.
BugCancelCall(c) ==
    /\ caller[c] = "waiting"
    /\ ctx[c] = "live"
    /\ ctx' = [ctx EXCEPT ![c] = "cancelled"]
    /\ cause' = [cause EXCEPT ![request[c].attempt] = IF @ = "none" THEN "invalidated" ELSE @]
    /\ UNCHANGED <<isClosed, generations, entries, started, target, gen, pc, outcome, pool,
                   completing, caller, request, reply, closer>>

\* The caller's context is cancelled while it waits; the attempt goes on.
CancelCall(c) ==
    /\ caller[c] = "waiting"
    /\ ctx[c] = "live"
    /\ ctx' = [ctx EXCEPT ![c] = "cancelled"]
    /\ UNCHANGED <<isClosed, generations, entries, attemptVars, completing,
                   caller, request, reply, closer>>

\* A caller takes a connection from the pool of the client it holds, which a
\* closing pool refuses, and later gives it back and lets go of the client.
Acquire(c) ==
    /\ caller[c] = "holding"
    /\ pool[request[c].attempt] = "open"
    /\ caller' = [caller EXCEPT ![c] = "using"]
    /\ UNCHANGED <<isClosed, generations, entries, attemptVars, completing,
                   ctx, request, reply, closer>>

Release(c) ==
    /\ caller[c] \in {"holding", "using"}
    /\ caller' = [caller EXCEPT ![c] = "idle"]
    /\ request' = [request EXCEPT ![c] = NoRequest]
    /\ reply' = [reply EXCEPT ![c] = "none"]
    /\ UNCHANGED <<isClosed, generations, entries, attemptVars, completing, ctx, closer>>
---------------------------------------------------------------------------
(***************************************************************************)
(* runAttempt: openRuntime step by step, then finishAttempt.               *)
(***************************************************************************)

\* A cancelled context's cause replaces the error of the call that failed.
rawAttemptError(a, err) == IF cause[a] # "none" THEN cause[a] ELSE err

Go(a, next)          == pc' = [pc EXCEPT ![a] = next]
Return(a, next, out) == Go(a, next) /\ outcome' = [outcome EXCEPT ![a] = out]

\* preparer.Prepare returns a definition of this kind, one of another kind, or
\* an error.  A definition of another id and a nil pool without an error are
\* checked for as well, but neither Manager nor the pool factory returns one.
Prepare(a) ==
    /\ pc[a] = "prepare"
    /\ \/ Go(a, "create") /\ UNCHANGED outcome
       \/ Return(a, "finish", "unsupported")
       \/ \E err \in {"notfound", "unavailable"} : Return(a, "finish", rawAttemptError(a, err))
    /\ UNCHANGED <<isClosed, generations, entries, started, target, gen, cause, pool,
                   completing, callerVars, closer>>

\* pools.New returns a pool or an error.
CreatePool(a) ==
    /\ pc[a] = "create"
    /\ \/ Go(a, "ping") /\ pool' = [pool EXCEPT ![a] = "open"] /\ UNCHANGED outcome
       \/ Return(a, "finish", rawAttemptError(a, "unavailable")) /\ UNCHANGED pool
    /\ UNCHANGED <<isClosed, generations, entries, started, target, gen, cause,
                   completing, callerVars, closer>>

\* pool.Ping authenticates, or fails.
Ping(a) ==
    /\ pc[a] = "ping"
    /\ Go(a, "verify") \/ Go(a, "discard")
    /\ UNCHANGED <<isClosed, generations, entries, started, target, gen, cause, outcome, pool,
                   completing, callerVars, closer>>

\* A ping may succeed although the context was cancelled meanwhile.
Verify(a) ==
    /\ pc[a] = "verify"
    /\ \/ cause[a] = "none" /\ Return(a, "finish", "client")
       \/ cause[a] # "none" /\ Go(a, "discard") /\ UNCHANGED outcome
    /\ UNCHANGED <<isClosed, generations, entries, started, target, gen, cause, pool,
                   completing, callerVars, closer>>

\* closeTracked for a pool that failed its ping or was cancelled.
DiscardPool(a) ==
    /\ pc[a] = "discard"
    /\ pool' = [pool EXCEPT ![a] = "closing"]
    /\ Return(a, "finish", rawAttemptError(a, "unavailable"))
    /\ UNCHANGED <<isClosed, generations, entries, started, target, gen, cause,
                   completing, callerVars, closer>>

\* Mutant: no timer bounds an attempt.
BugExpire(a) == FALSE

\* The attempt's timer: ErrOpenTimeout, unless the context has a cause already.
Expire(a) ==
    /\ pc[a] \in Opening \cup {"discard"}
    /\ cause[a] = "none"
    /\ cause' = [cause EXCEPT ![a] = "timeout"]
    /\ UNCHANGED <<isClosed, generations, entries, started, target, gen, pc, outcome, pool,
                   completing, callerVars, closer>>

\* Mutant: only the shutdown makes an attempt stale.
BugIsCurrent(a) == ~isClosed

isCurrent(a) ==
    /\ ~isClosed
    /\ generations[target[a]] = gen[a]
    /\ entries[target[a]].attempt = a

publishAttemptLocked(a) ==
    /\ entries' = [entries EXCEPT ![target[a]] =
                      IF outcome[a] = "client" THEN [attempt |-> None, client |-> a] ELSE NoEntry]
    /\ Go(a, "exit")
    /\ UNCHANGED outcome

\* Mutant: the pool of a rejected client is dropped without closing it.
BugRejectAttemptLocked(a) ==
    /\ Return(a, "exit", IF isClosed THEN "closed" ELSE "unavailable")
    /\ UNCHANGED entries

\* A client that lost its entry is not handed out: its pool is stale.
rejectAttemptLocked(a) ==
    /\ Return(a, IF outcome[a] = "client" THEN "stale" ELSE "exit",
              IF isClosed THEN "closed"
              ELSE IF outcome[a] = "client" THEN "unavailable" ELSE outcome[a])
    /\ UNCHANGED entries

finishAttempt(a) ==
    /\ pc[a] = "finish"
    /\ \/ isCurrent(a) /\ publishAttemptLocked(a)
       \/ ~isCurrent(a) /\ rejectAttemptLocked(a)
    /\ UNCHANGED <<isClosed, generations, started, target, gen, cause, pool,
                   completing, callerVars, closer>>

\* closeTracked for the pool of a rejected client, after the mutex was released.
CloseStale(a) ==
    /\ pc[a] = "stale"
    /\ pool' = [pool EXCEPT ![a] = "closing"]
    /\ Go(a, "exit")
    /\ UNCHANGED <<isClosed, generations, entries, started, target, gen, cause, outcome,
                   completing, callerVars, closer>>

\* Mutant: attempts.Done() is skipped when the attempt failed.
BugEndAttempt(a) ==
    /\ pc[a] = "exit"
    /\ outcome[a] = "client"
    /\ Go(a, "ended")
    /\ UNCHANGED <<isClosed, generations, entries, started, target, gen, cause, outcome, pool,
                   completing, callerVars, closer>>

\* The goroutine ends: attempts.Done().
EndAttempt(a) ==
    /\ pc[a] = "exit"
    /\ Go(a, "ended")
    /\ UNCHANGED <<isClosed, generations, entries, started, target, gen, cause, outcome, pool,
                   completing, callerVars, closer>>

\* pool.Close() returns and closers.Done() runs; a pgx pool waits for the
\* connections taken from it.
PoolClosed(a) ==
    /\ pool[a] = "closing"
    /\ \A c \in Callers : caller[c] = "using" => request[c].attempt # a
    /\ pool' = [pool EXCEPT ![a] = "closed"]
    /\ UNCHANGED <<isClosed, generations, entries, started, target, gen, pc, cause, outcome,
                   completing, callerVars, closer>>
---------------------------------------------------------------------------
(***************************************************************************)
(* Invalidate and Close.                                                   *)
(***************************************************************************)

\* Mutant: detaching an entry does not cancel its attempt.
BugAttemptsOf(S) == {}

\* Attempts and clients of the entries of a set of ids, and what detaching
\* those entries does to them: the attempts are cancelled, the pools closed.
AttemptsOf(S) == {entries[id].attempt : id \in S} \ {None}
ClientsOf(S)  == {entries[id].client : id \in S} \ {None}

\* Mutant: the entry stays although its pool is closed.
BugDetach(S, why) ==
    /\ UNCHANGED entries
    /\ cause' = [a \in Attempt |-> IF a \in AttemptsOf(S) /\ cause[a] = "none"
                                   THEN why ELSE cause[a]]
    /\ pool' = [a \in Attempt |-> IF a \in ClientsOf(S) THEN "closing" ELSE pool[a]]

Detach(S, why) ==
    /\ entries' = [id \in Ids |-> IF id \in S THEN NoEntry ELSE entries[id]]
    /\ cause' = [a \in Attempt |-> IF a \in AttemptsOf(S) /\ cause[a] = "none"
                                   THEN why ELSE cause[a]]
    /\ pool' = [a \in Attempt |-> IF a \in ClientsOf(S) THEN "closing" ELSE pool[a]]

Invalidate(id) ==
    /\ ~isClosed
    /\ generations[id] < MaxGeneration
    /\ generations' = [generations EXCEPT ![id] = @ + 1]
    /\ Detach({id}, "invalidated")
    /\ UNCHANGED <<isClosed, started, target, gen, pc, outcome, completing, callerVars, closer>>

\* The first Close shuts the opener and starts completeClose; a later one, and
\* one repeated after a timeout, only waits.
CloseFirst(s) ==
    /\ closer[s] \in {"idle", "timeout"}
    /\ ~isClosed
    /\ isClosed' = TRUE
    /\ Detach(Ids, "closed")
    /\ completing' = "attempts"
    /\ closer' = [closer EXCEPT ![s] = "waiting"]
    /\ UNCHANGED <<generations, started, target, gen, pc, outcome, callerVars>>

CloseAgain(s) ==
    /\ closer[s] \in {"idle", "timeout"}
    /\ isClosed
    /\ closer' = [closer EXCEPT ![s] = "waiting"]
    /\ UNCHANGED <<isClosed, generations, entries, attemptVars, completing, callerVars>>

CloseReturns(s) ==
    /\ closer[s] = "waiting"
    /\ closeDone
    /\ closer' = [closer EXCEPT ![s] = "ok"]
    /\ UNCHANGED <<isClosed, generations, entries, attemptVars, completing, callerVars>>

\* The context of Close ends first; closeDone is looked at once more.
CloseExpires(s) ==
    /\ closer[s] = "waiting"
    /\ ~closeDone
    /\ closer' = [closer EXCEPT ![s] = "timeout"]
    /\ UNCHANGED <<isClosed, generations, entries, attemptVars, completing, callerVars>>

\* Mutant: completeClose waits for the closers before the attempts.
BugCompleteClose ==
    /\ \/ completing = "attempts" /\ ClosersDone /\ completing' = "closers"
       \/ completing = "closers" /\ AttemptsDone /\ completing' = "done"
    /\ UNCHANGED <<isClosed, generations, entries, attemptVars, callerVars, closer>>

\* completeClose: attempts.Wait(), then closers.Wait(), then close(closeDone).
completeClose ==
    /\ \/ completing = "attempts" /\ AttemptsDone /\ completing' = "closers"
       \/ completing = "closers" /\ ClosersDone /\ completing' = "done"
    /\ UNCHANGED <<isClosed, generations, entries, attemptVars, callerVars, closer>>
---------------------------------------------------------------------------
AttemptStep(a) ==
    \/ Prepare(a) \/ CreatePool(a) \/ Ping(a) \/ Verify(a) \/ DiscardPool(a)
    \/ finishAttempt(a) \/ CloseStale(a) \/ EndAttempt(a)

CallerStep(c) ==
    \/ \E id \in Ids : OpenClosed(c, id) \/ OpenCached(c, id) \/ OpenJoin(c, id) \/ OpenStart(c, id)
    \/ WaitDone(c) \/ WaitCancelled(c) \/ CancelCall(c) \/ Acquire(c) \/ Release(c)

CloserStep(s) == CloseFirst(s) \/ CloseAgain(s) \/ CloseReturns(s) \/ CloseExpires(s)

Next ==
    \/ \E a \in Attempt : AttemptStep(a) \/ Expire(a) \/ PoolClosed(a)
    \/ \E c \in Callers : CallerStep(c)
    \/ \E id \in Ids : Invalidate(id)
    \/ \E s \in Closers : CloserStep(s)
    \/ completeClose

Spec == Init /\ [][Next]_vars

(***************************************************************************)
(* Fairness.  Prepare, pools.New and Ping are only assumed to return once  *)
(* their context is done, which the attempt's timer guarantees; the steps  *)
(* of a goroutine that waits for nothing are eventually taken; a pool's    *)
(* Close returns once its connections are back, and callers give them back *)
(* because every query and discovery call runs under a timeout.            *)
(***************************************************************************)
CancelledCallReturns(a) == cause[a] # "none" /\ AttemptStep(a)
LocalStep(a) == pc[a] \notin {"prepare", "create", "ping"} /\ AttemptStep(a)

Fairness ==
    /\ \A a \in Attempt :
          /\ WF_vars(Expire(a))
          /\ WF_vars(CancelledCallReturns(a))
          /\ WF_vars(LocalStep(a))
          /\ WF_vars(PoolClosed(a))
    /\ \A c \in Callers : WF_vars(WaitDone(c)) /\ WF_vars(Release(c))
    /\ WF_vars(completeClose)

FairSpec == Spec /\ Fairness
---------------------------------------------------------------------------
TypeOK ==
    /\ isClosed \in BOOLEAN
    /\ generations \in [Ids -> Nat]
    /\ entries \in [Ids -> Entry]
    /\ started \in 0..MaxAttempts
    /\ target \in [Attempt -> Ids \cup {None}]
    /\ gen \in [Attempt -> Nat]
    /\ pc \in [Attempt -> AttemptPC]
    /\ cause \in [Attempt -> Causes]
    /\ outcome \in [Attempt -> {"none", "client"} \cup OpenErrors]
    /\ pool \in [Attempt -> {"none", "open", "closing", "closed"}]
    /\ completing \in {"no", "attempts", "closers", "done"}
    /\ caller \in [Callers -> {"idle", "waiting", "holding", "using"}]
    /\ ctx \in [Callers -> {"live", "cancelled"}]
    /\ request \in [Callers -> [id : Ids \cup {None}, attempt : Attempt \cup {None}, since : Nat]]
    \* "internal" is what MySQL's projection makes of an error it does not know
    /\ reply \in [Callers -> {"none", "client", "ctx", "internal"}
                                \cup (OpenErrors \ {"invalidated"})]
    /\ closer \in [Closers -> {"idle", "waiting", "timeout", "ok"}]

(* The entries never point at anything but the present generation: an     *)
(* attempt in an entry is still running, and a cached client's pool is    *)
(* open, whatever Invalidate and Close did while it was being opened.     *)
CacheIsCurrent ==
    \A id \in Ids :
        LET a == entries[id].attempt
            k == entries[id].client IN
        /\ a # None => /\ k = None
                       /\ target[a] = id /\ gen[a] = generations[id]
                       /\ pc[a] \in Opening \cup {"discard", "finish"}
        /\ k # None => /\ target[k] = id /\ gen[k] = generations[id]
                       /\ pc[k] \in {"exit", "ended"} /\ outcome[k] = "client"
                       /\ pool[k] = "open"

(* No pool is forgotten: an open pool is cached or still in the hands of  *)
(* the attempt that created it.                                           *)
PoolsAreOwned ==
    \A a \in Attempt : pool[a] = "open" =>
        \/ pc[a] \in {"ping", "verify", "discard", "finish", "stale"}
        \/ \E id \in Ids : entries[id].client = a

(* One opening per id: of all the attempts for an id that are still at    *)
(* work only one has not been told to stop.                               *)
SingleFlight ==
    \A a, b \in Attempt :
        /\ pc[a] \in Opening /\ pc[b] \in Opening
        /\ cause[a] = "none" /\ cause[b] = "none"
        /\ target[a] = target[b]
        => a = b

(* A call that starts after Invalidate returned is never answered with a  *)
(* client opened before it, nor with another id's client.                 *)
CallerGetsFreshClient ==
    \A c \in Callers : reply[c] = "client" =>
        LET a == request[c].attempt IN
        a # None /\ target[a] = request[c].id /\ gen[a] >= request[c].since

(* An attempt is only told to stop by what really happened to it: an      *)
(* invalidation of its own id since it started, or the shutdown; a caller *)
(* that gave up is no reason.  It ends as timed out only if its own timer *)
(* ran out.  And a caller is only told that it gave up if it did, and that *)
(* the opening timed out if an attempt ended so.                          *)
ErrorsHaveCauses ==
    /\ \A a \in Attempt :
          /\ cause[a] = "invalidated" => generations[target[a]] > gen[a]
          /\ cause[a] = "closed" \/ outcome[a] = "closed" => isClosed
          /\ outcome[a] = "timeout" => cause[a] = "timeout"
    /\ \A c \in Callers :
          /\ reply[c] = "ctx" => ctx[c] = "cancelled"
          /\ reply[c] = "closed" => isClosed
          /\ reply[c] = "timeout" =>
                \E a \in Attempt : pc[a] \in Finished /\ outcome[a] = "timeout"

(* Close reports success only when every goroutine the opener started has *)
(* ended and every pool it ever created is closed.                        *)
CloseReportsTruth ==
    \A s \in Closers : closer[s] = "ok" =>
        /\ AttemptsDone
        /\ \A a \in Attempt : pool[a] \in {"none", "closed"}

(* The opener implements the abstract runtime cache: a pool is served only *)
(* while it is open, is never served again once it was detached, and the  *)
(* opener reports that it is drained only when every pool is closed.      *)
HandleStatus == [none |-> "unborn", open |-> "live", closing |-> "retired", closed |-> "closed"]

Handles == INSTANCE RuntimeHandles WITH
    Handle  <- Attempt,
    status  <- [a \in Attempt |-> HandleStatus[pool[a]]],
    serving <- [id \in Ids |-> entries[id].client],
    shut    <- isClosed,
    drained <- closeDone

ImplementsHandles == Handles!Spec

(* Every caller of Open is answered, whatever the database does.          *)
CallersAreAnswered == \A c \in Callers : caller[c] = "waiting" ~> caller[c] # "waiting"

(* Once Close was called the opener drains, however many attempts were in *)
(* flight and whichever Close calls timed out.                            *)
ShutdownCompletes == isClosed ~> closeDone
===========================================================================
