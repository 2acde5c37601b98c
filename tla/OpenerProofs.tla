---------------------------- MODULE OpenerProofs ----------------------------
(***************************************************************************)
(* Proofs about PostgresOpener, MySQLOpener and DefinitionFreshness, for   *)
(* every set of ids, callers, closers and registrars and every bound on    *)
(* attempts and generations.                                               *)
(*                                                                         *)
(* The inductive invariant IInv joins the properties of PostgresOpener     *)
(* with what they rest on: where each attempt's pool can be, given where   *)
(* its goroutine is (AttemptInv), what is over once completeClose has      *)
(* moved on (ShutdownInv), and what a caller waits for (CallerInv).        *)
(*                                                                         *)
(* MySQLOpener and DefinitionFreshness extend that module, and the proofs  *)
(* about them use its invariant.                                           *)
(***************************************************************************)
EXTENDS MySQLOpener, DefinitionFreshness, TLAPS

\* Where an attempt is, and what that says of its pool, context and entry.
AttemptInv ==
    \A a \in Attempt :
        /\ a > started <=> pc[a] = "unused"
        /\ pc[a] = "unused" => pool[a] = "none" /\ cause[a] = "none" /\ outcome[a] = "none"
        /\ pc[a] # "unused" => target[a] \in Ids /\ gen[a] <= generations[target[a]]
        /\ pc[a] \in {"prepare", "create"} => pool[a] = "none"
        /\ pc[a] \in {"ping", "verify", "discard", "stale"} => pool[a] = "open"
        /\ pc[a] = "finish" => (outcome[a] = "client" <=> pool[a] = "open")
        /\ pc[a] \in Opening \cup {"discard"} => outcome[a] = "none"
        /\ pc[a] \in Opening /\ cause[a] = "none" => entries[target[a]].attempt = a
        /\ cause[a] # "none" => pc[a] # "unused"
        /\ outcome[a] = "closed" => isClosed

\* completeClose moves on only when nothing it waited for can start again.
ShutdownInv ==
    /\ isClosed <=> completing # "no"
    /\ isClosed => \A id \in Ids : entries[id] = NoEntry
    /\ completing \in {"closers", "done"} => AttemptsDone
    /\ completing = "done" => ClosersDone

\* A caller that waits, or was given a client, knows a real attempt for its id.
CallerInv ==
    \A c \in Callers :
        /\ reply[c] = "client" <=> caller[c] \in {"holding", "using"}
        /\ caller[c] \in {"waiting", "holding", "using"} =>
              /\ request[c].attempt \in Attempt
              /\ pc[request[c].attempt] # "unused"
              /\ target[request[c].attempt] = request[c].id
              /\ gen[request[c].attempt] >= request[c].since

CloserInv == \A s \in Closers : closer[s] = "ok" => closeDone

IInv ==
    /\ TypeOK
    /\ CacheIsCurrent
    /\ PoolsAreOwned
    /\ AttemptInv
    /\ ShutdownInv
    /\ CallerInv
    /\ ErrorsHaveCauses
    /\ CloserInv
(***************************************************************************)
(* Type correctness.                                                       *)
(***************************************************************************)

\* What a caller is told, and the state it is left in, keep their types.
LEMMA AnswerType ==
    ASSUME TypeOK, NEW c \in Callers,
           NEW answer \in {"client", "ctx", "internal"} \cup (OpenErrors \ {"invalidated"}),
           Answer(c, answer)
    PROVE  /\ caller' \in [Callers -> {"idle", "waiting", "holding", "using"}]
           /\ ctx' \in [Callers -> {"live", "cancelled"}]
           /\ request' \in [Callers -> [id : Ids \cup {None}, attempt : Attempt \cup {None}, since : Nat]]
           /\ reply' \in [Callers -> {"none", "client", "ctx", "internal"} \cup (OpenErrors \ {"invalidated"})]
<1>1. NoRequest \in [id : Ids \cup {None}, attempt : Attempt \cup {None}, since : Nat]
  BY DEF NoRequest
<1>2. CASE answer = "client"
  BY <1>2 DEF TypeOK, Answer
<1>3. CASE answer # "client"
  <2>1. /\ reply' = [reply EXCEPT ![c] = answer]
        /\ caller' = [caller EXCEPT ![c] = "idle"]
        /\ request' = [request EXCEPT ![c] = NoRequest]
        /\ ctx' = ctx
    BY <1>3 DEF Answer
  <2>2. QED
    BY <1>1, <2>1 DEF TypeOK
<1>4. QED
  BY <1>2, <1>3

\* Every step of the opener preserves the types.
LEMMA TypeStep == TypeOK /\ [Next]_vars => TypeOK'
<1> SUFFICES ASSUME TypeOK, [Next]_vars PROVE TypeOK'
  OBVIOUS
<1> USE DEF TypeOK, Entry, Causes, OpenErrors, AttemptPC, Opening, Finished, attemptVars, callerVars
<1>1. ASSUME NEW c \in Callers, NEW id \in Ids, OpenClosed(c, id)
      PROVE  TypeOK'
  BY <1>1 DEF OpenClosed
<1>2. ASSUME NEW c \in Callers, NEW id \in Ids, OpenCached(c, id)
      PROVE  TypeOK'
  BY <1>2 DEF OpenCached, Calling
<1>3. ASSUME NEW c \in Callers, NEW id \in Ids, OpenJoin(c, id)
      PROVE  TypeOK'
  BY <1>3 DEF OpenJoin, Calling
<1>4. ASSUME NEW c \in Callers, NEW id \in Ids, OpenStart(c, id)
      PROVE  TypeOK'
  <2>1. started + 1 \in Attempt /\ started + 1 \in 0..MaxAttempts
    BY <1>4, OpenerAssumption DEF OpenStart, Attempt
  <2>2. QED
    BY <1>4, <2>1 DEF OpenStart, Calling, NoEntry
<1>5. ASSUME NEW c \in Callers, WaitDone(c)
      PROVE  TypeOK'
  <2> DEFINE a == request[c].attempt
  <2>1. OpenError(outcome[a]) \in OpenErrors \ {"invalidated"}
    BY DEF OpenError
  <2>2. \E answer \in {"client", "ctx", "internal"} \cup (OpenErrors \ {"invalidated"}) : Answer(c, answer)
    BY <1>5, <2>1 DEF WaitDone
  <2>3. QED
    BY <1>5, <2>2, AnswerType DEF WaitDone
<1>6. ASSUME NEW c \in Callers, WaitCancelled(c)
      PROVE  TypeOK'
  BY <1>6, AnswerType DEF WaitCancelled
<1>7. ASSUME NEW c \in Callers, CancelCall(c)
      PROVE  TypeOK'
  BY <1>7 DEF CancelCall
<1>8. ASSUME NEW c \in Callers, Acquire(c)
      PROVE  TypeOK'
  BY <1>8 DEF Acquire
<1>9. ASSUME NEW c \in Callers, Release(c)
      PROVE  TypeOK'
  BY <1>9 DEF Release, NoRequest
<1>10. ASSUME NEW a \in Attempt, Prepare(a)
      PROVE  TypeOK'
  <2>1. \A err \in {"notfound", "unavailable"} : rawAttemptError(a, err) \in OpenErrors
    BY DEF rawAttemptError
  <2>2. pc' \in [Attempt -> AttemptPC] /\ outcome' \in [Attempt -> {"none", "client"} \cup OpenErrors]
    <3>1. CASE Go(a, "create") /\ UNCHANGED outcome
      BY <3>1 DEF Go
    <3>2. CASE Return(a, "finish", "unsupported")
      BY <3>2 DEF Go, Return
    <3>3. CASE \E err \in {"notfound", "unavailable"} : Return(a, "finish", rawAttemptError(a, err))
      BY <2>1, <3>3 DEF Go, Return
    <3>4. QED
      BY <1>10, <3>1, <3>2, <3>3 DEF Prepare
  <2>3. QED
    BY <1>10, <2>2 DEF Prepare
<1>11. ASSUME NEW a \in Attempt, CreatePool(a)
      PROVE  TypeOK'
  <2>1. /\ pc' \in [Attempt -> AttemptPC]
        /\ outcome' \in [Attempt -> {"none", "client"} \cup OpenErrors]
        /\ pool' \in [Attempt -> {"none", "open", "closing", "closed"}]
    <3>1. rawAttemptError(a, "unavailable") \in OpenErrors
      BY DEF rawAttemptError
    <3>2. CASE Go(a, "ping") /\ pool' = [pool EXCEPT ![a] = "open"] /\ UNCHANGED outcome
      BY <3>2 DEF Go
    <3>3. CASE Return(a, "finish", rawAttemptError(a, "unavailable")) /\ UNCHANGED pool
      BY <3>1, <3>3 DEF Go, Return
    <3>4. QED
      BY <1>11, <3>2, <3>3 DEF CreatePool
  <2>2. QED
    BY <1>11, <2>1 DEF CreatePool
<1>12. ASSUME NEW a \in Attempt, Ping(a)
      PROVE  TypeOK'
  BY <1>12 DEF Ping, Go
<1>13. ASSUME NEW a \in Attempt, Verify(a)
      PROVE  TypeOK'
  <2>1. pc' \in [Attempt -> AttemptPC] /\ outcome' \in [Attempt -> {"none", "client"} \cup OpenErrors]
    BY <1>13 DEF Verify, Go, Return
  <2>2. QED
    BY <1>13, <2>1 DEF Verify
<1>14. ASSUME NEW a \in Attempt, DiscardPool(a)
      PROVE  TypeOK'
  <2>1. /\ pc' \in [Attempt -> AttemptPC]
        /\ outcome' \in [Attempt -> {"none", "client"} \cup OpenErrors]
        /\ pool' \in [Attempt -> {"none", "open", "closing", "closed"}]
    BY <1>14 DEF DiscardPool, Go, Return, rawAttemptError
  <2>2. QED
    BY <1>14, <2>1 DEF DiscardPool
<1>15. ASSUME NEW a \in Attempt, finishAttempt(a)
      PROVE  TypeOK'
  <2>1. CASE isCurrent(a) /\ publishAttemptLocked(a)
    <3>1. entries' \in [Ids -> Entry]
      BY <2>1 DEF publishAttemptLocked, NoEntry
    <3>2. pc' \in [Attempt -> AttemptPC]
      BY <2>1 DEF publishAttemptLocked, Go
    <3>3. isClosed' = isClosed /\ outcome' = outcome
      BY <1>15, <2>1 DEF finishAttempt, publishAttemptLocked
    <3>4. QED
      BY <1>15, <3>1, <3>2, <3>3 DEF finishAttempt
  <2>2. CASE rejectAttemptLocked(a)
    BY <1>15, <2>2 DEF finishAttempt, rejectAttemptLocked, Return, Go
  <2>3. QED
    BY <1>15, <2>1, <2>2 DEF finishAttempt
<1>16. ASSUME NEW a \in Attempt, CloseStale(a)
      PROVE  TypeOK'
  BY <1>16 DEF CloseStale, Go
<1>17. ASSUME NEW a \in Attempt, EndAttempt(a)
      PROVE  TypeOK'
  BY <1>17 DEF EndAttempt, Go
<1>18. ASSUME NEW a \in Attempt, Expire(a)
      PROVE  TypeOK'
  BY <1>18 DEF Expire, Opening
<1>19. ASSUME NEW a \in Attempt, PoolClosed(a)
      PROVE  TypeOK'
  BY <1>19 DEF PoolClosed
<1>20. ASSUME NEW id \in Ids, Invalidate(id)
      PROVE  TypeOK'
  BY <1>20 DEF Invalidate, Detach, AttemptsOf, ClientsOf, NoEntry
<1>21. ASSUME NEW s \in Closers, CloseFirst(s)
      PROVE  TypeOK'
  BY <1>21 DEF CloseFirst, Detach, AttemptsOf, ClientsOf, NoEntry
<1>22. ASSUME NEW s \in Closers, CloseAgain(s)
      PROVE  TypeOK'
  BY <1>22 DEF CloseAgain
<1>23. ASSUME NEW s \in Closers, CloseReturns(s)
      PROVE  TypeOK'
  BY <1>23 DEF CloseReturns
<1>24. ASSUME NEW s \in Closers, CloseExpires(s)
      PROVE  TypeOK'
  BY <1>24 DEF CloseExpires
<1>25. ASSUME completeClose
      PROVE  TypeOK'
  BY <1>25 DEF completeClose
<1>26. CASE UNCHANGED vars
  BY <1>26 DEF vars
<1>27. QED
  BY <1>1, <1>2, <1>3, <1>4, <1>5, <1>6, <1>7, <1>8, <1>9, <1>10, <1>11, <1>12, <1>13, <1>14, <1>15, <1>16, <1>17, <1>18, <1>19, <1>20, <1>21, <1>22, <1>23, <1>24, <1>25, <1>26 DEF Next, AttemptStep, CallerStep, CloserStep

\* The variables of newOpener have their types.
LEMMA InitType == Init => TypeOK
<1> SUFFICES ASSUME Init PROVE TypeOK
  OBVIOUS
<1>1. NoEntry \in Entry /\ NoRequest \in [id : Ids \cup {None}, attempt : Attempt \cup {None}, since : Nat]
  BY DEF NoEntry, NoRequest, Entry
<1>2. started \in 0..MaxAttempts
  BY OpenerAssumption DEF Init
<1>3. QED
  BY <1>1, <1>2 DEF Init, TypeOK, Causes, OpenErrors, AttemptPC

\* Every variable keeps its type.
THEOREM TypeCorrect == Spec => []TypeOK
<1>1. QED
  BY InitType, TypeStep, PTL DEF Spec

(***************************************************************************)
(* The inductive invariant.  Steps that only move callers of Open or Close *)
(* leave the opener's own state alone.                                     *)
(***************************************************************************)
Quiet == UNCHANGED <<isClosed, generations, entries, attemptVars, completing>>

\* A step leaves the cache and the attempts alone, or is one of the fifteen
\* that do not; the latter leave the callers or the closers alone.
LEMMA QuietOrLoud ==
    ASSUME [Next]_vars
    PROVE  \/ Quiet
           \/ \E c \in Callers : \E id \in Ids : OpenStart(c, id)
           \/ \E a \in Attempt : Prepare(a)
           \/ \E a \in Attempt : CreatePool(a)
           \/ \E a \in Attempt : Ping(a)
           \/ \E a \in Attempt : Verify(a)
           \/ \E a \in Attempt : DiscardPool(a)
           \/ \E a \in Attempt : finishAttempt(a)
           \/ \E a \in Attempt : CloseStale(a)
           \/ \E a \in Attempt : EndAttempt(a)
           \/ \E a \in Attempt : Expire(a)
           \/ \E a \in Attempt : PoolClosed(a)
           \/ \E id \in Ids : Invalidate(id)
           \/ \E s \in Closers : CloseFirst(s)
           \/ completeClose
BY DEF Next, vars, AttemptStep, CallerStep, CloserStep, Quiet, OpenClosed, OpenCached, OpenJoin,
       WaitDone, WaitCancelled, CancelCall, Acquire, Release, CloseAgain, CloseReturns, CloseExpires

\* Every step keeps the cache current: finishAttempt publishes only what
\* isCurrent lets through, and Detach empties the entries whose pools it closes.
LEMMA CacheStep == IInv /\ [Next]_vars => CacheIsCurrent'
<1> SUFFICES ASSUME IInv, [Next]_vars PROVE CacheIsCurrent'
  OBVIOUS
<1> USE DEF IInv, TypeOK, CacheIsCurrent, AttemptInv, ShutdownInv, Entry, NoEntry, Opening, Finished, attemptVars, Quiet
<1>1. CASE Quiet
  BY <1>1
<1>2. ASSUME NEW c \in Callers, NEW id \in Ids, OpenStart(c, id)
      PROVE  CacheIsCurrent'
  <2>1. started + 1 \in Attempt /\ pc[started + 1] = "unused" /\ started + 1 # None
    BY <1>2, OpenerAssumption DEF OpenStart, Attempt, None
  <2>2. QED
    BY <1>2, <2>1 DEF OpenStart, Calling
<1>3. ASSUME NEW a \in Attempt, Prepare(a)
      PROVE  CacheIsCurrent'
  BY <1>3 DEF Prepare, Go, Return, rawAttemptError
<1>4. ASSUME NEW a \in Attempt, CreatePool(a)
      PROVE  CacheIsCurrent'
  BY <1>4 DEF CreatePool, Go, Return, rawAttemptError
<1>5. ASSUME NEW a \in Attempt, Ping(a)
      PROVE  CacheIsCurrent'
  BY <1>5 DEF Ping, Go
<1>6. ASSUME NEW a \in Attempt, Verify(a)
      PROVE  CacheIsCurrent'
  BY <1>6 DEF Verify, Go, Return
<1>7. ASSUME NEW a \in Attempt, DiscardPool(a)
      PROVE  CacheIsCurrent'
  BY <1>7 DEF DiscardPool, Go, Return, rawAttemptError
<1>8. ASSUME NEW a \in Attempt, finishAttempt(a)
      PROVE  CacheIsCurrent'
  BY <1>8 DEF finishAttempt, Go, Return, isCurrent, publishAttemptLocked, rejectAttemptLocked
<1>9. ASSUME NEW a \in Attempt, CloseStale(a)
      PROVE  CacheIsCurrent'
  BY <1>9 DEF CloseStale, Go
<1>10. ASSUME NEW a \in Attempt, EndAttempt(a)
      PROVE  CacheIsCurrent'
  BY <1>10 DEF EndAttempt, Go
<1>11. ASSUME NEW a \in Attempt, Expire(a)
      PROVE  CacheIsCurrent'
  BY <1>11 DEF Expire
<1>12. ASSUME NEW a \in Attempt, PoolClosed(a)
      PROVE  CacheIsCurrent'
  BY <1>12 DEF PoolClosed
<1>13. ASSUME NEW id \in Ids, Invalidate(id)
      PROVE  CacheIsCurrent'
  BY <1>13 DEF Invalidate, Detach, AttemptsOf, ClientsOf
<1>14. ASSUME NEW s \in Closers, CloseFirst(s)
      PROVE  CacheIsCurrent'
  BY <1>14 DEF CloseFirst, Detach, AttemptsOf, ClientsOf
<1>15. ASSUME completeClose
      PROVE  CacheIsCurrent'
  BY <1>15 DEF completeClose
<1>16. QED
  BY QuietOrLoud, <1>1, <1>2, <1>3, <1>4, <1>5, <1>6, <1>7, <1>8, <1>9, <1>10, <1>11, <1>12, <1>13, <1>14, <1>15

\* Every step keeps open pools owned: a pool that leaves its attempt is cached
\* or on its way to closeTracked.
LEMMA OwnedStep == IInv /\ [Next]_vars => PoolsAreOwned'
<1> SUFFICES ASSUME IInv, [Next]_vars PROVE PoolsAreOwned'
  OBVIOUS
<1> USE DEF IInv, TypeOK, PoolsAreOwned, CacheIsCurrent, AttemptInv, ShutdownInv, Entry, NoEntry, Opening, Finished, attemptVars, Quiet
<1>1. CASE Quiet
  BY <1>1
<1>2. ASSUME NEW c \in Callers, NEW id \in Ids, OpenStart(c, id)
      PROVE  PoolsAreOwned'
  BY <1>2 DEF OpenStart, Calling
<1>3. ASSUME NEW a \in Attempt, Prepare(a)
      PROVE  PoolsAreOwned'
  BY <1>3 DEF Prepare, Go, Return, rawAttemptError
<1>4. ASSUME NEW a \in Attempt, CreatePool(a)
      PROVE  PoolsAreOwned'
  <2>1. pool[a] = "none"
    BY <1>4 DEF CreatePool
  <2>2. CASE Go(a, "ping") /\ pool' = [pool EXCEPT ![a] = "open"]
    BY <1>4, <2>2 DEF CreatePool, Go
  <2>3. CASE Return(a, "finish", rawAttemptError(a, "unavailable")) /\ UNCHANGED pool
    BY <1>4, <2>1, <2>3 DEF CreatePool, Go, Return
  <2>4. QED
    BY <1>4, <2>2, <2>3 DEF CreatePool
<1>5. ASSUME NEW a \in Attempt, Ping(a)
      PROVE  PoolsAreOwned'
  BY <1>5 DEF Ping, Go
<1>6. ASSUME NEW a \in Attempt, Verify(a)
      PROVE  PoolsAreOwned'
  BY <1>6 DEF Verify, Go, Return
<1>7. ASSUME NEW a \in Attempt, DiscardPool(a)
      PROVE  PoolsAreOwned'
  BY <1>7 DEF DiscardPool, Go, Return, rawAttemptError
<1>8. ASSUME NEW a \in Attempt, finishAttempt(a)
      PROVE  PoolsAreOwned'
  <2> SUFFICES ASSUME NEW b \in Attempt, pool[b] = "open"
               PROVE  \/ pc'[b] \in {"ping", "verify", "discard", "finish", "stale"}
                      \/ \E id \in Ids : entries'[id].client = b
    BY <1>8 DEF finishAttempt
  <2>1. target[a] \in Ids
    BY <1>8 DEF finishAttempt
  <2>2. CASE isCurrent(a) /\ publishAttemptLocked(a)
    <3>1. CASE b = a
      BY <1>8, <2>1, <2>2, <3>1 DEF finishAttempt, isCurrent, publishAttemptLocked, Go
    <3>2. CASE b # a /\ \E id \in Ids : entries[id].client = b
      <4>1. PICK id \in Ids : entries[id].client = b
        BY <3>2
      <4>2. a # None /\ b # None
        BY DEF Attempt, None
      <4>3. entries[target[a]].client = None
        BY <2>1, <2>2, <4>2 DEF isCurrent
      <4>4. id # target[a]
        BY <4>1, <4>2, <4>3
      <4>5. QED
        BY <2>2, <4>1, <4>4 DEF publishAttemptLocked
    <3>3. CASE b # a /\ pc[b] \in {"ping", "verify", "discard", "finish", "stale"}
      BY <2>2, <3>3 DEF publishAttemptLocked, Go
    <3>4. QED
      BY <3>1, <3>2, <3>3
  <2>3. CASE rejectAttemptLocked(a)
    BY <1>8, <2>3 DEF finishAttempt, rejectAttemptLocked, Go, Return
  <2>4. QED
    BY <1>8, <2>2, <2>3 DEF finishAttempt
<1>9. ASSUME NEW a \in Attempt, CloseStale(a)
      PROVE  PoolsAreOwned'
  BY <1>9 DEF CloseStale, Go
<1>10. ASSUME NEW a \in Attempt, EndAttempt(a)
      PROVE  PoolsAreOwned'
  BY <1>10 DEF EndAttempt, Go
<1>11. ASSUME NEW a \in Attempt, Expire(a)
      PROVE  PoolsAreOwned'
  BY <1>11 DEF Expire
<1>12. ASSUME NEW a \in Attempt, PoolClosed(a)
      PROVE  PoolsAreOwned'
  BY <1>12 DEF PoolClosed
<1>13. ASSUME NEW id \in Ids, Invalidate(id)
      PROVE  PoolsAreOwned'
  BY <1>13 DEF Invalidate, Detach, AttemptsOf, ClientsOf
<1>14. ASSUME NEW s \in Closers, CloseFirst(s)
      PROVE  PoolsAreOwned'
  BY <1>14 DEF CloseFirst, Detach, AttemptsOf, ClientsOf
<1>15. ASSUME completeClose
      PROVE  PoolsAreOwned'
  BY <1>15 DEF completeClose
<1>16. QED
  BY QuietOrLoud, <1>1, <1>2, <1>3, <1>4, <1>5, <1>6, <1>7, <1>8, <1>9, <1>10, <1>11, <1>12, <1>13, <1>14, <1>15

\* Every step preserves what is known of an attempt at each place of openRuntime.
LEMMA AttemptStepInv == IInv /\ [Next]_vars => AttemptInv'
<1> SUFFICES ASSUME IInv, [Next]_vars PROVE AttemptInv'
  OBVIOUS
<1> USE DEF IInv, TypeOK, AttemptInv, CacheIsCurrent, ShutdownInv, ErrorsHaveCauses, Causes, Entry, NoEntry, Opening, Finished, attemptVars, Quiet
<1>1. CASE Quiet
  BY <1>1
<1>2. ASSUME NEW c \in Callers, NEW id \in Ids, OpenStart(c, id)
      PROVE  AttemptInv'
  <2> DEFINE n == started + 1
  <2>1. n \in Attempt /\ pc[n] = "unused"
    BY <1>2, OpenerAssumption DEF OpenStart, Attempt
  <2>2. \A b \in Attempt : b > started' <=> pc'[b] = "unused"
    BY <1>2, <2>1 DEF OpenStart, Attempt
  <2>3. \A b \in Attempt : pc[b] \in Opening /\ cause[b] = "none" => target[b] # id
    BY <1>2 DEF OpenStart, None, Attempt
  <2>4. \A b \in Attempt : b # n => /\ pc'[b] = pc[b] /\ target'[b] = target[b]
                                    /\ gen'[b] = gen[b]
    BY <1>2 DEF OpenStart
  <2>5. /\ pc'[n] = "prepare" /\ target'[n] = id /\ gen'[n] = generations[id]
        /\ entries'[id].attempt = n /\ pool[n] = "none" /\ outcome[n] = "none" /\ cause[n] = "none"
    BY <1>2, <2>1 DEF OpenStart
  <2>6. UNCHANGED <<pool, cause, outcome, generations, isClosed>>
    BY <1>2 DEF OpenStart
  <2>7. \A i \in Ids : i # id => entries'[i] = entries[i]
    BY <1>2 DEF OpenStart
  <2> HIDE DEF n
  <2>8. QED
    BY <2>1, <2>2, <2>3, <2>4, <2>5, <2>6, <2>7
<1>3. ASSUME NEW a \in Attempt, Prepare(a)
      PROVE  AttemptInv'
  BY <1>3 DEF Prepare, Go, Return, rawAttemptError
<1>4. ASSUME NEW a \in Attempt, CreatePool(a)
      PROVE  AttemptInv'
  BY <1>4 DEF CreatePool, Go, Return, rawAttemptError
<1>5. ASSUME NEW a \in Attempt, Ping(a)
      PROVE  AttemptInv'
  BY <1>5 DEF Ping, Go
<1>6. ASSUME NEW a \in Attempt, Verify(a)
      PROVE  AttemptInv'
  BY <1>6 DEF Verify, Go, Return
<1>7. ASSUME NEW a \in Attempt, DiscardPool(a)
      PROVE  AttemptInv'
  BY <1>7 DEF DiscardPool, Go, Return, rawAttemptError
<1>8. ASSUME NEW a \in Attempt, finishAttempt(a)
      PROVE  AttemptInv'
  BY <1>8 DEF finishAttempt, Go, Return, isCurrent, publishAttemptLocked, rejectAttemptLocked
<1>9. ASSUME NEW a \in Attempt, CloseStale(a)
      PROVE  AttemptInv'
  BY <1>9 DEF CloseStale, Go
<1>10. ASSUME NEW a \in Attempt, EndAttempt(a)
      PROVE  AttemptInv'
  BY <1>10 DEF EndAttempt, Go
<1>11. ASSUME NEW a \in Attempt, Expire(a)
      PROVE  AttemptInv'
  BY <1>11 DEF Expire
<1>12. ASSUME NEW a \in Attempt, PoolClosed(a)
      PROVE  AttemptInv'
  BY <1>12 DEF PoolClosed
<1>13. ASSUME NEW id \in Ids, Invalidate(id)
      PROVE  AttemptInv'
  BY <1>13 DEF Invalidate, Detach, AttemptsOf, ClientsOf
<1>14. ASSUME NEW s \in Closers, CloseFirst(s)
      PROVE  AttemptInv'
  <2>1. \A b \in Attempt : pc[b] \in Opening /\ cause[b] = "none" => cause'[b] # "none"
    BY <1>14 DEF CloseFirst, Detach, AttemptsOf, None, Attempt
  <2>2. \A b \in Attempt : cause'[b] # "none" => pc[b] # "unused"
    <3> SUFFICES ASSUME NEW b \in Attempt, cause'[b] # "none" PROVE pc[b] # "unused"
      OBVIOUS
    <3>1. CASE b \in AttemptsOf(Ids)
      BY <3>1 DEF AttemptsOf
    <3>2. CASE b \notin AttemptsOf(Ids)
      BY <1>14, <3>2 DEF CloseFirst, Detach
    <3>3. QED
      BY <3>1, <3>2
  <2>3. \A b \in Attempt : pool'[b] # pool[b] =>
            pool'[b] = "closing" /\ pc[b] \in {"exit", "ended"} /\ outcome[b] = "client"
    BY <1>14 DEF CloseFirst, Detach, ClientsOf, None, Attempt
  <2>4. isClosed' /\ UNCHANGED <<pc, started, target, gen, generations, outcome>>
    BY <1>14 DEF CloseFirst
  <2>5. \A b \in Attempt : pc[b] = "unused" => cause'[b] = "none"
    BY <2>2, <1>14 DEF CloseFirst, Detach
  <2>6. \A b \in Attempt : cause[b] # "none" => cause'[b] = cause[b]
    BY <1>14 DEF CloseFirst, Detach
  <2>7. QED
    BY <2>1, <2>2, <2>3, <2>4, <2>5, <2>6
<1>15. ASSUME completeClose
      PROVE  AttemptInv'
  BY <1>15 DEF completeClose
<1>16. QED
  BY QuietOrLoud, <1>1, <1>2, <1>3, <1>4, <1>5, <1>6, <1>7, <1>8, <1>9, <1>10, <1>11, <1>12, <1>13, <1>14, <1>15

\* Every step preserves what is known of a closed opener.
LEMMA ShutdownStep == IInv /\ [Next]_vars => ShutdownInv'
<1> SUFFICES ASSUME IInv, [Next]_vars PROVE ShutdownInv'
  OBVIOUS
<1> USE DEF IInv, TypeOK, ShutdownInv, CacheIsCurrent, AttemptInv, AttemptsDone, ClosersDone, Entry, NoEntry, Opening, Finished, attemptVars, Quiet
<1>1. CASE Quiet
  BY <1>1
<1>2. ASSUME NEW c \in Callers, NEW id \in Ids, OpenStart(c, id)
      PROVE  ShutdownInv'
  BY <1>2 DEF OpenStart, Calling
<1>3. ASSUME NEW a \in Attempt, Prepare(a)
      PROVE  ShutdownInv'
  BY <1>3 DEF Prepare, Go, Return, rawAttemptError
<1>4. ASSUME NEW a \in Attempt, CreatePool(a)
      PROVE  ShutdownInv'
  BY <1>4 DEF CreatePool, Go, Return, rawAttemptError
<1>5. ASSUME NEW a \in Attempt, Ping(a)
      PROVE  ShutdownInv'
  BY <1>5 DEF Ping, Go
<1>6. ASSUME NEW a \in Attempt, Verify(a)
      PROVE  ShutdownInv'
  BY <1>6 DEF Verify, Go, Return
<1>7. ASSUME NEW a \in Attempt, DiscardPool(a)
      PROVE  ShutdownInv'
  BY <1>7 DEF DiscardPool, Go, Return, rawAttemptError
<1>8. ASSUME NEW a \in Attempt, finishAttempt(a)
      PROVE  ShutdownInv'
  BY <1>8 DEF finishAttempt, Go, Return, isCurrent, publishAttemptLocked, rejectAttemptLocked
<1>9. ASSUME NEW a \in Attempt, CloseStale(a)
      PROVE  ShutdownInv'
  BY <1>9 DEF CloseStale, Go
<1>10. ASSUME NEW a \in Attempt, EndAttempt(a)
      PROVE  ShutdownInv'
  BY <1>10 DEF EndAttempt, Go
<1>11. ASSUME NEW a \in Attempt, Expire(a)
      PROVE  ShutdownInv'
  BY <1>11 DEF Expire
<1>12. ASSUME NEW a \in Attempt, PoolClosed(a)
      PROVE  ShutdownInv'
  BY <1>12 DEF PoolClosed
<1>13. ASSUME NEW id \in Ids, Invalidate(id)
      PROVE  ShutdownInv'
  BY <1>13 DEF Invalidate, Detach, AttemptsOf, ClientsOf
<1>14. ASSUME NEW s \in Closers, CloseFirst(s)
      PROVE  ShutdownInv'
  BY <1>14 DEF CloseFirst, Detach, AttemptsOf, ClientsOf
<1>15. ASSUME completeClose
      PROVE  ShutdownInv'
  BY <1>15 DEF completeClose
<1>16. QED
  BY QuietOrLoud, <1>1, <1>2, <1>3, <1>4, <1>5, <1>6, <1>7, <1>8, <1>9, <1>10, <1>11, <1>12, <1>13, <1>14, <1>15

\* Every step preserves what is known of a caller of Open.
LEMMA CallerStepInv == IInv /\ [Next]_vars => CallerInv'
<1> SUFFICES ASSUME IInv, [Next]_vars PROVE CallerInv'
  OBVIOUS
<1> USE DEF IInv, TypeOK, CallerInv, AttemptInv, CacheIsCurrent, Entry, NoEntry, Opening, Finished, attemptVars, callerVars
<1>1. ASSUME NEW c \in Callers, NEW id \in Ids, OpenClosed(c, id)
      PROVE  CallerInv'
  BY <1>1 DEF OpenClosed
<1>2. ASSUME NEW c \in Callers, NEW id \in Ids, OpenCached(c, id)
      PROVE  CallerInv'
  BY <1>2 DEF OpenCached, Calling
<1>3. ASSUME NEW c \in Callers, NEW id \in Ids, OpenJoin(c, id)
      PROVE  CallerInv'
  BY <1>3 DEF OpenJoin, Calling
<1>4. ASSUME NEW c \in Callers, NEW id \in Ids, OpenStart(c, id)
      PROVE  CallerInv'
  <2> DEFINE n == started + 1
  <2>1. n \in Attempt /\ pc[n] = "unused" /\ caller[c] = "idle"
    BY <1>4, OpenerAssumption DEF OpenStart, Attempt, Calling
  <2>2. /\ request'[c] = [id |-> id, attempt |-> n, since |-> generations[id]]
        /\ caller'[c] = "waiting" /\ reply'[c] = "none"
        /\ pc'[n] = "prepare" /\ target'[n] = id /\ gen'[n] = generations[id]
    BY <1>4, <2>1 DEF OpenStart, Calling
  <2>3. \A b \in Attempt : pc[b] # "unused" =>
            pc'[b] = pc[b] /\ target'[b] = target[b] /\ gen'[b] = gen[b]
    BY <1>4, <2>1 DEF OpenStart
  <2>4. \A d \in Callers : d # c =>
            caller'[d] = caller[d] /\ request'[d] = request[d] /\ reply'[d] = reply[d]
    BY <1>4 DEF OpenStart, Calling
  <2> HIDE DEF n
  <2>5. QED
    BY <2>1, <2>2, <2>3, <2>4
<1>5. ASSUME NEW c \in Callers, WaitDone(c)
      PROVE  CallerInv'
  BY <1>5 DEF WaitDone, Answer, OpenError, NoRequest
<1>6. ASSUME NEW c \in Callers, WaitCancelled(c)
      PROVE  CallerInv'
  BY <1>6 DEF WaitCancelled, Answer, NoRequest
<1>7. ASSUME NEW c \in Callers, CancelCall(c)
      PROVE  CallerInv'
  BY <1>7 DEF CancelCall
<1>8. ASSUME NEW c \in Callers, Acquire(c)
      PROVE  CallerInv'
  BY <1>8 DEF Acquire
<1>9. ASSUME NEW c \in Callers, Release(c)
      PROVE  CallerInv'
  BY <1>9 DEF Release, NoRequest
<1>10. ASSUME NEW a \in Attempt, Prepare(a)
      PROVE  CallerInv'
  BY <1>10 DEF Prepare, Go, Return, rawAttemptError
<1>11. ASSUME NEW a \in Attempt, CreatePool(a)
      PROVE  CallerInv'
  BY <1>11 DEF CreatePool, Go, Return, rawAttemptError
<1>12. ASSUME NEW a \in Attempt, Ping(a)
      PROVE  CallerInv'
  BY <1>12 DEF Ping, Go
<1>13. ASSUME NEW a \in Attempt, Verify(a)
      PROVE  CallerInv'
  BY <1>13 DEF Verify, Go, Return
<1>14. ASSUME NEW a \in Attempt, DiscardPool(a)
      PROVE  CallerInv'
  BY <1>14 DEF DiscardPool, Go, Return, rawAttemptError
<1>15. ASSUME NEW a \in Attempt, finishAttempt(a)
      PROVE  CallerInv'
  BY <1>15 DEF finishAttempt, Go, Return, isCurrent, publishAttemptLocked, rejectAttemptLocked
<1>16. ASSUME NEW a \in Attempt, CloseStale(a)
      PROVE  CallerInv'
  BY <1>16 DEF CloseStale, Go
<1>17. ASSUME NEW a \in Attempt, EndAttempt(a)
      PROVE  CallerInv'
  BY <1>17 DEF EndAttempt, Go
<1>18. ASSUME NEW a \in Attempt, Expire(a)
      PROVE  CallerInv'
  BY <1>18 DEF Expire
<1>19. ASSUME NEW a \in Attempt, PoolClosed(a)
      PROVE  CallerInv'
  BY <1>19 DEF PoolClosed
<1>20. ASSUME NEW id \in Ids, Invalidate(id)
      PROVE  CallerInv'
  BY <1>20 DEF Invalidate, Detach, AttemptsOf, ClientsOf
<1>21. ASSUME NEW s \in Closers, CloseFirst(s)
      PROVE  CallerInv'
  BY <1>21 DEF CloseFirst, Detach, AttemptsOf, ClientsOf
<1>22. ASSUME NEW s \in Closers, CloseAgain(s)
      PROVE  CallerInv'
  BY <1>22 DEF CloseAgain
<1>23. ASSUME NEW s \in Closers, CloseReturns(s)
      PROVE  CallerInv'
  BY <1>23 DEF CloseReturns
<1>24. ASSUME NEW s \in Closers, CloseExpires(s)
      PROVE  CallerInv'
  BY <1>24 DEF CloseExpires
<1>25. ASSUME completeClose
      PROVE  CallerInv'
  BY <1>25 DEF completeClose
<1>26. CASE UNCHANGED vars
  BY <1>26 DEF vars
<1>27. QED
  BY <1>1, <1>2, <1>3, <1>4, <1>5, <1>6, <1>7, <1>8, <1>9, <1>10, <1>11, <1>12, <1>13, <1>14, <1>15, <1>16, <1>17, <1>18, <1>19, <1>20, <1>21, <1>22, <1>23, <1>24, <1>25, <1>26 DEF Next, AttemptStep, CallerStep, CloserStep

\* Every step reports a cause or an error only for what happened.
LEMMA ErrorsStep == IInv /\ [Next]_vars => ErrorsHaveCauses'
<1> SUFFICES ASSUME IInv, [Next]_vars PROVE ErrorsHaveCauses'
  OBVIOUS
<1> USE DEF IInv, TypeOK, ErrorsHaveCauses, AttemptInv, CacheIsCurrent, CallerInv, Causes, Entry, NoEntry, Opening, Finished, attemptVars, callerVars
<1> DEFINE Attested(told, a) == (told = "timeout" => cause[a] = "timeout") /\ (told = "closed" => isClosed)
<1>0. ASSUME NEW a \in Attempt, pc[a] \notin Finished, Attested(outcome'[a], a),
             \A b \in Attempt : b # a => pc'[b] = pc[b] /\ outcome'[b] = outcome[b],
             UNCHANGED <<isClosed, generations, target, gen, cause, ctx, reply>>
      PROVE  ErrorsHaveCauses'
  <2>1. \A b \in Attempt : Attested(outcome'[b], b)
    BY <1>0
  <2>2. \A c \in Callers : reply'[c] = "timeout" =>
            \E b \in Attempt : pc'[b] \in Finished /\ outcome'[b] = "timeout"
    <3> SUFFICES ASSUME NEW c \in Callers, reply[c] = "timeout"
                 PROVE  \E b \in Attempt : pc'[b] \in Finished /\ outcome'[b] = "timeout"
      BY <1>0
    <3>1. PICK b \in Attempt : pc[b] \in Finished /\ outcome[b] = "timeout"
      OBVIOUS
    <3>2. b # a
      BY <1>0, <3>1
    <3>3. QED
      BY <1>0, <3>1, <3>2
  <2>3. QED
    BY <1>0, <2>1, <2>2
<1>1. ASSUME NEW c \in Callers, NEW id \in Ids, OpenClosed(c, id)
      PROVE  ErrorsHaveCauses'
  BY <1>1 DEF OpenClosed
<1>2. ASSUME NEW c \in Callers, NEW id \in Ids, OpenCached(c, id)
      PROVE  ErrorsHaveCauses'
  BY <1>2 DEF OpenCached, Calling
<1>3. ASSUME NEW c \in Callers, NEW id \in Ids, OpenJoin(c, id)
      PROVE  ErrorsHaveCauses'
  BY <1>3 DEF OpenJoin, Calling
<1>4. ASSUME NEW c \in Callers, NEW id \in Ids, OpenStart(c, id)
      PROVE  ErrorsHaveCauses'
  BY <1>4 DEF OpenStart, Calling
<1>5. ASSUME NEW c \in Callers, WaitDone(c)
      PROVE  ErrorsHaveCauses'
  BY <1>5 DEF WaitDone, Answer, OpenError, NoRequest
<1>6. ASSUME NEW c \in Callers, WaitCancelled(c)
      PROVE  ErrorsHaveCauses'
  BY <1>6 DEF WaitCancelled, Answer, NoRequest
<1>7. ASSUME NEW c \in Callers, CancelCall(c)
      PROVE  ErrorsHaveCauses'
  BY <1>7 DEF CancelCall
<1>8. ASSUME NEW c \in Callers, Acquire(c)
      PROVE  ErrorsHaveCauses'
  BY <1>8 DEF Acquire
<1>9. ASSUME NEW c \in Callers, Release(c)
      PROVE  ErrorsHaveCauses'
  BY <1>9 DEF Release, NoRequest
<1>10. ASSUME NEW a \in Attempt, Prepare(a)
      PROVE  ErrorsHaveCauses'
  <2>1. pc[a] \notin Finished /\ Attested(outcome'[a], a)
    BY <1>10 DEF Prepare, Go, Return, rawAttemptError
  <2>2. \A b \in Attempt : b # a => pc'[b] = pc[b] /\ outcome'[b] = outcome[b]
    BY <1>10 DEF Prepare, Go, Return, rawAttemptError
  <2>3. UNCHANGED <<isClosed, generations, target, gen, cause, ctx, reply>>
    BY <1>10 DEF Prepare
  <2>4. QED
    BY <1>0, <2>1, <2>2, <2>3
<1>11. ASSUME NEW a \in Attempt, CreatePool(a)
      PROVE  ErrorsHaveCauses'
  <2>1. pc[a] \notin Finished /\ Attested(outcome'[a], a)
    BY <1>11 DEF CreatePool, Go, Return, rawAttemptError
  <2>2. \A b \in Attempt : b # a => pc'[b] = pc[b] /\ outcome'[b] = outcome[b]
    BY <1>11 DEF CreatePool, Go, Return, rawAttemptError
  <2>3. UNCHANGED <<isClosed, generations, target, gen, cause, ctx, reply>>
    BY <1>11 DEF CreatePool
  <2>4. QED
    BY <1>0, <2>1, <2>2, <2>3
<1>12. ASSUME NEW a \in Attempt, Ping(a)
      PROVE  ErrorsHaveCauses'
  <2>1. pc[a] \notin Finished /\ Attested(outcome'[a], a)
    BY <1>12 DEF Ping, Go
  <2>2. \A b \in Attempt : b # a => pc'[b] = pc[b] /\ outcome'[b] = outcome[b]
    BY <1>12 DEF Ping, Go
  <2>3. UNCHANGED <<isClosed, generations, target, gen, cause, ctx, reply>>
    BY <1>12 DEF Ping
  <2>4. QED
    BY <1>0, <2>1, <2>2, <2>3
<1>13. ASSUME NEW a \in Attempt, Verify(a)
      PROVE  ErrorsHaveCauses'
  <2>1. pc[a] \notin Finished /\ Attested(outcome'[a], a)
    BY <1>13 DEF Verify, Go, Return
  <2>2. \A b \in Attempt : b # a => pc'[b] = pc[b] /\ outcome'[b] = outcome[b]
    BY <1>13 DEF Verify, Go, Return
  <2>3. UNCHANGED <<isClosed, generations, target, gen, cause, ctx, reply>>
    BY <1>13 DEF Verify
  <2>4. QED
    BY <1>0, <2>1, <2>2, <2>3
<1>14. ASSUME NEW a \in Attempt, DiscardPool(a)
      PROVE  ErrorsHaveCauses'
  <2>1. pc[a] \notin Finished /\ Attested(outcome'[a], a)
    BY <1>14 DEF DiscardPool, Go, Return, rawAttemptError
  <2>2. \A b \in Attempt : b # a => pc'[b] = pc[b] /\ outcome'[b] = outcome[b]
    BY <1>14 DEF DiscardPool, Go, Return, rawAttemptError
  <2>3. UNCHANGED <<isClosed, generations, target, gen, cause, ctx, reply>>
    BY <1>14 DEF DiscardPool
  <2>4. QED
    BY <1>0, <2>1, <2>2, <2>3
<1>15. ASSUME NEW a \in Attempt, finishAttempt(a)
      PROVE  ErrorsHaveCauses'
  <2>1. pc[a] \notin Finished /\ Attested(outcome'[a], a)
    BY <1>15 DEF finishAttempt, Go, Return, publishAttemptLocked, rejectAttemptLocked
  <2>2. \A b \in Attempt : b # a => pc'[b] = pc[b] /\ outcome'[b] = outcome[b]
    BY <1>15 DEF finishAttempt, Go, Return, publishAttemptLocked, rejectAttemptLocked
  <2>3. UNCHANGED <<isClosed, generations, target, gen, cause, ctx, reply>>
    BY <1>15 DEF finishAttempt
  <2>4. QED
    BY <1>0, <2>1, <2>2, <2>3
<1>16. ASSUME NEW a \in Attempt, CloseStale(a)
      PROVE  ErrorsHaveCauses'
  BY <1>16 DEF CloseStale, Go
<1>17. ASSUME NEW a \in Attempt, EndAttempt(a)
      PROVE  ErrorsHaveCauses'
  BY <1>17 DEF EndAttempt, Go
<1>18. ASSUME NEW a \in Attempt, Expire(a)
      PROVE  ErrorsHaveCauses'
  BY <1>18 DEF Expire
<1>19. ASSUME NEW a \in Attempt, PoolClosed(a)
      PROVE  ErrorsHaveCauses'
  BY <1>19 DEF PoolClosed
<1>20. ASSUME NEW id \in Ids, Invalidate(id)
      PROVE  ErrorsHaveCauses'
  BY <1>20 DEF Invalidate, Detach, AttemptsOf, ClientsOf
<1>21. ASSUME NEW s \in Closers, CloseFirst(s)
      PROVE  ErrorsHaveCauses'
  BY <1>21 DEF CloseFirst, Detach, AttemptsOf, ClientsOf
<1>22. ASSUME NEW s \in Closers, CloseAgain(s)
      PROVE  ErrorsHaveCauses'
  BY <1>22 DEF CloseAgain
<1>23. ASSUME NEW s \in Closers, CloseReturns(s)
      PROVE  ErrorsHaveCauses'
  BY <1>23 DEF CloseReturns
<1>24. ASSUME NEW s \in Closers, CloseExpires(s)
      PROVE  ErrorsHaveCauses'
  BY <1>24 DEF CloseExpires
<1>25. ASSUME completeClose
      PROVE  ErrorsHaveCauses'
  BY <1>25 DEF completeClose
<1>26. CASE UNCHANGED vars
  BY <1>26 DEF vars
<1>27. QED
  BY <1>1, <1>2, <1>3, <1>4, <1>5, <1>6, <1>7, <1>8, <1>9, <1>10, <1>11, <1>12, <1>13, <1>14, <1>15, <1>16, <1>17, <1>18, <1>19, <1>20, <1>21, <1>22, <1>23, <1>24, <1>25, <1>26 DEF Next, AttemptStep, CallerStep, CloserStep

\* Every step preserves what is known of a caller of Close.
LEMMA CloserStepInv == IInv /\ [Next]_vars => CloserInv'
<1> SUFFICES ASSUME IInv, [Next]_vars PROVE CloserInv'
  OBVIOUS
<1> USE DEF IInv, TypeOK, CloserInv, ShutdownInv, closeDone, Entry, NoEntry, Opening, Finished, attemptVars, callerVars
<1>1. ASSUME NEW c \in Callers, NEW id \in Ids, OpenClosed(c, id)
      PROVE  CloserInv'
  BY <1>1 DEF OpenClosed
<1>2. ASSUME NEW c \in Callers, NEW id \in Ids, OpenCached(c, id)
      PROVE  CloserInv'
  BY <1>2 DEF OpenCached, Calling
<1>3. ASSUME NEW c \in Callers, NEW id \in Ids, OpenJoin(c, id)
      PROVE  CloserInv'
  BY <1>3 DEF OpenJoin, Calling
<1>4. ASSUME NEW c \in Callers, NEW id \in Ids, OpenStart(c, id)
      PROVE  CloserInv'
  BY <1>4 DEF OpenStart, Calling
<1>5. ASSUME NEW c \in Callers, WaitDone(c)
      PROVE  CloserInv'
  BY <1>5 DEF WaitDone, Answer, OpenError, NoRequest
<1>6. ASSUME NEW c \in Callers, WaitCancelled(c)
      PROVE  CloserInv'
  BY <1>6 DEF WaitCancelled, Answer, NoRequest
<1>7. ASSUME NEW c \in Callers, CancelCall(c)
      PROVE  CloserInv'
  BY <1>7 DEF CancelCall
<1>8. ASSUME NEW c \in Callers, Acquire(c)
      PROVE  CloserInv'
  BY <1>8 DEF Acquire
<1>9. ASSUME NEW c \in Callers, Release(c)
      PROVE  CloserInv'
  BY <1>9 DEF Release, NoRequest
<1>10. ASSUME NEW a \in Attempt, Prepare(a)
      PROVE  CloserInv'
  BY <1>10 DEF Prepare, Go, Return, rawAttemptError
<1>11. ASSUME NEW a \in Attempt, CreatePool(a)
      PROVE  CloserInv'
  BY <1>11 DEF CreatePool, Go, Return, rawAttemptError
<1>12. ASSUME NEW a \in Attempt, Ping(a)
      PROVE  CloserInv'
  BY <1>12 DEF Ping, Go
<1>13. ASSUME NEW a \in Attempt, Verify(a)
      PROVE  CloserInv'
  BY <1>13 DEF Verify, Go, Return
<1>14. ASSUME NEW a \in Attempt, DiscardPool(a)
      PROVE  CloserInv'
  BY <1>14 DEF DiscardPool, Go, Return, rawAttemptError
<1>15. ASSUME NEW a \in Attempt, finishAttempt(a)
      PROVE  CloserInv'
  BY <1>15 DEF finishAttempt, Go, Return, isCurrent, publishAttemptLocked, rejectAttemptLocked
<1>16. ASSUME NEW a \in Attempt, CloseStale(a)
      PROVE  CloserInv'
  BY <1>16 DEF CloseStale, Go
<1>17. ASSUME NEW a \in Attempt, EndAttempt(a)
      PROVE  CloserInv'
  BY <1>17 DEF EndAttempt, Go
<1>18. ASSUME NEW a \in Attempt, Expire(a)
      PROVE  CloserInv'
  BY <1>18 DEF Expire
<1>19. ASSUME NEW a \in Attempt, PoolClosed(a)
      PROVE  CloserInv'
  BY <1>19 DEF PoolClosed
<1>20. ASSUME NEW id \in Ids, Invalidate(id)
      PROVE  CloserInv'
  BY <1>20 DEF Invalidate, Detach, AttemptsOf, ClientsOf
<1>21. ASSUME NEW s \in Closers, CloseFirst(s)
      PROVE  CloserInv'
  BY <1>21 DEF CloseFirst, Detach, AttemptsOf, ClientsOf
<1>22. ASSUME NEW s \in Closers, CloseAgain(s)
      PROVE  CloserInv'
  BY <1>22 DEF CloseAgain
<1>23. ASSUME NEW s \in Closers, CloseReturns(s)
      PROVE  CloserInv'
  BY <1>23 DEF CloseReturns
<1>24. ASSUME NEW s \in Closers, CloseExpires(s)
      PROVE  CloserInv'
  BY <1>24 DEF CloseExpires
<1>25. ASSUME completeClose
      PROVE  CloserInv'
  BY <1>25 DEF completeClose
<1>26. CASE UNCHANGED vars
  BY <1>26 DEF vars
<1>27. QED
  BY <1>1, <1>2, <1>3, <1>4, <1>5, <1>6, <1>7, <1>8, <1>9, <1>10, <1>11, <1>12, <1>13, <1>14, <1>15, <1>16, <1>17, <1>18, <1>19, <1>20, <1>21, <1>22, <1>23, <1>24, <1>25, <1>26 DEF Next, AttemptStep, CallerStep, CloserStep

\* The strengthening that is inductive: every reachable state of the opener
\* satisfies IInv.
THEOREM InductiveInvariant == Spec => []IInv
<1>1. Init => IInv
  <2> SUFFICES ASSUME Init PROVE IInv
    OBVIOUS
  <2>1. TypeOK
    BY InitType
  <2>2. AttemptInv
    BY DEF Init, AttemptInv, Attempt, Opening
  <2>3. QED
    BY <2>1, <2>2 DEF Init, IInv, CacheIsCurrent, PoolsAreOwned, ShutdownInv, CallerInv,
          ErrorsHaveCauses, CloserInv, NoEntry
<1>2. IInv /\ [Next]_vars => IInv'
  <2>1. IInv /\ [Next]_vars => TypeOK'
    BY TypeStep DEF IInv
  <2>2. QED
    BY <2>1, CacheStep, OwnedStep, AttemptStepInv, ShutdownStep, CallerStepInv, ErrorsStep,
       CloserStepInv DEF IInv
<1>3. QED
  BY <1>1, <1>2, PTL DEF Spec

(***************************************************************************)
(* The properties of the specification.                                    *)
(***************************************************************************)

\* No stale client is ever cached: whatever is in the cache belongs to the
\* present generation of its id and its pool is open.
THEOREM CacheCurrent == Spec => []CacheIsCurrent
<1>1. IInv => CacheIsCurrent
  BY DEF IInv
<1>2. QED
  BY <1>1, InductiveInvariant, PTL

\* No pool is leaked.
THEOREM NoPoolForgotten == Spec => []PoolsAreOwned
<1>1. IInv => PoolsAreOwned
  BY DEF IInv
<1>2. QED
  BY <1>1, InductiveInvariant, PTL

\* One opening per id at a time, but for those told to stop.
THEOREM OneFlight == Spec => []SingleFlight
<1>1. IInv => SingleFlight
  BY DEF IInv, AttemptInv, SingleFlight
<1>2. QED
  BY <1>1, InductiveInvariant, PTL

\* A caller that calls Open after Invalidate is never given an older client.
THEOREM FreshClients == Spec => []CallerGetsFreshClient
<1>1. IInv => CallerGetsFreshClient
  <2> SUFFICES ASSUME IInv, NEW c \in Callers, reply[c] = "client"
               PROVE  LET a == request[c].attempt IN
                         a # None /\ target[a] = request[c].id /\ gen[a] >= request[c].since
    BY DEF CallerGetsFreshClient
  <2>1. request[c].attempt # None
    BY DEF IInv, CallerInv, Attempt, None
  <2>2. QED
    BY <2>1 DEF IInv, CallerInv
<1>2. QED
  BY <1>1, InductiveInvariant, PTL

\* Attempts are told to stop, and callers that they failed, only for what
\* really happened.
THEOREM TrueErrors == Spec => []ErrorsHaveCauses
<1>1. IInv => ErrorsHaveCauses
  BY DEF IInv
<1>2. QED
  BY <1>1, InductiveInvariant, PTL

\* When the opener reports that it is closed, nothing it created is left.
LEMMA DrainedIsEmpty ==
    ASSUME IInv, closeDone
    PROVE  AttemptsDone /\ \A a \in Attempt : pool[a] \in {"none", "closed"}
<1>1. AttemptsDone /\ ClosersDone /\ \A id \in Ids : entries[id] = NoEntry
  BY DEF IInv, ShutdownInv, closeDone
<1>2. ASSUME NEW a \in Attempt
      PROVE  pool[a] \in {"none", "closed"}
  <2>1. pool[a] # "open"
    <3>1. \A id \in Ids : entries[id].client # a
      BY <1>1 DEF NoEntry, None, Attempt
    <3>2. pc[a] \notin {"ping", "verify", "discard", "finish", "stale"}
      BY <1>1 DEF AttemptsDone
    <3>3. QED
      BY <3>1, <3>2 DEF IInv, PoolsAreOwned
  <2>2. QED
    BY <1>1, <2>1 DEF ClosersDone, IInv, TypeOK
<1>3. QED
  BY <1>1, <1>2

\* Close reports success only when every goroutine has ended and every pool is
\* closed.
THEOREM TruthfulClose == Spec => []CloseReportsTruth
<1>1. IInv => CloseReportsTruth
  <2> SUFFICES ASSUME IInv, NEW s \in Closers, closer[s] = "ok"
               PROVE  AttemptsDone /\ \A a \in Attempt : pool[a] \in {"none", "closed"}
    BY DEF CloseReportsTruth
  <2>1. closeDone
    BY DEF IInv, CloserInv
  <2>2. QED
    BY <2>1, DrainedIsEmpty
<1>2. QED
  BY <1>1, InductiveInvariant, PTL
(***************************************************************************)
(* Refinement: every step of the opener is a step of the abstract runtime  *)
(* cache or leaves it alone.                                               *)
(***************************************************************************)

\* The empty opener is the empty runtime of RuntimeHandles.
LEMMA InitRefines == Init => Handles!Init
BY DEF Init, Handles!Init, HandleStatus, NoEntry, closeDone

\* The life of a handle, read off the state of a pool.
LEMMA StatusValues ==
    /\ HandleStatus["none"] = "unborn"   /\ HandleStatus["open"] = "live"
    /\ HandleStatus["closing"] = "retired" /\ HandleStatus["closed"] = "closed"
BY DEF HandleStatus

\* Changing one pool changes the life of one handle.
LEMMA StatusMoves ==
    ASSUME TypeOK, NEW a \in Attempt, NEW v \in {"none", "open", "closing", "closed"},
           pool' = [pool EXCEPT ![a] = v]
    PROVE  [b \in Attempt |-> HandleStatus[pool'[b]]]
             = [[b \in Attempt |-> HandleStatus[pool[b]]] EXCEPT ![a] = HandleStatus[v]]
BY DEF TypeOK

\* Every step of the opener is a step of RuntimeHandles or leaves it alone.
LEMMA NextRefines == IInv /\ [Next]_vars => [Handles!Next]_(Handles!vars)
<1> SUFFICES ASSUME IInv, [Next]_vars PROVE [Handles!Next]_(Handles!vars)
  OBVIOUS
<1> USE DEF attemptVars, closeDone
<1>1. ASSUME UNCHANGED <<entries, pool, isClosed, completing>>
      PROVE  UNCHANGED Handles!vars
  BY <1>1 DEF Handles!vars
<1>2. ASSUME NEW a \in Attempt, pool[a] = "none", pc[a] = "create",
             pool' = [pool EXCEPT ![a] = "open"], UNCHANGED <<entries, isClosed, completing>>
      PROVE  Handles!Create(a)
  <2>1. completing # "done"
    BY <1>2 DEF IInv, ShutdownInv, AttemptsDone
  <2>2. QED
    BY <1>2, <2>1, StatusMoves, StatusValues DEF Handles!Create, IInv
<1>3. ASSUME NEW a \in Attempt, pool[a] = "open", pc[a] \in {"discard", "stale"},
             pool' = [pool EXCEPT ![a] = "closing"], UNCHANGED <<entries, isClosed, completing>>
      PROVE  Handles!Discard(a)
  <2>1. \A id \in Ids : entries[id].client # a
    BY <1>3 DEF IInv, CacheIsCurrent, None, Attempt
  <2>2. QED
    BY <1>3, <2>1, StatusMoves, StatusValues DEF Handles!Discard, Handles!Served, IInv
<1>4. ASSUME NEW a \in Attempt, finishAttempt(a)
      PROVE  [Handles!Next]_(Handles!vars)
  <2>1. target[a] \in Ids
    BY <1>4 DEF finishAttempt, IInv, AttemptInv
  <2>2. CASE isCurrent(a) /\ publishAttemptLocked(a) /\ outcome[a] = "client"
    <3>1. pool[a] = "open" /\ ~isClosed
      BY <1>4, <2>2 DEF finishAttempt, isCurrent, IInv, AttemptInv
    <3>2. \A id \in Ids : entries[id].client # a
      BY <1>4 DEF finishAttempt, IInv, CacheIsCurrent, None, Attempt
    <3>3. a # None
      BY DEF None, Attempt
    <3>4. entries[target[a]].client = None
      BY <2>1, <2>2, <3>3 DEF isCurrent, IInv, CacheIsCurrent
    <3>5. [id \in Ids |-> entries'[id].client]
            = [[id \in Ids |-> entries[id].client] EXCEPT ![target[a]] = a]
      BY <2>1, <2>2 DEF publishAttemptLocked, IInv, TypeOK, Entry
    <3>6. Handles!Serve(target[a], a)
      BY <1>4, <2>1, <3>1, <3>2, <3>4, <3>5, StatusValues DEF finishAttempt,
         Handles!Serve, Handles!Served
    <3>7. QED
      BY <2>1, <3>6 DEF Handles!Next
  <2>3. CASE isCurrent(a) /\ publishAttemptLocked(a) /\ outcome[a] # "client"
    <3>1. a # None
      BY DEF None, Attempt
    <3>2. entries[target[a]].client = None
      BY <2>1, <2>3, <3>1 DEF isCurrent, IInv, CacheIsCurrent
    <3>3. [id \in Ids |-> entries'[id].client] = [id \in Ids |-> entries[id].client]
      BY <2>1, <2>3, <3>2 DEF publishAttemptLocked, NoEntry, IInv, TypeOK, Entry
    <3>4. QED
      BY <1>4, <3>3 DEF finishAttempt, Handles!vars
  <2>4. CASE rejectAttemptLocked(a)
    BY <1>1, <1>4, <2>4 DEF finishAttempt, rejectAttemptLocked
  <2>5. QED
    BY <1>4, <2>2, <2>3, <2>4 DEF finishAttempt
<1>5. ASSUME NEW id \in Ids, Invalidate(id)
      PROVE  [Handles!Next]_(Handles!vars)
  <2>1. entries' = [entries EXCEPT ![id] = NoEntry]
    BY <1>5 DEF Invalidate, Detach, IInv, TypeOK
  <2>2. CASE entries[id].client = None
    <3>1. pool' = pool
      BY <1>5, <2>2 DEF Invalidate, Detach, ClientsOf, IInv, TypeOK
    <3>2. [i \in Ids |-> entries'[i].client] = [i \in Ids |-> entries[i].client]
      BY <2>1, <2>2 DEF NoEntry, IInv, TypeOK
    <3>3. QED
      BY <1>5, <3>1, <3>2 DEF Invalidate, Handles!vars
  <2>3. CASE entries[id].client # None
    <3>1. PICK k \in Attempt : k = entries[id].client
      BY <2>3 DEF IInv, TypeOK, Entry
    <3>2. pool' = [pool EXCEPT ![k] = "closing"]
      BY <1>5, <2>3, <3>1 DEF Invalidate, Detach, ClientsOf, IInv, TypeOK
    <3>3. [i \in Ids |-> entries'[i].client] = [[i \in Ids |-> entries[i].client] EXCEPT ![id] = None]
      BY <2>1 DEF NoEntry, IInv, TypeOK
    <3>4. [b \in Attempt |-> HandleStatus[pool'[b]]]
            = [[b \in Attempt |-> HandleStatus[pool[b]]] EXCEPT ![k] = "retired"]
      BY <3>1, <3>2, StatusMoves, StatusValues DEF IInv
    <3>5. [i \in Ids |-> entries[i].client][id] = k
      BY <3>1
    <3>6. UNCHANGED <<isClosed, completing>>
      BY <1>5 DEF Invalidate
    <3>7. Handles!Retire(id, k)
      BY <3>3, <3>4, <3>5, <3>6 DEF Handles!Retire
    <3>8. QED
      BY <3>1, <3>7 DEF Handles!Next
  <2>4. QED
    BY <2>2, <2>3
<1>6. ASSUME NEW s \in Closers, CloseFirst(s)
      PROVE  Handles!Shut
  <2>1. \A a \in Attempt : a \in ClientsOf(Ids) <=> Handles!Served(a)
    BY DEF ClientsOf, Handles!Served, None, Attempt
  <2>2. pool' = [a \in Attempt |-> IF Handles!Served(a) THEN "closing" ELSE pool[a]]
    BY <1>6, <2>1 DEF CloseFirst, Detach
  <2>3. [a \in Attempt |-> HandleStatus[pool'[a]]]
          = [a \in Attempt |-> IF Handles!Served(a) THEN "retired" ELSE
                                 [b \in Attempt |-> HandleStatus[pool[b]]][a]]
    BY <2>2 DEF HandleStatus, IInv, TypeOK
  <2>4. [id \in Ids |-> entries'[id].client] = [id \in Ids |-> None]
    BY <1>6 DEF CloseFirst, Detach, NoEntry
  <2>5. ~isClosed /\ isClosed' /\ completing = "no" /\ completing' = "attempts"
    BY <1>6 DEF CloseFirst, IInv, ShutdownInv
  <2>6. QED
    BY <2>3, <2>4, <2>5 DEF Handles!Shut
<1>7. ASSUME completeClose
      PROVE  [Handles!Next]_(Handles!vars)
  <2>1. CASE completing = "closers" /\ ClosersDone /\ completing' = "done"
    <3>1. \A a \in Attempt : pool[a] \in {"none", "closed"}
      <4>1. AttemptsDone /\ \A id \in Ids : entries[id] = NoEntry
        BY <2>1 DEF IInv, ShutdownInv
      <4>2. \A a \in Attempt : \A id \in Ids : entries[id].client # a
        BY <4>1 DEF NoEntry, None, Attempt
      <4>3. \A a \in Attempt : pool[a] # "open"
        BY <4>1, <4>2 DEF IInv, PoolsAreOwned, AttemptsDone
      <4>4. QED
        BY <2>1, <4>3 DEF ClosersDone, IInv, TypeOK
    <3>2. \A a \in Attempt : HandleStatus[pool[a]] \in {"unborn", "closed"}
      BY <3>1 DEF HandleStatus
    <3>3. Handles!Drain
      BY <1>7, <2>1, <3>2 DEF completeClose, Handles!Drain, IInv, ShutdownInv
    <3>4. QED
      BY <3>3 DEF Handles!Next
  <2>2. CASE completing = "attempts" /\ completing' = "closers"
    BY <1>7, <2>2 DEF completeClose, Handles!vars
  <2>3. QED
    BY <1>7, <2>1, <2>2 DEF completeClose
<1>8. ASSUME NEW a \in Attempt, CreatePool(a)
      PROVE  [Handles!Next]_(Handles!vars)
  <2>1. pool[a] = "none" /\ pc[a] = "create"
    BY <1>8 DEF CreatePool, IInv, AttemptInv
  <2>2. QED
    BY <1>1, <1>2, <1>8, <2>1 DEF CreatePool, Handles!Next
<1>9. ASSUME NEW a \in Attempt, DiscardPool(a) \/ CloseStale(a)
      PROVE  Handles!Discard(a)
  <2>1. pool[a] = "open" /\ pc[a] \in {"discard", "stale"}
    BY <1>9 DEF DiscardPool, CloseStale, IInv, AttemptInv
  <2>2. QED
    BY <1>3, <1>9, <2>1 DEF DiscardPool, CloseStale
<1>10. ASSUME NEW a \in Attempt, PoolClosed(a)
       PROVE  Handles!Destroy(a)
  BY <1>10, StatusMoves, StatusValues DEF PoolClosed, Handles!Destroy, IInv
<1>11. ASSUME NEW c \in Callers, NEW id \in Ids, OpenStart(c, id)
       PROVE  UNCHANGED Handles!vars
  <2>1. [i \in Ids |-> entries'[i].client] = [i \in Ids |-> entries[i].client]
    BY <1>11 DEF OpenStart, NoEntry, IInv, TypeOK
  <2>2. QED
    BY <1>11, <2>1 DEF OpenStart, Handles!vars
<1>12. ASSUME NEW a \in Attempt,
              Prepare(a) \/ Ping(a) \/ Verify(a) \/ EndAttempt(a) \/ Expire(a)
       PROVE  UNCHANGED Handles!vars
  BY <1>1, <1>12 DEF Prepare, Ping, Verify, EndAttempt, Expire
<1>13. CASE Quiet
  BY <1>1, <1>13 DEF Quiet
<1>14. QED
  BY QuietOrLoud, <1>4, <1>5, <1>6, <1>7, <1>8, <1>9, <1>10, <1>11, <1>12, <1>13 DEF Handles!Next

\* The opener implements RuntimeHandles: pools are served only while they are
\* open, never come back, and the opener is drained only when all are closed.
THEOREM Refinement == Spec => ImplementsHandles
<1>1. Spec => Handles!Spec
  BY InitRefines, NextRefines, InductiveInvariant, PTL DEF Spec, Handles!Spec
<1>2. QED
  BY <1>1 DEF ImplementsHandles
---------------------------------------------------------------------------
(***************************************************************************)
(* MySQLOpener.  Its step is a step of PostgresOpener, which keeps IInv,   *)
(* or one of the four that differ (Tells, Rejects, Closes and Expires),    *)
(* for which it is shown here.                                             *)
(***************************************************************************)
\* A caller is answered with an error of MySQL's own projection.
Tells(c) ==
    /\ caller[c] \in {"idle", "waiting"}
    /\ \E answer \in {"unsupported", "unavailable", "internal"} :
          reply' = [reply EXCEPT ![c] = answer]
    /\ \/ caller[c] = "idle" /\ ctx' = [ctx EXCEPT ![c] = "live"] /\ UNCHANGED <<caller, request>>
       \/ /\ caller' = [caller EXCEPT ![c] = "idle"]
          /\ request' = [request EXCEPT ![c] = NoRequest]
          /\ UNCHANGED ctx
    /\ UNCHANGED <<isClosed, generations, entries, attemptVars, completing, closer, closeVars>>

\* An attempt that lost its entry gives up its client.
Rejects(a) ==
    /\ pc[a] = "finish"
    /\ ~isCurrent(a)
    /\ Return(a, IF outcome[a] = "client" THEN "stale" ELSE "exit",
              IF isClosed THEN "closed"
              ELSE IF outcome[a] = "client" THEN "invalidated" ELSE outcome[a])
    /\ UNCHANGED <<isClosed, generations, entries, started, target, gen, cause, pool,
                   completing, callerVars, closer, closeVars>>

\* A pool is closed, used or not, and its error joined if it has one.
Closes(a) ==
    /\ pool[a] = "closing"
    /\ Closed(a)
    /\ \/ a \notin failed /\ UNCHANGED closeErr
       \/ a \in failed /\ closeErr' = closeErr \cup {a}
    /\ UNCHANGED <<isClosed, generations, entries, started, target, gen, pc, cause, outcome,
                   completing, callerVars, closer, failed, report>>

\* A Close whose context ended returns although closeDone may be closed too.
Expires(s) ==
    /\ closer' = [closer EXCEPT ![s] = "timeout"]
    /\ UNCHANGED <<isClosed, generations, entries, attemptVars, completing, callerVars, closeVars>>

\* A pool on its way to be closed stays as it is.
PoolsStay == \A a \in Attempt : pool[a] \in {"closing", "closed"} => pool'[a] = pool[a]

\* Close returns the errors that were joined.
Reports(s) ==
    /\ closer[s] = "waiting" /\ closeDone
    /\ closer' = [closer EXCEPT ![s] = "ok"]
    /\ report' = [report EXCEPT ![s] = closeErr]
    /\ UNCHANGED <<pool, failed, closeErr>>

\* The other steps are PostgreSQL's, and do this to the errors of Close.
Shared ==
    /\ [Next]_vars
    /\ PoolsStay
    /\ \/ UNCHANGED closeVars /\ \A s \in Closers : closer'[s] = "ok" => closer[s] = "ok"
       \/ \E a \in Attempt : PoolCloseFailed(a)
       \/ \E s \in Closers : Reports(s)
---------------------------------------------------------------------------
CloseType ==
    /\ failed \in SUBSET Attempt
    /\ closeErr \in SUBSET failed
    /\ report \in [Closers -> SUBSET Attempt]

\* The pools that failed to close are closing until their error is joined.
FailedInv == \A a \in failed : pool[a] = IF a \in closeErr THEN "closed" ELSE "closing"

\* A Close that returned was given the errors of all pools.
ReportInv == \A s \in Closers : closer[s] = "ok" => report[s] = failed

\* A client is held once its attempt has published it, and a rejected one is none.
HolderInv ==
    /\ \A a \in Attempt : pc[a] = "stale" => outcome[a] # "client"
    /\ \A c \in Callers : caller[c] \in {"holding", "using"} =>
          LET a == request[c].attempt IN pc[a] \in {"exit", "ended"} /\ outcome[a] = "client"

MyIInv == IInv /\ CloseType /\ FailedInv /\ ReportInv /\ HolderInv
---------------------------------------------------------------------------
\* No step but the return of its Close changes a pool that is closing.
LEMMA OpenPoolsClose ==
    ASSUME IInv, [Next]_vars, \A a \in Attempt : ~PoolClosed(a)
    PROVE  PoolsStay
  <1> USE DEF IInv, TypeOK, PoolsStay, AttemptInv, CacheIsCurrent, attemptVars, Quiet, Opening
  <1>1. CASE Quiet BY <1>1
  <1>2. ASSUME NEW c \in Callers, NEW id \in Ids, OpenStart(c, id) PROVE PoolsStay
    BY <1>2 DEF OpenStart
  <1>3. ASSUME NEW a \in Attempt, Prepare(a) \/ Ping(a) \/ Verify(a) \/ finishAttempt(a)
                                  \/ EndAttempt(a) \/ Expire(a)
        PROVE  PoolsStay
    BY <1>3 DEF Prepare, Ping, Verify, finishAttempt, EndAttempt, Expire
  <1>4. ASSUME NEW a \in Attempt, CreatePool(a) PROVE PoolsStay
    <2>1. pool[a] = "none" BY <1>4 DEF CreatePool
    <2>2. \A b \in Attempt : b # a => pool'[b] = pool[b] BY <1>4 DEF CreatePool
    <2>3. QED BY <2>1, <2>2
  <1>5. ASSUME NEW a \in Attempt, DiscardPool(a) \/ CloseStale(a) PROVE PoolsStay
    <2>1. pool[a] = "open" BY <1>5 DEF DiscardPool, CloseStale
    <2>2. \A b \in Attempt : b # a => pool'[b] = pool[b] BY <1>5 DEF DiscardPool, CloseStale
    <2>3. QED BY <2>1, <2>2
  <1>6. ASSUME NEW S \in SUBSET Ids, NEW why, Detach(S, why) PROVE PoolsStay
    <2>1. \A a \in Attempt : a \in ClientsOf(S) => pool[a] = "open" BY DEF ClientsOf
    <2>2. QED BY <1>6, <2>1 DEF Detach
  <1>7. ASSUME NEW id \in Ids, Invalidate(id) PROVE PoolsStay
    <2>1. {id} \in SUBSET Ids OBVIOUS
    <2>2. QED BY <1>6, <1>7, <2>1 DEF Invalidate
  <1>8. ASSUME NEW s \in Closers, CloseFirst(s) PROVE PoolsStay
    BY <1>6, <1>8 DEF CloseFirst
  <1>9. CASE completeClose BY <1>9 DEF completeClose
  <1>10. QED
    BY <1>1, <1>2, <1>3, <1>4, <1>5, <1>7, <1>8, <1>9, QuietOrLoud

\* A client is given by the steps of PostgreSQL, an error in MySQL's terms.
LEMMA CallerKind ==
    ASSUME MyIInv, NEW c \in Callers,
           (\E id \in Ids : openRaw(c, id)) \/ waitForAttempt(c) \/ UseClient(c)
    PROVE  (CallerStep(c) /\ UNCHANGED <<pool, closer, closeVars>>) \/ Tells(c)
  <1>1. ASSUME NEW id \in Ids, openRaw(c, id)
        PROVE  (CallerStep(c) /\ UNCHANGED <<pool, closer, closeVars>>) \/ Tells(c)
    <2>1. CASE OpenClosedDatabase(c, id)
      BY <1>1, <2>1 DEF OpenClosedDatabase, openRaw, Tells
    <2>2. CASE OpenCached(c, id) \/ OpenJoin(c, id) \/ OpenStart(c, id)
      BY <1>1, <2>2 DEF openRaw, CallerStep, OpenCached, OpenJoin, OpenStart, attemptVars
    <2>3. QED BY <1>1, <2>1, <2>2 DEF openRaw
  <1>2. CASE waitForAttempt(c)
    <2> DEFINE a == request[c].attempt
    <2>1. CASE pc[a] \in Finished /\ ctx[c] = "live" /\ outcome[a] = "client" /\ Answer(c, "client")
      BY <1>2, <2>1 DEF waitForAttempt, WaitDone, CallerStep, attemptVars
    <2>2. CASE outcome[a] # "client" /\ \E told \in QueryErrors(outcome[a]) : Answer(c, told)
      <3>1. QueryErrors(outcome[a]) \subseteq {"unsupported", "unavailable", "internal"}
        BY DEF QueryErrors
      <3>2. QED BY <1>2, <2>2, <3>1 DEF waitForAttempt, Answer, Tells
    <2>3. CASE ctx[c] = "cancelled" /\ Answer(c, "ctx")
      BY <1>2, <2>3 DEF waitForAttempt, WaitCancelled, CallerStep, attemptVars
    <2>4. QED BY <1>2, <2>1, <2>2, <2>3 DEF waitForAttempt
  <1>3. CASE UseClient(c)
    BY <1>3 DEF UseClient, CallerStep, CancelCall, Acquire, Release, attemptVars
  <1>4. QED BY <1>1, <1>2, <1>3

\* Every step is PostgreSQL's or one of the four that are MySQL's own.
LEMMA StepsAre ==
    ASSUME MyIInv, [MyNext]_myVars
    PROVE  \/ Shared
           \/ \E c \in Callers : Tells(c)
           \/ \E a \in Attempt : Rejects(a) \/ Closes(a)
           \/ \E s \in Closers : Expires(s)
  <1> USE DEF attemptVars, callerVars
  <1>1. ASSUME [Next]_vars, UNCHANGED <<closer, closeVars>>, \A a \in Attempt : ~PoolClosed(a)
        PROVE  Shared
    BY <1>1, OpenPoolsClose DEF MyIInv, Shared
  <1>2. ASSUME [Next]_vars, UNCHANGED <<pool, closer, closeVars>> PROVE Shared
    BY <1>2 DEF Shared, PoolsStay
  <1>3. ASSUME NEW a \in Attempt, openRuntime(a) \/ closeStalePool(a) \/ runAttemptReturns(a)
                                  \/ Timeout(a)
        PROVE  Shared
    <2>1. [Next]_vars
      BY <1>3 DEF openRuntime, closeStalePool, runAttemptReturns, Timeout, Next, AttemptStep
    <2>2. UNCHANGED <<closer, closeVars>>
      BY <1>3 DEF openRuntime, closeStalePool, runAttemptReturns, Timeout, Prepare, CreatePool,
        Ping, Verify, DiscardPool, CloseStale, EndAttempt, Expire
    <2>3. \A b \in Attempt : ~PoolClosed(b)
      BY <1>3 DEF openRuntime, closeStalePool, runAttemptReturns, Timeout, Prepare, CreatePool,
        Ping, Verify, DiscardPool, CloseStale, EndAttempt, Expire, PoolClosed, MyIInv, IInv, TypeOK,
        Go, Return, AttemptInv, Opening, AttemptPC, Finished
    <2>4. QED BY <1>1, <2>1, <2>2, <2>3
  <1>4. ASSUME NEW a \in Attempt, Finish(a) PROVE Shared \/ Rejects(a)
    <2>1. CASE isCurrent(a) /\ publishAttemptLocked(a)
      <3>1. finishAttempt(a) BY <1>4, <2>1 DEF Finish, finishAttempt
      <3>2. [Next]_vars BY <3>1 DEF Next, AttemptStep
      <3>3. QED BY <1>2, <1>4, <3>2 DEF Finish
    <2>2. QED BY <1>4, <2>1 DEF Finish, Rejects
  <1>5. ASSUME NEW a \in Attempt, PoolStep(a) PROVE Shared \/ Closes(a)
    <2>1. CASE PoolClosedWell(a) BY <2>1 DEF PoolClosedWell, Closes, closeVars
    <2>2. CASE PoolCloseFailed(a)
      BY <2>2 DEF PoolCloseFailed, Shared, PoolsStay, vars
    <2>3. CASE JoinCloseErr(a)
      <3>1. pool[a] = "closing" /\ a \in failed BY <2>3 DEF JoinCloseErr, MyIInv, FailedInv
      <3>2. QED BY <2>3, <3>1 DEF JoinCloseErr, Closes
    <2>4. QED BY <1>5, <2>1, <2>2, <2>3 DEF PoolStep
  <1>6. ASSUME NEW c \in Callers, \/ waitForAttempt(c) \/ UseClient(c)
                                  \/ \E id \in Ids : openRaw(c, id)
        PROVE  Shared \/ Tells(c)
    BY <1>2, <1>6, CallerKind DEF Next
  <1>7. ASSUME NEW id \in Ids, InvalidateDatabase(id) PROVE Shared
    <2>1. [Next]_vars BY <1>7 DEF InvalidateDatabase, Next
    <2>2. \A b \in Attempt : ~PoolClosed(b)
      BY <1>7 DEF InvalidateDatabase, Invalidate, PoolClosed, MyIInv, IInv, TypeOK
    <2>3. QED BY <1>1, <1>7, <2>1, <2>2 DEF InvalidateDatabase, Invalidate
  <1>8. ASSUME NEW s \in Closers, BeginClose(s) PROVE Shared
    <2>1. [Next]_vars BY <1>8 DEF BeginClose, Next, CloserStep
    <2>2. \A t \in Closers : closer'[t] = "ok" => closer[t] = "ok"
      BY <1>8 DEF BeginClose, CloseFirst, CloseAgain, MyIInv, IInv, TypeOK
    <2>3. \A b \in Attempt : ~PoolClosed(b)
      BY <1>8 DEF BeginClose, CloseFirst, CloseAgain, PoolClosed, MyIInv, IInv, TypeOK
    <2>4. QED BY <1>8, <2>1, <2>2, <2>3, OpenPoolsClose DEF BeginClose, Shared, MyIInv
  <1>9. ASSUME NEW s \in Closers, FinishClose(s) PROVE Shared \/ Expires(s)
    <2>1. CASE closeDone /\ closer' = [closer EXCEPT ![s] = "ok"]
                         /\ report' = [report EXCEPT ![s] = closeErr]
      <3>1. CloseReturns(s) BY <1>9, <2>1 DEF FinishClose, CloseReturns
      <3>2. [Next]_vars BY <3>1 DEF Next, CloserStep
      <3>3. Reports(s) BY <1>9, <2>1 DEF FinishClose, Reports
      <3>4. QED BY <3>2, <3>3 DEF Shared, Reports, PoolsStay
    <2>2. QED BY <1>9, <2>1 DEF FinishClose, Expires, closeVars
  <1>10. CASE finishShutdown
    BY <1>2, <1>10 DEF finishShutdown, completeClose, Next
  <1>11. CASE UNCHANGED myVars BY <1>2, <1>11 DEF myVars, vars, closeVars
  <1>12. QED
    BY <1>3, <1>4, <1>5, <1>6, <1>7, <1>8, <1>9, <1>10, <1>11 DEF MyNext, MyAttemptStep
---------------------------------------------------------------------------
\* The caches' invariant is kept by the steps that are MySQL's own as well.
LEMMA TellsKeeps ==
    ASSUME IInv, NEW c \in Callers, Tells(c)
    PROVE  IInv'
  <1> USE DEF IInv, Tells, attemptVars
  <1>1. TypeOK'
    <2>1. NoRequest \in [id : Ids \cup {None}, attempt : Attempt \cup {None}, since : Nat]
      BY DEF NoRequest
    <2>2. reply' \in [Callers -> {"none", "client", "ctx", "internal"} \cup (OpenErrors \ {"invalidated"})]
      BY DEF TypeOK, OpenErrors
    <2>3. caller' \in [Callers -> {"idle", "waiting", "holding", "using"}]
      BY DEF TypeOK
    <2>4. ctx' \in [Callers -> {"live", "cancelled"}] BY DEF TypeOK
    <2>5. request' \in [Callers -> [id : Ids \cup {None}, attempt : Attempt \cup {None}, since : Nat]]
      BY <2>1 DEF TypeOK
    <2>6. UNCHANGED <<isClosed, generations, entries, started, target, gen, pc, cause, outcome,
                      pool, completing, closer>>
      OBVIOUS
    <2>7. QED BY <2>2, <2>3, <2>4, <2>5, <2>6 DEF TypeOK
  <1>2. CallerInv'
    <2>1. \A d \in Callers : d # c =>
              caller'[d] = caller[d] /\ request'[d] = request[d] /\ reply'[d] = reply[d]
      BY DEF TypeOK
    <2>2. caller'[c] = "idle" /\ reply'[c] \notin {"client", "ctx", "closed"}
      BY DEF TypeOK
    <2>3. QED BY <2>1, <2>2 DEF CallerInv
  <1>3. ErrorsHaveCauses'
    <2>1. \A d \in Callers : d # c => reply'[d] = reply[d] /\ ctx'[d] = ctx[d]
      BY DEF TypeOK
    <2>2. reply'[c] \notin {"client", "ctx", "closed"}
      BY DEF TypeOK
    <2>3. QED BY <2>1, <2>2 DEF ErrorsHaveCauses
  <1>4. (CacheIsCurrent /\ PoolsAreOwned /\ AttemptInv /\ ShutdownInv /\ CloserInv)'
    BY DEF CacheIsCurrent, PoolsAreOwned, AttemptInv, ShutdownInv, CloserInv, AttemptsDone,
      ClosersDone, closeDone
  <1>5. QED BY <1>1, <1>2, <1>3, <1>4

\* A definition that is stale or gone by now ends the attempt.
LEMMA RejectsKeeps ==
    ASSUME IInv, NEW a \in Attempt, Rejects(a)
    PROVE  IInv'
  <1> USE DEF IInv, attemptVars, callerVars
  <1>1. UNCHANGED <<isClosed, generations, entries, started, target, gen, cause, pool, completing,
                    caller, ctx, request, reply, closer>> /\ pc[a] = "finish" /\ ~isCurrent(a)
    BY DEF Rejects
  <1> DEFINE next == IF outcome[a] = "client" THEN "stale" ELSE "exit"
             out == IF isClosed THEN "closed"
                    ELSE IF outcome[a] = "client" THEN "invalidated" ELSE outcome[a]
  <1>2. /\ pc' = [pc EXCEPT ![a] = next] /\ outcome' = [outcome EXCEPT ![a] = out]
        /\ next \in {"stale", "exit"} /\ out \in {"none"} \cup OpenErrors
        /\ next = "stale" <=> outcome[a] = "client"
        /\ out = "closed" => isClosed
    <2>1. pc' = [pc EXCEPT ![a] = next] /\ outcome' = [outcome EXCEPT ![a] = out]
      BY DEF Rejects, Return, Go
    <2>2. next \in {"stale", "exit"} /\ out \in {"none"} \cup OpenErrors
      BY DEF TypeOK, OpenErrors
    <2>3. (next = "stale" <=> outcome[a] = "client") /\ (out = "closed" => isClosed)
      BY DEF AttemptInv
    <2> HIDE DEF next, out
    <2>4. QED BY <2>1, <2>2, <2>3
  <1> HIDE DEF next, out
  <1>3. TypeOK' BY <1>1, <1>2 DEF TypeOK, AttemptPC, Finished
  <1>4. \A b \in Attempt : b # a => pc'[b] = pc[b] /\ outcome'[b] = outcome[b]
    BY <1>2 DEF TypeOK
  <1>5. pc'[a] = next /\ outcome'[a] = out BY <1>2 DEF TypeOK
  <1>6. \A id \in Ids : entries[id].attempt # a /\ entries[id].client # a
    BY <1>1 DEF CacheIsCurrent, ShutdownInv, isCurrent, NoEntry, None, Attempt
  <1>7. CacheIsCurrent'
    BY <1>1, <1>4, <1>6 DEF CacheIsCurrent, TypeOK, Entry
  <1>8. PoolsAreOwned'
    BY <1>1, <1>2, <1>4, <1>5 DEF PoolsAreOwned, AttemptInv
  <1>9. AttemptInv'
    <2>1. pool[a] = "open" <=> outcome[a] = "client" BY <1>1 DEF AttemptInv
    <2>2. target[a] \in Ids /\ gen[a] <= generations[target[a]] /\ ~(a > started)
      BY <1>1 DEF AttemptInv
    <2>3. next = "stale" => pool'[a] = "open" BY <1>1, <1>2, <2>1
    <2>4. pc'[a] = next /\ outcome'[a] = out /\ cause' = cause BY <1>1, <1>5
    <2>5. AttemptInv OBVIOUS
    <2>6. SUFFICES ASSUME NEW b \in Attempt
                   PROVE  /\ b > started <=> pc'[b] = "unused"
                          /\ pc'[b] = "unused" => pool[b] = "none" /\ cause[b] = "none" /\ outcome'[b] = "none"
                          /\ pc'[b] # "unused" => target[b] \in Ids /\ gen[b] <= generations[target[b]]
                          /\ pc'[b] \in {"prepare", "create"} => pool[b] = "none"
                          /\ pc'[b] \in {"ping", "verify", "discard", "stale"} => pool[b] = "open"
                          /\ pc'[b] = "finish" => (outcome'[b] = "client" <=> pool[b] = "open")
                          /\ pc'[b] \in Opening \cup {"discard"} => outcome'[b] = "none"
                          /\ pc'[b] \in Opening /\ cause[b] = "none" => entries[target[b]].attempt = b
                          /\ cause[b] # "none" => pc'[b] # "unused"
                          /\ outcome'[b] = "closed" => isClosed
      BY <1>1 DEF AttemptInv
    <2> HIDE DEF IInv
    <2>7. CASE b # a BY <1>4, <2>5, <2>7 DEF AttemptInv
    <2>8. CASE b = a BY <1>1, <1>2, <2>2, <2>3, <2>4, <2>8 DEF Opening
    <2>9. QED BY <2>7, <2>8
  <1>10. ShutdownInv'
    BY <1>1, <1>4, <1>5 DEF ShutdownInv, AttemptsDone, ClosersDone
  <1>11. CallerInv'
    <2>1. \A b \in Attempt : pc[b] # "unused" => pc'[b] # "unused" BY <1>2, <1>4, <1>5
    <2>2. CallerInv OBVIOUS
    <2> HIDE DEF IInv
    <2>3. QED BY <1>1, <2>1, <2>2 DEF CallerInv
  <1>12. ErrorsHaveCauses'
    <2>1. /\ \A b \in Attempt : outcome'[b] = "timeout" => outcome[b] = "timeout"
          /\ \A b \in Attempt : outcome'[b] = "closed" => outcome[b] = "closed" \/ isClosed
      BY <1>2, <1>4, <1>5 DEF out
    <2>2. ErrorsHaveCauses /\ pc[a] = "finish" /\ "finish" \notin Finished
      BY <1>1 DEF Finished
    <2>3. \A b \in Attempt : pc[b] \in Finished => pc'[b] = pc[b] /\ outcome'[b] = outcome[b]
      BY <1>4, <2>2
    <2> HIDE DEF IInv
    <2>4. QED BY <1>1, <2>1, <2>2, <2>3 DEF ErrorsHaveCauses
  <1>13. CloserInv' BY <1>1 DEF CloserInv, closeDone
  <1>14. QED
    BY <1>3, <1>7, <1>8, <1>9, <1>10, <1>11, <1>12, <1>13

\* A pool that was not kept is closed.
LEMMA ClosesKeeps ==
    ASSUME IInv, NEW a \in Attempt, Closes(a)
    PROVE  IInv'
  <1> USE DEF IInv, callerVars
  <1>1. /\ UNCHANGED <<isClosed, generations, entries, started, target, gen, pc, cause, outcome,
                       completing, caller, ctx, request, reply, closer>>
        /\ pool[a] = "closing" /\ pool' = [pool EXCEPT ![a] = "closed"]
    BY DEF Closes, Closed
  <1>2. TypeOK' BY <1>1 DEF TypeOK
  <1>3. pool'[a] = "closed" /\ \A b \in Attempt : b # a => pool'[b] = pool[b]
    BY <1>1 DEF TypeOK
  <1>4. CacheIsCurrent' BY <1>1, <1>3 DEF CacheIsCurrent, TypeOK, Entry
  <1>5. PoolsAreOwned' BY <1>1, <1>3 DEF PoolsAreOwned
  <1>6. AttemptInv'
    <2>1. \A b \in Attempt : pool'[b] = pool[b]
                             \/ (pool[b] \notin {"none", "open"} /\ pool'[b] \notin {"none", "open"})
      BY <1>1, <1>3
    <2>2. AttemptInv OBVIOUS
    <2> HIDE DEF IInv
    <2>3. QED BY <1>1, <2>1, <2>2 DEF AttemptInv
  <1>7. ShutdownInv' BY <1>1, <1>3 DEF ShutdownInv, AttemptsDone, ClosersDone
  <1>8. (CallerInv /\ ErrorsHaveCauses /\ CloserInv)'
    BY <1>1 DEF CallerInv, ErrorsHaveCauses, CloserInv, closeDone
  <1>9. QED BY <1>2, <1>4, <1>5, <1>6, <1>7, <1>8

\* A caller of Close that waits no longer.
LEMMA ExpiresKeeps ==
    ASSUME IInv, NEW s \in Closers, Expires(s)
    PROVE  IInv'
  <1> USE DEF IInv, attemptVars, callerVars, Expires
  <1>1. TypeOK' BY DEF TypeOK
  <1>2. CloserInv' BY DEF CloserInv, TypeOK, closeDone
  <1>3. (CacheIsCurrent /\ PoolsAreOwned /\ AttemptInv /\ ShutdownInv)'
    BY DEF CacheIsCurrent, PoolsAreOwned, AttemptInv, ShutdownInv, AttemptsDone, ClosersDone
  <1>4. (CallerInv /\ ErrorsHaveCauses)' BY DEF CallerInv, ErrorsHaveCauses
  <1>5. QED BY <1>1, <1>2, <1>3, <1>4

\* The invariant of PostgresOpener is one of MySQLOpener.
LEMMA OpenerKeeps == MyIInv /\ [MyNext]_myVars => IInv'
  <1>1. IInv /\ [Next]_vars => IInv'
    BY TypeStep, CacheStep, OwnedStep, AttemptStepInv, ShutdownStep, CallerStepInv, ErrorsStep,
       CloserStepInv DEF IInv
  <1>2. QED
    BY <1>1, StepsAre, TellsKeeps, RejectsKeeps, ClosesKeeps, ExpiresKeeps DEF MyIInv, Shared
---------------------------------------------------------------------------
\* When closeDone is closed no pool's Close is under way, nor its error on the way.
LEMMA AllReported ==
    ASSUME MyIInv, closeDone
    PROVE  closeErr = failed /\ \A a \in Attempt : pool[a] # "closing"
  <1>1. \A a \in Attempt : pool[a] # "closing"
    BY DEF MyIInv, IInv, ShutdownInv, ClosersDone, closeDone
  <1>2. \A a \in failed : a \in closeErr
    BY <1>1 DEF MyIInv, CloseType, FailedInv
  <1>3. QED BY <1>1, <1>2 DEF MyIInv, CloseType

\* The errors of pools reach closeErr, and whoever Close answers.
LEMMA ErrorsKeep ==
    ASSUME MyIInv, [MyNext]_myVars
    PROVE  (CloseType /\ FailedInv /\ ReportInv)'
  <1> USE DEF MyIInv, CloseType, FailedInv, ReportInv, closeVars
  <1>1. ASSUME PoolsStay, UNCHANGED closeVars,
               \A s \in Closers : closer'[s] = "ok" => closer[s] = "ok"
        PROVE  (CloseType /\ FailedInv /\ ReportInv)'
    BY <1>1 DEF PoolsStay
  <1>2. ASSUME NEW a \in Attempt, PoolCloseFailed(a)
        PROVE  (CloseType /\ FailedInv /\ ReportInv)'
    <2>1. UNCHANGED <<pool, closer, report, closeErr>> /\ failed' = failed \cup {a}
      BY <1>2 DEF PoolCloseFailed, attemptVars
    <2>2. pool[a] = "closing" /\ a \notin failed BY <1>2 DEF PoolCloseFailed
    <2>3. ~closeDone BY <2>2, AllReported
    <2>4. \A s \in Closers : closer[s] # "ok" BY <2>3 DEF IInv, CloserInv
    <2>5. QED BY <2>1, <2>2, <2>4
  <1>3. ASSUME NEW s \in Closers, Reports(s)
        PROVE  (CloseType /\ FailedInv /\ ReportInv)'
    <2>1. closeErr = failed BY <1>3, AllReported DEF Reports
    <2>2. closer \in [Closers -> {"idle", "waiting", "timeout", "ok"}] BY DEF IInv, TypeOK
    <2>3. QED BY <1>3, <2>1, <2>2 DEF Reports
  <1>4. ASSUME NEW c \in Callers, Tells(c) PROVE (CloseType /\ FailedInv /\ ReportInv)'
    BY <1>4 DEF Tells, attemptVars
  <1>5. ASSUME NEW a \in Attempt, Rejects(a) PROVE (CloseType /\ FailedInv /\ ReportInv)'
    BY <1>5 DEF Rejects
  <1>6. ASSUME NEW a \in Attempt, Closes(a) PROVE (CloseType /\ FailedInv /\ ReportInv)'
    <2>1. /\ pool[a] = "closing" /\ pool' = [pool EXCEPT ![a] = "closed"]
          /\ UNCHANGED <<closer, failed, report>>
      BY <1>6 DEF Closes, Closed
    <2>2. pool'[a] = "closed" /\ \A b \in Attempt : b # a => pool'[b] = pool[b]
      BY <2>1 DEF IInv, TypeOK
    <2>3. CASE a \notin failed /\ closeErr' = closeErr BY <2>1, <2>2, <2>3
    <2>4. CASE a \in failed /\ closeErr' = closeErr \cup {a} BY <2>1, <2>2, <2>4
    <2>5. QED BY <1>6, <2>3, <2>4 DEF Closes
  <1>7. ASSUME NEW s \in Closers, Expires(s) PROVE (CloseType /\ FailedInv /\ ReportInv)'
    <2>1. \A t \in Closers : closer'[t] = "ok" => closer[t] = "ok"
      BY <1>7 DEF Expires, IInv, TypeOK
    <2>2. QED BY <1>7, <2>1 DEF Expires, attemptVars
  <1>8. QED BY <1>1, <1>2, <1>3, <1>4, <1>5, <1>6, <1>7, StepsAre DEF Shared

\* What a caller holds has been published.
LEMMA HoldersKeep ==
    ASSUME MyIInv, [MyNext]_myVars
    PROVE  HolderInv'
  <1> USE DEF MyIInv, HolderInv, IInv, TypeOK
  <1>1. ASSUME UNCHANGED <<caller, request>>,
               \A a \in Attempt : pc'[a] = "stale" => outcome'[a] # "client",
               \A a \in Attempt : pc[a] \in {"exit", "ended"} =>
                    pc'[a] \in {"exit", "ended"} /\ outcome'[a] = outcome[a]
        PROVE  HolderInv'
    BY <1>1 DEF CallerInv
  <1>2. ASSUME NEW c \in Callers, UNCHANGED <<pc, outcome>>,
               \A d \in Callers : d # c => caller'[d] = caller[d] /\ request'[d] = request[d],
               caller'[c] \in {"holding", "using"} =>
                   LET a == request'[c].attempt IN pc[a] \in {"exit", "ended"} /\ outcome[a] = "client"
        PROVE  HolderInv'
    BY <1>2
  <1>3. ASSUME NEW c \in Callers, CallerStep(c), UNCHANGED <<pc, outcome>> PROVE HolderInv'
    <2>1. \A d \in Callers : d # c => caller'[d] = caller[d] /\ request'[d] = request[d]
      BY <1>3 DEF CallerStep, OpenClosed, OpenCached, OpenJoin, OpenStart, Calling, WaitDone,
        WaitCancelled, Answer, CancelCall, Acquire, Release
    <2>2. ASSUME NEW id \in Ids, OpenCached(c, id) PROVE HolderInv'
      BY <1>2, <1>3, <2>1, <2>2 DEF OpenCached, Calling, CacheIsCurrent
    <2>3. CASE WaitDone(c)
      <3> DEFINE a == request[c].attempt
      <3>1. a \in Attempt BY <2>3 DEF WaitDone, CallerInv
      <3>2. caller'[c] \in {"holding", "using"} =>
              request'[c].attempt = a /\ pc[a] \in Finished /\ outcome[a] = "client"
        BY <2>3 DEF WaitDone, Answer, OpenError
      <3> HIDE DEF a
      <3>3. caller'[c] \in {"holding", "using"} => pc[a] \in {"exit", "ended"}
        BY <3>1, <3>2 DEF Finished
      <3>4. QED BY <1>2, <1>3, <2>1, <3>2, <3>3
    <2>4. CASE Acquire(c) BY <1>2, <1>3, <2>1, <2>4 DEF Acquire
    <2>5. CASE caller'[c] \in {"idle", "waiting"} BY <1>2, <1>3, <2>1, <2>5
    <2>6. CASE UNCHANGED <<caller, request>> BY <1>2, <1>3, <2>6
    <2>7. QED
      BY <1>3, <2>2, <2>3, <2>4, <2>5, <2>6 DEF CallerStep, OpenClosed, OpenJoin, OpenStart, Calling,
        WaitCancelled, Answer, CancelCall, Release
  <1>4. ASSUME NEW c \in Callers, NEW id \in Ids, OpenStart(c, id) PROVE HolderInv'
    <2> DEFINE n == started + 1
    <2>1. n \in Attempt /\ pc[n] = "unused" BY <1>4, OpenerAssumption DEF OpenStart, Attempt, AttemptInv
    <2>2. pc'[n] = "prepare" /\ outcome' = outcome /\ \A a \in Attempt : a # n => pc'[a] = pc[a]
      BY <1>4, <2>1 DEF OpenStart
    <2>3. caller'[c] = "waiting"
          /\ \A d \in Callers : d # c => caller'[d] = caller[d] /\ request'[d] = request[d]
      BY <1>4 DEF OpenStart, Calling
    <2> HIDE DEF n
    <2>4. QED BY <2>1, <2>2, <2>3 DEF CallerInv
  <1>5. ASSUME NEW a \in Attempt, AttemptStep(a) PROVE HolderInv'
    <2>1. UNCHANGED <<caller, request>>
      BY <1>5 DEF AttemptStep, Prepare, CreatePool, Ping, Verify, DiscardPool, finishAttempt,
        CloseStale, EndAttempt, callerVars
    <2>2. \A b \in Attempt : b # a => pc'[b] = pc[b] /\ outcome'[b] = outcome[b]
      BY <1>5 DEF AttemptStep, Prepare, CreatePool, Ping, Verify, DiscardPool, finishAttempt,
        publishAttemptLocked, rejectAttemptLocked, CloseStale, EndAttempt, Go, Return
    <2>3. CASE pc[a] = "exit"
      <3>1. EndAttempt(a)
        BY <1>5, <2>3 DEF AttemptStep, Prepare, CreatePool, Ping, Verify, DiscardPool, finishAttempt,
          CloseStale
      <3>2. pc'[a] = "ended" /\ outcome' = outcome BY <3>1 DEF EndAttempt, Go
      <3>3. QED BY <1>1, <2>1, <2>2, <3>2
    <2>4. CASE pc[a] = "finish"
      <3>1. finishAttempt(a)
        BY <1>5, <2>4 DEF AttemptStep, Prepare, CreatePool, Ping, Verify, DiscardPool, EndAttempt,
          CloseStale
      <3>2. pc'[a] = "stale" => outcome'[a] # "client"
        BY <3>1 DEF finishAttempt, publishAttemptLocked, rejectAttemptLocked, Go, Return
      <3>3. QED BY <1>1, <2>1, <2>2, <2>4, <3>2
    <2>5. CASE pc[a] \notin {"exit", "finish"}
      <3>1. pc[a] # "ended" /\ pc'[a] # "stale"
        <4>1. CASE Prepare(a) BY <4>1 DEF Prepare, Go, Return
        <4>2. CASE CreatePool(a) BY <4>2 DEF CreatePool, Go, Return
        <4>3. CASE Ping(a) \/ Verify(a) BY <4>3 DEF Ping, Verify, Go, Return
        <4>4. CASE DiscardPool(a) \/ CloseStale(a) BY <4>4 DEF DiscardPool, CloseStale, Go, Return
        <4>5. QED
          BY <1>5, <2>5, <4>1, <4>2, <4>3, <4>4 DEF AttemptStep, finishAttempt, EndAttempt
      <3>2. QED BY <1>1, <2>1, <2>2, <2>5, <3>1
    <2>6. QED BY <2>3, <2>4, <2>5
  <1>6. ASSUME UNCHANGED <<pc, outcome, caller, request>> PROVE HolderInv'
    BY <1>6
  <1>7. CASE [Next]_vars
    <2>1. ASSUME NEW c \in Callers, CallerStep(c) PROVE HolderInv'
      <3>1. CASE UNCHANGED <<pc, outcome>> BY <1>3, <2>1, <3>1
      <3>2. CASE ~UNCHANGED <<pc, outcome>>
        BY <1>4, <2>1, <3>2 DEF CallerStep, OpenClosed, OpenCached, OpenJoin, WaitDone, WaitCancelled,
          CancelCall, Acquire, Release, attemptVars
      <3>3. QED BY <3>1, <3>2
    <2>2. ASSUME NEW a \in Attempt, Expire(a) \/ PoolClosed(a) PROVE HolderInv'
      BY <1>6, <2>2 DEF Expire, PoolClosed, callerVars
    <2>3. ASSUME NEW id \in Ids, Invalidate(id) PROVE HolderInv'
      BY <1>6, <2>3 DEF Invalidate, callerVars
    <2>4. ASSUME NEW s \in Closers, CloserStep(s) PROVE HolderInv'
      BY <1>6, <2>4 DEF CloserStep, CloseFirst, CloseAgain, CloseReturns, CloseExpires, callerVars,
        attemptVars
    <2>5. CASE completeClose BY <1>6, <2>5 DEF completeClose, callerVars, attemptVars
    <2>6. CASE UNCHANGED vars BY <1>6, <2>6 DEF vars, callerVars, attemptVars
    <2>7. QED BY <1>5, <1>7, <2>1, <2>2, <2>3, <2>4, <2>5, <2>6 DEF Next
  <1>8. ASSUME NEW c \in Callers, Tells(c) PROVE HolderInv'
    <2>1. caller'[c] = "idle" /\ UNCHANGED <<pc, outcome>>
          /\ \A d \in Callers : d # c => caller'[d] = caller[d] /\ request'[d] = request[d]
      BY <1>8 DEF Tells, attemptVars
    <2>2. QED BY <1>2, <2>1
  <1>9. ASSUME NEW a \in Attempt, Rejects(a) PROVE HolderInv'
    <2>1. /\ UNCHANGED <<caller, request>> /\ pc[a] = "finish"
          /\ pc'[a] = "stale" => outcome'[a] # "client"
          /\ \A b \in Attempt : b # a => pc'[b] = pc[b] /\ outcome'[b] = outcome[b]
      BY <1>9 DEF Rejects, Return, Go, callerVars
    <2>2. QED BY <1>1, <2>1
  <1>10. ASSUME NEW a \in Attempt, Closes(a) PROVE HolderInv'
    BY <1>6, <1>10 DEF Closes, callerVars
  <1>11. ASSUME NEW s \in Closers, Expires(s) PROVE HolderInv'
    BY <1>6, <1>11 DEF Expires, callerVars, attemptVars
  <1>12. QED BY <1>7, <1>8, <1>9, <1>10, <1>11, StepsAre DEF Shared
---------------------------------------------------------------------------
\* The invariant the theorems rest on.
THEOREM MyInductiveInvariant == MySpec => []MyIInv
  <1>1. MyInit => MyIInv
    <2> SUFFICES ASSUME MyInit PROVE MyIInv
      OBVIOUS
    <2>1. Init BY DEF MyInit
    <2>2. TypeOK BY <2>1, InitType
    <2>3. AttemptInv BY <2>1 DEF Init, AttemptInv, Attempt, Opening
    <2>4. IInv
      BY <2>1, <2>2, <2>3 DEF Init, IInv, CacheIsCurrent, PoolsAreOwned, ShutdownInv, CallerInv,
        ErrorsHaveCauses, CloserInv, NoEntry
    <2>5. CloseType /\ FailedInv /\ ReportInv
      BY DEF MyInit, CloseType, FailedInv, ReportInv
    <2>6. HolderInv BY <2>1 DEF Init, HolderInv
    <2>7. QED BY <2>4, <2>5, <2>6 DEF MyIInv
  <1>2. MyIInv /\ [MyNext]_myVars => MyIInv'
    BY OpenerKeeps, ErrorsKeep, HoldersKeep DEF MyIInv
  <1>3. QED BY <1>1, <1>2, PTL DEF MySpec

(* Close keeps no error to itself: when it returns before its context ends, *)
(* every pool is closed and its error holds what each of them answered.    *)
THEOREM TruthfulMyClose == MySpec => []CloseReportsErrors
  <1>1. MyIInv => CloseReportsErrors
    <2> SUFFICES ASSUME MyIInv, NEW s \in Closers, closer[s] = "ok"
                 PROVE  /\ report[s] = failed
                        /\ AttemptsDone
                        /\ \A a \in Attempt : pool[a] \in {"none", "closed"}
      BY DEF CloseReportsErrors
    <2>1. report[s] = failed BY DEF MyIInv, ReportInv
    <2>2. closeDone BY DEF MyIInv, IInv, CloserInv
    <2>3. QED BY <2>1, <2>2, DrainedIsEmpty DEF MyIInv
  <1>2. QED BY <1>1, MyInductiveInvariant, PTL

(* A client whose generation was invalidated while it was being opened is  *)
(* given to nobody.                                                        *)
THEOREM HeldWereCached == MySpec => []HeldClientsWereCached
  <1>1. MyIInv => HeldClientsWereCached
    <2> SUFFICES ASSUME MyIInv, NEW c \in Callers, caller[c] \in {"holding", "using"}
                 PROVE  LET a == request[c].attempt IN
                        /\ gen[a] >= request[c].since
                        /\ outcome[a] = "client"
                        /\ pool[a] = "open" => \E id \in Ids : entries[id].client = a
      BY DEF HeldClientsWereCached
    <2> DEFINE a == request[c].attempt
    <2>1. a \in Attempt /\ gen[a] >= request[c].since BY DEF MyIInv, IInv, CallerInv
    <2>2. pc[a] \in {"exit", "ended"} /\ outcome[a] = "client" BY DEF MyIInv, HolderInv
    <2> HIDE DEF a
    <2>3. pool[a] = "open" => \E id \in Ids : entries[id].client = a
      BY <2>1, <2>2 DEF MyIInv, IInv, PoolsAreOwned
    <2>4. QED BY <2>1, <2>2, <2>3 DEF a
  <1>2. QED BY <1>1, MyInductiveInvariant, PTL

(* The MySQL opener implements the abstract runtime cache as well.         *)
THEOREM MyRefinement == MySpec => ImplementsHandles
  <1>1. MyIInv /\ [MyNext]_myVars => [Handles!Next]_(Handles!vars)
    <2> SUFFICES ASSUME MyIInv, [MyNext]_myVars PROVE [Handles!Next]_(Handles!vars)
      OBVIOUS
    <2>1. CASE Shared BY <2>1, NextRefines DEF Shared, MyIInv
    <2>2. ASSUME UNCHANGED <<entries, pool, isClosed, completing>>
          PROVE  UNCHANGED Handles!vars
      BY <2>2 DEF Handles!vars, closeDone
    <2>3. ASSUME NEW a \in Attempt, Closes(a) PROVE Handles!Next
      <3>1. Handles!Destroy(a)
        BY <2>3, StatusMoves, StatusValues DEF Closes, Closed, Handles!Destroy, MyIInv, IInv, closeDone
      <3>2. QED BY <3>1 DEF Handles!Next
    <2>4. QED
      BY <2>1, <2>2, <2>3, StepsAre DEF Tells, Rejects, Expires, attemptVars
  <1>2. MyInit => Handles!Init BY InitRefines DEF MyInit
  <1>3. MySpec => Handles!Spec
    BY <1>1, <1>2, MyInductiveInvariant, PTL DEF MySpec, Handles!Spec
  <1>4. QED BY <1>3 DEF ImplementsHandles
---------------------------------------------------------------------------
(***************************************************************************)
(* DefinitionFreshness: a client of a replaced definition is neither       *)
(* cached nor given to a call that started after the replacement.          *)
(*                                                                         *)
(* Every step is a step of the opener or leaves it alone, so what was      *)
(* shown of the opener holds here.  FoundInv and PromiseInv add what the   *)
(* attempts found and the callers were promised.                           *)
(***************************************************************************)
Definition == [version : Nat, kind : Kinds]

FreshType ==
    /\ registered \in [Ids -> Definition]
    /\ versions \in Nat
    /\ found \in [Attempt -> Definition]
    /\ looked \in SUBSET Attempt
    /\ registrar \in [Registrars -> Ids \cup {None}]
    /\ settled \in [Ids -> Nat]
    /\ promised \in [Callers -> Nat]
    /\ \A id \in Ids : settled[id] <= registered[id].version /\ registered[id].version <= versions

\* Nothing invalidated the id of an attempt since the attempt started.
Current(a) == gen[a] = generations[target[a]]

\* The attempt found a definition that leads to a client.
Opens(a) == a \in looked /\ found[a].kind = "postgres"

\* What an attempt that is still current found is no older than what is settled,
\* and is what is registered when no invalidation is due.
FoundInv ==
    \A a \in Attempt :
        /\ a \in looked => pc[a] # "unused"
        /\ pc[a] \in {"create", "ping", "verify", "discard"} \/ outcome[a] = "client" => Opens(a)
        /\ Opens(a) /\ Current(a) =>
              /\ found[a].version >= settled[target[a]]
              /\ (\A r \in Registrars : registrar[r] # target[a]) =>
                    found[a] = registered[target[a]]

\* The attempt a caller waits for finds, or found, what the caller was promised.
PromiseInv ==
    \A c \in Callers :
        LET a == request[c].attempt IN
        /\ caller[c] # "idle" => /\ promised[c] <= settled[target[a]]
                                 /\ Opens(a) => found[a].version >= promised[c]
        /\ reply[c] = "client" => caller[c] # "idle" /\ Opens(a)
---------------------------------------------------------------------------
\* The steps of attempts and callers are steps of the opener that leave the
\* manager and the registrars alone.
OpenerStep ==
    \/ \E a \in Attempt : OpenAttempt(a)
    \/ \E c \in Callers : UseRuntime(c)
    \/ \E c \in Callers, id \in Ids : Open(c, id)

\* The steps of the registrars and the attempts, one by one.
LEMMA FreshStepsAre ==
    ASSUME [FreshNext]_freshVars
    PROVE  \/ \E r \in Registrars, id \in Ids, kind \in Kinds : Register(r, id, kind)
           \/ \E r \in Registrars : InvalidateRuntime(r)
           \/ \E a \in Attempt : Lookup(a) \/ Resolve(a)
           \/ OpenerStep
           \/ UNCHANGED freshVars
  BY DEF FreshNext, OpenerStep

\* Types, and the versions in their order.
LEMMA FreshTypeStep == IInv /\ FreshType /\ [FreshNext]_freshVars => FreshType'
  <1> SUFFICES ASSUME IInv, FreshType, [FreshNext]_freshVars PROVE FreshType'
    OBVIOUS
  <1>1. ASSUME NEW r \in Registrars, NEW id \in Ids, NEW kind \in Kinds, Register(r, id, kind)
        PROVE  FreshType'
    <2>1. [version |-> versions + 1, kind |-> kind] \in Definition
      BY DEF FreshType, Definition
    <2>2. registered' = [registered EXCEPT ![id] = [version |-> versions + 1, kind |-> kind]]
          /\ versions' = versions + 1 /\ UNCHANGED <<found, looked, promised>>
      BY <1>1 DEF Register
    <2>3. registrar' \in [Registrars -> Ids \cup {None}] BY <1>1 DEF Register, FreshType
    <2>4. /\ settled' \in [Ids -> Nat]
          /\ \A d \in Ids : settled'[d] = settled[d] \/ (d = id /\ settled'[d] = versions + 1)
      BY <1>1, <2>2 DEF Register, FreshType
    <2>5. \A d \in Ids : settled'[d] <= registered'[d].version /\ registered'[d].version <= versions'
      <3> SUFFICES ASSUME NEW d \in Ids
                   PROVE  settled'[d] <= registered'[d].version /\ registered'[d].version <= versions'
        OBVIOUS
      <3>1. /\ settled[d] \in Nat /\ registered[d].version \in Nat /\ versions \in Nat
            /\ settled[d] <= registered[d].version /\ registered[d].version <= versions
        BY DEF FreshType, Definition
      <3>2. CASE d = id
        <4>1. registered'[d].version = versions + 1 BY <2>2, <3>2 DEF FreshType
        <4>2. QED BY <2>2, <2>4, <3>1, <4>1
      <3>3. CASE d # id
        <4>1. registered'[d] = registered[d] /\ settled'[d] = settled[d]
          BY <2>2, <2>4, <3>3 DEF FreshType
        <4>2. QED BY <2>2, <3>1, <4>1
      <3>4. QED BY <3>2, <3>3
    <2>6. registered' \in [Ids -> Definition] /\ versions' \in Nat
      BY <2>1, <2>2 DEF FreshType
    <2>7. QED BY <2>2, <2>3, <2>4, <2>5, <2>6 DEF FreshType
  <1>2. ASSUME NEW r \in Registrars, InvalidateRuntime(r) PROVE FreshType'
    <2>1. registrar[r] \in Ids BY <1>2 DEF InvalidateRuntime, FreshType
    <2>2. registered[registrar[r]].version \in Nat BY <2>1 DEF FreshType, Definition
    <2>3. \E v \in {registered[registrar[r]].version, settled[registrar[r]]} :
              settled' = [settled EXCEPT ![registrar[r]] = v]
      BY <1>2 DEF InvalidateRuntime
    <2>4. settled' \in [Ids -> Nat] BY <2>1, <2>2, <2>3 DEF FreshType
    <2>5. \A d \in Ids : settled'[d] <= registered[d].version
      BY <2>1, <2>2, <2>3 DEF FreshType
    <2>6. registrar' \in [Registrars -> Ids \cup {None}]
      BY <1>2 DEF InvalidateRuntime, FreshType
    <2>7. QED BY <1>2, <2>4, <2>5, <2>6 DEF InvalidateRuntime, FreshType, managerVars
  <1>3. ASSUME NEW a \in Attempt, Lookup(a) \/ Resolve(a) PROVE FreshType'
    <2>1. CASE Resolve(a) BY <2>1 DEF Resolve, FreshType, managerVars, registrarVars
    <2>2. CASE Lookup(a)
      <3>1. target[a] \in Ids BY <2>2 DEF Lookup, IInv, AttemptInv
      <3>2. QED BY <2>2, <3>1 DEF Lookup, FreshType, registrarVars
    <2>3. QED BY <1>3, <2>1, <2>2
  <1>4. CASE OpenerStep
    <2>1. UNCHANGED <<managerVars, registrarVars>>
      BY <1>4 DEF OpenerStep, OpenAttempt, UseRuntime, Open
    <2>2. promised' \in [Callers -> Nat]
      BY <1>4 DEF OpenerStep, OpenAttempt, UseRuntime, Open, FreshType
    <2>3. QED BY <2>1, <2>2 DEF FreshType, managerVars, registrarVars
  <1>5. CASE UNCHANGED freshVars
    BY <1>5 DEF FreshType, freshVars, managerVars, registrarVars
  <1>6. QED BY <1>1, <1>2, <1>3, <1>4, <1>5, FreshStepsAre
---------------------------------------------------------------------------
\* The opener takes its own steps only, and keeps its own invariant.
LEMMA OpenerMoves == FreshType /\ [FreshNext]_freshVars => [Next]_vars
  <1> SUFFICES ASSUME FreshType, [FreshNext]_freshVars PROVE [Next]_vars
    OBVIOUS
  <1>1. ASSUME NEW r \in Registrars, InvalidateRuntime(r) PROVE Next
    <2>1. registrar[r] \in Ids BY <1>1 DEF InvalidateRuntime, FreshType
    <2>2. QED BY <1>1, <2>1 DEF InvalidateRuntime, Next
  <1>2. CASE OpenerStep
    BY <1>2 DEF OpenerStep, OpenAttempt, UseRuntime, Open, Next, AttemptStep, CallerStep
  <1>3. ASSUME NEW r \in Registrars, NEW id \in Ids, NEW kind \in Kinds, Register(r, id, kind)
        PROVE  UNCHANGED vars
    BY <1>3 DEF Register
  <1>4. ASSUME NEW a \in Attempt, Lookup(a) \/ Resolve(a) PROVE [Next]_vars
    BY <1>4 DEF Lookup, Resolve, Next, AttemptStep
  <1>5. CASE UNCHANGED freshVars BY <1>5 DEF freshVars
  <1>6. QED BY <1>1, <1>2, <1>3, <1>4, <1>5, FreshStepsAre

\* Every step of the openers keeps their invariant.
LEMMA FreshOpenerKeeps == IInv /\ [Next]_vars => IInv'
  BY TypeStep, CacheStep, OwnedStep, AttemptStepInv, ShutdownStep, CallerStepInv, ErrorsStep,
     CloserStepInv DEF IInv
---------------------------------------------------------------------------
\* What a registration does to a definition that an attempt found.
LEMMA RegisterKeepsFound ==
    ASSUME IInv, FreshType, FoundInv,
           NEW r \in Registrars, NEW id \in Ids, NEW kind \in Kinds, Register(r, id, kind)
    PROVE  FoundInv'
  <1>1. UNCHANGED <<pc, outcome, gen, generations, target, looked, found>>
    BY DEF Register, vars, attemptVars
  <1>2. \A a \in Attempt : (Opens(a)' <=> Opens(a)) /\ (Current(a)' <=> Current(a))
    BY <1>1 DEF Opens, Current
  <1> SUFFICES ASSUME NEW a \in Attempt, Opens(a), Current(a)
               PROVE  /\ found[a].version >= settled'[target[a]]
                      /\ (\A other \in Registrars : registrar'[other] # target[a]) =>
                            found[a] = registered'[target[a]]
    BY <1>1, <1>2 DEF FoundInv
  <1>3. /\ found[a].version >= settled[target[a]]
        /\ (\A other \in Registrars : registrar[other] # target[a]) =>
              found[a] = registered[target[a]]
        /\ target[a] \in Ids
    BY DEF FoundInv, Opens, IInv, AttemptInv
  <1>4. CASE target[a] # id
    <2>1. registered'[target[a]] = registered[target[a]]
      BY <1>3, <1>4 DEF Register, FreshType
    <2>2. settled'[target[a]] = settled[target[a]]
      BY <1>3, <1>4 DEF Register, FreshType
    <2>3. \A other \in Registrars : registrar'[other] # target[a] => registrar[other] # target[a]
      BY <1>3, FreshnessAssumption DEF Register, FreshType
    <2>4. QED BY <1>3, <2>1, <2>2, <2>3
  <1>5. CASE target[a] = id /\ Invalidates(registered[id], kind)
    <2>1. registrar'[r] = id /\ settled' = settled BY <1>5 DEF Register, FreshType
    <2>2. QED BY <1>3, <1>5, <2>1
  <1>6. CASE target[a] = id /\ ~Invalidates(registered[id], kind)
    <2>1. registered[id].kind # "postgres"
      BY <1>6 DEF Invalidates, NoDefinition
    <2>2. PICK other \in Registrars : registrar[other] = id
      BY <1>3, <1>6, <2>1 DEF Opens
    <2>3. registrar' = registrar BY <1>6 DEF Register
    <2>4. other # r BY <2>2, FreshnessAssumption DEF Register
    <2>5. Due(r, id) # {} BY <2>2, <2>4 DEF Due
    <2>6. settled'[id] = settled[id] BY <1>6, <2>5 DEF Register, FreshType
    <2>7. QED BY <1>3, <1>6, <2>2, <2>3, <2>6
  <1>7. QED BY <1>4, <1>5, <1>6

\* An invalidation makes every attempt for its id an old one.
LEMMA InvalidateKeepsFound ==
    ASSUME IInv, FreshType, FoundInv, NEW r \in Registrars, InvalidateRuntime(r)
    PROVE  FoundInv'
  <1> DEFINE id == registrar[r]
  <1>1. PICK d \in Ids : d = id BY DEF InvalidateRuntime, FreshType
  <1>2. /\ UNCHANGED <<pc, outcome, gen, target, looked, found, registered>>
        /\ generations' = [generations EXCEPT ![d] = @ + 1]
        /\ registrar' = [registrar EXCEPT ![r] = None]
        /\ \A e \in Ids \ {d} : settled'[e] = settled[e]
    BY <1>1 DEF InvalidateRuntime, Invalidate, managerVars, FreshType
  <1>3. \A a \in Attempt : Opens(a)' <=> Opens(a)
    BY <1>2 DEF Opens
  <1> SUFFICES ASSUME NEW a \in Attempt, Opens(a), Current(a)'
               PROVE  /\ found[a].version >= settled'[target[a]]
                      /\ (\A other \in Registrars : registrar'[other] # target[a]) =>
                            found[a] = registered[target[a]]
    BY <1>2, <1>3 DEF FoundInv
  <1>4. target[a] \in Ids /\ gen[a] <= generations[target[a]] /\ gen[a] \in Nat
        /\ generations[target[a]] \in Nat
    BY DEF FoundInv, Opens, IInv, AttemptInv, TypeOK
  <1>5. target[a] # d BY <1>2, <1>4 DEF Current, IInv, TypeOK
  <1>6. Current(a) BY <1>2, <1>4, <1>5 DEF Current, IInv, TypeOK
  <1>7. (\A other \in Registrars : registrar'[other] # target[a]) =>
            \A other \in Registrars : registrar[other] # target[a]
    BY <1>1, <1>2, <1>5 DEF FreshType
  <1>8. QED BY <1>2, <1>4, <1>5, <1>6, <1>7 DEF FoundInv
---------------------------------------------------------------------------
Resolved == {"create", "ping", "verify", "discard"}

\* What a step of an attempt does after its definition was resolved.
LEMMA AttemptMoves ==
    ASSUME IInv, NEW a \in Attempt, OpenAttempt(a)
    PROVE  /\ UNCHANGED <<gen, generations, target, started, callerVars>>
           /\ UNCHANGED <<managerVars, registrarVars, promised>>
           /\ \A b \in Attempt :
                 /\ pc[b] # "unused" => pc'[b] # "unused"
                 /\ pc'[b] \in Resolved => pc[b] \in Resolved
                 /\ outcome'[b] = "client" => pc[b] \in Resolved \/ outcome[b] = "client"
  <1> USE DEF IInv, TypeOK, Go, Return, Resolved, Causes
  <1>1. UNCHANGED <<managerVars, registrarVars, promised>> BY DEF OpenAttempt
  <1>2. CASE CreatePool(a) BY <1>1, <1>2 DEF CreatePool, rawAttemptError
  <1>3. CASE Ping(a) BY <1>1, <1>3 DEF Ping
  <1>4. CASE Verify(a) BY <1>1, <1>4 DEF Verify
  <1>5. CASE DiscardPool(a) BY <1>1, <1>5 DEF DiscardPool, rawAttemptError
  <1>6. CASE finishAttempt(a)
    BY <1>1, <1>6 DEF finishAttempt, publishAttemptLocked, rejectAttemptLocked
  <1>7. CASE CloseStale(a) BY <1>1, <1>7 DEF CloseStale
  <1>8. CASE EndAttempt(a) BY <1>1, <1>8 DEF EndAttempt
  <1>9. CASE PoolClosed(a) BY <1>1, <1>9 DEF PoolClosed
  <1>10. QED BY <1>2, <1>3, <1>4, <1>5, <1>6, <1>7, <1>8, <1>9 DEF OpenAttempt

\* The same for the step that resolves the definition.
LEMMA ResolveMoves ==
    ASSUME IInv, NEW a \in Attempt, Resolve(a)
    PROVE  /\ UNCHANGED <<gen, generations, target, started, callerVars>>
           /\ UNCHANGED <<managerVars, registrarVars, promised>>
           /\ a \in looked
           /\ pc'[a] # "unused" /\ outcome'[a] # "client"
           /\ pc'[a] \in Resolved => found[a].kind = "postgres"
           /\ \A b \in Attempt \ {a} : pc'[b] = pc[b] /\ outcome'[b] = outcome[b]
  <1> USE DEF IInv, TypeOK, Go, Return, Resolved, Causes
  <1>1. Prepare(a) /\ outcome[a] = "none" BY DEF Resolve, Prepare, AttemptInv, Opening
  <1>2. \A err \in {"notfound", "unavailable"} : rawAttemptError(a, err) # "client"
    BY DEF rawAttemptError
  <1>3. pc'[a] \in {"create", "finish"} /\ outcome'[a] # "client"
    BY <1>1, <1>2 DEF Prepare
  <1>4. \A b \in Attempt \ {a} : pc'[b] = pc[b] /\ outcome'[b] = outcome[b]
    BY <1>1 DEF Prepare
  <1>5. QED BY <1>1, <1>3, <1>4 DEF Resolve, Prepare

\* A call of Open starts at most one attempt, which has found nothing yet.
LEMMA OpenMoves ==
    ASSUME IInv, NEW c \in Callers, NEW id \in Ids, Open(c, id)
    PROVE  /\ UNCHANGED <<generations, managerVars, registrarVars>>
           /\ promised' = [promised EXCEPT ![c] = settled[id]]
           /\ \A b \in Attempt :
                 \/ /\ pc'[b] = pc[b] /\ outcome'[b] = outcome[b]
                    /\ gen'[b] = gen[b] /\ target'[b] = target[b]
                 \/ /\ pc[b] = "unused" /\ pc'[b] = "prepare" /\ outcome'[b] = "none"
                    /\ target'[b] = id
  <1>1. UNCHANGED <<managerVars, registrarVars>>
        /\ promised' = [promised EXCEPT ![c] = settled[id]]
    BY DEF Open
  <1>2. CASE OpenCached(c, id) \/ OpenJoin(c, id)
    BY <1>1, <1>2 DEF OpenCached, OpenJoin, attemptVars
  <1>3. CASE OpenStart(c, id)
    <2> DEFINE a == started + 1
    <2>1. a \in Attempt /\ pc[a] = "unused" /\ outcome[a] = "none"
      BY <1>3, OpenerAssumption DEF OpenStart, Attempt, IInv, TypeOK, AttemptInv
    <2>2. /\ pc' = [pc EXCEPT ![a] = "prepare"] /\ target' = [target EXCEPT ![a] = id]
          /\ gen' = [gen EXCEPT ![a] = generations[id]]
          /\ UNCHANGED <<outcome, generations>>
      BY <1>3 DEF OpenStart
    <2> HIDE DEF a
    <2>3. ASSUME NEW b \in Attempt, b # a
          PROVE  pc'[b] = pc[b] /\ gen'[b] = gen[b] /\ target'[b] = target[b]
      BY <2>2, <2>3 DEF IInv, TypeOK
    <2>4. pc'[a] = "prepare" /\ target'[a] = id BY <2>1, <2>2 DEF IInv, TypeOK
    <2>5. QED BY <1>1, <2>1, <2>2, <2>3, <2>4
  <1>4. QED BY <1>2, <1>3 DEF Open
---------------------------------------------------------------------------
\* Looking a definition up finds what is registered.
LEMMA LookupKeepsFound ==
    ASSUME IInv, FreshType, FoundInv, NEW a \in Attempt, Lookup(a)
    PROVE  FoundInv'
  <1>1. pc[a] = "prepare" /\ target[a] \in Ids /\ outcome[a] = "none"
    BY DEF Lookup, IInv, AttemptInv, Opening
  <1>2. /\ UNCHANGED <<pc, outcome, gen, target, generations, registered, registrar, settled>>
        /\ found'[a] = registered[target[a]]
        /\ looked' = looked \cup {a}
        /\ \A b \in Attempt \ {a} : found'[b] = found[b]
    BY DEF Lookup, vars, attemptVars, registrarVars, FreshType
  <1>3. \A b \in Attempt \ {a} : (Opens(b)' <=> Opens(b)) /\ (Current(b)' <=> Current(b))
    BY <1>2 DEF Opens, Current
  <1>4. found'[a].version >= settled[target[a]]
    BY <1>1, <1>2 DEF FreshType, Definition
  <1>5. QED BY <1>1, <1>2, <1>3, <1>4 DEF FoundInv

\* Every step keeps what is said of the definitions the attempts found.
LEMMA FoundStep == IInv /\ FreshType /\ FoundInv /\ [FreshNext]_freshVars => FoundInv'
  <1> SUFFICES ASSUME IInv, FreshType, FoundInv, [FreshNext]_freshVars PROVE FoundInv'
    OBVIOUS
  <1>1. ASSUME NEW a \in Attempt, Resolve(a) PROVE FoundInv'
    <2>1. \A b \in Attempt : (Opens(b)' <=> Opens(b)) /\ (Current(b)' <=> Current(b))
      BY <1>1, ResolveMoves DEF Opens, Current, managerVars
    <2>2. pc'[a] \in Resolved \/ outcome'[a] = "client" => Opens(a)
      BY <1>1, ResolveMoves DEF Opens
    <2>3. QED BY <1>1, <2>1, <2>2, ResolveMoves DEF FoundInv, Resolved, managerVars, registrarVars
  <1>2. ASSUME NEW a \in Attempt, OpenAttempt(a) PROVE FoundInv'
    <2>1. \A b \in Attempt : (Opens(b)' <=> Opens(b)) /\ (Current(b)' <=> Current(b))
      BY <1>2, AttemptMoves DEF Opens, Current, managerVars
    <2>2. QED BY <1>2, <2>1, AttemptMoves DEF FoundInv, Resolved, managerVars, registrarVars
  <1>3. ASSUME NEW c \in Callers, NEW id \in Ids, Open(c, id) PROVE FoundInv'
    <2> SUFFICES ASSUME NEW b \in Attempt
                 PROVE  /\ b \in looked => pc'[b] # "unused"
                        /\ pc'[b] \in Resolved \/ outcome'[b] = "client" => Opens(b)
                        /\ Opens(b) /\ Current(b)' =>
                              /\ found[b].version >= settled[target'[b]]
                              /\ (\A r \in Registrars : registrar[r] # target'[b]) =>
                                    found[b] = registered[target'[b]]
      BY <1>3, OpenMoves DEF FoundInv, Opens, Resolved, managerVars, registrarVars
    <2>1. CASE /\ pc'[b] = pc[b] /\ outcome'[b] = outcome[b]
               /\ gen'[b] = gen[b] /\ target'[b] = target[b]
      <3>1. Current(b)' <=> Current(b) BY <1>3, <2>1, OpenMoves DEF Current
      <3>2. QED BY <2>1, <3>1 DEF FoundInv, Resolved
    <2>2. CASE pc[b] = "unused" /\ pc'[b] = "prepare" /\ outcome'[b] = "none"
      BY <2>2 DEF FoundInv, Opens, Resolved
    <2>3. QED BY <1>3, <2>1, <2>2, OpenMoves
  <1>4. CASE \/ \E c \in Callers : UseRuntime(c)
             \/ UNCHANGED freshVars
    <2>1. UNCHANGED <<pc, outcome, gen, target, generations, managerVars, registrarVars>>
      BY <1>4 DEF UseRuntime, WaitDone, WaitCancelled, CancelCall, Release, attemptVars,
        freshVars, vars
    <2>2. QED BY <2>1 DEF FoundInv, Opens, Current, managerVars, registrarVars
  <1>5. QED
    BY <1>1, <1>2, <1>3, <1>4, FreshStepsAre, RegisterKeepsFound, InvalidateKeepsFound,
      LookupKeepsFound DEF OpenerStep
---------------------------------------------------------------------------
\* What is settled only becomes newer, and what was found does not change.
LEMMA SettledGrows ==
    ASSUME IInv, FreshType, [FreshNext]_freshVars
    PROVE  /\ \A id \in Ids : settled[id] <= settled'[id]
           /\ \A a \in Attempt : a \in looked => a \in looked' /\ found'[a] = found[a]
  <1>1. ASSUME NEW r \in Registrars, NEW id \in Ids, NEW kind \in Kinds, Register(r, id, kind)
        PROVE  /\ \A d \in Ids : settled[d] <= settled'[d]
               /\ UNCHANGED <<looked, found>>
    <2>1. \A d \in Ids : settled'[d] = settled[d] \/ settled'[d] = versions + 1
      BY <1>1 DEF Register, FreshType
    <2>2. \A d \in Ids : settled[d] \in Nat /\ settled[d] <= versions + 1
      BY DEF FreshType, Definition
    <2>3. QED BY <1>1, <2>1, <2>2 DEF Register
  <1>2. ASSUME NEW r \in Registrars, InvalidateRuntime(r)
        PROVE  /\ \A d \in Ids : settled[d] <= settled'[d]
               /\ UNCHANGED <<looked, found>>
    <2>1. \A d \in Ids : settled'[d] \in {settled[d], registered[d].version}
      BY <1>2 DEF InvalidateRuntime, FreshType
    <2>2. QED BY <1>2, <2>1 DEF InvalidateRuntime, managerVars, FreshType, Definition
  <1>3. ASSUME NEW a \in Attempt, Lookup(a)
        PROVE  /\ UNCHANGED settled
               /\ \A b \in Attempt : b \in looked => b \in looked' /\ found'[b] = found[b]
    BY <1>3 DEF Lookup, registrarVars, FreshType
  <1>4. ASSUME OpenerStep \/ (\E a \in Attempt : Resolve(a)) \/ UNCHANGED freshVars
        PROVE  UNCHANGED <<settled, looked, found>>
    BY <1>4 DEF OpenerStep, OpenAttempt, UseRuntime, Open, Resolve, freshVars, managerVars,
      registrarVars
  <1>5. \A d \in Ids : settled[d] \in Nat BY DEF FreshType
  <1>6. QED BY <1>1, <1>2, <1>3, <1>4, <1>5, FreshStepsAre

\* The promise to a caller is kept by the attempt it waits for.
Kept(c) ==
    LET a == request[c].attempt IN
    /\ caller[c] # "idle" => /\ promised[c] <= settled[target[a]]
                             /\ Opens(a) => found[a].version >= promised[c]
    /\ reply[c] = "client" => caller[c] # "idle" /\ Opens(a)

\* A caller whose call does not change.
LEMMA SameCall ==
    ASSUME IInv, IInv', FreshType, FreshType', PromiseInv, [FreshNext]_freshVars,
           NEW c \in Callers,
           caller'[c] # "idle" => caller[c] # "idle",
           UNCHANGED <<request[c], promised[c]>>,
           reply'[c] = "client" => reply[c] = "client",
           caller[c] # "idle" => target'[request[c].attempt] = target[request[c].attempt],
           \A a \in Attempt : a \in looked' \ looked => found'[a].version >= settled[target[a]]
    PROVE  Kept(c)'
  <1> DEFINE a == request[c].attempt
  <1>1. request'[c] = request[c] /\ promised'[c] = promised[c] OBVIOUS
  <1>2. CASE caller'[c] = "idle"
    <2>1. reply'[c] # "client" BY <1>2 DEF IInv, CallerInv
    <2>2. QED BY <1>2, <2>1 DEF Kept
  <1>3. CASE caller'[c] # "idle"
    <2>1. caller[c] \in {"waiting", "holding", "using"} BY <1>3 DEF IInv, TypeOK
    <2>2. a \in Attempt /\ target[a] = request[c].id /\ pc[a] # "unused"
      BY <2>1 DEF IInv, CallerInv
    <2>3. target[a] \in Ids BY <2>2 DEF IInv, AttemptInv
    <2>4. /\ promised[c] <= settled[target[a]]
          /\ Opens(a) => found[a].version >= promised[c]
          /\ reply[c] = "client" => Opens(a)
      BY <2>1 DEF PromiseInv
    <2>5. settled[target[a]] <= settled'[target[a]]
          /\ (a \in looked => a \in looked' /\ found'[a] = found[a])
      BY <2>2, <2>3, SettledGrows
    <2>6. promised[c] \in Nat /\ settled[target[a]] \in Nat /\ settled'[target[a]] \in Nat
          /\ found'[a].version \in Nat
      BY <2>2, <2>3 DEF FreshType, Definition
    <2>7. promised[c] <= settled'[target[a]] BY <2>4, <2>5, <2>6
    <2>8. Opens(a)' => found'[a].version >= promised[c]
      BY <1>1, <2>2, <2>4, <2>5, <2>6 DEF Opens
    <2>9. reply'[c] = "client" => Opens(a)' BY <1>1, <2>4, <2>5 DEF Opens
    <2>10. QED BY <1>1, <1>3, <2>7, <2>8, <2>9 DEF Kept
  <1>4. QED BY <1>2, <1>3
---------------------------------------------------------------------------
\* A new call: the attempt it is given or waits for is current, or brand new.
LEMMA NewCall ==
    ASSUME IInv, FreshType, FoundInv, NEW c \in Callers, NEW id \in Ids, Open(c, id)
    PROVE  Kept(c)'
  <1>1. /\ UNCHANGED <<looked, found, settled>>
        /\ promised'[c] = settled[id] /\ settled[id] \in Nat
    BY DEF Open, managerVars, registrarVars, FreshType
  <1>2. CASE OpenCached(c, id)
    <2> DEFINE k == entries[id].client
    <2>1. k \in Attempt /\ target[k] = id /\ gen[k] = generations[id] /\ outcome[k] = "client"
      BY <1>2 DEF OpenCached, IInv, TypeOK, Entry, CacheIsCurrent
    <2>2. Opens(k) /\ Current(k) BY <2>1 DEF FoundInv, Current
    <2>3. found[k].version >= settled[id] BY <2>1, <2>2 DEF FoundInv
    <2>4. request'[c].attempt = k /\ caller'[c] # "idle" /\ target' = target
      BY <1>2 DEF OpenCached, Calling, attemptVars, IInv, TypeOK
    <2> HIDE DEF k
    <2>5. QED BY <1>1, <2>1, <2>2, <2>3, <2>4 DEF Kept, Opens
  <1>3. CASE OpenJoin(c, id)
    <2> DEFINE a == entries[id].attempt
    <2>1. a \in Attempt /\ target[a] = id /\ gen[a] = generations[id]
      BY <1>3 DEF OpenJoin, IInv, TypeOK, Entry, CacheIsCurrent
    <2>2. Opens(a) => found[a].version >= settled[id] BY <2>1 DEF FoundInv, Current
    <2>3. /\ request'[c].attempt = a /\ caller'[c] # "idle" /\ target' = target
          /\ reply'[c] = "none"
      BY <1>3 DEF OpenJoin, Calling, attemptVars, IInv, TypeOK
    <2> HIDE DEF a
    <2>4. QED BY <1>1, <2>1, <2>2, <2>3 DEF Kept, Opens
  <1>4. CASE OpenStart(c, id)
    <2> DEFINE a == started + 1
    <2>1. a \in Attempt /\ pc[a] = "unused"
      BY <1>4, OpenerAssumption DEF OpenStart, Attempt, IInv, TypeOK, AttemptInv
    <2>2. a \notin looked BY <2>1 DEF FoundInv
    <2>3. target' = [target EXCEPT ![a] = id] BY <1>4 DEF OpenStart
    <2>4. request'[c].attempt = a /\ caller'[c] # "idle" /\ reply'[c] = "none"
      BY <1>4 DEF OpenStart, Calling, IInv, TypeOK
    <2> HIDE DEF a
    <2>5. target'[a] = id BY <2>1, <2>3 DEF IInv, TypeOK
    <2>6. QED BY <1>1, <2>1, <2>2, <2>4, <2>5 DEF Kept, Opens
  <1>5. QED BY <1>2, <1>3, <1>4 DEF Open

\* The caller of a step that waits, gives up or lets go.
LEMMA CallGoesOn ==
    ASSUME IInv, IInv', FreshType, FreshType', FoundInv, PromiseInv, [FreshNext]_freshVars,
           NEW c \in Callers, UseRuntime(c)
    PROVE  PromiseInv'
  <1>1. UNCHANGED <<attemptVars, managerVars, registrarVars, promised>>
    BY DEF UseRuntime, WaitDone, WaitCancelled, CancelCall, Release
  <1>2. ASSUME NEW d \in Callers, d # c PROVE Kept(d)'
    <2>1. caller'[d] = caller[d] /\ request'[d] = request[d] /\ reply'[d] = reply[d]
      BY <1>2 DEF UseRuntime, WaitDone, WaitCancelled, CancelCall, Release, Answer, IInv, TypeOK
    <2>2. QED BY <1>1, <2>1, SameCall DEF attemptVars, managerVars
  <1>3. Kept(c)'
    <2>1. CASE caller'[c] = "idle"
      BY <2>1 DEF IInv, CallerInv, Kept
    <2>2. CASE UNCHANGED <<caller[c], request[c], reply[c]>>
      BY <1>1, <2>2, SameCall DEF attemptVars, managerVars
    <2>3. CASE WaitDone(c) /\ outcome[request[c].attempt] = "client" /\ Answer(c, "client")
      <3> DEFINE a == request[c].attempt
      <3>1. a \in Attempt /\ promised[c] <= settled[target[a]]
            /\ (Opens(a) => found[a].version >= promised[c])
        BY <2>3 DEF WaitDone, IInv, CallerInv, PromiseInv
      <3>2. Opens(a) BY <2>3, <3>1 DEF FoundInv
      <3>3. request'[c] = request[c] /\ caller'[c] # "idle"
        BY <2>3 DEF Answer, IInv, TypeOK
      <3>4. QED BY <1>1, <3>1, <3>2, <3>3 DEF Kept, Opens, attemptVars, managerVars, registrarVars
    <2>4. QED
      BY <2>1, <2>2, <2>3 DEF UseRuntime, WaitDone, WaitCancelled, CancelCall, Release, Answer,
        OpenError, IInv, TypeOK
  <1>4. QED BY <1>2, <1>3 DEF PromiseInv, Kept

\* Every step keeps the promises.
LEMMA PromiseStep ==
    ASSUME IInv, IInv', FreshType, FreshType', FoundInv, PromiseInv, [FreshNext]_freshVars
    PROVE  PromiseInv'
  <1>1. ASSUME UNCHANGED <<callerVars, promised, target>>,
               \A a \in Attempt : a \in looked' \ looked =>
                   found'[a].version >= settled[target[a]]
        PROVE  PromiseInv'
    <2>1. ASSUME NEW c \in Callers PROVE Kept(c)'
      BY <1>1, SameCall DEF callerVars
    <2>2. QED BY <2>1 DEF PromiseInv, Kept
  <1>2. CASE \E r \in Registrars, id \in Ids, kind \in Kinds : Register(r, id, kind)
    BY <1>1, <1>2 DEF Register, vars, attemptVars
  <1>3. CASE \E r \in Registrars : InvalidateRuntime(r)
    BY <1>1, <1>3 DEF InvalidateRuntime, Invalidate, managerVars
  <1>4. ASSUME NEW a \in Attempt, Lookup(a) PROVE PromiseInv'
    <2>1. target[a] \in Ids BY <1>4 DEF Lookup, IInv, AttemptInv
    <2>2. found'[a].version >= settled[target[a]]
      BY <1>4, <2>1 DEF Lookup, FreshType, Definition
    <2>3. QED BY <1>1, <1>4, <2>2 DEF Lookup, vars, attemptVars
  <1>5. CASE \E a \in Attempt : Resolve(a)
    BY <1>1, <1>5, ResolveMoves DEF managerVars
  <1>6. CASE \E a \in Attempt : OpenAttempt(a)
    BY <1>1, <1>6, AttemptMoves DEF managerVars
  <1>7. CASE \E c \in Callers : UseRuntime(c) BY <1>7, CallGoesOn
  <1>8. ASSUME NEW c \in Callers, NEW id \in Ids, Open(c, id) PROVE PromiseInv'
    <2>1. ASSUME NEW d \in Callers, d # c PROVE Kept(d)'
      <3>1. caller'[d] = caller[d] /\ request'[d] = request[d] /\ reply'[d] = reply[d]
            /\ promised'[d] = promised[d]
        BY <1>8, <2>1 DEF Open, OpenCached, OpenJoin, OpenStart, Calling, IInv, TypeOK, FreshType
      <3>2. caller[d] # "idle" => /\ request[d].attempt \in Attempt
                                  /\ pc[request[d].attempt] # "unused"
        BY DEF IInv, TypeOK, CallerInv
      <3>3. caller[d] # "idle" => target'[request[d].attempt] = target[request[d].attempt]
        BY <1>8, <3>2, OpenMoves
      <3>4. looked' = looked BY <1>8 DEF Open, managerVars
      <3>5. QED BY <3>1, <3>3, <3>4, SameCall
    <2>2. Kept(c)' BY <1>8, NewCall
    <2>3. QED BY <2>1, <2>2 DEF PromiseInv, Kept
  <1>9. CASE UNCHANGED freshVars
    BY <1>1, <1>9 DEF freshVars, vars, attemptVars, managerVars
  <1>10. QED
    BY <1>2, <1>3, <1>4, <1>5, <1>6, <1>7, <1>8, <1>9, FreshStepsAre DEF OpenerStep
---------------------------------------------------------------------------
FreshIInv == IInv /\ FreshType /\ FoundInv /\ PromiseInv

\* The invariant the theorems rest on.
THEOREM FreshInductiveInvariant == FreshSpec => []FreshIInv
  <1>1. FreshInit => FreshIInv
    <2> SUFFICES ASSUME FreshInit PROVE FreshIInv
      OBVIOUS
    <2>1. Init BY DEF FreshInit
    <2>2. TypeOK BY <2>1, InitType
    <2>3. AttemptInv BY <2>1 DEF Init, AttemptInv, Attempt, Opening
    <2>4. IInv
      BY <2>1, <2>2, <2>3 DEF Init, IInv, CacheIsCurrent, PoolsAreOwned, ShutdownInv, CallerInv,
        ErrorsHaveCauses, CloserInv, NoEntry
    <2>5. NoDefinition \in Definition /\ NoDefinition.version = 0
      BY DEF NoDefinition, Definition, Kinds
    <2>6. FreshType BY <2>5 DEF FreshInit, FreshType
    <2>7. FoundInv BY <2>1 DEF FreshInit, Init, FoundInv, Opens
    <2>8. PromiseInv BY <2>1 DEF FreshInit, Init, PromiseInv
    <2>9. QED BY <2>4, <2>6, <2>7, <2>8 DEF FreshIInv
  <1>2. FreshIInv /\ [FreshNext]_freshVars => FreshIInv'
    <2> SUFFICES ASSUME FreshIInv, [FreshNext]_freshVars PROVE FreshIInv'
      OBVIOUS
    <2> USE DEF FreshIInv
    <2>1. IInv' BY OpenerMoves, FreshOpenerKeeps
    <2>2. FreshType' BY FreshTypeStep
    <2>3. FoundInv' BY FoundStep
    <2>4. PromiseInv' BY <2>1, <2>2, PromiseStep
    <2>5. QED BY <2>1, <2>2, <2>3, <2>4
  <1>3. QED BY <1>1, <1>2, PTL DEF FreshSpec

(* The opener keeps what it promises when its definitions are replaced     *)
(* under it: every step of the composition is one of its steps or none.    *)
THEOREM OpenerIsPreserved == FreshSpec => Spec
  <1>1. FreshInit => Init BY DEF FreshInit
  <1>2. FreshIInv /\ [FreshNext]_freshVars => [Next]_vars
    BY OpenerMoves DEF FreshIInv
  <1>3. QED BY <1>1, <1>2, FreshInductiveInvariant, PTL DEF FreshSpec, Spec

(* When no invalidation of an id is due, its cached client was opened from *)
(* the definition that is registered.                                      *)
THEOREM CachedIsRegistered == FreshSpec => []CachedDefinitionIsRegistered
  <1>1. FreshIInv => CachedDefinitionIsRegistered
    <2> SUFFICES ASSUME FreshIInv, NEW id \in Ids, entries[id].client # None,
                        \A r \in Registrars : registrar[r] # id
                 PROVE  found[entries[id].client] = registered[id]
      BY DEF CachedDefinitionIsRegistered
    <2> DEFINE k == entries[id].client
    <2>1. k \in Attempt /\ target[k] = id /\ gen[k] = generations[id] /\ outcome[k] = "client"
      BY DEF FreshIInv, IInv, TypeOK, Entry, CacheIsCurrent
    <2>2. Opens(k) /\ Current(k) BY <2>1 DEF FreshIInv, FoundInv, Current
    <2>3. QED BY <2>1, <2>2 DEF FreshIInv, FoundInv
  <1>2. QED BY <1>1, FreshInductiveInvariant, PTL

(* A call that starts after an import has returned is not given a client   *)
(* of a definition the import replaced.                                    *)
THEOREM ImportedIsUsed == FreshSpec => []ImportedDefinitionIsUsed
  <1>1. FreshIInv => ImportedDefinitionIsUsed
    BY DEF FreshIInv, PromiseInv, ImportedDefinitionIsUsed
  <1>2. QED BY <1>1, FreshInductiveInvariant, PTL
=============================================================================
