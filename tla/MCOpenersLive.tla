--------------------------- MODULE MCOpenersLive ---------------------------
(* A small instance of PostgresOpener and of MySQLOpener for TLC: one of   *)
(* the two for a whole behaviour, each with its own fairness.              *)
EXTENDS MySQLOpener

VARIABLE engine

openerVars == <<engine, myVars>>
Either(pg, my) ==
    \/ engine = "postgres" /\ pg /\ UNCHANGED <<engine, closeVars>>
    \/ engine = "mysql" /\ my /\ UNCHANGED engine

OpenerInit == engine \in {"postgres", "mysql"} /\ MyInit

OpenerNext == Either(Next, MyNext)

\* Fairness of PostgresOpener and MyFairness of MySQLOpener, side by side.
OpenerFairness ==
    /\ \A a \in Attempt :
          /\ WF_openerVars(Either(Expire(a), Timeout(a)))
          /\ WF_openerVars(cause[a] # "none" /\ Either(AttemptStep(a), MyAttemptStep(a)))
          /\ WF_openerVars(/\ pc[a] \notin {"prepare", "create", "ping"}
                           /\ Either(AttemptStep(a), MyAttemptStep(a)))
          /\ WF_openerVars(Either(PoolClosed(a), PoolStep(a)))
    /\ \A c \in Callers :
          /\ WF_openerVars(Either(WaitDone(c), waitForAttempt(c)))
          /\ WF_openerVars(Either(Release(c), FALSE))
    /\ WF_openerVars(Either(completeClose, finishShutdown))

OpenerSpec == OpenerInit /\ [][OpenerNext]_openerVars /\ OpenerFairness
===========================================================================
