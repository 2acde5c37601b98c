--------------------------- MODULE LocalMcpProofs ---------------------------
(***************************************************************************)
(* Proofs about LocalMcp, for every set of proxies and any number of runs: *)
(* a run that serves can be reached, no run takes a dead socket for a live *)
(* one, and one reread of the credential is enough.                        *)
(***************************************************************************)
EXTENDS LocalMcp, TLAPS

\* Where a run is between taking the lock and letting go of it.
Holding == {"probe", "remove", "listen", "chmod", "publish", "serve", "drain", "delete",
            "cleanup", "unlock"}

\* At most one run holds the lock, and only that one has files and a listener.
RunInv ==
    /\ \A r \in Run : pc[r] \in Holding <=> lock = r
    /\ \A r \in listening : pc[r] \in {"chmod", "publish", "serve", "cleanup"} /\ socket = r
    /\ \A r \in Run : pc[r] \in {"chmod", "publish", "serve"} => r \in listening
    /\ \A r \in Run : pc[r] \in {"publish", "serve"} => mode = "owner"
    /\ \A r \in Run : pc[r] = "serve" => credential = r

\* A run that has served and stopped never listens again.
HasServed(r) ==
    \/ pc[r] = "serve"
    \/ pc[r] \in {"drain", "delete", "cleanup", "unlock", "ended"} /\ r \notin listening

Retrying(q) ==
    \/ q.at = "read" /\ q.tries = 1
    \/ q.at \in {"validate", "dial", "connected", "accepted"} /\ q.tries = 2

\* A proxy that tries again holds the credential of the run that refused it, if
\* that one still serves: if it is refused, it is by another.
RequestInv(q) ==
    /\ q.at = "read" => q.tries \in {0, 1}
    /\ q.at \in {"validate", "dial", "connected", "accepted"} => q.tries \in {1, 2}
    /\ q.at \in {"connected", "accepted"} => q.run \in Run
    /\ q.at = "accepted" => HasServed(q.run)
    /\ Retrying(q) => q.first \in Run /\ HasServed(q.first)
    /\ q.at \in {"validate",
      "dial"} /\ q.tries = 2 /\ pc[q.first] = "serve" => q.credential = q.first
    /\ q.at \in {"connected",
      "accepted"} /\ q.tries = 2 /\ q.run = q.first => q.credential = q.first
    /\ q.reply = "refused" =>
          q.at = "idle" /\ (q.kind = "message" => q.first # None /\ q.first # q.run)

ProxyInv == \A p \in Proxies : RequestInv(proxy[p])

IInv == TypeOK /\ RunInv /\ ProxyInv
---------------------------------------------------------------------------
\* No run is told from every run.
LEMMA NoneIsNoRun == None \notin Run
  BY LocalMcpAssumption DEF None, Run

\* A step of a run, a step of a proxy: what the proofs below split Next into.
RunAction(r) == Start(r) \/ RunStep(r) \/ Stop(r) \/ Crash(r)
ProxyAction(p) == ProxyStep(p) \/ \E kind \in Kind : Request(p, kind)

\* What a run does to the proxies: nothing, or it breaks the connections of some.
LEMMA RunBreaksOnly ==
    ASSUME NEW r \in Run, RunAction(r), TypeOK
    PROVE  /\ proxy' \in [Proxies -> {[NoRequest EXCEPT !.reply = "error"]} \cup
                                       {proxy[p] : p \in Proxies}]
           /\ \A p \in Proxies : \/ proxy'[p] = proxy[p]
                                  \/ proxy'[p] = [NoRequest EXCEPT !.reply = "error"]
  <1>1. CASE Broken(r) BY <1>1 DEF TypeOK, Broken
  <1>2. CASE Reset(r) BY <1>2 DEF TypeOK, Reset
  <1>3. CASE UNCHANGED proxy BY <1>3 DEF TypeOK
  <1>4. QED
      BY <1>1, <1>2, <1>3 DEF RunAction, RunStep, Start, AcquireLock, Probe, RemoveStale, Listen,
        Chmod, Publish, Stop, Drain, DeleteCredential, Cleanup, Unlock, Crash

\* What a step of a proxy leaves alone.
LEMMA ProxyTouchesNoRun ==
    ASSUME NEW p \in Proxies, ProxyAction(p)
    PROVE  UNCHANGED <<pc, lock, files, listening>>
  BY DEF ProxyAction, ProxyStep, ReadCredential, ValidateSocket, Dial, Accept, Authenticate,
    Handle, Request

\* A proxy at rest.
LEMMA NoRequestType == NoRequest \in ProxyState
  BY DEF NoRequest, ProxyState, Kind

\* Types: the initial state, a step of a run, a step of a proxy.
LEMMA InitTypeOK == Init => TypeOK
  BY NoRequestType DEF Init, TypeOK

\* Only the proxies need a closer look.
LEMMA RunTypeOK ==
    ASSUME NEW r \in Run, RunAction(r), TypeOK
    PROVE  TypeOK'
  <1>1. proxy' \in [Proxies -> ProxyState]
    <2>1. [NoRequest EXCEPT !.reply = "error"] \in ProxyState BY NoRequestType DEF ProxyState
    <2>2. QED BY <2>1, RunBreaksOnly DEF TypeOK
  <1>2. QED
    <2>1. CASE Start(r) BY <1>1, <2>1 DEF TypeOK, Go, Start, files
    <2>2. CASE AcquireLock(r) BY <1>1, <2>2 DEF TypeOK, Go, AcquireLock, files
    <2>3. CASE Probe(r) BY <1>1, <2>3 DEF TypeOK, Go, Probe, files
    <2>4. CASE RemoveStale(r) BY <1>1, <2>4 DEF TypeOK, Go, RemoveStale, files
    <2>5. CASE Listen(r) BY <1>1, <2>5 DEF TypeOK, Go, Listen, files
    <2>6. CASE Chmod(r) BY <1>1, <2>6 DEF TypeOK, Go, Chmod, files
    <2>7. CASE Publish(r) BY <1>1, <2>7 DEF TypeOK, Go, Publish, files
    <2>8. CASE Stop(r) BY <1>1, <2>8 DEF TypeOK, Go, CloseListener, Reset, Stop, files
    <2>9. CASE Drain(r) BY <1>1, <2>9 DEF TypeOK, Go, Drain, files
    <2>10. CASE DeleteCredential(r) BY <1>1, <2>10 DEF TypeOK, Go, DeleteCredential, files
    <2>11. CASE Cleanup(r) BY <1>1, <2>11 DEF TypeOK, Go, Cleanup, files
    <2>12. CASE Unlock(r) BY <1>1, <2>12 DEF TypeOK, Go, Unlock, files
    <2>13. CASE Crash(r) BY <1>1, <2>13 DEF TypeOK, Go, Crash, files
    <2>14. QED BY RunAction(r), <2>1, <2>2, <2>3, <2>4, <2>5, <2>6, <2>7, <2>8, <2>9, <2>10,
        <2>11, <2>12, <2>13 DEF RunAction, RunStep

\* The new state of a proxy is one a proxy can be in.
LEMMA ProxyTypeOK ==
    ASSUME NEW p \in Proxies, ProxyAction(p), TypeOK, ProxyInv
    PROVE  TypeOK'
  <1>0. UNCHANGED <<pc, lock, files, listening>> BY ProxyTouchesNoRun
  <1> DEFINE q == proxy[p]
  <1>q. q \in ProxyState BY DEF TypeOK
  <1>s. ASSUME NEW new \in ProxyState, Becomes(p, new) PROVE TypeOK'
    BY <1>0, <1>s DEF TypeOK, Becomes, files
  <1>e. ASSUME NEW reply \in {"ok", "error", "refused"}, Ends(p, reply) PROVE TypeOK'
    <2>1. [q EXCEPT !.at = "idle", !.reply = reply] \in ProxyState BY <1>q DEF ProxyState
    <2>2. QED BY <2>1, <1>e, <1>s DEF Ends
  <1>1. CASE ReadCredential(p)
    <2>1. CASE /\ q.at = "read" /\ credential # None
            /\ Becomes(p, [q EXCEPT !.at = "validate", !.credential = credential, !.tries = @ + 1])
      <3>1. q.tries \in {0, 1} BY <2>1 DEF ProxyInv, RequestInv
      <3>2. [q EXCEPT !.at = "validate", !.credential = credential, !.tries = @ + 1] \in ProxyState
        <4>1. q.tries + 1 \in 0..2 BY <3>1
        <4>2. QED BY <4>1, <1>q DEF ProxyState, TypeOK
      <3>3. QED BY <2>1, <3>2, <1>s
    <2>2. QED BY <1>1, <1>e, <2>1 DEF ReadCredential
  <1>2. CASE ValidateSocket(p)
    <2>1. [q EXCEPT !.at = "dial"] \in ProxyState BY <1>q DEF ProxyState
    <2>2. QED BY <1>2, <1>e, <1>s, <2>1 DEF ValidateSocket
  <1>3. CASE Dial(p)
    <2>1. [q EXCEPT !.at = "connected", !.run = socket] \in ProxyState BY <1>q
        DEF ProxyState, TypeOK
    <2>2. QED BY <1>3, <1>e, <1>s, <2>1 DEF Dial
  <1>4. CASE Accept(p)
    <2>1. [q EXCEPT !.at = "accepted"] \in ProxyState BY <1>q DEF ProxyState
    <2>2. QED BY <1>4, <1>s, <2>1 DEF Accept
  <1>5. CASE Authenticate(p)
    <2>1. [q EXCEPT !.at = "handling"] \in ProxyState BY <1>q DEF ProxyState
    <2>2. [q EXCEPT !.at = "read", !.first = q.run] \in ProxyState BY <1>q DEF ProxyState
    <2>3. QED BY <1>5, <1>e, <1>s, <2>1, <2>2 DEF Authenticate
  <1>6. CASE Handle(p) BY <1>6, <1>e DEF Handle
  <1>7. CASE \E kind \in Kind : Request(p, kind)
    <2>1. ASSUME NEW kind \in Kind
        PROVE [NoRequest EXCEPT !.at = "read", !.kind = kind] \in ProxyState
      BY NoRequestType DEF ProxyState
    <2>2. QED BY <1>7, <1>s, <2>1 DEF Request
  <1>8. QED BY <1>1, <1>2, <1>3, <1>4, <1>5, <1>6, <1>7 DEF ProxyAction, ProxyStep
---------------------------------------------------------------------------
\* Each step of a run keeps the lock, the files and its listener together.
LEMMA RunKeepsRunInv ==
    ASSUME NEW r \in Run, RunAction(r), TypeOK, RunInv
    PROVE  RunInv'
  <1>1. CASE Start(r) BY <1>1 DEF TypeOK, RunInv, Holding, Go, Start, files
  <1>2. CASE AcquireLock(r) BY <1>2, NoneIsNoRun DEF TypeOK, RunInv, Holding, Go, AcquireLock, files
  <1>3. CASE Probe(r) BY <1>3 DEF TypeOK, RunInv, Holding, Go, Probe, files
  <1>4. CASE RemoveStale(r) BY <1>4 DEF TypeOK, RunInv, Holding, Go, RemoveStale, files
  <1>5. CASE Listen(r) BY <1>5 DEF TypeOK, RunInv, Holding, Go, Listen, files
  <1>6. CASE Chmod(r) BY <1>6 DEF TypeOK, RunInv, Holding, Go, Chmod, files
  <1>7. CASE Publish(r) BY <1>7 DEF TypeOK, RunInv, Holding, Go, Publish, files
  <1>8. CASE Stop(r) BY <1>8 DEF TypeOK, RunInv, Holding, Go, CloseListener, Stop, files
  <1>9. CASE Drain(r) BY <1>9 DEF TypeOK, RunInv, Holding, Go, Drain, files
  <1>10. CASE DeleteCredential(r) BY <1>10 DEF TypeOK, RunInv, Holding, Go, DeleteCredential, files
  <1>11. CASE Cleanup(r) BY <1>11 DEF TypeOK, RunInv, Holding, Go, Cleanup, files
  <1>12. CASE Unlock(r) BY <1>12, NoneIsNoRun DEF TypeOK, RunInv, Holding, Go, Unlock, files
  <1>13. CASE Crash(r) BY <1>13, NoneIsNoRun DEF TypeOK, RunInv, Holding, Go, Crash, files
  <1>14. QED BY <1>1, <1>2, <1>3, <1>4, <1>5, <1>6, <1>7, <1>8, <1>9, <1>10, <1>11, <1>12, <1>13
      DEF RunAction, RunStep

\* A run that has served stays one that has served.
LEMMA ServedStays ==
    ASSUME NEW r \in Run, RunAction(r), TypeOK, RunInv, NEW s \in Run, HasServed(s)
    PROVE  HasServed(s)'
  <1>1. CASE Start(r) BY <1>1 DEF TypeOK, RunInv, HasServed, Go, Start, files
  <1>2. CASE AcquireLock(r) BY <1>2 DEF TypeOK, RunInv, HasServed, Go, AcquireLock, files
  <1>3. CASE Probe(r) BY <1>3 DEF TypeOK, RunInv, HasServed, Go, Probe, files
  <1>4. CASE RemoveStale(r) BY <1>4 DEF TypeOK, RunInv, HasServed, Go, RemoveStale, files
  <1>5. CASE Listen(r) BY <1>5 DEF TypeOK, RunInv, HasServed, Go, Listen, files
  <1>6. CASE Chmod(r) BY <1>6 DEF TypeOK, RunInv, HasServed, Go, Chmod, files
  <1>7. CASE Publish(r) BY <1>7 DEF TypeOK, RunInv, HasServed, Go, Publish, files
  <1>8. CASE Stop(r) BY <1>8 DEF TypeOK, RunInv, HasServed, Go, CloseListener, Stop, files
  <1>9. CASE Drain(r) BY <1>9 DEF TypeOK, RunInv, HasServed, Go, Drain, files
  <1>10. CASE DeleteCredential(r) BY <1>10
      DEF TypeOK, RunInv, HasServed, Go, DeleteCredential, files
  <1>11. CASE Cleanup(r) BY <1>11 DEF TypeOK, RunInv, HasServed, Go, Cleanup, files
  <1>12. CASE Unlock(r) BY <1>12 DEF TypeOK, RunInv, HasServed, Go, Unlock, files
  <1>13. CASE Crash(r) BY <1>13 DEF TypeOK, RunInv, HasServed, Go, Crash, files
  <1>14. QED BY <1>1, <1>2, <1>3, <1>4, <1>5, <1>6, <1>7, <1>8, <1>9, <1>10, <1>11, <1>12, <1>13
      DEF RunAction, RunStep

\* A run comes to serve only from a state in which it has not served.
LEMMA NobodyServesTwice ==
    ASSUME NEW r \in Run, RunAction(r), TypeOK, RunInv, NEW s \in Run, HasServed(s),
      pc'[s] = "serve"
    PROVE  pc[s] = "serve"
  <1>1. CASE Start(r) BY <1>1 DEF TypeOK, RunInv, HasServed, Go, Start
  <1>2. CASE AcquireLock(r) BY <1>2 DEF TypeOK, RunInv, HasServed, Go, AcquireLock
  <1>3. CASE Probe(r) BY <1>3 DEF TypeOK, RunInv, HasServed, Go, Probe
  <1>4. CASE RemoveStale(r) BY <1>4 DEF TypeOK, RunInv, HasServed, Go, RemoveStale
  <1>5. CASE Listen(r) BY <1>5 DEF TypeOK, RunInv, HasServed, Go, Listen
  <1>6. CASE Chmod(r) BY <1>6 DEF TypeOK, RunInv, HasServed, Go, Chmod
  <1>7. CASE Publish(r) BY <1>7 DEF TypeOK, RunInv, HasServed, Go, Publish
  <1>8. CASE Stop(r) BY <1>8 DEF TypeOK, RunInv, HasServed, Go, Stop
  <1>9. CASE Drain(r) BY <1>9 DEF TypeOK, RunInv, HasServed, Go, Drain
  <1>10. CASE DeleteCredential(r) BY <1>10 DEF TypeOK, RunInv, HasServed, Go, DeleteCredential
  <1>11. CASE Cleanup(r) BY <1>11 DEF TypeOK, RunInv, HasServed, Go, Cleanup
  <1>12. CASE Unlock(r) BY <1>12 DEF TypeOK, RunInv, HasServed, Go, Unlock
  <1>13. CASE Crash(r) BY <1>13 DEF TypeOK, RunInv, HasServed, Go, Crash
  <1>14. QED BY <1>1, <1>2, <1>3, <1>4, <1>5, <1>6, <1>7, <1>8, <1>9, <1>10, <1>11, <1>12, <1>13
      DEF RunAction, RunStep

\* What the runs do does not disturb what the proxies know.
LEMMA RunKeepsProxyInv ==
    ASSUME NEW r \in Run, RunAction(r), TypeOK, RunInv, ProxyInv
    PROVE  ProxyInv'
  <1> SUFFICES ASSUME NEW p \in Proxies PROVE RequestInv(proxy[p])'
    BY DEF ProxyInv
  <1>1. CASE proxy'[p] = proxy[p]
    BY <1>1, ServedStays, NobodyServesTwice DEF ProxyInv, RequestInv, Retrying
  <1>2. CASE proxy'[p] = [NoRequest EXCEPT !.reply = "error"]
    BY <1>2 DEF RequestInv, Retrying, NoRequest
  <1>3. QED BY <1>1, <1>2, RunBreaksOnly

\* Each step of a request adds what the next one needs.
LEMMA ProxyKeepsProxyInv ==
    ASSUME NEW p \in Proxies, ProxyAction(p), TypeOK, RunInv, ProxyInv
    PROVE  ProxyInv'
  <1>0. UNCHANGED <<pc, lock, files, listening>> BY ProxyTouchesNoRun
  <1> DEFINE q == proxy[p]
  <1>q. q \in ProxyState /\ RequestInv(q) BY DEF TypeOK, ProxyInv
  <1>s. ASSUME NEW new \in ProxyState, Becomes(p, new), RequestInv(new) PROVE ProxyInv'
    BY <1>0, <1>s DEF TypeOK, Becomes, ProxyInv, RequestInv, HasServed
  <1> USE <1>q DEF RequestInv, Retrying, HasServed
  <1>e. ASSUME NEW reply \in {"ok", "error"}, Ends(p, reply) PROVE ProxyInv'
    <2>1. [q EXCEPT !.at = "idle", !.reply = reply] \in ProxyState BY DEF ProxyState
    <2>2. RequestInv([q EXCEPT !.at = "idle", !.reply = reply]) BY DEF ProxyState
    <2>3. QED BY <2>1, <2>2, <1>e, <1>s DEF Ends
  <1>1. CASE ReadCredential(p)
    <2> DEFINE new == [q EXCEPT !.at = "validate", !.credential = credential, !.tries = @ + 1]
    <2>1. CASE q.at = "read" /\ Becomes(p, new)
      <3>1. q.tries \in {0, 1} /\ new.tries = q.tries + 1 BY <2>1 DEF ProxyState
      <3>2. new \in ProxyState
        <4>1. q.tries + 1 \in 0..2 BY <3>1
        <4>2. QED BY <4>1 DEF ProxyState, TypeOK
      <3>3. RequestInv(new) BY <2>1, <3>1 DEF ProxyState, RunInv
      <3>4. QED BY <2>1, <3>2, <3>3, <1>s
    <2>2. QED BY <1>1, <1>e, <2>1 DEF ReadCredential
  <1>2. CASE ValidateSocket(p)
    <2> DEFINE new == [q EXCEPT !.at = "dial"]
    <2>1. new \in ProxyState BY DEF ProxyState
    <2>2. RequestInv(new) BY <1>2 DEF ProxyState, ValidateSocket
    <2>3. QED BY <1>2, <1>e, <1>s, <2>1, <2>2 DEF ValidateSocket
  <1>3. CASE Dial(p)
    <2> DEFINE new == [q EXCEPT !.at = "connected", !.run = socket]
    <2>1. CASE q.at = "dial" /\ socket \in listening /\ Becomes(p, new)
      <3>1. new \in ProxyState BY DEF ProxyState, TypeOK
      <3>2. RequestInv(new) BY <2>1 DEF ProxyState, TypeOK
      <3>3. QED BY <2>1, <3>1, <3>2, <1>s
    <2>2. QED BY <1>3, <1>e, <2>1 DEF Dial
  <1>4. CASE Accept(p)
    <2> DEFINE new == [q EXCEPT !.at = "accepted"]
    <2>1. new \in ProxyState BY DEF ProxyState
    <2>2. RequestInv(new) BY <1>4 DEF ProxyState, Accept
    <2>3. QED BY <1>4, <1>s, <2>1, <2>2 DEF Accept
  <1>5. CASE Authenticate(p)
    <2>1. CASE q.at = "accepted" /\ q.credential = q.run /\ Becomes(p, [q EXCEPT !.at = "handling"])
      <3>1. [q EXCEPT !.at = "handling"] \in ProxyState BY DEF ProxyState
      <3>2. RequestInv([q EXCEPT !.at = "handling"]) BY <2>1 DEF ProxyState
      <3>3. QED BY <2>1, <3>1, <3>2, <1>s
    <2>2. CASE q.at = "accepted" /\ q.tries = 1 /\ Becomes(p, [q EXCEPT !.at = "read",
        !.first = q.run])
      <3>1. [q EXCEPT !.at = "read", !.first = q.run] \in ProxyState BY DEF ProxyState
      <3>2. RequestInv([q EXCEPT !.at = "read", !.first = q.run]) BY <2>2 DEF ProxyState
      <3>3. QED BY <2>2, <3>1, <3>2, <1>s
    <2>3. CASE /\ q.at = "accepted" /\ q.credential # q.run
               /\ ~(q.kind = "message" /\ q.tries = 1) /\ Ends(p, "refused")
      <3> DEFINE new == [q EXCEPT !.at = "idle", !.reply = "refused"]
      <3>1. new \in ProxyState BY DEF ProxyState
      <3>2. RequestInv(new) BY <2>3, NoneIsNoRun DEF ProxyState
      <3>3. QED BY <2>3, <3>1, <3>2, <1>s DEF Ends
    <2>4. QED BY <1>5, <2>1, <2>2, <2>3 DEF Authenticate
  <1>6. CASE Handle(p) BY <1>6, <1>e DEF Handle
  <1>7. CASE \E kind \in Kind : Request(p, kind)
    <2>1. ASSUME NEW kind \in Kind, Request(p, kind) PROVE ProxyInv'
      <3> DEFINE new == [NoRequest EXCEPT !.at = "read", !.kind = kind]
      <3>1. new \in ProxyState BY NoRequestType DEF ProxyState
      <3>2. RequestInv(new) BY DEF NoRequest
      <3>3. QED BY <2>1, <3>1, <3>2, <1>s DEF Request
    <2>2. QED BY <1>7, <2>1
  <1>8. QED BY <1>1, <1>2, <1>3, <1>4, <1>5, <1>6, <1>7 DEF ProxyAction, ProxyStep
---------------------------------------------------------------------------
\* The invariant the theorems rest on.
THEOREM InductiveInvariant == Spec => []IInv
  <1>1. Init => IInv
    <2>1. Init => RunInv BY DEF Init, RunInv, Holding, None, Run
    <2>2. Init => ProxyInv BY DEF Init, ProxyInv, RequestInv, Retrying, NoRequest
    <2>3. QED BY <2>1, <2>2, InitTypeOK DEF IInv
  <1>2. IInv /\ [Next]_vars => IInv'
    <2> SUFFICES ASSUME IInv, [Next]_vars PROVE IInv'
      OBVIOUS
    <2>1. ASSUME NEW r \in Run, RunAction(r) PROVE IInv'
      BY <2>1, RunTypeOK, RunKeepsRunInv, RunKeepsProxyInv DEF IInv
    <2>2. ASSUME NEW p \in Proxies, ProxyAction(p) PROVE IInv'
      <3>1. RunInv' BY <2>2, ProxyTouchesNoRun DEF IInv, RunInv, files
      <3>2. QED BY <2>2, <3>1, ProxyTypeOK, ProxyKeepsProxyInv DEF IInv
    <2>3. CASE UNCHANGED vars
      BY <2>3 DEF IInv, TypeOK, RunInv, ProxyInv, RequestInv, Retrying, HasServed, vars, files
    <2>4. QED BY <2>1, <2>2, <2>3 DEF Next, RunAction, ProxyAction
  <1>3. QED BY <1>1, <1>2, PTL DEF Spec

(* Every variable keeps its type.                                          *)
THEOREM TypeCorrect == Spec => []TypeOK
  BY InductiveInvariant, PTL DEF IInv

(* A run that serves can be reached: its own socket is at the path and its *)
(* own credential in the file, however many runs came before.              *)
THEOREM Reachable == Spec => []ServedIsReachable
  <1>1. IInv => ServedIsReachable
    BY DEF IInv, TypeOK, RunInv, Holding, ServedIsReachable
  <1>2. QED BY <1>1, InductiveInvariant, PTL

(* prepareSocket never finds a live listener: the lock is enough.          *)
THEOREM NobodyFound == Spec => []ProbeFindsNobody
  <1>1. IInv => ProbeFindsNobody
    BY DEF IInv, TypeOK, RunInv, Holding, ProbeFindsNobody
  <1>2. QED BY <1>1, InductiveInvariant, PTL

(* A request with a body is refused only by two different runs.            *)
THEOREM OneRereadSuffices == Spec => []RetrySuffices
  <1>1. IInv => RetrySuffices
    BY DEF IInv, ProxyInv, RequestInv, RetrySuffices
  <1>2. QED BY <1>1, InductiveInvariant, PTL
=============================================================================
