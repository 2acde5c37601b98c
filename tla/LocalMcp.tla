------------------------------ MODULE LocalMcp ------------------------------
(***************************************************************************)
(* The local MCP endpoint and the stdio proxies that use it: Server.Run of *)
(* src/internal/transports/localmcp/server.go, the credential file of      *)
(* src/internal/mcpcontrol/local/store.go and the requests of              *)
(* src/internal/transports/mcpstdio/authorization.go and transport.go.     *)
(*                                                                         *)
(* A run takes the lock next to the socket, replaces a stale socket,       *)
(* listens, publishes a credential of its own and serves; it ends in the   *)
(* opposite order.  Several processes may call Run, and each may be killed *)
(* at any step: the kernel then lets go of its lock and its listener and   *)
(* leaves both files behind.  A proxy reads the credential for every       *)
(* request and, refused, reads it once more and tries again.               *)
(*                                                                         *)
(* A run is a number, in the order of the starts.  Its socket file and its *)
(* credential carry that number.                                           *)
(***************************************************************************)
EXTENDS Naturals, FiniteSets

CONSTANTS Proxies,  \* stdio proxies, with one request at a time each
          MaxRuns   \* bound: calls of Server.Run in one behaviour

ASSUME LocalMcpAssumption == MaxRuns \in Nat

Run == 1..MaxRuns
None == 0

\* What a proxy sends: a message of its client, or the end of the session, which
\* has no body and cannot be sent again.
Kind == {"message", "delete"}

VARIABLES
    pc,          \* where each run is
    lock,        \* the run whose process holds the lock on the lock file
    socket,      \* the socket file: the run that bound it
    mode,        \* its permissions
    listening,   \* the runs whose listener is open
    credential,  \* the credential file: the run that published it
    proxy        \* what each proxy is doing

files == <<socket, mode, credential>>
vars == <<pc, lock, files, listening, proxy>>

NoRequest == [at |-> "idle", kind |-> "message", credential |-> None, tries |-> 0,
              run |-> None, first |-> None, reply |-> "none"]

Init ==
    /\ pc = [r \in Run |-> "unborn"]
    /\ lock = None
    /\ socket = None
    /\ mode = "default"
    /\ listening = {}
    /\ credential = None
    /\ proxy = [p \in Proxies |-> NoRequest]
---------------------------------------------------------------------------
Go(r, next) == pc' = [pc EXCEPT ![r] = next]

\* The proxies connected to a run when it breaks their connections.
Broken(r) ==
    proxy' = [p \in Proxies |-> IF proxy[p].run = r /\ proxy[p].at \in {"connected", "accepted", "handling"}
                                THEN [NoRequest EXCEPT !.reply = "error"] ELSE proxy[p]]

\* Connections in the backlog of a listener that is closed are reset.
Reset(r) ==
    proxy' = [p \in Proxies |-> IF proxy[p].run = r /\ proxy[p].at = "connected"
                                THEN [NoRequest EXCEPT !.reply = "error"] ELSE proxy[p]]

\* Closing a listener unlinks the path it was bound to, whatever is there.
CloseListener(r) ==
    /\ listening' = listening \ {r}
    /\ socket' = IF r \in listening THEN None ELSE socket
    /\ mode' = IF r \in listening THEN "default" ELSE mode

Start(r) ==
    /\ pc[r] = "unborn"
    /\ \A s \in Run : s < r => pc[s] # "unborn"
    /\ Go(r, "lock")
    /\ UNCHANGED <<lock, files, listening, proxy>>

\* Mutant: a lock that is held does not stop a run.
BugAcquireLock(r) ==
    /\ pc[r] = "lock"
    /\ lock' = IF lock = None THEN r ELSE lock
    /\ Go(r, "probe")
    /\ UNCHANGED <<files, listening, proxy>>

\* acquireRuntimeLock: a lock that is held, or a file that cannot be locked,
\* ends the run.
AcquireLock(r) ==
    /\ pc[r] = "lock"
    /\ \/ lock = None /\ lock' = r /\ Go(r, "probe")
       \/ Go(r, "ended") /\ UNCHANGED lock
    /\ UNCHANGED <<files, listening, proxy>>

\* prepareSocket: a socket that answers is in use, one that does not is stale.
\* The file may also not be acceptable.
Probe(r) ==
    /\ pc[r] = "probe"
    /\ \/ socket = None /\ Go(r, "listen")
       \/ socket # None /\ socket \notin listening /\ Go(r, "remove")
       \/ socket # None /\ Go(r, "unlock")
    /\ UNCHANGED <<lock, files, listening, proxy>>

RemoveStale(r) ==
    /\ pc[r] = "remove"
    /\ \/ socket' = None /\ mode' = "default" /\ Go(r, "listen")
       \/ UNCHANGED <<socket, mode>> /\ Go(r, "unlock")
    /\ UNCHANGED <<lock, credential, listening, proxy>>

\* net.Listen: the path must be free.
Listen(r) ==
    /\ pc[r] = "listen"
    /\ \/ /\ socket = None
          /\ socket' = r
          /\ mode' = "default"
          /\ listening' = listening \cup {r}
          /\ Go(r, "chmod")
       \/ UNCHANGED <<socket, mode, listening>> /\ Go(r, "unlock")
    /\ UNCHANGED <<lock, credential, proxy>>

Chmod(r) ==
    /\ pc[r] = "chmod"
    /\ \/ socket # None /\ mode' = "owner" /\ Go(r, "publish")
       \/ UNCHANGED mode /\ Go(r, "cleanup")
    /\ UNCHANGED <<lock, socket, credential, listening, proxy>>

\* Generate and Publish: atomicfile.Replace may fail, also after the rename,
\* and the file then stays.
Publish(r) ==
    /\ pc[r] = "publish"
    /\ \/ credential' = r /\ Go(r, "serve")
       \/ credential' \in {credential, r} /\ Go(r, "cleanup")
    /\ UNCHANGED <<lock, socket, mode, listening, proxy>>

\* The context ends: Shutdown closes the listener and waits for the requests
\* being handled.  Or Serve fails, and the requests are left to themselves.
Stop(r) ==
    /\ pc[r] = "serve"
    /\ CloseListener(r)
    /\ Reset(r)
    /\ Go(r, "drain") \/ Go(r, "delete")
    /\ UNCHANGED <<lock, credential>>

\* Shutdown returns when no accepted connection has a request; after its timeout
\* Close breaks them.
Drain(r) ==
    /\ pc[r] = "drain"
    /\ Broken(r)
    /\ Go(r, "delete")
    /\ UNCHANGED <<lock, files, listening>>

\* Mutant: the run unlocks before it cleans up.
BugDeleteCredential(r) ==
    /\ pc[r] = "delete"
    /\ credential' \in {credential, None}
    /\ Go(r, "cleanup")
    /\ lock' = IF lock = r THEN None ELSE lock
    /\ UNCHANGED <<socket, mode, listening, proxy>>

\* credentials.Delete, which may fail.
DeleteCredential(r) ==
    /\ pc[r] = "delete"
    /\ credential' \in {credential, None}
    /\ Go(r, "cleanup")
    /\ UNCHANGED <<lock, socket, mode, listening, proxy>>

\* Mutant: only the path is removed.
BugCleanup(r) ==
    /\ pc[r] = "cleanup"
    /\ socket' = None
    /\ mode' = "default"
    /\ Go(r, "unlock")
    /\ UNCHANGED <<lock, credential, listening, proxy>>

\* cleanupSocket closes the listener, if it is open, and removes the path, or
\* cannot.
Cleanup(r) ==
    /\ pc[r] = "cleanup"
    /\ Reset(r)
    /\ listening' = listening \ {r}
    /\ \/ socket' = None /\ mode' = "default"
       \/ UNCHANGED <<socket, mode>>
    /\ Go(r, "unlock")
    /\ UNCHANGED <<lock, credential>>

\* Mutant: the lock file stays open.
BugUnlock(r) ==
    /\ pc[r] = "unlock"
    /\ Go(r, "ended")
    /\ UNCHANGED <<lock, files, listening, proxy>>

Unlock(r) ==
    /\ pc[r] = "unlock"
    /\ lock' = IF lock = r THEN None ELSE lock
    /\ Go(r, "ended")
    /\ UNCHANGED <<files, listening, proxy>>

\* The process of a run is killed.
Crash(r) ==
    /\ pc[r] \notin {"unborn", "ended"}
    /\ Go(r, "ended")
    /\ lock' = IF lock = r THEN None ELSE lock
    /\ listening' = listening \ {r}
    /\ Broken(r)
    /\ UNCHANGED files
---------------------------------------------------------------------------
Becomes(p, request) == proxy' = [proxy EXCEPT ![p] = request]

Ends(p, reply) == Becomes(p, [proxy[p] EXCEPT !.at = "idle", !.reply = reply])

\* The client of the proxy has something to send.
Request(p, kind) ==
    /\ proxy[p].at = "idle"
    /\ Becomes(p, [NoRequest EXCEPT !.at = "read", !.kind = kind])
    /\ UNCHANGED <<pc, lock, files, listening>>

ReadCredential(p) ==
    /\ proxy[p].at = "read"
    /\ \/ Ends(p, "error")
       \/ /\ credential # None
          /\ Becomes(p, [proxy[p] EXCEPT !.at = "validate", !.credential = credential, !.tries = @ + 1])
    /\ UNCHANGED <<pc, lock, files, listening>>

\* validateSocket looks at the path ...
ValidateSocket(p) ==
    /\ proxy[p].at = "validate"
    /\ \/ mode = "owner" /\ Becomes(p, [proxy[p] EXCEPT !.at = "dial"])
       \/ mode # "owner" /\ Ends(p, "error")
    /\ UNCHANGED <<pc, lock, files, listening>>

\* ... which may be another socket when it is dialed.  The kernel connects as soon
\* as somebody listens.
Dial(p) ==
    /\ proxy[p].at = "dial"
    /\ \/ socket \in listening /\ Becomes(p, [proxy[p] EXCEPT !.at = "connected", !.run = socket])
       \/ socket \notin listening /\ Ends(p, "error")
    /\ UNCHANGED <<pc, lock, files, listening>>

\* Serve accepts the connections in the backlog.
Accept(p) ==
    /\ proxy[p].at = "connected"
    /\ pc[proxy[p].run] = "serve"
    /\ Becomes(p, [proxy[p] EXCEPT !.at = "accepted"])
    /\ UNCHANGED <<pc, lock, files, listening>>

\* Mutant: no second try.
BugAuthenticate(p) ==
    LET q == proxy[p] IN
    /\ q.at = "accepted"
    /\ \/ q.credential = q.run /\ Becomes(p, [q EXCEPT !.at = "handling"])
       \/ q.credential # q.run /\ Ends(p, "refused")
    /\ UNCHANGED <<pc, lock, files, listening>>

\* Mutant: a refused request is sent until it is accepted.
BugRetry(p) ==
    LET q == proxy[p] IN
    /\ q.at = "accepted"
    /\ \/ q.credential = q.run /\ Becomes(p, [q EXCEPT !.at = "handling"])
       \/ q.credential # q.run /\ Becomes(p, [q EXCEPT !.at = "read", !.first = q.run])
    /\ UNCHANGED <<pc, lock, files, listening>>

\* authenticatedHandler, at any time after the connection was accepted, and what
\* RoundTrip makes of its answer.
Authenticate(p) ==
    LET q == proxy[p] IN
    /\ q.at = "accepted"
    /\ \/ q.credential = q.run /\ Becomes(p, [q EXCEPT !.at = "handling"])
       \/ /\ q.credential # q.run
          /\ \/ q.kind = "message" /\ q.tries = 1 /\ Becomes(p, [q EXCEPT !.at = "read", !.first = q.run])
             \/ ~(q.kind = "message" /\ q.tries = 1) /\ Ends(p, "refused")
    /\ UNCHANGED <<pc, lock, files, listening>>

\* The handler answers, or its connection breaks.
Handle(p) ==
    /\ proxy[p].at = "handling"
    /\ \E reply \in {"ok", "error"} : Ends(p, reply)
    /\ UNCHANGED <<pc, lock, files, listening>>
---------------------------------------------------------------------------
RunStep(r) ==
    \/ AcquireLock(r) \/ Probe(r) \/ RemoveStale(r) \/ Listen(r) \/ Chmod(r) \/ Publish(r)
    \/ Drain(r) \/ DeleteCredential(r) \/ Cleanup(r) \/ Unlock(r)

ProxyStep(p) == ReadCredential(p) \/ ValidateSocket(p) \/ Dial(p) \/ Accept(p) \/ Authenticate(p) \/ Handle(p)

Next ==
    \/ \E r \in Run : Start(r) \/ RunStep(r) \/ Stop(r) \/ Crash(r)
    \/ \E p \in Proxies : ProxyStep(p) \/ \E kind \in Kind : Request(p, kind)

\* A run and a proxy go on with what they do; nothing obliges a run to stop, or
\* anybody to start or to send anything.  Handlers end: queries have timeouts.
Spec ==
    /\ Init /\ [][Next]_vars
    /\ \A r \in Run : WF_vars(RunStep(r))
    /\ \A p \in Proxies : WF_vars(ProxyStep(p))
---------------------------------------------------------------------------
ProxyState ==
    [at : {"idle", "read", "validate", "dial", "connected", "accepted", "handling"}, kind : Kind,
     credential : Run \cup {None}, tries : 0..2, run : Run \cup {None}, first : Run \cup {None},
     reply : {"none", "ok", "refused", "error"}]

TypeOK ==
    /\ pc \in [Run -> {"unborn", "lock", "probe", "remove", "listen", "chmod", "publish", "serve",
                       "drain", "delete", "cleanup", "unlock", "ended"}]
    /\ lock \in Run \cup {None}
    /\ socket \in Run \cup {None}
    /\ mode \in {"default", "owner"}
    /\ mode = "owner" => socket # None
    /\ listening \subseteq Run
    /\ credential \in Run \cup {None}
    /\ proxy \in [Proxies -> ProxyState]

(* A run that serves can be reached: the socket is the one it listens on,  *)
(* and the credential file holds its own, whatever earlier runs left behind *)
(* and however their clean-up falls.                                       *)
ServedIsReachable ==
    \A r \in Run : pc[r] = "serve" =>
        socket = r /\ mode = "owner" /\ listening = {r} /\ credential = r

(* A run is never turned away by what a dead one left: whoever looks at a  *)
(* socket file holds the lock, and nobody listens on it.                   *)
ProbeFindsNobody == \A r \in Run : pc[r] \in {"probe", "remove"} => listening = {}

(* One reread is enough: a message that is refused met two                 *)
(* different runs, and so a restart during the request.                    *)
RetrySuffices ==
    \A p \in Proxies :
        LET q == proxy[p] IN
        q.reply = "refused" /\ q.kind = "message" => q.first # None /\ q.first # q.run

(* A run that was told to stop lets go of the lock, however its clean-up   *)
(* fails and whatever is still being handled: the next run can serve.      *)
LockIsReleased == \A r \in Run : pc[r] \in {"drain", "delete"} ~> lock # r

(* Every request comes to an end, also one that connected to a run that    *)
(* never came to serve it.                                                 *)
RequestsEnd == \A p \in Proxies : proxy[p].at # "idle" ~> proxy[p].at = "idle"
=============================================================================
