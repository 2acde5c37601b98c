---------------------------- MODULE AppLifecycle ----------------------------
(***************************************************************************)
(* One DataPorch process: New composes it, Run serves the public HTTP, the *)
(* local administration and the local MCP servers, each on a goroutine     *)
(* with a channel of its own, until a signal or a failure, and then stops  *)
(* them and closes the engines' runtimes.                                  *)
(***************************************************************************)
EXTENDS Naturals, FiniteSets

CONSTANT Runtimes           \* the engines' runtimes, as their modules name them

VARIABLES
    app,        \* where New and Run are; "none": there is no such process
    cause,      \* why Run is stopping
    ctxDone,    \* the process was told to stop: the context of Run is done
    cancelled,  \* runCtx is done
    server,     \* what each server's goroutine does
    heard,      \* servers whose channel was read
    busy,       \* servers with a request in flight (nobody waits for the administration's)
    expired,    \* the deadline of Shutdown and of the common shutdown passed
    runtimes    \* what became of each runtime

appVars == <<app, cause, ctxDone, cancelled, server, heard, busy, expired, runtimes>>

Servers == {"public", "admin", "local"}
Ended(s) == server[s] \in {"ended", "failed"}
Alive == app # "none"

NoProcess ==
    /\ app = "none" /\ cause = "none"
    /\ ctxDone = FALSE /\ cancelled = FALSE /\ expired = FALSE
    /\ server = [s \in Servers |-> "off"]
    /\ heard = {} /\ busy = {}
    /\ runtimes = [r \in Runtimes |-> "none"]

\* The process is there, with nothing done yet, or gone with all it held.
Process(stage) ==
    /\ app' = stage /\ cause' = "none"
    /\ ctxDone' = FALSE /\ cancelled' = FALSE /\ expired' = FALSE
    /\ server' = [s \in Servers |-> "off"]
    /\ heard' = {} /\ busy' = {}
    /\ runtimes' = [r \in Runtimes |-> "none"]

Launch == ~Alive /\ Process("composing")
Kill == Alive /\ Process("none")
Exit == app = "returned" /\ Process("none")

\* SIGINT or SIGTERM; runCtx is a child of Run's context.
Signal ==
    /\ ctxDone' = Alive
    /\ cancelled' = (Alive /\ app \notin {"composing", "listening"})
    /\ UNCHANGED <<app, cause, server, heard, busy, expired, runtimes>>
---------------------------------------------------------------------------
(* New *)

\* Every return after a runtime was made closes those that were.
CloseRuntimes ==
    runtimes' = [r \in Runtimes |-> IF runtimes[r] = "open" THEN "closing" ELSE runtimes[r]]

CreateModule(r) ==
    /\ app = "composing" /\ runtimes[r] = "none"
    /\ runtimes' = [runtimes EXCEPT ![r] = "open"]
    /\ UNCHANGED <<app, cause, ctxDone, cancelled, server, heard, busy, expired>>

joinRuntimeCleanup ==
    /\ app = "composing"
    /\ app' = "closing" /\ cause' = "startup" /\ CloseRuntimes
    /\ UNCHANGED <<ctxDone, cancelled, server, heard, busy, expired>>

New ==
    /\ app = "composing" /\ \A r \in Runtimes : runtimes[r] = "open"
    /\ app' = "listening"
    /\ UNCHANGED <<cause, ctxDone, cancelled, server, heard, busy, expired, runtimes>>
---------------------------------------------------------------------------
(* Run *)

RunAlreadyDone ==
    /\ app = "listening" /\ ctxDone
    /\ app' = "closing" /\ cause' = "interrupt" /\ CloseRuntimes
    /\ UNCHANGED <<ctxDone, cancelled, server, heard, busy, expired>>

\* A failed listen returns at once: nothing closes the runtimes.
listenPublic(free) ==
    /\ app = "listening"
    /\ \/ /\ free
          /\ app' = "polling" /\ server' = [s \in Servers |-> "serving"]
          /\ cancelled' = ctxDone
          /\ UNCHANGED cause
       \/ /\ app' = "returned" /\ cause' = "listen"
          /\ UNCHANGED <<server, cancelled>>
    /\ UNCHANGED <<ctxDone, heard, busy, expired, runtimes>>

\* waitForServers looks at the local MCP server first, then waits for any.
pollLocalMCP ==
    /\ app = "polling" /\ ("local" \in heard \/ ~Ended("local"))
    /\ app' = "waiting"
    /\ UNCHANGED <<cause, ctxDone, cancelled, server, heard, busy, expired, runtimes>>

\* http.Server.Shutdown and Close: Serve returns before the requests have ended.
StopPublic == server' = [server EXCEPT !["public"] = IF @ = "serving" THEN "ended" ELSE @]

Waits == app \in {"polling", "waiting"}

HearLocal ==
    /\ Waits /\ "local" \notin heard /\ server["local"] = "ended"
    /\ app' = "polling" /\ heard' = heard \union {"local"}
    /\ UNCHANGED <<cause, ctxDone, cancelled, server, busy, expired, runtimes>>

\* A variant without its cancel().
BugFailLocalMCP ==
    /\ Waits /\ "local" \notin heard /\ server["local"] = "failed"
    /\ app' = "shutdown" /\ cause' = "local"
    /\ heard' = heard \union {"local"} /\ StopPublic
    /\ UNCHANGED <<cancelled, ctxDone, busy, expired, runtimes>>

failLocalMCP ==
    /\ Waits /\ "local" \notin heard /\ server["local"] = "failed"
    /\ app' = "shutdown" /\ cause' = "local"
    /\ cancelled' = TRUE /\ heard' = heard \union {"local"} /\ StopPublic
    /\ UNCHANGED <<ctxDone, busy, expired, runtimes>>

PublicFails ==
    /\ app = "waiting" /\ Ended("public")
    /\ app' = "admin" /\ cause' = "public" /\ cancelled' = TRUE
    /\ UNCHANGED <<ctxDone, server, heard, busy, expired, runtimes>>

\* The administration server may end: the others go on without it.
HearAdmin ==
    /\ app = "waiting" /\ "admin" \notin heard /\ Ended("admin")
    /\ app' = "polling" /\ heard' = heard \union {"admin"}
    /\ UNCHANGED <<cause, ctxDone, cancelled, server, busy, expired, runtimes>>

shutdown ==
    /\ app = "waiting" /\ ctxDone
    /\ app' = "shutdown" /\ cause' = "interrupt" /\ cancelled' = TRUE /\ StopPublic
    /\ UNCHANGED <<ctxDone, heard, busy, expired, runtimes>>

\* Shutdown waits for the public requests until its deadline; then Close.
ShutdownReturns ==
    /\ app = "shutdown" /\ ("public" \notin busy \/ expired)
    /\ app' = "admin"
    /\ UNCHANGED <<cause, ctxDone, cancelled, server, heard, busy, expired, runtimes>>

\* One deadline for the servers and the runtimes of an interrupted Run.
DeadlineExpires ==
    /\ ~expired
    /\ \/ app = "shutdown"
       \/ cause = "interrupt" /\ app \in {"admin", "local", "closing"}
    /\ expired' = TRUE
    /\ UNCHANGED <<app, cause, ctxDone, cancelled, server, heard, busy, runtimes>>

waitForAdmin ==
    /\ app = "admin" /\ ("admin" \in heard \/ Ended("admin"))
    /\ app' = "local"
    /\ UNCHANGED <<cause, ctxDone, cancelled, server, heard, busy, expired, runtimes>>

\* A variant with the wait forgotten.
BugWaitForLocalMCP ==
    /\ app = "local"
    /\ app' = "closing" /\ CloseRuntimes
    /\ UNCHANGED <<cause, ctxDone, cancelled, server, heard, busy, expired>>

waitForLocalMCP ==
    /\ app = "local" /\ ("local" \in heard \/ Ended("local"))
    /\ app' = "closing" /\ CloseRuntimes
    /\ UNCHANGED <<cause, ctxDone, cancelled, server, heard, busy, expired>>

\* closeRuntimeLifecycles: side by side, each until it is closed or the deadline
\* passes, which is the servers' when Run was interrupted and else one of its own.
CloseRuntime(r) ==
    /\ app = "closing" /\ runtimes[r] = "closing"
    /\ \/ runtimes' = [runtimes EXCEPT ![r] = "closed"]
       \/ (cause = "interrupt" => expired) /\ runtimes' = [runtimes EXCEPT ![r] = "left"]
    /\ UNCHANGED <<app, cause, ctxDone, cancelled, server, heard, busy, expired>>

RunReturns ==
    /\ app = "closing" /\ \A r \in Runtimes : runtimes[r] # "closing"
    /\ app' = "returned"
    /\ UNCHANGED <<cause, ctxDone, cancelled, server, heard, busy, expired, runtimes>>
---------------------------------------------------------------------------
(* The servers *)

ServerIs(s, state) ==
    /\ server' = [server EXCEPT ![s] = state]
    /\ UNCHANGED <<app, cause, ctxDone, cancelled, heard, busy, expired, runtimes>>

\* Serve or Run ends by itself: its requests are not waited for.  Whether it
\* was by an error makes a difference for the local MCP server only.
ServerFails(s) ==
    server[s] = "serving" /\ ServerIs(s, IF s = "local" THEN "failed" ELSE "ended")

\* Serve of the administration server returns as soon as its Shutdown begins.
AdminStops == server["admin"] = "serving" /\ cancelled /\ ServerIs("admin", "ended")

\* The local MCP server waits for its requests, until a deadline of its own.
LocalStops == server["local"] = "serving" /\ cancelled /\ ServerIs("local", "stopping")
LocalStopped ==
    /\ server["local"] = "stopping"
    /\ \/ "local" \notin busy /\ ServerIs("local", "ended")
       \/ ServerIs("local", "failed")

RequestArrives(s) ==
    /\ server[s] = "serving" /\ s \notin busy /\ s # "admin"
    /\ busy' = busy \union {s}
    /\ UNCHANGED <<app, cause, ctxDone, cancelled, server, heard, expired, runtimes>>

RequestEnds(s) ==
    /\ s \in busy
    /\ busy' = busy \ {s}
    /\ UNCHANGED <<app, cause, ctxDone, cancelled, server, heard, expired, runtimes>>
---------------------------------------------------------------------------
\* What the process does by itself, once it was launched.
RunStep ==
    \/ \E r \in Runtimes : CreateModule(r) \/ CloseRuntime(r)
    \/ joinRuntimeCleanup \/ New \/ RunAlreadyDone
    \/ pollLocalMCP \/ HearLocal \/ failLocalMCP \/ PublicFails \/ HearAdmin \/ shutdown
    \/ ShutdownReturns \/ waitForAdmin \/ waitForLocalMCP \/ RunReturns

ServerStep == AdminStops \/ LocalStops \/ LocalStopped \/ DeadlineExpires

ProcessStep ==
    \/ RunStep \/ ServerStep
    \/ \E s \in Servers : ServerFails(s) \/ RequestArrives(s) \/ RequestEnds(s)
===========================================================================
