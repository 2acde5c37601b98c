---------------------- MODULE BackgroundServiceProofs ----------------------
(***************************************************************************)
(* Proofs about BackgroundService and the process it runs (AppLifecycle),  *)
(* for every set of runtimes and every number of calls of `secrets init`.  *)
(*                                                                         *)
(* Three invariants, one for each of the parts that share the module:      *)
(*   - ProcessInv: what each stage of Run knows of its servers, of the     *)
(*     requests in flight and of the runtimes;                             *)
(*   - ServiceInv: what the command at work knows of the definition file,  *)
(*     of the manager and of the process;                                  *)
(*   - SecretsInv: what an init at work knows of the key it created.       *)
(***************************************************************************)
EXTENDS BackgroundService, TLAPS

States == {"off", "serving", "stopping", "ended", "failed"}

ProcessType ==
    /\ server \in [Servers -> States]
    /\ busy \in SUBSET Servers /\ heard \in SUBSET Servers
    /\ runtimes \in [Runtimes -> {"none", "open", "closing", "closed", "left"}]

\* Before the servers are started nothing is served.
BeforeServing ==
    app \in {"none", "composing", "listening"} =>
        server = [s \in Servers |-> "off"] /\ busy = {} /\ heard = {}

\* The local MCP server was heard of only if it ended, and ends with no request.
LocalEnds ==
    /\ "local" \in heard => Ended("local")
    /\ server["local"] = "ended" => "local" \notin busy

\* From the shutdown on the public server takes no request, and those it has
\* are the ones Run does not wait for.
PublicEnds ==
    /\ app \in {"shutdown", "admin", "local", "closing"} => server["public"] # "serving"
    /\ app \in {"admin", "local", "closing"} /\ "public" \in busy => expired \/ cause = "public"

\* Run closes the runtimes when the local MCP server cannot serve any more.
ClosingRuntimes ==
    /\ app = "closing" =>
          /\ server["local"] \notin {"serving", "stopping"}
          /\ "local" \in busy => server["local"] = "failed"
          /\ \A r \in Runtimes : runtimes[r] # "open"
          /\ \A r \in Runtimes : runtimes[r] = "left" /\ cause = "interrupt" => expired
    /\ app = "returned" /\ cause # "listen" =>
          \A r \in Runtimes :
              /\ runtimes[r] \notin {"open", "closing"}
              /\ runtimes[r] = "left" /\ cause = "interrupt" => expired

\* No runtime is given up before Run closes them.
NoneLeft == app \notin {"closing", "returned"} => \A r \in Runtimes : runtimes[r] # "left"

ProcessInv == ProcessType /\ BeforeServing /\ LocalEnds /\ PublicEnds /\ ClosingRuntimes /\ NoneLeft
---------------------------------------------------------------------------
ServiceType ==
    /\ platform \in {"systemd", "launchd"}
    /\ unitFile \in BOOLEAN /\ loaded \in BOOLEAN /\ fresh \in BOOLEAN /\ broken \in BOOLEAN
    /\ job \in {"none", "stop", "restart"}

\* launchd runs a process only of a service it knows, and forgets the service
\* only when its process has ended.
LaunchdKnows ==
    platform = "launchd" =>
        /\ Alive \/ job # "none" => loaded
        /\ job # "restart"
        /\ step \notin {"reload", "issue", "started", "forget"}
        /\ step = "kickstart" => loaded /\ job = "none"

\* A process the manager does not know, or is about to start, was left by a
\* clean-up that failed.
StrayIsBroken == ~loaded /\ (Alive \/ job = "restart") => broken

\* A command that starts the service has written its definition.
DefinitionWritten ==
    step \in {"reload", "start", "issue", "started", "unload", "bootstrap", "kickstart", "health"} => unitFile

\* A restart that comes to wait for the health of the service has a new process.
Restarted ==
    command = "restart" =>
        /\ step \in {"kickstart", "health"} => loaded /\ (platform = "launchd" => job = "none")
        /\ step = "started" => loaded /\ (fresh \/ job = "restart")
        /\ step = "kickstart" => platform = "launchd" /\ ~Alive
        /\ step = "health" => fresh
        /\ step \notin {"stop", "stopping", "unregister", "forget"}

\* Nothing of the service runs, and nothing will start it.
Down == ~Alive /\ job # "restart" /\ (platform = "launchd" => ~loaded)

CleaningUp ==
    /\ step = "stopping" => job # "restart"
    /\ step \in {"unregister", "forget"} /\ (command = "stop" \/ ~broken) => Down
    /\ step = "forget" => ~unitFile

InitSteps == {"key", "store", "undo"}

CommandSteps ==
    /\ command = "stop" => step \in {"stop", "stopping", "unregister", "forget"}
    /\ step \in InitSteps => command = "init"

ServiceInv ==
    /\ ServiceType /\ LaunchdKnows /\ StrayIsBroken
    /\ DefinitionWritten /\ Restarted /\ CleaningUp /\ CommandSteps
---------------------------------------------------------------------------
\* The init at work made the key it is about to pair with a store; before it
\* made one, the files are as the last one left them.
SecretsInv ==
    /\ inits \in 0..MaxInits
    /\ step \in InitSteps => user = "installs" /\ inits # 0
    /\ step = "store" => key = inits
    /\ step \notin {"store", "undo"} /\ ~torn /\ key # NoFile =>
          key = store /\ key # Partial
---------------------------------------------------------------------------
(* The process *)

\* What a command does to the process.
Touches == UNCHANGED appVars \/ Signal \/ Launch

\* What a command may do to a running process.
LEMMA CommandTouches == CliStep => Touches
<1>1. ASSUME NEW c, NEW first, Begin(c, first)
      PROVE  UNCHANGED appVars
  BY <1>1 DEF Begin
<1>2. CASE Interrupt \/ Status \/ Check \/ validateInitialized \/ Register \/ Wait \/ Unregister
  BY <1>2 DEF Interrupt, Status, Check, validateInitialized, Register, Wait, Unregister,
      Nothing, NativeFails, DaemonReload, Touches
<1>3. CASE Reload("reload", "start")
  BY <1>3 DEF Reload, NativeFails, DaemonReload, Nothing, Touches
<1>4. CASE systemdStart
  BY <1>4 DEF systemdStart, NativeFails, DaemonReload, Nothing, StartJob, LaunchService, Job, Touches
<1>5. CASE launchdStart
  BY <1>5 DEF launchdStart, NativeFails, Nothing, LaunchService, Job, Touches
<1>6. CASE Stop
  BY <1>6 DEF Stop, NativeFails, Nothing, StopJob, Job, Touches
<1>7. QED
  BY <1>1, <1>2, <1>3, <1>4, <1>5, <1>6 DEF CliStep, Touches

\* What any step may do to it.
LEMMA NextTouches ==
    Next => Touches \/ Kill \/ Exit \/ ProcessStep \/ listenPublic(~portTaken)
<1>1. CASE CliStep
  BY <1>1, CommandTouches
<1>2. CASE InitStep
  BY <1>2 DEF InitStep, InitSecrets, CreateKey, CreateStore, RemoveKey, InitKilled, Touches
<1>3. CASE JobDone
  BY <1>3 DEF JobDone, Touches
<1>4. CASE ManagerKills \/ AppStep
  BY <1>4 DEF ManagerKills, AppStep
<1>5. QED
  BY <1>1, <1>2, <1>3, <1>4 DEF Next

\* A process that is not there keeps what is said of it,
LEMMA NoProcessInv == NoProcess => ProcessInv
BY DEF NoProcess, ProcessInv, ProcessType, BeforeServing, LocalEnds, PublicEnds,
    ClosingRuntimes, NoneLeft, States, Servers

\* one that was just started does,
LEMMA ProcessStarts ==
    ASSUME NEW stage \in {"none", "composing"}, Process(stage)
    PROVE  ProcessInv'
BY DEF Process, ProcessInv, ProcessType, BeforeServing, LocalEnds, PublicEnds,
    ClosingRuntimes, NoneLeft, States, Servers, Ended

\* and a signal breaks none of it.
LEMMA SignalKeeps == ProcessInv /\ (UNCHANGED appVars \/ Signal) => ProcessInv'
BY DEF Signal, appVars, ProcessInv, ProcessType, BeforeServing, LocalEnds, PublicEnds,
    ClosingRuntimes, NoneLeft, Ended

\* A step of New or of Run.
LEMMA RunStepKeeps == ProcessInv /\ RunStep => ProcessInv'
<1> SUFFICES ASSUME ProcessInv, RunStep PROVE ProcessInv'
  OBVIOUS
<1> USE DEF ProcessInv
<1>1. CASE \E r \in Runtimes : CreateModule(r)
  BY <1>1 DEF CreateModule, ProcessType, BeforeServing, LocalEnds, PublicEnds,
      ClosingRuntimes, NoneLeft, Ended
<1>2. CASE \E r \in Runtimes : CloseRuntime(r)
  BY <1>2 DEF CloseRuntime, ProcessType, BeforeServing, LocalEnds, PublicEnds,
      ClosingRuntimes, NoneLeft, Ended
<1>3. CASE joinRuntimeCleanup
  BY <1>3 DEF joinRuntimeCleanup, CloseRuntimes, ProcessType, BeforeServing, LocalEnds, PublicEnds,
      ClosingRuntimes, NoneLeft, Ended, Servers
<1>4. CASE New
  BY <1>4 DEF New, ProcessType, BeforeServing, LocalEnds, PublicEnds,
      ClosingRuntimes, NoneLeft, Ended
<1>5. CASE RunAlreadyDone
  BY <1>5 DEF RunAlreadyDone, CloseRuntimes, ProcessType, BeforeServing, LocalEnds, PublicEnds,
      ClosingRuntimes, NoneLeft, Ended, Servers
<1>6. CASE pollLocalMCP
  BY <1>6 DEF pollLocalMCP, ProcessType, BeforeServing, LocalEnds, PublicEnds,
      ClosingRuntimes, NoneLeft, Ended
<1>7. CASE HearLocal
  BY <1>7 DEF HearLocal, Waits, ProcessType, BeforeServing, LocalEnds,
      PublicEnds, ClosingRuntimes, NoneLeft,
      Ended, Servers
<1>8. CASE failLocalMCP
  BY <1>8 DEF failLocalMCP, StopPublic, Waits, ProcessType, BeforeServing, LocalEnds, PublicEnds,
      ClosingRuntimes, NoneLeft, Ended, Servers, States
<1>9. CASE PublicFails
  BY <1>9 DEF PublicFails, ProcessType, BeforeServing, LocalEnds, PublicEnds,
      ClosingRuntimes, NoneLeft, Ended
<1>10. CASE HearAdmin
  BY <1>10 DEF HearAdmin, ProcessType, BeforeServing, LocalEnds, PublicEnds,
      ClosingRuntimes, NoneLeft,
      Ended, Servers
<1>11. CASE shutdown
  BY <1>11 DEF shutdown, StopPublic, ProcessType, BeforeServing, LocalEnds, PublicEnds,
      ClosingRuntimes, NoneLeft, Ended, Servers, States
<1>12. CASE ShutdownReturns
  BY <1>12 DEF ShutdownReturns, ProcessType, BeforeServing, LocalEnds,
      PublicEnds, ClosingRuntimes, NoneLeft, Ended
<1>13. CASE waitForAdmin
  BY <1>13 DEF waitForAdmin, ProcessType, BeforeServing, LocalEnds, PublicEnds,
      ClosingRuntimes, NoneLeft, Ended
<1>14. CASE waitForLocalMCP
  BY <1>14 DEF waitForLocalMCP, CloseRuntimes, ProcessType, BeforeServing, LocalEnds, PublicEnds,
      ClosingRuntimes, NoneLeft, Ended
<1>15. CASE RunReturns
  BY <1>15 DEF RunReturns, ProcessType, BeforeServing, LocalEnds, PublicEnds,
      ClosingRuntimes, NoneLeft, Ended
<1>16. QED
  BY <1>1, <1>2, <1>3, <1>4, <1>5, <1>6, <1>7, <1>8, <1>9, <1>10, <1>11, <1>12, <1>13, <1>14, <1>15
  DEF RunStep

\* A step of the servers and of those who use them.
LEMMA ServerStepKeeps ==
    ProcessInv /\ (ProcessStep \/ listenPublic(~portTaken)) => ProcessInv'
<1> SUFFICES ASSUME ProcessInv, ProcessStep \/ listenPublic(~portTaken) PROVE ProcessInv'
  OBVIOUS
<1> USE DEF ProcessInv
<1>1. CASE RunStep
  BY <1>1, RunStepKeeps
<1>2. CASE AdminStops \/ LocalStops
  BY <1>2 DEF AdminStops, LocalStops, ServerIs, ProcessType, BeforeServing, LocalEnds, PublicEnds,
      ClosingRuntimes, NoneLeft, Ended, Servers, States
<1>3. CASE LocalStopped
  BY <1>3 DEF LocalStopped, ServerIs, ProcessType, BeforeServing, LocalEnds, PublicEnds,
      ClosingRuntimes, NoneLeft, Ended, Servers, States
<1>4. CASE DeadlineExpires
  BY <1>4 DEF DeadlineExpires, ProcessType, BeforeServing, LocalEnds,
      PublicEnds, ClosingRuntimes, NoneLeft, Ended
<1>5. ASSUME NEW s \in Servers, ServerFails(s)
      PROVE  ProcessInv'
  BY <1>5 DEF ServerFails, ServerIs, ProcessType, BeforeServing, LocalEnds, PublicEnds,
      ClosingRuntimes, NoneLeft, Ended, Servers, States
<1>6. ASSUME NEW s \in Servers, RequestArrives(s) \/ RequestEnds(s)
      PROVE  ProcessInv'
  BY <1>6 DEF RequestArrives, RequestEnds, ProcessType, BeforeServing, LocalEnds, PublicEnds,
      ClosingRuntimes, NoneLeft, Ended, Servers, States
<1>7. CASE listenPublic(~portTaken)
  BY <1>7 DEF listenPublic, ProcessType, BeforeServing, LocalEnds, PublicEnds,
      ClosingRuntimes, NoneLeft, Ended, Servers, States
<1>8. QED
  BY <1>1, <1>2, <1>3, <1>4, <1>5, <1>6, <1>7 DEF ProcessStep, ServerStep

\* Of the process that runs, or ran last.
LEMMA ProcessInvariant == Spec => []ProcessInv
<1>1. Init => ProcessInv
  BY NoProcessInv DEF Init
<1>2. ProcessInv /\ [Next]_vars => ProcessInv'
  <2>1. ProcessInv /\ (Launch \/ Kill \/ Exit) => ProcessInv'
    BY ProcessStarts DEF Launch, Kill, Exit
  <2>2. ProcessInv /\ UNCHANGED vars => ProcessInv'
    BY SignalKeeps DEF vars
  <2>3. QED
    BY <2>1, <2>2, NextTouches, SignalKeeps, ServerStepKeeps DEF Touches
<1>3. QED
  BY <1>1, <1>2, PTL DEF Spec

\* Whatever the commands and the manager do to it, a process closes its
\* runtimes after the requests that use them, and closes all of them.
THEOREM ProcessOrder == Spec => []RuntimesOutliveRequests
<1>1. ProcessInv => RuntimesOutliveRequests
  BY DEF ProcessInv, PublicEnds, ClosingRuntimes, RuntimesOutliveRequests
<1>2. QED
  BY <1>1, ProcessInvariant, PTL
---------------------------------------------------------------------------
(* The secret store *)

\* What a step that is not one of init leaves alone.
LeavesSecrets ==
    /\ UNCHANGED <<initVars, user>>
    /\ step' \notin InitSteps
    /\ step \notin InitSteps

\* Only init touches the secrets.
LEMMA OthersLeaveSecrets ==
    [CliStep \/ JobDone \/ ManagerKills \/ AppStep]_vars =>
        LeavesSecrets \/ UNCHANGED <<initVars, user, step>>
<1> SUFFICES ASSUME [CliStep \/ JobDone \/ ManagerKills \/ AppStep]_vars
             PROVE  LeavesSecrets \/ UNCHANGED <<initVars, user, step>>
  OBVIOUS
<1> USE DEF InitSteps
<1>1. CASE Interrupt \/ JobDone \/ ManagerKills \/ AppStep \/ UNCHANGED vars
  BY <1>1 DEF Interrupt, JobDone, ManagerKills, AppStep, others, vars, constVars, cliVars
<1>2. ASSUME NEW c, NEW first \in {"status", "stop"}, Begin(c, first)
      PROVE  LeavesSecrets
  BY <1>2 DEF Begin, LeavesSecrets, constVars
<1> USE DEF Quiet, constVars, Cli, Ends, Over, Fails
<1>3. CASE Status \/ Check \/ validateInitialized \/ Register \/ Wait
  BY <1>3 DEF Status, Look, Check, validateInitialized, Register, Wait, LeavesSecrets
<1>4. CASE Reload("reload", "start")
  BY <1>4 DEF Reload, LeavesSecrets
<1>5. CASE systemdStart
  BY <1>5 DEF systemdStart, LeavesSecrets
<1>6. CASE launchdStart
  BY <1>6 DEF launchdStart, LeavesSecrets
<1>7. CASE Stop \/ Unregister
  BY <1>7 DEF Stop, Unregister, Unregistered, Undone, LeavesSecrets
<1>8. QED
  BY <1>1, <1>2, <1>3, <1>4, <1>5, <1>6, <1>7 DEF CliStep

\* Of the key and the store, whatever init was stopped at.
LEMMA SecretsInvariant == Spec => []SecretsInv
<1> USE InitsAssumption DEF NoFile, Partial, InitSteps
<1>1. Init => SecretsInv
  <2> SUFFICES ASSUME Init PROVE SecretsInv
    OBVIOUS
  <2>1. inits = 0 /\ step = "idle" /\ key \in {0, 1}
    BY DEF Init
  <2>2. ~torn => key = store
    BY Zenon DEF Init
  <2>3. QED
    BY <2>1, <2>2 DEF SecretsInv
<1>2. ASSUME SecretsInv, LeavesSecrets \/ UNCHANGED <<initVars, user, step>>
      PROVE  SecretsInv'
  BY <1>2 DEF SecretsInv, LeavesSecrets, initVars
<1>3. ASSUME SecretsInv, InitSecrets
      PROVE  SecretsInv'
  BY <1>3 DEF SecretsInv, InitSecrets, constVars
<1>4. ASSUME SecretsInv, CreateKey
      PROVE  SecretsInv'
  BY <1>4 DEF SecretsInv, CreateKey, Creates, Cli, Ends, Over, constVars
<1>5. ASSUME SecretsInv, CreateStore
      PROVE  SecretsInv'
  BY <1>5 DEF SecretsInv, CreateStore, Creates, Cli, Ends, Over, constVars
<1>6. ASSUME SecretsInv, RemoveKey
      PROVE  SecretsInv'
  BY <1>6 DEF SecretsInv, RemoveKey, Ends, Over, constVars
<1>7. ASSUME SecretsInv, InitKilled
      PROVE  SecretsInv'
  BY <1>7 DEF SecretsInv, InitKilled, Creates, Ends, Over, constVars
<1>8. SecretsInv /\ [Next]_vars => SecretsInv'
  BY OthersLeaveSecrets, <1>2, <1>3, <1>4, <1>5, <1>6, <1>7 DEF Next, InitStep
<1>9. QED
  BY <1>1, <1>8, PTL DEF Spec

\* However often init was called and failed, a key is there only beside the
\* store of the same init, unless one was killed or could not undo its key.
THEOREM SecretsMatch == Spec => []KeyMatchesStore
<1>1. SecretsInv => KeyMatchesStore
  BY DEF SecretsInv, KeyMatchesStore
<1>2. QED
  BY <1>1, SecretsInvariant, PTL
---------------------------------------------------------------------------
(* The service *)

\* The process goes on or ends by itself.
LEMMA ProcessMayEnd ==
    ASSUME ProcessStep \/ listenPublic(~portTaken) \/ Exit \/ Kill
    PROVE  Alive' => Alive
<1>1. CASE listenPublic(~portTaken) \/ Exit \/ Kill
  BY <1>1 DEF listenPublic, Exit, Kill, Process, Alive
<1>2. CASE RunStep
  BY <1>2 DEF RunStep, CreateModule, CloseRuntime, joinRuntimeCleanup, New, RunAlreadyDone,
      pollLocalMCP, HearLocal, failLocalMCP, PublicFails, HearAdmin, shutdown, ShutdownReturns,
      waitForAdmin, waitForLocalMCP, RunReturns, Waits, Alive
<1>3. CASE ServerStep
  BY <1>3 DEF ServerStep, AdminStops, LocalStops, LocalStopped, DeadlineExpires, ServerIs, Alive
<1>4. CASE \E s \in Servers : ServerFails(s) \/ RequestArrives(s) \/ RequestEnds(s)
  BY <1>4 DEF ServerFails, RequestArrives, RequestEnds, ServerIs, Alive
<1>5. QED
  BY <1>1, <1>2, <1>3, <1>4 DEF ProcessStep

\* What the commands ask of the manager leaves the process as it is, or starts it.
LEMMA AppSame == UNCHANGED appVars => (Alive' <=> Alive)
BY DEF appVars, Alive
\* A signal ends no process by itself.
LEMMA SignalSame == Signal => (Alive' <=> Alive)
BY DEF Signal, Alive
\* The manager starts a process only if none runs.
LEMMA LaunchStarts == Launch => ~Alive /\ Alive'
BY DEF Launch, Process, Alive

\* Of the service manager, its definition and the commands.
LEMMA ServiceInvariant == Spec => []ServiceInv
<1>1. Init => ServiceInv
  BY DEF Init, NoProcess, Alive, ServiceInv, ServiceType, LaunchdKnows, StrayIsBroken,
      DefinitionWritten, Restarted, CleaningUp, CommandSteps, InitSteps
<1>2. ServiceInv /\ [Next]_vars => ServiceInv'
  <2> SUFFICES ASSUME ServiceInv, [Next]_vars PROVE ServiceInv'
    OBVIOUS
  <2> USE AppSame, SignalSame, LaunchStarts
      DEF ServiceInv, ServiceType, LaunchdKnows, StrayIsBroken, DefinitionWritten, Restarted, Restarts, Down,
          CleaningUp, CommandSteps, InitSteps, NotStarted, managerVars, constVars
  <2>1. CASE UNCHANGED vars
    BY <2>1 DEF vars, cliVars, initVars
  <2>2. CASE AppStep \/ ManagerKills
    BY <2>2, ProcessMayEnd DEF AppStep, ManagerKills, others, cliVars
  <2>3. CASE JobDone
    BY <2>3 DEF JobDone, cliVars
  <2>4. CASE InitStep
    BY <2>4 DEF InitStep, InitSecrets, CreateKey, CreateStore, RemoveKey, InitKilled, Cli, Ends, Over
  <2>5. ASSUME NEW c \in {"run", "restart", "status"}, Begin(c, "status")
        PROVE  ServiceInv'
    BY <2>5 DEF Begin
  <2>6. CASE Begin("stop", "stop") \/ Interrupt
    <3>1. CASE Begin("stop", "stop")
      BY <3>1 DEF Begin
    <3>2. CASE Interrupt
      BY <3>2 DEF Interrupt
    <3>3. QED
      BY <2>6, <3>1, <3>2
  <2> USE DEF Nothing, Quiet, Cli, Ends, Over
  <2>7. CASE Status \/ Check
    BY <2>7 DEF Status, Look, Check
  <2>8. CASE validateInitialized \/ Register
    BY <2>8 DEF validateInitialized, Register, Fails
  <2>9. CASE Reload("reload", "start")
    BY <2>9 DEF Reload, DaemonReload, NativeFails, Fails
  <2>10. CASE systemdStart
    <3>1. CASE step = "start" /\ DaemonReload /\ (Cli("issue") \/ Fails)
      BY <2>10, <3>1 DEF systemdStart, DaemonReload, Fails
    <3>2. CASE step \in {"start", "issue"} /\ loaded /\ StartJob /\ (Cli("started") \/ Fails)
      BY <2>10, <3>2 DEF systemdStart, StartJob, Job, LaunchService, Fails
    <3>3. CASE step \in {"start", "issue", "started"} /\ Nothing /\ (Cli("health") \/ Fails)
      BY <2>10, <3>3 DEF systemdStart, Fails
    <3>4. QED
      BY <2>10, <3>1, <3>2, <3>3 DEF systemdStart, NativeFails
  <2>11. CASE launchdStart
    BY <2>11 DEF launchdStart, Job, LaunchService, NativeFails, Fails
  <2>12. CASE Wait
    BY <2>12 DEF Wait, Fails
  <2>13. CASE Stop
    <3>1. CASE step = "stop" /\ StopJob /\ Cli("stopping")
      BY <2>13, <3>1 DEF Stop, StopJob, Job
    <3>2. CASE step = "stop" /\ StopJob /\ Undone("unregister")
      BY <2>13, <3>2 DEF Stop, StopJob, Job, Undone
    <3>3. CASE step = "stop" /\ Nothing /\ Undone("unregister")
      BY <2>13, <3>3 DEF Stop, Undone
    <3>4. CASE step = "stopping" /\ Nothing /\ Stopped /\ Cli("unregister")
      BY <2>13, <3>4 DEF Stop, Stopped
    <3>5. CASE step = "stopping" /\ Nothing /\ Undone("unregister")
      BY <2>13, <3>5 DEF Stop, Undone
    <3>6. QED
      BY <2>13, <3>1, <3>2, <3>3, <3>4, <3>5 DEF Stop, NativeFails
  <2>14. CASE Unregister
    BY <2>14 DEF Unregister, Unregistered, DaemonReload, NativeFails, Undone
  <2>15. QED
    BY <2>1, <2>2, <2>3, <2>4, <2>5, <2>6, <2>7, <2>8, <2>9, <2>10, <2>11, <2>12, <2>13, <2>14
    DEF Next, CliStep
<1>3. QED
  BY <1>1, <1>2, PTL DEF Spec

\* A step at which a command ends is one of the following, or fails, and a
\* clean-up of run that fails says so.
Ending ==
    step # "idle" /\ step' = "idle" =>
        /\ result' = "ok" /\ command = "stop" => Down /\ ~unitFile' /\ ~loaded'
        /\ command = "run" /\ result' = "error" /\ step \notin NotStarted =>
              broken' \/ (Down /\ ~unitFile' /\ ~loaded')
        /\ command = "restart" /\ step \notin NotStarted =>
              unitFile' /\ (result' = "ok" => fresh' /\ loaded')
        /\ command = "status" /\ result' = "stopped" => ~Running

\* A command that ends leaves the service as it says.
LEMMA StepEnds == ServiceInv /\ [Next]_vars => Ending
<1> SUFFICES ASSUME ServiceInv, [Next]_vars, step # "idle", step' = "idle"
             PROVE  Ending
  BY DEF Ending
<1> USE DEF ServiceInv, ServiceType, DefinitionWritten, Restarted, CleaningUp, CommandSteps, InitSteps, NotStarted
<1>1. CASE UNCHANGED vars \/ AppStep \/ ManagerKills \/ JobDone
  BY <1>1 DEF vars, cliVars, AppStep, others, ManagerKills, JobDone
<1>2. CASE InitStep
  BY <1>2 DEF InitStep, InitSecrets, CreateKey, CreateStore, RemoveKey, InitKilled, Cli, Ends, Over, Ending
<1>3. CASE Interrupt \/ \E c \in {"run", "restart", "status", "stop"} : \E first : Begin(c, first)
  BY <1>3 DEF Interrupt, Begin
<1> USE DEF Cli, Ends, Over
<1>4. CASE Status \/ Check
  BY <1>4 DEF Status, Look, Check, Ending
<1>5. CASE validateInitialized \/ Register \/ Reload("reload", "start")
  BY <1>5 DEF validateInitialized, Register, Reload, Fails, Ending
<1>6. CASE systemdStart
  BY <1>6 DEF systemdStart, NativeFails, Nothing, DaemonReload, StartJob, LaunchService, Job,
      managerVars, Fails, Ending
<1>7. CASE launchdStart
  BY <1>7 DEF launchdStart, NativeFails, Nothing, LaunchService, Job, managerVars, Fails, Ending
<1>8. CASE Wait
  BY <1>8 DEF Wait, Nothing, managerVars, Fails, Ending
<1>9. CASE Stop
  BY <1>9 DEF Stop, Undone, Ending
<1>10. CASE Unregister
  <2>1. CASE Undone("idle")
    BY <1>10, <2>1 DEF Unregister, Undone, Ending
  <2>2. CASE /\ step = "unregister" /\ platform = "launchd"
              /\ ~unitFile' /\ UNCHANGED loaded /\ Unregistered
    BY <2>2 DEF Unregistered, Ending, Down
  <2>3. CASE step = "forget" /\ DaemonReload /\ Unregistered
    BY <2>3 DEF DaemonReload, Unregistered, Ending, Down
  <2>4. QED
    BY <1>10, <2>1, <2>2, <2>3 DEF Unregister
<1>11. QED
  BY <1>1, <1>2, <1>3, <1>4, <1>5, <1>6, <1>7, <1>8, <1>9, <1>10 DEF Next, CliStep

\* A stop that succeeded, and a run that failed, leave neither a definition
\* nor a process, unless a clean-up failed; a restart that succeeded has a
\* new process, and one that failed keeps the definition; and status reports no process as
\* stopped that a failed clean-up did not leave.
THEOREM CommandsAreTruthful == Spec => CommandsTellTruth
<1>1. ServiceInv /\ [Next]_vars =>
        [step # "idle" /\ step' = "idle" =>
            /\ result' = "ok" /\ command = "stop" => ~Alive /\ ~unitFile' /\ ~loaded'
            /\ command = "run" /\ result' = "error" /\ step \notin NotStarted =>
                  broken' \/ (~Alive /\ ~unitFile' /\ ~loaded')
            /\ command = "restart" /\ step \notin NotStarted =>
                  unitFile' /\ (result' = "ok" => fresh' /\ loaded')
            /\ command = "status" /\ result' = "stopped" => ~Running /\ (Alive /\ ~loaded => broken)]_vars
  BY StepEnds DEF Ending, Down, ServiceInv, StrayIsBroken
<1>2. QED
  BY <1>1, ServiceInvariant, PTL DEF Spec, CommandsTellTruth
===========================================================================
