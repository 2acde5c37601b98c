-------------------------- MODULE BackgroundService --------------------------
(***************************************************************************)
(* The commands run, restart, stop and status over the user's service      *)
(* manager, systemd or launchd, which runs one DataPorch process           *)
(* (AppLifecycle), and `secrets init`, without which run refuses.          *)
(***************************************************************************)
EXTENDS AppLifecycle

CONSTANT MaxInits           \* bound: `secrets init` is called that often

\* The files a user of the service has are those of the first init.
ASSUME InitsAssumption == MaxInits \in Nat \ {0}

VARIABLES
    platform,   \* "systemd" or "launchd"
    portTaken,  \* a `run -f` by hand listens on the address of the service
    user,       \* bound: the user calls `secrets init`, or the other commands
    unitFile,   \* the definition file is there
    loaded,     \* the manager knows the service by it
    job,        \* what the manager is doing to the running service
    fresh,      \* history: the manager started a process since the command began
    command,    \* the command the user called
    step,       \* where it is
    seen,       \* the service was registered when the command looked
    interrupted,\* its context is done
    broken,     \* a step of its clean-up failed; or one did, and left a process
    result,     \* how the last command ended
    key, store, \* the files of the secret store: which init made them (NoFile, Partial)
    inits,      \* calls of init so far
    torn        \* an init was killed, or failed and left its key

managerVars == <<unitFile, loaded, job, fresh>>
cliVars == <<command, step, seen, interrupted, broken, result>>
initVars == <<key, store, inits, torn>>
constVars == <<platform, portTaken, user>>
vars == <<appVars, managerVars, cliVars, initVars, constVars>>

NoFile == 0
Partial == MaxInits + 1

Init ==
    /\ NoProcess
    /\ platform \in {"systemd", "launchd"} /\ portTaken \in BOOLEAN
    /\ unitFile = FALSE /\ loaded = FALSE /\ job = "none" /\ fresh = FALSE
    /\ command = "none" /\ step = "idle" /\ result = "none"
    /\ seen = FALSE /\ interrupted = FALSE /\ broken = FALSE
    /\ \/ user = "installs" /\ key = NoFile /\ store = NoFile
       \/ user = "serves" /\ key = 1 /\ store \in {NoFile, 1}
    /\ inits = 0 /\ torn = (key # store)
---------------------------------------------------------------------------
(* The commands *)

Begin(c, first) ==
    /\ user = "serves" /\ step = "idle"
    /\ command' = c /\ step' = first /\ result' = "none" /\ fresh' = FALSE
    /\ broken' = (broken /\ ~loaded /\ (Alive \/ job # "none"))
    /\ UNCHANGED <<appVars, unitFile, loaded, job, seen, interrupted, initVars, constVars>>

\* Ctrl-C; every native command gets the command's context.
Interrupt ==
    /\ command \in {"run", "restart", "stop"} /\ step # "idle" /\ ~interrupted
    /\ interrupted' = TRUE
    /\ UNCHANGED <<appVars, managerVars, command, step, seen, broken, result, initVars, constVars>>

NotStarted == {"status", "check", "definition", "register", "reload"}

\* What the command saw matters until it starts the service.
Cli(next) ==
    /\ step' = next /\ seen' = (seen /\ next \in NotStarted \union {"start", "issue"})
    /\ UNCHANGED <<command, interrupted, broken, result>>
Over == step' = "idle" /\ command' = "none" /\ seen' = FALSE /\ interrupted' = FALSE
Ends(r) == Over /\ result' = r /\ UNCHANGED broken

\* A variant that does not clean up after the health check.
BugFails ==
    IF command = "run" /\ step \notin NotStarted \union {"health"} THEN Cli("stop") ELSE Ends("error")

\* A failed step of run is undone by Stop and Unregister, once it started.
Fails ==
    IF command = "run" /\ step \notin NotStarted THEN Cli("stop") ELSE Ends("error")

Nothing == UNCHANGED <<appVars, managerVars>>
Quiet == UNCHANGED <<initVars, constVars>>

\* A native command fails: at once if it was interrupted, or later, when what
\* it asked for may have been done.
NativeFails(effect) ==
    \/ Nothing
    \/ ~interrupted /\ effect

Running == loaded /\ Alive /\ (job = "none" \/ platform = "launchd")

Look(next) == seen' = (loaded /\ command = "run") /\ step' = next /\ UNCHANGED <<command, interrupted, broken, result>>

Status ==
    /\ step = "status" /\ Quiet /\ Nothing
    /\ \/ /\ ~interrupted
          /\ \/ Running /\ command # "restart" /\ Look("check")
             \/ ~Running /\ command = "run" /\ Look("definition")
             \/ loaded /\ command = "restart" /\ Look("definition")
             \/ ~loaded /\ command = "restart" /\ Ends("error")
             \/ ~Running /\ command = "status" /\ Ends("stopped")
       \/ Ends("error")

\* /healthz answers whoever asks: nothing in it tells which process this is.
Answers == server["public"] = "serving" \/ portTaken

Check ==
    /\ step = "check" /\ Quiet /\ Nothing
    /\ \/ ~interrupted /\ Answers /\ Ends("ok")
       \/ Ends("error")

validateInitialized ==
    /\ step = "definition" /\ Quiet /\ Nothing
    /\ IF key # NoFile /\ store # NoFile THEN Cli("register") ELSE Fails

Register ==
    /\ step = "register" /\ Quiet
    /\ UNCHANGED <<appVars, loaded, job, fresh>>
    /\ \/ unitFile' = TRUE /\ Cli(IF platform = "systemd" THEN "reload" ELSE "start")
       \/ unitFile' \in {unitFile, TRUE} /\ Fails

DaemonReload == loaded' = unitFile /\ UNCHANGED <<appVars, unitFile, job, fresh>>

Reload(from, to) ==
    /\ step = from /\ Quiet
    /\ \/ ~interrupted /\ DaemonReload /\ Cli(to)
       \/ NativeFails(DaemonReload) /\ Fails
---------------------------------------------------------------------------
(* Start, Restart and Stop of the managers *)

Restarts == command = "restart" \/ seen

\* What the manager is asked for; an older job gives way.
Job(j) == job' = j /\ Signal /\ UNCHANGED <<unitFile, loaded, fresh>>
LaunchService == Launch /\ job' = "none" /\ fresh' = TRUE /\ UNCHANGED <<unitFile, loaded>>

StartJob ==
    IF ~Alive THEN LaunchService
    ELSE IF Restarts \/ job # "none" THEN Job("restart") ELSE Nothing

systemdStart ==
    /\ platform = "systemd" /\ Quiet
    /\ \/ /\ step = "start" /\ Restarts
          /\ \/ ~interrupted /\ DaemonReload /\ Cli("issue")
             \/ NativeFails(DaemonReload) /\ Fails
       \/ /\ (step = "start" /\ ~Restarts) \/ step = "issue"
          /\ \/ ~interrupted /\ loaded /\ StartJob /\ Cli("started")
             \/ NativeFails(loaded /\ StartJob) /\ Fails
       \/ /\ step = "started" /\ Nothing
          /\ \/ job = "none" /\ Cli("health")
             \/ job # "none" /\ Fails

launchdStart ==
    /\ platform = "launchd" /\ Quiet
    /\ \/ /\ step = "start"
          /\ IF Restarts /\ loaded
             THEN \/ ~interrupted /\ Job("stop") /\ Cli("unload")
                  \/ NativeFails(Job("stop")) /\ Fails
             ELSE \/ ~interrupted /\ Nothing /\ Cli("bootstrap")
                  \/ Nothing /\ Fails
       \/ step = "unload" /\ ~loaded /\ Nothing /\ Cli("bootstrap")
       \/ step = "unload" /\ Nothing /\ Fails
       \/ /\ step = "bootstrap"
          /\ LET bootstrap == unitFile /\ ~loaded /\ loaded' = TRUE
                              /\ UNCHANGED <<appVars, unitFile, job, fresh>>
             IN \/ ~interrupted /\ bootstrap /\ Cli("kickstart")
                \/ NativeFails(bootstrap) /\ Fails
       \/ /\ step = "kickstart"
          /\ LET kickstart == IF Alive THEN Nothing ELSE LaunchService
             IN \/ ~interrupted /\ kickstart /\ Cli("health")
                \/ NativeFails(kickstart) /\ Fails

Wait ==
    /\ step = "health" /\ Quiet /\ Nothing
    /\ \/ ~interrupted /\ Answers /\ Ends("ok")
       \/ Fails

\* A clean-up goes on after a failure; the command stop ends with it.
Undone(next) ==
    IF command = "stop" THEN Ends("error")
    ELSE /\ broken' = TRUE
         /\ IF next = "idle" THEN Over /\ result' = "error"
            ELSE step' = next /\ UNCHANGED <<command, seen, interrupted, result>>

StopJob ==
    IF Alive \/ (platform = "launchd" /\ loaded) THEN Job("stop")
    ELSE job' = "none" /\ UNCHANGED <<appVars, unitFile, loaded, fresh>>

Stopped == IF platform = "launchd" THEN ~loaded ELSE ~Alive

Stop ==
    /\ Quiet
    /\ \/ /\ step = "stop"
          /\ \/ ~interrupted /\ StopJob /\ Cli("stopping")
             \/ NativeFails(StopJob) /\ Undone("unregister")
       \/ /\ step = "stopping" /\ Nothing
          /\ \/ Stopped /\ Cli("unregister")
             \/ ~Stopped /\ Undone("unregister")

Unregistered == Ends(IF command = "stop" THEN "ok" ELSE "error")

Unregister ==
    /\ Quiet
    /\ \/ /\ step = "unregister"
          /\ UNCHANGED <<appVars, loaded, job, fresh>>
          /\ \/ /\ unitFile' = FALSE
                /\ IF platform = "systemd" THEN Cli("forget") ELSE Unregistered
             \/ UNCHANGED unitFile /\ Undone("idle")
       \/ /\ step = "forget"
          /\ \/ ~interrupted /\ DaemonReload /\ Unregistered
             \/ NativeFails(DaemonReload) /\ Undone("idle")
---------------------------------------------------------------------------
(* The managers *)

\* The process of a job has ended; launchd forgets a service it booted out.
JobDone ==
    /\ job # "none" /\ ~Alive
    /\ job' = "none"
    /\ loaded' = (loaded /\ ~(platform = "launchd" /\ job = "stop"))
    /\ IF job = "restart" THEN Launch /\ fresh' = TRUE ELSE UNCHANGED <<appVars, fresh>>
    /\ UNCHANGED <<unitFile, cliVars, initVars, constVars>>

\* SIGKILL when the process takes too long, or for any other reason.
ManagerKills == Kill /\ UNCHANGED <<managerVars, cliVars, initVars, constVars>>
---------------------------------------------------------------------------
(* secrets init: atomicfile.Create of the key, then of the store *)

InitSecrets ==
    /\ user = "installs" /\ inits < MaxInits /\ inits' = inits + 1
    /\ step = "idle" /\ step' = "key"
    /\ command' = "init" /\ result' = "none"
    /\ UNCHANGED <<appVars, managerVars, seen, interrupted, broken, key, store, torn, constVars>>

\* Create leaves what it could not write, and the whole file if only the
\* directory could not be synced.
Creates(file) == IF file = NoFile THEN {NoFile, Partial, inits} ELSE {file}

CreateKey ==
    /\ step = "key" /\ UNCHANGED <<appVars, managerVars, store, inits, constVars>>
    /\ \/ key = NoFile /\ key' = inits /\ Cli("store") /\ UNCHANGED torn
       \/ key' \in Creates(key) /\ Ends("error") /\ torn' = (torn \/ key' # key)

CreateStore ==
    /\ step = "store" /\ UNCHANGED <<appVars, managerVars, key, inits, torn, constVars>>
    /\ \/ store = NoFile /\ store' = inits /\ Ends("ok")
       \/ store' \in Creates(store) /\ Cli("undo")

\* A variant that keeps the new key when a store was there.
BugRemoveKey ==
    /\ step = "undo" /\ UNCHANGED <<appVars, managerVars, store, inits, constVars>>
    /\ \/ key' = NoFile /\ store = Partial /\ UNCHANGED torn
       \/ UNCHANGED <<key, torn>>
    /\ Ends("error")

RemoveKey ==
    /\ step = "undo" /\ UNCHANGED <<appVars, managerVars, store, inits, constVars>>
    /\ \/ key' = NoFile /\ UNCHANGED torn
       \/ UNCHANGED key /\ torn' = TRUE
    /\ Ends("error")

InitKilled ==
    /\ \/ step = "key" /\ key' \in Creates(key) /\ UNCHANGED store
       \/ step = "store" /\ store' \in Creates(store) /\ UNCHANGED key
       \/ step = "undo" /\ UNCHANGED <<key, store>>
    /\ torn' = TRUE /\ Ends("error")
    /\ UNCHANGED <<appVars, managerVars, inits, constVars>>
---------------------------------------------------------------------------
CliStep ==
    \/ \E c \in {"run", "restart", "status"} : Begin(c, "status")
    \/ Begin("stop", "stop") \/ Interrupt
    \/ Status \/ Check \/ validateInitialized \/ Register \/ Reload("reload", "start")
    \/ systemdStart \/ launchdStart \/ Wait \/ Stop \/ Unregister

InitStep == InitSecrets \/ CreateKey \/ CreateStore \/ RemoveKey \/ InitKilled

others == <<managerVars, cliVars, initVars, constVars>>

AppStep == (ProcessStep \/ listenPublic(~portTaken) \/ Exit) /\ UNCHANGED others

Next == CliStep \/ InitStep \/ JobDone \/ ManagerKills \/ AppStep

Spec == Init /\ [][Next]_vars

\* The process goes on, its servers stop when told to and its timers fire: a
\* request, and a runtime's pools, need not end.
Fairness ==
    /\ WF_vars((RunStep \/ listenPublic(~portTaken) \/ Exit) /\ UNCHANGED others)
    /\ WF_vars(AdminStops /\ UNCHANGED others)
    /\ WF_vars((LocalStops \/ LocalStopped) /\ UNCHANGED others)
    /\ WF_vars(DeadlineExpires /\ UNCHANGED others)

FairSpec == Spec /\ Fairness
---------------------------------------------------------------------------
(* The runtimes are closed after what uses them: when Run begins to close  *)
(* them no public and no local request is in flight, unless the deadline   *)
(* of its server passed or the server failed by itself; and Run returns,   *)
(* once it listened, only when each is closed, or was given up because its *)
(* deadline passed (waitForServers and its helpers, closeRuntimes).        *)
RuntimesOutliveRequests ==
    /\ app = "closing" =>
          /\ "public" \in busy => expired \/ cause = "public"
          /\ "local" \in busy => server["local"] = "failed"
    /\ app = "returned" /\ cause # "listen" =>
          \A r \in Runtimes :
              /\ runtimes[r] \notin {"open", "closing"}
              /\ runtimes[r] = "left" /\ cause = "interrupt" => expired

(* A process that was told to stop, or one of whose servers failed, ends:  *)
(* no goroutine waits for a channel nobody will ever send on.              *)
StoppingEnds == (Alive /\ (ctxDone \/ cause # "none")) ~> ~Alive

(* The commands tell the truth about the service: after stop succeeded,    *)
(* and after a run that failed to start the service, nothing of it is left *)
(* behind, neither definition nor process, and status calls no running     *)
(* service stopped - unless a step of run's clean-up failed, as one that   *)
(* is interrupted does.  A restart that succeeded has replaced the process *)
(* that ran; one that failed on the way may have stopped it, but leaves    *)
(* the definition, from which run or restart can start it again            *)
(* (runBackground, restartBackground, stopBackground, statusBackground).   *)
CommandsTellTruth ==
    [][step # "idle" /\ step' = "idle" =>
        /\ result' = "ok" /\ command = "stop" => ~Alive /\ ~unitFile' /\ ~loaded'
        /\ command = "run" /\ result' = "error" /\ step \notin NotStarted =>
              broken' \/ (~Alive /\ ~unitFile' /\ ~loaded')
        /\ command = "restart" /\ step \notin NotStarted =>
              unitFile' /\ (result' = "ok" => fresh' /\ loaded')
        /\ command = "status" /\ result' = "stopped" => ~Running /\ (Alive /\ ~loaded => broken)]_vars

(* A key is never left alone, which every later init would refuse, nor     *)
(* beside a store that another init made, or that is not whole: what init  *)
(* creates it creates together or not at all, unless one was killed, or    *)
(* its key could be neither written nor removed (initStore).               *)
KeyMatchesStore ==
    step \notin {"key", "store", "undo"} /\ ~torn /\ key # NoFile =>
        key = store /\ key # Partial
===========================================================================
