----------------------------- MODULE FirstServe -----------------------------
(***************************************************************************)
(* A daemon in agent_script mode from its start to the clients it serves:  *)
(* daemon.Run builds the front (whose readiness gate starts polling at     *)
(* once), then runs the install and registers the port (whose answer       *)
(* carries the access-control config), and only then listens.  Every start *)
(* is that of a new container.                                             *)
(***************************************************************************)
EXTENDS AgentScript, Front

CONSTANT MaxBoots       \* bound: starts of the daemon

ASSUME FirstServeAssumption == MaxBoots \in Nat

VARIABLES
    phase,              \* where daemon.Run is
    boots,              \* starts so far
    registered,         \* this boot's register-port was answered
    answer              \* the config in an answer under way, or Nothing

daemon  == <<phase, boots, registered, answer>>
allvars == <<vars, front, daemon>>

Phases == {"off", "install", "register", "apply", "serve"}

FirstServeTypeOK ==
    /\ TypeOK /\ FrontTypeOK
    /\ phase \in Phases /\ boots \in 0 .. MaxBoots
    /\ registered \in BOOLEAN /\ answer \in Wires \cup {Null, Nothing}

FirstServeInit ==
    /\ pc = "idle" /\ status = "none" /\ Fresh
    /\ FrontInit
    /\ phase = "off" /\ boots = 0 /\ registered = FALSE /\ answer = Nothing

Listening == phase = "serve"

-----------------------------------------------------------------------------
(* daemon.Run                                                              *)

\* A container without processes, and an install that has not begun.
NoProcesses == /\ bash' = [i \in Iterations |-> "none"]
               /\ app' = [i \in Iterations |-> "none"]

\* Of the processes of the install, those that run matter.
ForgetDead ==
    /\ bash' = [i \in Iterations |->
                  IF bash[i] = "running" THEN "running" ELSE "none"]
    /\ app' = [i \in Iterations |-> IF app[i] = "up" THEN "up" ELSE "none"]

\* The variables of runAgentScriptBootstrap go out of scope.
ForgetInstall ==
    /\ pc' = "idle" /\ iter' = 0 /\ turn' = 0 /\ total' = 0 /\ cost' = 0
    /\ verdict' = "none" /\ failed' = FALSE /\ result' = "none"
    /\ script' = FALSE /\ stuck' = FALSE /\ seen' = "running"
    /\ cancelled' = FALSE

\* schedulerGate: an app that is paused or has no token is served without a
\* first run, so without a register-port.
Start(schedOn) ==
    /\ phase = "off" /\ boots < MaxBoots
    /\ boots' = boots + 1
    /\ phase' = IF schedOn THEN "install" ELSE "serve"
    /\ pc' = IF schedOn THEN "loop" ELSE "idle"
    /\ Forget
    /\ UNCHANGED <<iter, turn, spend, report, script, stuck, seen, cancelled,
                   procs, operator, push, lost, registered, answer>>

\* The daemon is process 1 of its container: the others end with it.
Stop == /\ phase' = "off"
        /\ ForgetInstall /\ NoProcesses
        /\ registered' = FALSE
        /\ UNCHANGED <<status, front, boots, answer>>

\* MaybeRunFirstRun: a failed install counts as done while the app's port is
\* open; otherwise Run returns the error and the daemon exits.
InstallDone ==
    /\ phase = "install" /\ pc = "ended"
    /\ \/ /\ result = "ok" \/ AppUp
          /\ phase' = "register"
          /\ ForgetInstall /\ ForgetDead
          /\ UNCHANGED <<status, front, boots, registered, answer>>
       \/ result = "error" /\ Stop

\* The control plane answers register-port with the config it has on record, or
\* the request is lost, or none is sent (see Boot).
RegisterPort ==
    /\ phase = "register"
    /\ \/ /\ answer' = stored /\ registered' = TRUE /\ lost' = FALSE
          /\ phase' = "apply"
       \/ phase' = "serve" /\ UNCHANGED <<answer, registered, lost>>
    /\ UNCHANGED <<vars, operator, push, access, gating, healthy, req,
                   boots>>

ApplyAnswer ==
    /\ phase = "apply"
    /\ ApplyRegistered(answer)
    /\ phase' = "serve" /\ answer' = Nothing
    /\ UNCHANGED <<vars, operator, push, lost, gating, healthy, req, boots,
                   registered>>

\* The end of the container; a daemon that was signalled earlier sees it here.
Exit == phase = "serve" /\ Stop

-----------------------------------------------------------------------------

Installing == phase = "install" /\ Install /\ UNCHANGED <<front, daemon>>

\* Processes go on after the install.
Processes == /\ phase # "off"
             /\ \E i \in Iterations : LaunchApp(i) \/ AppDies(i) \/ BashExits(i)
             /\ UNCHANGED <<front, daemon>>

\* What the CLI and the daemon's signal do to an install.
Disturb == /\ phase = "install"
           /\ CliBlocks \/ Cancel
           /\ UNCHANGED <<front, daemon>>

\* Nothing in an install reads a config, so that a change made while it runs is
\* one made before it.
Operator ==
    /\ phase # "install"
    /\ SetConfig \/ HandleSetAuth(Listening) \/ PushLost
    /\ UNCHANGED <<vars, daemon>>

\* Nothing in an install reads the gate, so that what the poller does while it
\* runs is done at its end: an app that passed and died leaves the gate as the
\* deadline does.
Polling == phase \notin {"off", "install"}

PollGate == Polling /\ Poll(AppUp) /\ UNCHANGED <<vars, daemon>>

Clock == Polling /\ DeadlinePasses /\ UNCHANGED <<vars, daemon>>

Serves == /\ Listening
          /\ \E r \in Requests : Serve(r, AppUp)
          /\ UNCHANGED <<vars, daemon>>

FirstServeNext ==
    \/ \E schedOn \in BOOLEAN : Start(schedOn)
    \/ InstallDone \/ RegisterPort \/ ApplyAnswer \/ Exit
    \/ Installing \/ Disturb \/ Processes \/ Operator \/ PollGate \/ Clock
    \/ Serves

\* The install, the daemon's own steps and its poller, whose every request ends,
\* are scheduled, and time passes; the end of a container, the operator, clients
\* and scripts owe nothing, and the app need not pass nor even answer.
FirstServeSpec ==
    /\ FirstServeInit /\ [][FirstServeNext]_allvars
    /\ WF_allvars(Installing)
    /\ WF_allvars(InstallDone \/ RegisterPort \/ ApplyAnswer)
    /\ WF_allvars(PollGate) /\ WF_allvars(Clock)

-----------------------------------------------------------------------------

\* The answer to register-port is applied before the daemon listens, so it
\* cannot undo a newer config: a daemon that registered enforces what the
\* control plane has on record, unless the POST of a change is under way or was
\* lost.
ConfigFresh ==
    (Listening /\ registered /\ push \in {Nothing, Malformed} /\ ~lost) =>
        access = Resolve(stored)

\* The page "starting up" is not for ever: the poller's loop finds the deadline
\* behind it and the gate fails open, also for an app that never passes, answers
\* nothing or is dead.
GateOpens == (Listening /\ ReadyPath /\ AppPort) ~> (ready \/ phase = "off")

\* A signal that stops the container ends the install, however the planner, the
\* supervisor and the script are stuck.  The one state that does not see it is
\* the deferred wait after a "done" verdict, which lasts as long as the script.
CancelledInstallEnds ==
    (phase = "install" /\ cancelled)
        ~> (phase # "install" \/ (pc = "reap" /\ verdict = "done"))
=============================================================================
