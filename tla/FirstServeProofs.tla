-------------------------- MODULE FirstServeProofs --------------------------
(***************************************************************************)
(* Theorems about FirstServe and the modules it composes, AgentScript and  *)
(* Front, for every cap and budget of the install, every set of requests   *)
(* and configs, and any number of starts.                                  *)
(***************************************************************************)
EXTENDS FirstServe, TLAPS

-----------------------------------------------------------------------------
(* The install                                                             *)

Supervised == {"select", "snapshot", "check", "kill", "term", "reap"}

\* Inside an iteration, and only there, there is an iteration to speak of; its
\* bash runs while it is supervised, if at all.
InstallerInv ==
    /\ iter \in Nat /\ iter <= MaxIterations
    /\ bash \in [Iterations -> {"none", "running", "exit 0", "exit 1"}]
    /\ pc \in {"plan", "read", "after"} \cup Supervised => iter \in Iterations
    /\ NoInstallerLeft

LEMMA Caps == /\ MaxIterations \in Nat /\ MaxIterations > 0
              /\ MaxTurns \in Nat /\ MaxTurns > 0
              /\ Budget \in Nat /\ MaxCost \in Nat
  BY AgentScriptAssumption

LEMMA StepInstaller == InstallerInv /\ [Install \/ Environment]_vars => InstallerInv'
  <1> SUFFICES ASSUME InstallerInv, [Install \/ Environment]_vars
               PROVE  InstallerInv'
    OBVIOUS
  <1>1. CASE NextIteration
    <2>1. UNCHANGED bash /\ pc = "loop" /\ pc' \in {"ended", "plan"}
      BY <1>1 DEF NextIteration, End, procs
    <2>2. \/ pc' = "ended" /\ UNCHANGED iter
          \/ pc' = "plan" /\ iter < MaxIterations /\ iter' = iter + 1
      BY <1>1, Caps DEF NextIteration, End, InstallerInv
    <2>3. iter \in Nat /\ iter <= MaxIterations
      BY DEF InstallerInv
    <2>4. iter' \in Nat /\ iter' <= MaxIterations
      BY <2>2, <2>3, Caps
    <2>5. pc' = "plan" => iter' \in Iterations
      BY <2>2, <2>3, <2>4, Caps DEF Iterations
    <2>6. QED
      BY <2>1, <2>4, <2>5 DEF InstallerInv, NoInstallerLeft, Supervised
  <1> USE DEF InstallerInv, NoInstallerLeft, Supervised, place, spend, report,
              procs
  <1>2. CASE Plan \/ NoScript \/ StartFails
    BY <1>2 DEF Plan, NoScript, StartFails
  <1>3. CASE StartScript
    BY <1>3 DEF StartScript
  <1>4. CASE AfterScript
    BY <1>4 DEF AfterScript
  <1>5. CASE SelectCancelled \/ SelectTurn \/ TurnsUsedUp \/ Snapshot
    BY <1>5 DEF SelectCancelled, SelectTurn, TurnsUsedUp, Snapshot, Leave
  <1>6. CASE CheckContinue \/ CheckDone \/ CheckIntervene
    BY <1>6 DEF CheckContinue, CheckDone, CheckIntervene, Leave
  <1>7. CASE Terminate \/ Kill
    BY <1>7 DEF Terminate, Kill
  <1>8. CASE Terminated \/ Reap
    BY <1>8 DEF Terminated, Reap, Exited
  <1>9. CASE CliBlocks \/ Cancel
    BY <1>9 DEF CliBlocks, Cancel
  <1>10. CASE \E i \in Iterations : LaunchApp(i) \/ AppDies(i) \/ BashExits(i)
    BY <1>10 DEF LaunchApp, AppDies, BashExits
  <1>11. CASE UNCHANGED vars
    BY <1>11 DEF vars
  <1>12. QED
    BY <1>1, <1>2, <1>3, <1>4, <1>5, <1>6, <1>7, <1>8, <1>9, <1>10, <1>11
       DEF Install, Environment

LEMMA EmptyInstaller ==
    ASSUME iter' = 0, pc' = "idle", bash' = [i \in Iterations |-> "none"]
    PROVE  InstallerInv'
  BY Caps DEF InstallerInv, NoInstallerLeft, Supervised

\* What a step of the daemon does to an install: nothing, one of the install's
\* own steps, its start, or its end.
LEMMA InstallSteps ==
    ASSUME [FirstServeNext]_allvars
    PROVE  \/ [Install \/ Environment]_vars
           \/ /\ phase = "off" /\ pc' \in {"idle", "loop"}
              /\ UNCHANGED <<iter, turn, spend, report, script, stuck, seen,
                             cancelled, procs>>
           \/ pc = "ended" /\ ForgetInstall /\ ForgetDead /\ UNCHANGED status
           \/ ForgetInstall /\ NoProcesses /\ UNCHANGED status
  <1>1. CASE \E schedOn \in BOOLEAN : Start(schedOn)
    BY <1>1 DEF Start, procs
  <1>2. CASE InstallDone \/ Exit
    BY <1>2 DEF InstallDone, Exit, Stop
  <1>3. CASE RegisterPort \/ ApplyAnswer \/ Operator \/ PollGate \/ Clock \/ Serves
    BY <1>3 DEF RegisterPort, ApplyAnswer, Operator, PollGate, Clock, Serves
  <1>4. CASE Installing \/ Disturb \/ Processes
    BY <1>4 DEF Installing, Disturb, Processes, Environment
  <1>5. CASE UNCHANGED allvars
    BY <1>5 DEF allvars
  <1>6. QED
    BY <1>1, <1>2, <1>3, <1>4, <1>5 DEF FirstServeNext

\* Between two installs none is under way.
PhaseInv == phase = "off" => pc = "idle"

LEMMA StepPhase == PhaseInv /\ [FirstServeNext]_allvars => PhaseInv'
  <1> SUFFICES ASSUME PhaseInv, [FirstServeNext]_allvars PROVE PhaseInv'
    OBVIOUS
  <1> USE DEF PhaseInv
  <1>1. CASE (\E schedOn \in BOOLEAN : Start(schedOn)) \/ InstallDone \/ Exit
    BY <1>1 DEF Start, InstallDone, Exit, Stop, ForgetInstall
  <1>2. CASE RegisterPort \/ ApplyAnswer
    BY <1>2 DEF RegisterPort, ApplyAnswer, vars, place
  <1>3. CASE Operator \/ PollGate \/ Clock \/ Serves
    BY <1>3 DEF Operator, PollGate, Clock, Serves, vars, place, daemon
  <1>4. CASE Installing \/ Disturb \/ Processes
    BY <1>4 DEF Installing, Disturb, Processes, daemon
  <1>5. CASE UNCHANGED allvars
    BY <1>5 DEF allvars, vars, place, daemon
  <1>6. QED
    BY <1>1, <1>2, <1>3, <1>4, <1>5 DEF FirstServeNext

LEMMA InstallerAlways == FirstServeSpec => [](InstallerInv /\ PhaseInv)
  <1>1. FirstServeInit => InstallerInv /\ PhaseInv
    BY Caps
       DEF FirstServeInit, Fresh, InstallerInv, PhaseInv, NoInstallerLeft,
           Supervised
  <1>2. InstallerInv /\ PhaseInv /\ [FirstServeNext]_allvars => InstallerInv'
    <2> SUFFICES ASSUME InstallerInv, PhaseInv, [FirstServeNext]_allvars
                 PROVE  InstallerInv'
      OBVIOUS
    <2> USE DEF InstallerInv, NoInstallerLeft, Supervised
    <2>1. CASE [Install \/ Environment]_vars
      BY <2>1, StepInstaller
    <2>2. CASE /\ phase = "off" /\ pc' \in {"idle", "loop"}
               /\ UNCHANGED <<iter, turn, spend, procs>>
      BY <2>2 DEF PhaseInv, procs
    <2>3. CASE pc = "ended" /\ ForgetInstall /\ ForgetDead
      <3>1. \A i \in Iterations : bash[i] # "running"
        BY <2>3
      <3>2. bash' = [i \in Iterations |-> "none"]
        BY <2>3, <3>1 DEF ForgetDead
      <3>3. iter' = 0 /\ pc' = "idle"
        BY <2>3 DEF ForgetInstall
      <3>4. QED
        BY <3>2, <3>3, EmptyInstaller
    <2>4. CASE ForgetInstall /\ NoProcesses
      <3>1. iter' = 0 /\ pc' = "idle"
        BY <2>4 DEF ForgetInstall
      <3>2. bash' = [i \in Iterations |-> "none"]
        BY <2>4 DEF NoProcesses
      <3>3. QED
        BY <3>1, <3>2, EmptyInstaller
    <2>5. QED
      BY <2>1, <2>2, <2>3, <2>4, InstallSteps
  <1>3. QED
    BY <1>1, <1>2, StepPhase, PTL DEF FirstServeSpec

\* superviseScript waits for bash on every path, so none runs once an iteration is
\* over: not under the next one's script, and not under a daemon that goes on to
\* listen or exits.
THEOREM NoInstallerLeftHolds == FirstServeSpec => []NoInstallerLeft
  <1>1. InstallerInv => NoInstallerLeft
    BY DEF InstallerInv
  <1>2. QED
    BY <1>1, InstallerAlways, PTL

-----------------------------------------------------------------------------
(* The budget                                                              *)

\* An answer of the CLI costs what one run of it may cost.
LEMMA AnswerCost ==
    ASSUME NEW a \in Answers
    PROVE  a.cost \in Nat /\ a.cost <= MaxCost
  <1>1. CASE a \in Finished
    <2>1. PICK r \in CliRuns : a = Run(r)
      BY <1>1 DEF Finished
    <2>2. Run(r) \in [error : BOOLEAN, cost : 0 .. MaxCost]
      BY AgentScriptAssumption
    <2>3. Run(r).cost \in 0 .. MaxCost
      BY <2>2
    <2>4. QED
      BY <2>1, <2>3, Caps
  <1>2. CASE a = Failure(0)
    BY <1>2, Caps DEF Failure
  <1>3. QED
    BY <1>1, <1>2 DEF Answers

\* The most that n runs of the CLI cost.
Calls(n) == n * MaxCost

LEMMA CallsGrow ==
    ASSUME NEW n \in Nat
    PROVE  /\ Calls(n) \in Nat /\ Calls(n + 1) = Calls(n) + MaxCost
           /\ Calls(0) = 0
           /\ n <= MaxTurns => Calls(n) <= Calls(MaxTurns)
  <1>1. /\ n * MaxCost \in Nat /\ (n + 1) * MaxCost = n * MaxCost + MaxCost
        /\ 0 * MaxCost = 0
    BY Caps
  <1>2. n <= MaxTurns => n * MaxCost <= MaxTurns * MaxCost
    BY Caps
  <1>3. QED
    BY <1>1, <1>2 DEF Calls

\* What is spent where, of a budget that is set: an iteration begins below it,
\* and every call of the planner and of the supervisor adds one cost.  The sum
\* of the iteration's calls is what the head of the loop finds.
SpendInv ==
    /\ total \in Nat /\ cost \in Nat /\ turn \in Nat
    /\ Budget > 0 =>
         /\ pc = "plan" => cost = 0 /\ total < Budget
         /\ pc = "read" => cost = 0 /\ total < Budget + MaxCost
         /\ pc \in {"select", "snapshot", "check"} =>
              /\ total < Budget + MaxCost
              /\ turn >= 1 /\ cost <= Calls(turn - 1) /\ turn <= MaxTurns + 1
         /\ pc \in {"snapshot", "check"} => turn <= MaxTurns
         /\ pc \in {"kill", "term", "reap", "after"} =>
              total < Budget + MaxCost /\ cost <= Calls(MaxTurns)
         /\ pc \in {"loop", "ended", "idle"} =>
              cost = 0 /\ total < Budget + MaxCost + Calls(MaxTurns)
    /\ pc \in {"idle", "loop", "plan", "read", "select", "snapshot", "check",
               "kill", "term", "reap", "after", "ended"}

LEMMA StepSpend == SpendInv /\ [Install \/ Environment]_vars => SpendInv'
  <1> SUFFICES ASSUME SpendInv, [Install \/ Environment]_vars PROVE SpendInv'
    OBVIOUS
  <1>1. Calls(MaxTurns) \in Nat /\ Calls(0) = 0
    BY CallsGrow, Caps
  <1> USE Caps, <1>1 DEF SpendInv, place, spend, report, procs
  <1>2. CASE NextIteration
    BY <1>2 DEF NextIteration, End
  <1>3. CASE Plan
    <2>1. PICK a \in Answers : total' = total + a.cost
      BY <1>3 DEF Plan
    <2>2. a.cost \in Nat /\ a.cost <= MaxCost
      BY AnswerCost
    <2>3. pc = "plan" /\ pc' \in {"loop", "read"} /\ UNCHANGED <<cost, turn>>
      BY <1>3 DEF Plan
    <2>4. QED
      BY <2>1, <2>2, <2>3
  <1>4. CASE StartScript \/ NoScript \/ StartFails
    BY <1>4 DEF StartScript, NoScript, StartFails
  <1>5. CASE AfterScript
    BY <1>5 DEF AfterScript
  <1>6. CASE SelectCancelled \/ SelectTurn \/ TurnsUsedUp
    <2>1. /\ pc = "select" /\ UNCHANGED <<turn, total, cost>>
          /\ pc' = "kill" \/ (pc' = "snapshot" /\ turn <= MaxTurns)
      BY <1>6 DEF SelectCancelled, SelectTurn, TurnsUsedUp, Leave
    <2>2. Budget > 0 => cost <= Calls(MaxTurns)
      <3>1. Budget > 0 => turn - 1 \in Nat /\ turn - 1 <= MaxTurns
        BY <2>1
      <3>2. Budget > 0 => /\ Calls(turn - 1) \in Nat
                          /\ Calls(turn - 1) <= Calls(MaxTurns)
        BY <3>1, CallsGrow
      <3>3. QED
        BY <2>1, <3>2
    <2>3. QED
      BY <2>1, <2>2
  <1>7. CASE Snapshot \/ CheckContinue \/ CheckDone \/ CheckIntervene
    <2>1. \E c \in Nat : c <= MaxCost /\ cost' = cost + c
      <3>1. CASE Snapshot
        <4>1. UNCHANGED cost
          BY <3>1 DEF Snapshot
        <4>2. 0 <= MaxCost /\ cost' = cost + 0
          BY <4>1
        <4>3. QED
          BY <4>2
      <3>2. CASE CheckContinue
        BY <3>2, AnswerCost DEF CheckContinue
      <3>3. CASE CheckDone
        BY <3>3, AnswerCost DEF CheckDone
      <3>4. CASE CheckIntervene
        BY <3>4, AnswerCost DEF CheckIntervene
      <3>5. QED
        BY <1>7, <3>1, <3>2, <3>3, <3>4
    <2>2. /\ pc \in {"snapshot", "check"} /\ UNCHANGED total
          /\ \/ pc' \in {"reap", "kill"} /\ UNCHANGED turn
             \/ pc' = "check" /\ UNCHANGED <<turn, cost>>
             \/ pc' = "select" /\ turn' = turn + 1
      BY <1>7 DEF Snapshot, CheckContinue, CheckDone, CheckIntervene, Leave
    <2>3. Budget > 0 => /\ cost' <= Calls(turn) /\ Calls(turn) \in Nat
                        /\ Calls(turn) <= Calls(MaxTurns)
      <3>1. Budget > 0 => turn - 1 \in Nat /\ turn \in Nat /\ turn <= MaxTurns
        BY <2>2
      <3>2. Budget > 0 => /\ Calls(turn - 1) \in Nat
                          /\ Calls((turn - 1) + 1) = Calls(turn - 1) + MaxCost
                          /\ Calls(turn) \in Nat
                          /\ Calls(turn) <= Calls(MaxTurns)
        BY <3>1, CallsGrow
      <3>3. Budget > 0 => (turn - 1) + 1 = turn
        BY <3>1
      <3>4. QED
        BY <2>1, <2>2, <3>2, <3>3
    <2>4. cost' \in Nat /\ turn' \in Nat /\ UNCHANGED total
      BY <2>1, <2>2
    <2>5. CASE pc' \in {"reap", "kill"}
      BY <2>2, <2>3, <2>4, <2>5
    <2>6. CASE pc' = "check"
      BY <2>2, <2>4, <2>6
    <2>7. CASE pc' = "select" /\ turn' = turn + 1
      <3>1. turn' - 1 = turn /\ turn \in Nat
        BY <2>7
      <3>2. cost' <= Calls(turn' - 1) \/ Budget = 0
        BY <2>3, <3>1
      <3>3. QED
        BY <2>2, <2>4, <2>7, <3>1, <3>2
    <2>8. QED
      BY <2>2, <2>5, <2>6, <2>7
  <1>8. CASE Terminate \/ Kill \/ Terminated \/ Reap
    BY <1>8 DEF Terminate, Kill, Terminated, Reap
  <1>9. CASE Environment
    BY <1>9 DEF Environment, CliBlocks, Cancel, LaunchApp, AppDies, BashExits
  <1>10. CASE UNCHANGED vars
    BY <1>10 DEF vars
  <1>11. QED
    BY <1>2, <1>3, <1>4, <1>5, <1>6, <1>7, <1>8, <1>9, <1>10 DEF Install

LEMMA SpendAlways == FirstServeSpec => []SpendInv
  <1>1. Calls(MaxTurns) \in Nat
    BY CallsGrow, Caps
  <1>2. ASSUME pc \in {"idle", "loop"}, total = 0, cost = 0, turn = 0
        PROVE  SpendInv
    BY <1>1, <1>2, Caps DEF SpendInv
  <1>3. FirstServeInit => SpendInv /\ PhaseInv
    BY <1>2 DEF FirstServeInit, Fresh, PhaseInv
  <1>4. SpendInv /\ PhaseInv /\ [FirstServeNext]_allvars => SpendInv'
    <2> SUFFICES ASSUME SpendInv, PhaseInv, [FirstServeNext]_allvars
                 PROVE  SpendInv'
      OBVIOUS
    <2>1. CASE [Install \/ Environment]_vars
      BY <2>1, StepSpend
    <2>2. CASE /\ phase = "off" /\ pc' \in {"idle", "loop"}
               /\ UNCHANGED <<iter, turn, spend, procs>>
      BY <2>2 DEF PhaseInv, SpendInv, spend
    <2>3. CASE ForgetInstall
      BY <2>3, <1>1, Caps DEF ForgetInstall, SpendInv
    <2>4. QED
      BY <2>1, <2>2, <2>3, InstallSteps
  <1>5. QED
    BY <1>3, <1>4, StepPhase, PTL DEF FirstServeSpec

\* runAgentScriptBootstrap spends its budget and at most the calls of one
\* iteration beyond it, although the gate inside an iteration fires only on an
\* exact zero.
THEOREM SpendBoundedHolds == FirstServeSpec => []SpendBounded
  <1>1. Calls(MaxTurns) \in Nat
    BY CallsGrow, Caps
  <1>2. SpendInv => SpendBounded
    <2> SUFFICES ASSUME SpendInv, Budget > 0
                 PROVE  total + cost <= Budget - 1 + (1 + MaxTurns) * MaxCost
      BY DEF SpendBounded
    <2>1. (1 + MaxTurns) * MaxCost = MaxCost + Calls(MaxTurns)
      BY Caps DEF Calls
    <2>2. total + cost < Budget + MaxCost + Calls(MaxTurns)
      <3>1. CASE pc \in {"select", "snapshot", "check"}
        <4>1. turn - 1 \in Nat /\ turn - 1 <= MaxTurns
          BY <3>1, Caps DEF SpendInv
        <4>2. Calls(turn - 1) \in Nat /\ Calls(turn - 1) <= Calls(MaxTurns)
          BY <4>1, CallsGrow
        <4>3. QED
          BY <3>1, <4>2, <1>1, Caps DEF SpendInv
      <3>2. CASE pc \notin {"select", "snapshot", "check"}
        BY <3>2, <1>1, Caps DEF SpendInv
      <3>3. QED
        BY <3>1, <3>2
    <2>3. QED
      BY <2>1, <2>2, <1>1, Caps DEF SpendInv
  <1>3. QED
    BY <1>2, SpendAlways, PTL

-----------------------------------------------------------------------------
(* The access-control config                                               *)

\* Until the answer of register-port is applied nothing else has set a config, so
\* a config that is newer than the answer has its POST still to come, or has lost
\* it.
ConfigInv ==
    /\ stored \in Wires \cup {Null}
    /\ push \in {Nothing, Malformed, stored}
    /\ registered => phase \in {"apply", "serve"}
    /\ phase \in {"install", "register", "apply"} => access = Open
    /\ phase = "apply" => /\ answer \in Wires \cup {Null}
                          /\ answer = stored \/ push = stored \/ lost
    /\ ConfigFresh

\* A wire config is none of the values that say there is no config.
LEMMA WireIsConfig ==
    ASSUME NEW wire \in Wires \cup {Null}
    PROVE  wire \notin {Nothing, Malformed}
  BY FrontAssumption

LEMMA StepConfig == ConfigInv /\ [FirstServeNext]_allvars => ConfigInv'
  <1> SUFFICES ASSUME ConfigInv, [FirstServeNext]_allvars PROVE ConfigInv'
    OBVIOUS
  <1> USE DEF ConfigInv, ConfigFresh, Listening, operator, front, daemon
  <1>1. CASE \E schedOn \in BOOLEAN : Start(schedOn)
    BY <1>1 DEF Start, Forget
  <1>2. CASE InstallDone \/ Exit
    BY <1>2 DEF InstallDone, Exit, Stop
  <1>3. CASE RegisterPort
    BY <1>3 DEF RegisterPort
  <1>4. CASE ApplyAnswer
    <2>1. answer \in Wires \cup {Null} /\ answer # Malformed
      BY <1>4, WireIsConfig DEF ApplyAnswer
    <2>2. access' = Resolve(answer)
      BY <1>4, <2>1 DEF ApplyAnswer, ApplyRegistered, Apply, Resolve
    <2>3. answer = stored \/ push \notin {Nothing, Malformed} \/ lost
      BY <1>4, WireIsConfig DEF ApplyAnswer
    <2>4. UNCHANGED <<stored, push, lost, registered>> /\ phase' = "serve"
      BY <1>4 DEF ApplyAnswer
    <2>5. Resolve(stored)' = Resolve(stored)
      BY <2>4 DEF Resolve
    <2>6. QED
      BY <2>2, <2>3, <2>4, <2>5
  <1>5. CASE Operator
    <2>1. UNCHANGED <<phase, registered, answer>> /\ phase # "install"
      BY <1>5 DEF Operator
    <2>2. CASE SetConfig
      BY <2>1, <2>2, WireIsConfig DEF SetConfig, Resolve
    <2>3. CASE HandleSetAuth(Listening)
      BY <2>1, <2>3, WireIsConfig DEF HandleSetAuth, Apply
    <2>4. CASE PushLost
      BY <2>1, <2>4, WireIsConfig DEF PushLost
    <2>5. QED
      BY <1>5, <2>2, <2>3, <2>4 DEF Operator
  <1>6. CASE PollGate \/ Clock \/ Serves
    <2>1. UNCHANGED <<phase, registered, answer>>
      BY <1>6 DEF PollGate, Clock, Serves
    <2>2. UNCHANGED <<stored, push, lost, access>>
      BY <1>6 DEF PollGate, Clock, Serves, Poll, Get, TestDeadline,
                  DeadlinePasses, Serve, Redirect, Arrive, ArriveOps, PassGate,
                  Answered, DialFails, HandleError
    <2>3. QED
      BY <2>1, <2>2 DEF Resolve
  <1>7. CASE Installing \/ Disturb \/ Processes
    BY <1>7 DEF Installing, Disturb, Processes
  <1>8. CASE UNCHANGED allvars
    BY <1>8 DEF allvars
  <1>9. QED
    BY <1>1, <1>2, <1>3, <1>4, <1>5, <1>6, <1>7, <1>8 DEF FirstServeNext

LEMMA InitConfig == FirstServeInit => ConfigInv
  BY DEF FirstServeInit, FrontInit, ConfigInv, ConfigFresh, Listening

\* The answer of RegisterPortIfNeeded is applied before the daemon listens, so it
\* cannot undo a newer config: a daemon that registered enforces what the control
\* plane has on record, unless a POST is under way or was lost.
THEOREM ConfigFreshHolds == FirstServeSpec => []ConfigFresh
  <1>1. ConfigInv => ConfigFresh
    BY DEF ConfigInv
  <1>2. QED
    BY <1>1, InitConfig, StepConfig, PTL DEF FirstServeSpec

-----------------------------------------------------------------------------
(* Requests                                                                *)

\* What a step of the daemon does to its requests: nothing, one of the front's
\* steps, a poll, or a start, which has none.
LEMMA RequestSteps ==
    ASSUME [FirstServeNext]_allvars
    PROVE  \/ UNCHANGED <<ready, healthy, req>>
           \/ Poll(AppUp)
           \/ \E r \in Requests : Serve(r, AppUp)
           \/ Forget
  <1> USE DEF front, gating, operator, daemon
  <1>1. CASE (\E schedOn \in BOOLEAN : Start(schedOn)) \/ InstallDone \/ Exit
    BY <1>1 DEF Start, InstallDone, Exit, Stop
  <1>2. CASE RegisterPort \/ ApplyAnswer \/ Operator
    BY <1>2 DEF RegisterPort, ApplyAnswer, Operator, SetConfig, HandleSetAuth,
                PushLost
  <1>3. CASE PollGate \/ Clock \/ Serves \/ Installing \/ Disturb \/ Processes
    BY <1>3 DEF PollGate, Clock, DeadlinePasses, Serves, Installing, Disturb,
                Processes
  <1>4. CASE UNCHANGED allvars
    BY <1>4 DEF allvars
  <1>5. QED
    BY <1>1, <1>2, <1>3, <1>4 DEF FirstServeNext

\* A request of a clean path is let on only when it is due nothing.
GoesOn(kind, due) == kind.clean /\ due = "none" /\ kind.route = "app"

\* What is answered with what.
AnsweredRightly(kind, due, reply) ==
    IF ~kind.clean THEN reply = "301"
    ELSE IF due # "none" THEN reply = due
    ELSE kind.route = "app" => reply \notin {"401", "403"}

\* The steps of the front, by what they make of the request: they bring it in,
\* on a route of the app or of the daemon, pass it on, or answer it.
Settled(kind, at, reply) ==
    /\ at = "gate" => GoesOn(kind, Enforce(access, kind))
    /\ at = "done" => AnsweredRightly(kind, Enforce(access, kind), reply)

Enters(r) ==
    \E kind \in Kinds, at \in {"gate", "done"},
       reply \in Replies \ {"app", "starting up"} :
          Settled(kind, at, reply) /\ Arrives(r, kind, at, reply)

PassesOn(r) == \/ req[r].at = "gate" /\ At(r, "dial")
               \/ req[r].at = "dial" /\ At(r, "error")

IsAnswered(r) ==
    /\ req[r].at \in {"gate", "dial", "error"}
    /\ \E got \in Replies \ {"401", "403"} :
          /\ Reply(r, got)
          /\ got = "starting up" => HeldBack(req[r].kind) \/ ~healthy
          /\ got = "app" => healthy'

LEMMA AnsweredWith ==
    ASSUME NEW r, NEW got \in Replies \ {"401", "403"}, Reply(r, got),
           req[r].at \in {"gate", "dial", "error"},
           got = "starting up" => HeldBack(req[r].kind) \/ ~healthy,
           got = "app" => healthy'
    PROVE  IsAnswered(r)
  BY DEF IsAnswered

\* On the routes of the daemon's own Enforce makes nothing of a request.
LEMMA EnforceResult ==
    ASSUME NEW kind \in Kinds
    PROVE  /\ Enforce(access, kind) \in {"none", "401", "403"}
           /\ kind.route # "app" => Enforce(access, kind) = "none"
  BY DEF Enforce

LEMMA ServeSteps ==
    ASSUME NEW r \in Requests, Serve(r, AppUp)
    PROVE  /\ Enters(r) \/ PassesOn(r) \/ IsAnswered(r)
           /\ UNCHANGED ready /\ (healthy => healthy')
  <1>1. CASE Arrive(r)
    <2>1. PICK kind \in Kinds :
             /\ kind.clean /\ kind.route = "app"
             /\ Arrives(r, kind,
                        IF Enforce(access, kind) = "none" THEN "gate" ELSE "done",
                        Enforce(access, kind))
      BY <1>1 DEF Arrive
    <2>2. CASE Enforce(access, kind) = "none"
      <3>1. Arrives(r, kind, "gate", "none")
        BY <2>1, <2>2
      <3>2. "none" \in Replies \ {"app", "starting up"}
        BY DEF Replies
      <3>3. Settled(kind, "gate", "none")
        BY <2>1, <2>2, Zenon DEF Settled, GoesOn
      <3>4. QED
        BY <1>1, <3>1, <3>2, <3>3 DEF Arrive, gating, Enters
    <2>3. CASE Enforce(access, kind) # "none"
      <3>1. Arrives(r, kind, "done", Enforce(access, kind))
        BY <2>1, <2>3
      <3>2. Enforce(access, kind) \in Replies \ {"app", "starting up"}
        BY EnforceResult DEF Replies
      <3>3. Settled(kind, "done", Enforce(access, kind))
        BY <2>1, <2>3, Zenon DEF Settled, AnsweredRightly
      <3>4. QED
        BY <1>1, <3>1, <3>2, <3>3 DEF Arrive, gating, Enters
    <2>4. QED
      BY <1>1, <2>2, <2>3
  <1>2. CASE ArriveOps(r)
    <2>1. PICK kind \in Kinds :
             /\ kind.clean /\ kind.route # "app"
             /\ \E reply \in OpsReplies(kind) : Arrives(r, kind, "done", reply)
      BY <1>2 DEF ArriveOps
    <2>2. kind.route \in {"health", "mcp", "bridge", "bad bridge"}
      BY <2>1, FrontAssumption DEF KindType
    <2>3. OpsReplies(kind) \subseteq {"200", "400", "403", "unauthorized", "mcp",
                                      "bridged", "502"}
      BY <2>2 DEF OpsReplies
    <2>4. Enforce(access, kind) = "none"
      BY <2>1, EnforceResult
    <2>5. PICK reply \in {"200", "400", "403", "unauthorized", "mcp", "bridged",
                         "502"} : Arrives(r, kind, "done", reply)
      BY <2>1, <2>3
    <2>6. reply \in Replies \ {"app", "starting up"}
      BY <2>5 DEF Replies
    <2>7. Settled(kind, "done", reply)
      BY <2>1, <2>4, Zenon DEF Settled, AnsweredRightly
    <2>8. QED
      BY <2>5, <2>6, <2>7, <1>2 DEF ArriveOps, gating, Enters
  <1>3. CASE PassGate(r)
    <2>1. /\ req[r].at = "gate" /\ UNCHANGED <<ready, healthy>>
          /\ \/ HeldBack(req[r].kind) /\ Reply(r, "starting up")
             \/ Reply(r, "308") \/ Reply(r, "503") \/ At(r, "dial")
      BY <1>3 DEF PassGate, gating
    <2>2. {"starting up", "308", "503"} \subseteq Replies \ {"401", "403"}
      BY DEF Replies
    <2>3. QED
      BY <2>1, <2>2, AnsweredWith DEF PassesOn
  <1>4. CASE Answered(r, AppUp)
    <2>1. healthy' = TRUE \/ healthy' = healthy
      BY <1>4 DEF Answered
    <2>2. healthy => healthy'
      BY <2>1, Zenon
    <2>3. CASE Reply(r, "app") /\ healthy' = TRUE
      <3>1. healthy' /\ "app" \in Replies \ {"401", "403"}
        BY <2>3 DEF Replies
      <3>2. QED
        BY <1>4, <2>2, <2>3, <3>1 DEF Answered, gating, IsAnswered
    <2>4. CASE Reply(r, "app 5xx")
      BY <1>4, <2>2, <2>4 DEF Answered, gating, IsAnswered, Replies
    <2>5. QED
      BY <1>4, <2>3, <2>4 DEF Answered
  <1>5. CASE DialFails(r)
    BY <1>5 DEF DialFails, gating, PassesOn
  <1>6. CASE HandleError(r)
    <2>1. /\ req[r].at = "error" /\ UNCHANGED <<ready, healthy>>
          /\ \/ ~healthy /\ Reply(r, "starting up")
             \/ Reply(r, "502")
      BY <1>6 DEF HandleError, gating
    <2>2. {"starting up", "502"} \subseteq Replies \ {"401", "403"}
      BY DEF Replies
    <2>3. QED
      BY <2>1, <2>2, AnsweredWith
  <1>7. CASE Redirect(r)
    <2>1. PICK kind \in Kinds : ~kind.clean /\ Arrives(r, kind, "done", "301")
      BY <1>7 DEF Redirect
    <2>2. "301" \in Replies \ {"app", "starting up"}
      BY DEF Replies
    <2>3. Settled(kind, "done", "301")
      BY <2>1, Zenon DEF Settled, AnsweredRightly
    <2>4. QED
      BY <1>7, <2>1, <2>2, <2>3 DEF Redirect, gating, Enters
  <1>8. QED
    BY <1>1, <1>2, <1>3, <1>4, <1>5, <1>6, <1>7 DEF Serve

\* Every request is a record, of a kind there is.
RequestsOK == req \in [Requests -> Request]

\* What the config in force when a request came made of it is settled there: one
\* that goes on is due nothing.
RefusedInv ==
    /\ RequestsOK
    /\ \A r \in Requests :
          req[r].at \in {"gate", "dial", "error"} =>
              GoesOn(req[r].kind, req[r].due)
    /\ \A r \in Requests :
          req[r].at = "done" =>
              AnsweredRightly(req[r].kind, req[r].due, req[r].reply)

LEMMA StepRefused ==
    ASSUME RefusedInv, NEW r \in Requests,
           Enters(r) \/ PassesOn(r) \/ IsAnswered(r)
    PROVE  RefusedInv'
  <1> USE DEF RefusedInv, RequestsOK, Request
  <1>1. CASE Enters(r)
    <2>1. PICK kind \in Kinds, at \in {"gate", "done"},
               reply \in Replies \ {"app", "starting up"} :
             Settled(kind, at, reply) /\ Arrives(r, kind, at, reply)
      BY <1>1 DEF Enters
    <2>2. /\ Enforce(access, kind) \in {"none", "401", "403"}
          /\ Live \in BOOLEAN
      BY EnforceResult DEF Live
    <2>3. DEFINE new == [at |-> at, kind |-> kind, due |-> Enforce(access, kind),
                         late |-> Live, reply |-> reply]
    <2>4. new \in Request /\ req' = [req EXCEPT ![r] = new]
      BY <2>1, <2>2 DEF Arrives
    <2>5. /\ new.at = at /\ new.due = Enforce(access, kind) /\ new.kind = kind
          /\ new.reply = reply
      OBVIOUS
    <2> HIDE DEF new
    <2>6. req' \in [Requests -> Request]
      BY <2>4
    <2>7. req'[r] = new /\ \A q \in Requests \ {r} : req'[q] = req[q]
      BY <2>4
    <2>8. /\ new.at = "gate" => GoesOn(new.kind, new.due)
          /\ new.at = "done" => AnsweredRightly(new.kind, new.due, new.reply)
          /\ new.at \in {"gate", "done"}
      BY <2>1, <2>5 DEF Settled
    <2>9. ASSUME NEW q \in Requests
          PROVE  /\ req'[q].at \in {"gate", "dial", "error"} =>
                      GoesOn(req'[q].kind, req'[q].due)
                 /\ req'[q].at = "done" =>
                      AnsweredRightly(req'[q].kind, req'[q].due, req'[q].reply)
      <3>1. CASE q = r
        BY <3>1, <2>7, <2>8
      <3>2. CASE q # r
        BY <3>2, <2>7
      <3>3. QED
        BY <3>1, <3>2
    <2>10. QED
      BY <2>6, <2>9
  <1>2. CASE PassesOn(r)
    BY <1>2 DEF PassesOn, At
  <1>3. CASE IsAnswered(r)
    <2>1. PICK got \in Replies \ {"401", "403"} : Reply(r, got)
      BY <1>3 DEF IsAnswered
    <2>2. req[r].at \in {"gate", "dial", "error"}
      BY <1>3 DEF IsAnswered
    <2>3. GoesOn(req[r].kind, req[r].due)
      BY <2>2
    <2>4. AnsweredRightly(req[r].kind, req[r].due, got)
      BY <2>1, <2>3, Zenon DEF GoesOn, AnsweredRightly
    <2>5. DEFINE new == [req[r] EXCEPT !.at = "done", !.reply = got]
    <2>6. /\ new \in Request /\ new.at = "done" /\ new.reply = got
          /\ new.kind = req[r].kind /\ new.due = req[r].due
      BY <2>1
    <2>7. req' = [req EXCEPT ![r] = new]
      BY <2>1 DEF Reply
    <2> HIDE DEF new
    <2>8. req'[r] = new /\ \A q \in Requests \ {r} : req'[q] = req[q]
      BY <2>7
    <2>9. req' \in [Requests -> Request]
      BY <2>6, <2>7
    <2>10. AnsweredRightly(new.kind, new.due, new.reply)
      BY <2>4, <2>6
    <2>11. QED
      BY <2>6, <2>8, <2>9, <2>10
  <1>4. QED
    BY <1>1, <1>2, <1>3

LEMMA NoRequests == Forget => RefusedInv'
  <1>1. NoRequest \in Request /\ NoRequest.at = "none"
    BY FrontAssumption DEF NoRequest, Request, Replies
  <1>2. QED
    BY <1>1 DEF Forget, RefusedInv, RequestsOK

LEMMA RefusedAlways == FirstServeSpec => []RefusedInv
  <1>1. FirstServeInit => RefusedInv
    <2>1. NoRequest \in Request /\ NoRequest.at = "none"
      BY FrontAssumption DEF NoRequest, Request, Replies
    <2>2. QED
      BY <2>1 DEF FirstServeInit, FrontInit, RefusedInv, RequestsOK
  <1>2. RefusedInv /\ [FirstServeNext]_allvars => RefusedInv'
    <2> SUFFICES ASSUME RefusedInv, [FirstServeNext]_allvars PROVE RefusedInv'
      OBVIOUS
    <2>1. ASSUME UNCHANGED req PROVE RefusedInv'
      BY <2>1 DEF RefusedInv, RequestsOK
    <2>2. CASE \E r \in Requests : Serve(r, AppUp)
      BY <2>2, ServeSteps, StepRefused
    <2>3. QED
      BY <2>1, <2>2, RequestSteps, NoRequests DEF Poll, Get, TestDeadline
  <1>3. QED
    BY <1>1, <1>2, PTL DEF FirstServeSpec

\* A gated app answers 401 or 403 for every clean path and in every state of the
\* app: Config.Enforce comes before the readiness gate and the proxy.  A path that
\* is not clean is answered by the mux of Server.Handler, with a 301 whatever the
\* config is.
THEOREM RefusedUniformlyHolds == FirstServeSpec => []RefusedUniformly
  <1>1. RefusedInv => RefusedUniformly
    BY Zenon DEF RefusedInv, RefusedUniformly, AnsweredRightly
  <1>2. QED
    BY <1>1, RefusedAlways, PTL

\* Once a client had an answer of the app, it counts as healthy, and a request
\* that came later finds the gate passed.
HealthyInv ==
    /\ RequestsOK
    /\ (\E r \in Requests : req[r].reply = "app") => healthy
    /\ \A r \in Requests : req[r].late => healthy /\ (ready \/ ~ReadyPath)
    /\ NoFalseStartingUp

LEMMA StepHealthy ==
    ASSUME HealthyInv, NEW r \in Requests,
           Enters(r) \/ PassesOn(r) \/ IsAnswered(r),
           UNCHANGED ready, healthy => healthy',
           RequestsOK'
    PROVE  HealthyInv'
  <1> USE DEF HealthyInv, RequestsOK, NoFalseStartingUp
  <1>1. CASE Enters(r)
    <2>1. /\ \A q \in Requests \ {r} : req'[q] = req[q]
          /\ req'[r].reply \notin {"app", "starting up"}
          /\ req'[r].late = Live
      <3>1. PICK kind \in Kinds, at \in {"gate", "done"},
                 reply \in Replies \ {"app", "starting up"} :
               Arrives(r, kind, at, reply)
        BY <1>1 DEF Enters
      <3>2. DEFINE new == [at |-> at, kind |-> kind, due |-> Enforce(access, kind),
                           late |-> Live, reply |-> reply]
      <3>3. new.reply = reply /\ new.late = Live
        BY Zenon
      <3> HIDE DEF new
      <3>4. req'[r] = new /\ \A q \in Requests \ {r} : req'[q] = req[q]
        BY <3>1 DEF Arrives, new
      <3>5. QED
        BY <3>1, <3>3, <3>4
    <2>2. Live => healthy /\ (ready \/ ~ReadyPath)
      BY DEF Live
    <2>3. req'[r].late => healthy /\ (ready \/ ~ReadyPath)
      BY <2>1, <2>2
    <2>4. QED
      BY <2>1, <2>3
  <1>2. CASE PassesOn(r)
    <2>1. /\ \A q \in Requests \ {r} : req'[q] = req[q]
          /\ req'[r].reply = req[r].reply /\ req'[r].late = req[r].late
      BY <1>2 DEF PassesOn, At, Request
    <2>2. QED
      BY <2>1
  <1>3. CASE IsAnswered(r)
    <2>1. /\ \A q \in Requests \ {r} : req'[q] = req[q]
          /\ req'[r].late = req[r].late
          /\ req'[r].reply = "starting up" => HeldBack(req[r].kind) \/ ~healthy
          /\ req'[r].reply = "app" => healthy'
      <3>1. PICK got \in Replies \ {"401", "403"} :
               /\ Reply(r, got)
               /\ got = "starting up" => HeldBack(req[r].kind) \/ ~healthy
               /\ got = "app" => healthy'
        BY <1>3 DEF IsAnswered
      <3>2. DEFINE new == [req[r] EXCEPT !.at = "done", !.reply = got]
      <3>3. new.reply = got /\ new.late = req[r].late
        BY DEF Request
      <3> HIDE DEF new
      <3>4. req'[r] = new /\ \A q \in Requests \ {r} : req'[q] = req[q]
        BY <3>1 DEF Reply, new
      <3>5. QED
        BY <3>1, <3>3, <3>4
    <2>2. HeldBack(req[r].kind) => ReadyPath /\ ~ready
      BY DEF HeldBack
    <2>3. QED
      BY <2>1, <2>2
  <1>4. QED
    BY <1>1, <1>2, <1>3

\* Once a client has had an answer of the app, a request that comes in later gets
\* the real error of a crash, not the page of appReverseProxy that says it is
\* starting up.
THEOREM NoFalseStartingUpHolds == FirstServeSpec => []NoFalseStartingUp
  <1>1. NoRequest \in Request /\ NoRequest.reply = "none" /\ ~NoRequest.late
    BY FrontAssumption DEF NoRequest, Request, Replies
  <1>2. FirstServeInit => RefusedInv /\ HealthyInv
    <2>1. NoRequest.at = "none"
      BY DEF NoRequest
    <2>2. QED
      BY <1>1, <2>1 DEF FirstServeInit, FrontInit, RefusedInv, HealthyInv,
             RequestsOK, NoFalseStartingUp
  <1>3. RefusedInv /\ HealthyInv /\ [FirstServeNext]_allvars
          => RefusedInv' /\ HealthyInv'
    <2> SUFFICES ASSUME RefusedInv, HealthyInv, [FirstServeNext]_allvars
                 PROVE  RefusedInv' /\ HealthyInv'
      OBVIOUS
    <2>1. ASSUME UNCHANGED req PROVE RefusedInv'
      BY <2>1 DEF RefusedInv, RequestsOK
    <2>2. CASE UNCHANGED <<ready, healthy, req>>
      BY <2>1, <2>2 DEF HealthyInv, RequestsOK, NoFalseStartingUp
    <2>3. CASE Poll(AppUp)
      <3>1. RefusedInv' /\ UNCHANGED <<healthy, req>>
        BY <2>1, <2>3 DEF Poll, Get, TestDeadline
      <3>2. ready' = ready \/ ready' = TRUE
        BY <2>3 DEF Poll, Get, TestDeadline, Opens
      <3>3. ready => ready'
        BY <3>2, Zenon
      <3>4. HealthyInv'
        BY <3>1, <3>3 DEF HealthyInv, RequestsOK, NoFalseStartingUp
      <3>5. QED
        BY <3>1, <3>4
    <2>4. CASE \E r \in Requests : Serve(r, AppUp)
      <3>1. RefusedInv'
        BY <2>4, ServeSteps, StepRefused
      <3>2. QED
        BY <2>4, <3>1, ServeSteps, StepHealthy DEF RefusedInv
    <2>5. CASE Forget
      <3>1. RefusedInv'
        BY <2>5, NoRequests
      <3>2. \A r \in Requests : req'[r] = NoRequest
        BY <2>5 DEF Forget
      <3>3. QED
        BY <1>1, <3>1, <3>2 DEF RefusedInv, HealthyInv, NoFalseStartingUp
    <2>6. QED
      BY <2>2, <2>3, <2>4, <2>5, RequestSteps
  <1>4. HealthyInv => NoFalseStartingUp
    BY DEF HealthyInv
  <1>5. QED
    BY <1>2, <1>3, <1>4, PTL DEF FirstServeSpec

-----------------------------------------------------------------------------
(* Types                                                                   *)

\* The supervisor's turns are numbered to the cap and one beyond, where the loop
\* ends; bash was started wherever it is supervised.
TurnInv ==
    /\ turn \in Nat /\ turn <= MaxTurns + 1
    /\ pc \in {"snapshot", "check"} => turn <= MaxTurns
    /\ pc \in Supervised => bash[iter] # "none"

InstallSymbols ==
    /\ verdict \in {"none", "done", "intervene"}
    /\ result \in {"none", "ok", "error"}
    /\ status \in {"none", "success", "failure"}
    /\ seen \in {"running", "exit 0", "exit 1"}
    /\ app \in [Iterations -> {"none", "up", "gone"}]

InstallFlags ==
    /\ failed \in BOOLEAN /\ script \in BOOLEAN /\ stuck \in BOOLEAN
    /\ cancelled \in BOOLEAN

LEMMA TurnUp ==
    ASSUME NEW t \in Nat, t <= MaxTurns
    PROVE  /\ t + 1 \in Nat /\ t + 1 <= MaxTurns + 1 /\ t <= MaxTurns + 1
  BY Caps

LEMMA FirstTurn == 1 \in Nat /\ 1 <= MaxTurns + 1
  BY Caps

LEMMA StepTurn ==
    InstallerInv /\ TurnInv /\ [Install \/ Environment]_vars => TurnInv'
  <1> SUFFICES ASSUME InstallerInv, TurnInv, [Install \/ Environment]_vars
               PROVE  TurnInv'
    OBVIOUS
  <1> USE Caps DEF InstallerInv, TurnInv, Supervised, place, spend, report, procs
  <1>1. CASE NextIteration \/ Plan \/ NoScript \/ StartFails \/ AfterScript
    BY <1>1 DEF NextIteration, End, Plan, NoScript, StartFails, AfterScript
  <1>2. CASE StartScript
    <2>1. pc = "read" /\ pc' = "select" /\ turn' = 1 /\ UNCHANGED iter
          /\ bash' = [bash EXCEPT ![iter] = "running"]
      BY <1>2 DEF StartScript
    <2>2. bash'[iter'] = "running"
      BY <2>1
    <2>3. turn' \in Nat /\ turn' <= MaxTurns + 1
      BY <2>1, FirstTurn
    <2>4. QED
      BY <2>1, <2>2, <2>3
  <1>3. CASE SelectCancelled \/ SelectTurn \/ TurnsUsedUp \/ Snapshot
    BY <1>3 DEF SelectCancelled, SelectTurn, TurnsUsedUp, Snapshot, Leave
  <1>4. CASE CheckContinue
    <2>1. /\ pc = "check" /\ pc' \in {"reap", "select"} /\ UNCHANGED <<iter, bash>>
          /\ turn' = turn \/ turn' = turn + 1
      BY <1>4 DEF CheckContinue
    <2>2. turn \in Nat /\ turn <= MaxTurns /\ bash[iter] # "none"
      BY <2>1
    <2>3. turn' \in Nat /\ turn' <= MaxTurns + 1
      BY <2>1, <2>2, TurnUp
    <2>4. QED
      BY <2>1, <2>2, <2>3
  <1>5. CASE CheckDone \/ CheckIntervene
    BY <1>5 DEF CheckDone, CheckIntervene, Leave
  <1>6. CASE Terminate \/ Kill
    BY <1>6 DEF Terminate, Kill
  <1>7. CASE Terminated \/ Reap
    BY <1>7 DEF Terminated, Reap
  <1>8. CASE CliBlocks \/ Cancel
    BY <1>8 DEF CliBlocks, Cancel
  <1>9. CASE \E i \in Iterations : LaunchApp(i) \/ AppDies(i) \/ BashExits(i)
    BY <1>9 DEF LaunchApp, AppDies, BashExits
  <1>10. CASE UNCHANGED vars
    BY <1>10 DEF vars
  <1>11. QED
    BY <1>1, <1>2, <1>3, <1>4, <1>5, <1>6, <1>7, <1>8, <1>9, <1>10
       DEF Install, Environment

LEMMA StepInstallSymbols ==
    InstallerInv /\ TurnInv /\ InstallSymbols /\ [Install \/ Environment]_vars
      => InstallSymbols'
  <1> SUFFICES ASSUME InstallerInv, TurnInv, InstallSymbols,
                      [Install \/ Environment]_vars
               PROVE  InstallSymbols'
    OBVIOUS
  <1> USE DEF InstallSymbols, place, spend, report, procs
  <1>1. CASE NextIteration \/ Plan \/ NoScript \/ StartFails \/ AfterScript
    BY <1>1 DEF NextIteration, End, Plan, NoScript, StartFails, AfterScript
  <1>2. CASE StartScript
    BY <1>2 DEF StartScript
  <1>3. CASE SelectCancelled \/ SelectTurn \/ TurnsUsedUp
    BY <1>3 DEF SelectCancelled, SelectTurn, TurnsUsedUp, Leave
  <1>4. CASE Snapshot
    <2>1. bash[iter] \in {"running", "exit 0", "exit 1"}
      BY <1>4 DEF Snapshot, InstallerInv, TurnInv, Supervised
    <2>2. QED
      BY <1>4, <2>1 DEF Snapshot
  <1>5. CASE CheckContinue \/ CheckDone \/ CheckIntervene
    BY <1>5 DEF CheckContinue, CheckDone, CheckIntervene, Leave
  <1>6. CASE Terminate \/ Kill
    BY <1>6 DEF Terminate, Kill
  <1>7. CASE Terminated \/ Reap
    BY <1>7 DEF Terminated, Reap
  <1>8. CASE CliBlocks \/ Cancel
    BY <1>8 DEF CliBlocks, Cancel
  <1>9. CASE \E i \in Iterations : LaunchApp(i) \/ AppDies(i) \/ BashExits(i)
    BY <1>9 DEF LaunchApp, AppDies, BashExits
  <1>10. CASE UNCHANGED vars
    BY <1>10 DEF vars
  <1>11. QED
    BY <1>1, <1>2, <1>3, <1>4, <1>5, <1>6, <1>7, <1>8, <1>9, <1>10
       DEF Install, Environment

LEMMA StepInstallFlags ==
    InstallFlags /\ [Install \/ Environment]_vars => InstallFlags'
  <1> SUFFICES ASSUME InstallFlags, [Install \/ Environment]_vars
               PROVE  InstallFlags'
    OBVIOUS
  <1> USE DEF InstallFlags, place, spend, report, procs
  <1>1. CASE NextIteration \/ Plan \/ NoScript \/ StartFails \/ AfterScript
    BY <1>1 DEF NextIteration, End, Plan, NoScript, StartFails, AfterScript
  <1>2. CASE StartScript
    BY <1>2 DEF StartScript
  <1>3. CASE SelectCancelled \/ SelectTurn \/ TurnsUsedUp \/ Snapshot
    BY <1>3 DEF SelectCancelled, SelectTurn, TurnsUsedUp, Snapshot, Leave
  <1>4. CASE CheckContinue \/ CheckDone \/ CheckIntervene
    BY <1>4 DEF CheckContinue, CheckDone, CheckIntervene, Leave
  <1>5. CASE Terminate \/ Kill \/ Terminated \/ Reap
    BY <1>5 DEF Terminate, Kill, Terminated, Reap
  <1>6. CASE CliBlocks \/ Cancel
    BY <1>6 DEF CliBlocks, Cancel
  <1>7. CASE \E i \in Iterations : LaunchApp(i) \/ AppDies(i) \/ BashExits(i)
    BY <1>7 DEF LaunchApp, AppDies, BashExits
  <1>8. CASE UNCHANGED vars
    BY <1>8 DEF vars
  <1>9. QED
    BY <1>1, <1>2, <1>3, <1>4, <1>5, <1>6, <1>7, <1>8 DEF Install, Environment

\* What the daemon knows of the operator's config, and its requests.
FrontTypes ==
    /\ changes \in 0 .. MaxChanges /\ stored \in Wires \cup {Null}
    /\ push \in Wires \cup {Null, Malformed, Nothing}
    /\ access \in Config

FrontFlags ==
    /\ lost \in BOOLEAN /\ ready \in BOOLEAN /\ healthy \in BOOLEAN
    /\ expired \in BOOLEAN /\ gate \in {"off", "get", "test"}

DaemonTypes ==
    /\ phase \in Phases /\ boots \in 0 .. MaxBoots
    /\ answer \in Wires \cup {Null, Nothing}
    /\ registered \in BOOLEAN

LEMMA ResolveFits ==
    ASSUME NEW wire \in Wires \cup {Null} PROVE Resolve(wire) \in Config
  <1>1. wire # Null => wire.cred \in BOOLEAN
    BY FrontAssumption DEF WireType
  <1>2. (wire.ips = "public") \in BOOLEAN
    OBVIOUS
  <1>3. CASE wire = Null
    BY <1>3 DEF Resolve, Config, Open
  <1>4. CASE wire # Null
    BY <1>1, <1>2, <1>4 DEF Resolve, Config
  <1>5. QED
    BY <1>3, <1>4

LEMMA NextChange ==
    ASSUME NEW n \in 0 .. MaxChanges, n < MaxChanges PROVE n + 1 \in 0 .. MaxChanges
  BY FrontAssumption

LEMMA NextBoot ==
    ASSUME NEW n \in 0 .. MaxBoots, n < MaxBoots PROVE n + 1 \in 0 .. MaxBoots
  BY FirstServeAssumption

LEMMA StepFrontTypes ==
    ConfigInv /\ FrontTypes /\ [FirstServeNext]_allvars => FrontTypes'
  <1> SUFFICES ASSUME ConfigInv, FrontTypes, [FirstServeNext]_allvars
               PROVE  FrontTypes'
    OBVIOUS
  <1> USE DEF FrontTypes, operator, front
  <1>1. Open \in Config
    BY DEF Open, Config
  <1>2. CASE \E schedOn \in BOOLEAN : Start(schedOn)
    BY <1>1, <1>2 DEF Start, Forget
  <1>3. CASE InstallDone \/ Exit \/ Installing \/ Disturb \/ Processes
    BY <1>3 DEF InstallDone, Exit, Stop, Installing, Disturb, Processes
  <1>4. CASE RegisterPort
    BY <1>4 DEF RegisterPort
  <1>5. CASE ApplyAnswer
    <2>1. answer \in Wires \cup {Null} /\ answer # Malformed
      BY <1>5, WireIsConfig DEF ApplyAnswer, ConfigInv
    <2>2. access' = access \/ access' = Resolve(answer)
      BY <1>5, <2>1 DEF ApplyAnswer, ApplyRegistered, Apply
    <2>3. UNCHANGED <<stored, changes, push>>
      BY <1>5 DEF ApplyAnswer
    <2>4. QED
      BY <2>1, <2>2, <2>3, ResolveFits
  <1>6. CASE Operator
    <2>1. CASE SetConfig
      <3>1. changes' \in 0 .. MaxChanges
        BY <2>1, NextChange DEF SetConfig
      <3>2. QED
        BY <2>1, <3>1 DEF SetConfig
    <2>2. CASE HandleSetAuth(Listening)
      <3>1. access' = access \/ (push # Malformed /\ access' = Resolve(push))
        BY <2>2 DEF HandleSetAuth, Apply
      <3>2. push # Nothing /\ UNCHANGED <<stored, changes>> /\ push' = Nothing
        BY <2>2 DEF HandleSetAuth
      <3>3. QED
        BY <3>1, <3>2, ResolveFits
    <2>3. CASE PushLost
      BY <2>3 DEF PushLost
    <2>4. QED
      BY <1>6, <2>1, <2>2, <2>3 DEF Operator
  <1>7. CASE PollGate \/ Clock \/ Serves
    BY <1>7 DEF PollGate, Clock, Serves, Poll, Get, TestDeadline, DeadlinePasses,
                Serve, Redirect, Arrive, ArriveOps, PassGate, Answered, DialFails,
                HandleError
  <1>8. CASE UNCHANGED allvars
    BY <1>8 DEF allvars
  <1>9. QED
    BY <1>2, <1>3, <1>4, <1>5, <1>6, <1>7, <1>8 DEF FirstServeNext

LEMMA StepFrontFlags == FrontFlags /\ [FirstServeNext]_allvars => FrontFlags'
  <1> SUFFICES ASSUME FrontFlags, [FirstServeNext]_allvars PROVE FrontFlags'
    OBVIOUS
  <1> USE DEF FrontFlags, operator, gating, front
  <1>1. CASE \E schedOn \in BOOLEAN : Start(schedOn)
    BY <1>1 DEF Start, Forget
  <1>2. CASE InstallDone \/ Exit \/ Installing \/ Disturb \/ Processes
    BY <1>2 DEF InstallDone, Exit, Stop, Installing, Disturb, Processes
  <1>3. CASE RegisterPort \/ ApplyAnswer
    BY <1>3 DEF RegisterPort, ApplyAnswer
  <1>4. CASE Operator
    <2>1. UNCHANGED <<gating, healthy>>
      BY <1>4 DEF Operator, SetConfig, HandleSetAuth, PushLost
    <2>2. lost' = lost \/ lost' = (lost \/ push # Malformed)
      BY <1>4 DEF Operator, SetConfig, HandleSetAuth, PushLost
    <2>3. (lost \/ push # Malformed) \in BOOLEAN
      OBVIOUS
    <2>4. QED
      BY <2>1, <2>2, <2>3
  <1>5. CASE PollGate \/ Clock
    BY <1>5 DEF PollGate, Poll, Get, TestDeadline, Opens, Clock, DeadlinePasses
  <1>6. CASE Serves
    BY <1>6 DEF Serves, Serve, Redirect, Arrive, ArriveOps, PassGate, Answered,
                DialFails, HandleError
  <1>7. CASE UNCHANGED allvars
    BY <1>7 DEF allvars
  <1>8. QED
    BY <1>1, <1>2, <1>3, <1>4, <1>5, <1>6, <1>7 DEF FirstServeNext

LEMMA StepDaemonTypes ==
    FrontTypes /\ DaemonTypes /\ [FirstServeNext]_allvars => DaemonTypes'
  <1> SUFFICES ASSUME FrontTypes, DaemonTypes, [FirstServeNext]_allvars
               PROVE  DaemonTypes'
    OBVIOUS
  <1> USE DEF DaemonTypes, FrontTypes, Phases, daemon
  <1>1. CASE \E schedOn \in BOOLEAN : Start(schedOn)
    <2>1. boots' \in 0 .. MaxBoots
      BY <1>1, NextBoot DEF Start
    <2>2. QED
      BY <1>1, <2>1 DEF Start
  <1>2. CASE InstallDone \/ Exit
    BY <1>2 DEF InstallDone, Exit, Stop
  <1>3. CASE RegisterPort \/ ApplyAnswer
    BY <1>3 DEF RegisterPort, ApplyAnswer
  <1>4. CASE Installing \/ Disturb \/ Processes \/ Operator \/ PollGate \/ Clock
             \/ Serves
    BY <1>4 DEF Installing, Disturb, Processes, Operator, PollGate, Clock, Serves
  <1>5. CASE UNCHANGED allvars
    BY <1>5 DEF allvars
  <1>6. QED
    BY <1>1, <1>2, <1>3, <1>4, <1>5 DEF FirstServeNext

InstallTypes == TurnInv /\ InstallSymbols /\ InstallFlags

LEMMA StepInstallTypes ==
    PhaseInv /\ InstallerInv /\ InstallTypes /\ [FirstServeNext]_allvars
      => InstallTypes'
  <1> SUFFICES ASSUME PhaseInv, InstallerInv, InstallTypes,
                      [FirstServeNext]_allvars
               PROVE  InstallTypes'
    OBVIOUS
  <1>1. CASE [Install \/ Environment]_vars
    BY <1>1, StepTurn, StepInstallSymbols, StepInstallFlags DEF InstallTypes
  <1>2. CASE /\ phase = "off" /\ pc' \in {"idle", "loop"}
             /\ UNCHANGED <<iter, turn, spend, report, script, stuck, seen,
                            cancelled, procs>>
    <2>1. TurnInv'
      BY <1>2 DEF InstallTypes, TurnInv, Supervised, procs
    <2>2. InstallSymbols' /\ InstallFlags'
      BY <1>2 DEF InstallTypes, InstallSymbols, InstallFlags, report, procs
    <2>3. QED
      BY <2>1, <2>2 DEF InstallTypes
  <1>3. CASE ForgetInstall /\ (ForgetDead \/ NoProcesses) /\ UNCHANGED status
    <2>1. TurnInv'
      <3>1. turn' = 0 /\ pc' = "idle"
        BY <1>3 DEF ForgetInstall
      <3>2. 0 \in Nat /\ 0 <= MaxTurns + 1
        BY Caps
      <3>3. QED
        BY <3>1, <3>2 DEF TurnInv, Supervised
    <2>2. InstallSymbols'
      BY <1>3 DEF ForgetInstall, ForgetDead, NoProcesses, InstallTypes, InstallSymbols
    <2>3. InstallFlags'
      BY <1>3 DEF ForgetInstall, InstallFlags
    <2>4. QED
      BY <2>1, <2>2, <2>3 DEF InstallTypes
  <1>4. QED
    BY <1>1, <1>2, <1>3, InstallSteps

LEMMA InitFirstServeTypes ==
    FirstServeInit => InstallTypes /\ FrontTypes /\ FrontFlags /\ DaemonTypes
  <1> SUFFICES ASSUME FirstServeInit
               PROVE  InstallTypes /\ FrontTypes /\ FrontFlags /\ DaemonTypes
    OBVIOUS
  <1> USE DEF FirstServeInit, Fresh, FrontInit
  <1>1. TurnInv
    <2>1. turn = 0 /\ pc = "idle"
      OBVIOUS
    <2>2. 0 \in Nat /\ 0 <= MaxTurns + 1
      BY Caps
    <2>3. QED
      BY <2>1, <2>2 DEF TurnInv, Supervised
  <1>2. InstallSymbols /\ InstallFlags
    BY DEF InstallSymbols, InstallFlags
  <1>3. FrontTypes
    <2>1. 0 \in 0 .. MaxChanges
      BY FrontAssumption
    <2>2. QED
      BY <2>1 DEF FrontTypes, Open, Config
  <1>4. FrontFlags
    BY DEF FrontFlags
  <1>5. DaemonTypes
    <2>1. 0 \in 0 .. MaxBoots
      BY FirstServeAssumption
    <2>2. QED
      BY <2>1 DEF DaemonTypes, Phases
  <1>6. QED
    BY <1>1, <1>2, <1>3, <1>4, <1>5 DEF InstallTypes

LEMMA Within == ASSUME NEW n \in Nat, NEW m \in Nat
                PROVE  /\ n <= m => n \in 0 .. m + 1
                       /\ n <= m + 1 => n \in 0 .. m + 1
  OBVIOUS

\* The whole of a daemon's start keeps its types, with every count at or under the
\* cap the code gives it; a turn's snapshot is that of a bash that was started.
THEOREM FirstServeTypeHolds == FirstServeSpec => []FirstServeTypeOK
  <1> DEFINE Base  == /\ InstallerInv /\ PhaseInv /\ SpendInv /\ ConfigInv
                      /\ RefusedInv
             Types == InstallTypes /\ FrontTypes /\ FrontFlags /\ DaemonTypes
  <1>1. Base /\ Types /\ [FirstServeNext]_allvars => Types'
    BY StepInstallTypes, StepFrontTypes, StepFrontFlags, StepDaemonTypes
  <1>2. Base /\ Types => FirstServeTypeOK
    <2> SUFFICES ASSUME Base, Types PROVE FirstServeTypeOK
      OBVIOUS
    <2>1. /\ pc \in PCs /\ total \in Nat /\ cost \in Nat
      BY DEF SpendInv, PCs
    <2>a. /\ iter \in Nat /\ iter <= MaxIterations
          /\ turn \in Nat /\ turn <= MaxTurns + 1
      BY DEF InstallerInv, InstallTypes, TurnInv
    <2>b. MaxIterations \in Nat /\ MaxTurns \in Nat
      BY Caps
    <2>2. iter \in 0 .. MaxIterations + 1 /\ turn \in 0 .. MaxTurns + 1
      BY <2>a, <2>b, Within
    <2>3. TypeOK
      BY <2>1, <2>2 DEF TypeOK, InstallTypes, InstallSymbols, InstallFlags,
                        InstallerInv
    <2>4. FrontTypeOK
      BY DEF FrontTypeOK, FrontTypes, FrontFlags, RefusedInv, RequestsOK
    <2>5. QED
      BY <2>3, <2>4 DEF FirstServeTypeOK, DaemonTypes
  <1>3. QED
    BY <1>1, <1>2, InitFirstServeTypes, InstallerAlways, SpendAlways, InitConfig,
       StepConfig, RefusedAlways, PTL DEF FirstServeSpec
=============================================================================
