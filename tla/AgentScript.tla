---------------------------- MODULE AgentScript ----------------------------
(***************************************************************************)
(* The agent_script install (internal/bootstrap/agent_script.go): a        *)
(* planner writes a script, superviseScript runs it in a process group of  *)
(* its own while a supervisor is asked for verdicts, and an iteration that *)
(* did not end in "done" is retried, under a turn cap, an iteration cap, a *)
(* token budget and the daemon's context.  Planner and supervisor are runs *)
(* of the claude CLI (Claudecli).                                          *)
(***************************************************************************)
EXTENDS Claudecli, FiniteSets

CONSTANTS
    MaxIterations,  \* AGENT_OPS_BOOTSTRAP_MAX_ITERATIONS
    MaxTurns,       \* AGENT_OPS_BOOTSTRAP_MAX_SUPERVISOR_TURNS
    Budget,         \* AGENT_OPS_BOOTSTRAP_TOKEN_BUDGET_USD; 0 disables it
    VerifyPort,     \* AGENT_OPS_BOOTSTRAP_VERIFY_PORT is set
    CliRuns,        \* what one run of the CLI may be
    MaxCost         \* the most that one run of the CLI costs

ASSUME AgentScriptAssumption ==
    /\ MaxIterations \in Nat \ {0} /\ MaxTurns \in Nat \ {0}
    /\ Budget \in Nat /\ VerifyPort \in BOOLEAN /\ MaxCost \in Nat
    /\ \A r \in CliRuns : Run(r) \in [error : BOOLEAN, cost : 0 .. MaxCost]

VARIABLES
    pc, iter, turn,     \* where the install is
    total, cost,        \* totalCostMicro; res.CostUSDMicro of the iteration
    verdict, failed,    \* res.FinalVerdict; did superviseScript return an error
    result, status,     \* what the install returned; final-status.json
    script, stuck,      \* the script file exists; the CLI blocks on its pipe
    seen,            \* the snapshot of bash a turn works with
    cancelled,          \* the daemon's context
    bash, app           \* by iteration: its bash, and the app it launched

place  == <<pc, iter, turn>>
spend  == <<total, cost>>
report == <<verdict, failed, result, status>>
procs  == <<bash, app>>
vars   == <<place, spend, report, script, stuck, seen, cancelled, procs>>

Iterations == 1 .. MaxIterations

\* "plan" and "check" wait for the CLI, "term" for bash to die of SIGTERM, "reap"
\* is the deferred wait of superviseScript.
PCs == {"idle", "loop", "plan", "read", "select", "snapshot", "check", "kill",
        "term", "reap", "after", "ended"}

TypeOK ==
    /\ pc \in PCs /\ iter \in 0 .. MaxIterations + 1
    /\ turn \in 0 .. MaxTurns + 1
    /\ total \in Nat /\ cost \in Nat
    /\ verdict \in {"none", "done", "intervene"} /\ failed \in BOOLEAN
    /\ result \in {"none", "ok", "error"}
    /\ status \in {"none", "success", "failure"}
    /\ script \in BOOLEAN /\ stuck \in BOOLEAN /\ cancelled \in BOOLEAN
    /\ seen \in {"running", "exit 0", "exit 1"}
    /\ bash \in [Iterations -> {"none", "running", "exit 0", "exit 1"}]
    /\ app \in [Iterations -> {"none", "up", "gone"}]

AppUp == \E i \in Iterations : app[i] = "up"

Fresh ==
    /\ iter = 0 /\ turn = 0 /\ total = 0 /\ cost = 0
    /\ verdict = "none" /\ failed = FALSE /\ result = "none"
    /\ script \in BOOLEAN /\ stuck = FALSE /\ seen = "running"
    /\ cancelled = FALSE
    /\ bash = [i \in Iterations |-> "none"]
    /\ app = [i \in Iterations |-> "none"]

\* /tmp/install.sh may be left from an earlier daemon.
Init == pc = "loop" /\ status = "none" /\ Fresh

-----------------------------------------------------------------------------
(* runAgentScriptBootstrap                                                 *)

End(r, s) == /\ pc' = "ended" /\ result' = r /\ status' = s
             /\ UNCHANGED <<iter, turn, spend, verdict, failed, script, stuck,
                            seen, cancelled, procs>>

\* Mutant: the budget is not looked at between iterations.
NextIterationUncapped ==
    /\ pc = "loop"
    /\ IF iter = MaxIterations
         THEN End("error", "failure")
         ELSE IF cancelled
         THEN End("error", status)
         ELSE /\ pc' = "plan" /\ iter' = iter + 1 /\ script' = FALSE
              /\ UNCHANGED <<turn, spend, report, stuck, seen, cancelled,
                             procs>>

\* The head of the loop: the iteration cap, then the context (which leaves no
\* final-status.json), then the budget.
NextIteration ==
    /\ pc = "loop"
    /\ \/ /\ iter = MaxIterations
          /\ End("error", "failure")
       \/ /\ iter < MaxIterations /\ cancelled
          /\ End("error", status)
       \/ /\ iter < MaxIterations /\ ~cancelled
          /\ Budget > 0 /\ total >= Budget
          /\ End("error", "failure")
       \/ /\ iter < MaxIterations /\ ~cancelled
          /\ Budget = 0 \/ total < Budget
          /\ pc' = "plan" /\ iter' = iter + 1 /\ script' = FALSE
          /\ UNCHANGED <<turn, spend, report, stuck, seen, cancelled, procs>>

\* The results of the runs that end by themselves; may a run block instead.
Finished == {Run(r) : r \in {s \in CliRuns : ~Blocks(s)}}
MayBlock == \E r \in CliRuns : Blocks(r)

\* How the CLI may answer.  A cancelled context kills it, or keeps it from
\* starting; an answer may still win that race, unless the CLI is stuck.
Answers == (IF stuck THEN {} ELSE Finished)
           \cup (IF cancelled THEN {Failure(0)} ELSE {})

\* The CLI has more to print than Run will read.
CliBlocks ==
    /\ pc \in {"plan", "check"} /\ ~stuck
    /\ MayBlock
    /\ stuck' = TRUE
    /\ UNCHANGED <<place, spend, report, script, seen, cancelled, procs>>

\* A failed plan is not looked at for a script: the iteration is over.
Plan ==
    /\ pc = "plan"
    /\ \E a \in Answers :
          /\ total' = total + a.cost
          /\ pc' = IF a.error THEN "loop" ELSE "read"
    /\ script' \in BOOLEAN      \* the planner wrote the file, or did not
    /\ stuck' = FALSE
    /\ UNCHANGED <<iter, turn, cost, report, seen, cancelled, procs>>

\* ReadFile, then superviseScript up to cmd.Start.
StartScript ==
    /\ pc = "read" /\ script
    /\ pc' = "select" /\ turn' = 1 /\ cost' = 0
    /\ verdict' = "none" /\ failed' = FALSE
    /\ bash' = [bash EXCEPT ![iter] = "running"]
    /\ UNCHANGED <<iter, total, result, status, script, stuck, seen,
                   cancelled, app>>

NoScript ==
    /\ pc = "read" /\ ~script
    /\ pc' = "loop"
    /\ UNCHANGED <<iter, turn, spend, report, script, stuck, seen, cancelled,
                   procs>>

\* A log file, a pipe or bash itself cannot be had: an error, and a retry.
StartFails ==
    /\ pc = "read" /\ script
    /\ pc' = "after" /\ cost' = 0 /\ verdict' = "none" /\ failed' = TRUE
    /\ UNCHANGED <<iter, turn, total, result, status, script, stuck, seen,
                   cancelled, procs>>

\* superviseScript has returned.
AfterScript ==
    /\ pc = "after"
    /\ total' = total + cost /\ cost' = 0
    /\ IF ~failed /\ verdict = "done"
         THEN pc' = "ended" /\ result' = "ok" /\ status' = "success"
         ELSE pc' = "loop" /\ UNCHANGED <<result, status>>
    /\ UNCHANGED <<iter, turn, verdict, failed, script, stuck, seen,
                   cancelled, procs>>

-----------------------------------------------------------------------------
(* superviseScript                                                         *)

Exited == bash[iter] # "running"

Leave(to, v, err) ==
    /\ pc' = to /\ verdict' = v /\ failed' = err
    /\ UNCHANGED <<iter, turn, total, result, status, script, seen,
                   cancelled, procs>>

\* The select at the head of a turn.  Both of its channels may be ready; the
\* interval may also elapse while they are not.
SelectCancelled ==
    /\ pc = "select" /\ turn <= MaxTurns /\ cancelled
    /\ Leave("kill", "intervene", TRUE) /\ UNCHANGED <<cost, stuck>>

\* The gate on the remaining budget fires only where exactly nothing remains.
Spent == Budget > 0 /\ total + cost = Budget

SelectTurn ==
    /\ pc = "select" /\ turn <= MaxTurns
    /\ IF Spent
         THEN Leave("kill", "intervene", TRUE)
         ELSE Leave("snapshot", verdict, failed)
    /\ UNCHANGED <<cost, stuck>>

TurnsUsedUp ==
    /\ pc = "select" /\ turn > MaxTurns
    /\ Leave("kill", "intervene", FALSE) /\ UNCHANGED <<cost, stuck>>

\* A process that exited 0 while something answers on the verify port (any app
\* that is up: the probe cannot tell whose) is done without a verdict.
Snapshot ==
    /\ pc = "snapshot"
    /\ seen' = bash[iter]
    /\ \/ pc' = "check" /\ UNCHANGED verdict
       \/ /\ bash[iter] = "exit 0" /\ VerifyPort /\ AppUp
          /\ pc' = "reap" /\ verdict' = "done"
    /\ UNCHANGED <<iter, turn, spend, failed, result, status, script, stuck,
                   cancelled, procs>>

\* Driver.Run never returns a Go error, so Check does not either; an error of
\* the CLI or an answer that does not parse is a "continue".
Verdicts(a) == IF a.error THEN {"continue"} ELSE {"continue", "done", "intervene"}

CheckContinue ==
    /\ pc = "check"
    /\ \E a \in Answers : "continue" \in Verdicts(a) /\ cost' = cost + a.cost
    /\ stuck' = FALSE
    /\ IF seen # "running" /\ turn >= MaxTurns
         THEN pc' = "reap" /\ verdict' = "intervene" /\ UNCHANGED turn
         ELSE pc' = "select" /\ turn' = turn + 1 /\ UNCHANGED verdict
    /\ UNCHANGED <<iter, total, failed, result, status, script, seen,
                   cancelled, procs>>

CheckDone ==
    /\ pc = "check"
    /\ \E a \in Answers : "done" \in Verdicts(a) /\ cost' = cost + a.cost
    /\ stuck' = FALSE
    /\ Leave("reap", "done", FALSE)

CheckIntervene ==
    /\ pc = "check"
    /\ \E a \in Answers : "intervene" \in Verdicts(a) /\ cost' = cost + a.cost
    /\ stuck' = FALSE
    /\ Leave("kill", "intervene", FALSE)

\* killPgroup: SIGTERM to the group.  bash may handle it, an app may outlive it.
Terminate ==
    /\ pc = "kill" /\ pc' = "term"
    /\ bash' \in {bash, [bash EXCEPT ![iter] = IF Exited THEN @ ELSE "exit 1"]}
    /\ app' \in {app, [app EXCEPT ![iter] = IF @ = "up" THEN "gone" ELSE @]}
    /\ UNCHANGED <<iter, turn, spend, report, script, stuck, seen, cancelled>>

\* bash is gone: killPgroup is done, whatever else the group still holds.
Terminated ==
    /\ pc = "term" /\ Exited
    /\ pc' = "reap"
    /\ UNCHANGED <<iter, turn, spend, report, script, stuck, seen, cancelled,
                   procs>>

\* Mutant: bash is given its five seconds, and then nothing more.
KillTermOnly ==
    /\ pc = "term" /\ ~Exited
    /\ pc' = "reap"
    /\ UNCHANGED <<iter, turn, spend, report, script, stuck, seen, cancelled,
                   procs>>

\* SIGKILL after five seconds; nothing in the group survives it.
Kill ==
    /\ pc = "term" /\ ~Exited
    /\ pc' = "reap"
    /\ bash' = [bash EXCEPT ![iter] = "exit 1"]
    /\ app' = [app EXCEPT ![iter] = IF @ = "up" THEN "gone" ELSE @]
    /\ UNCHANGED <<iter, turn, spend, report, script, stuck, seen, cancelled>>

\* Mutant: superviseScript returns without waiting for bash.
ReapNot ==
    /\ pc = "reap" /\ pc' = "after"
    /\ UNCHANGED <<iter, turn, spend, report, script, stuck, seen, cancelled,
                   procs>>

\* The deferred wait.  cmd.Wait closes the pipes, so the readers end with bash.
Reap ==
    /\ pc = "reap" /\ Exited
    /\ pc' = "after"
    /\ UNCHANGED <<iter, turn, spend, report, script, stuck, seen, cancelled,
                   procs>>

-----------------------------------------------------------------------------
(* The processes, and the daemon's signal handler                          *)

LaunchApp(i) ==
    /\ bash[i] = "running" /\ app[i] = "none"
    /\ app' = [app EXCEPT ![i] = "up"]
    /\ UNCHANGED <<place, spend, report, script, stuck, seen, cancelled,
                   bash>>

AppDies(i) ==
    /\ app[i] = "up"
    /\ app' = [app EXCEPT ![i] = "gone"]
    /\ UNCHANGED <<place, spend, report, script, stuck, seen, cancelled,
                   bash>>

\* Its exit and its reaping by the goroutine in cmd.Wait are one step.
BashExits(i) ==
    /\ bash[i] = "running"
    /\ \E code \in {"exit 0", "exit 1"} : bash' = [bash EXCEPT ![i] = code]
    /\ UNCHANGED <<place, spend, report, script, stuck, seen, cancelled, app>>

Cancel ==
    /\ ~cancelled /\ pc # "idle"
    /\ cancelled' = TRUE
    /\ UNCHANGED <<place, spend, report, script, stuck, seen, procs>>

Install ==
    \/ NextIteration \/ Plan \/ StartScript \/ NoScript \/ StartFails
    \/ AfterScript \/ SelectCancelled \/ SelectTurn \/ TurnsUsedUp \/ Snapshot
    \/ CheckContinue \/ CheckDone \/ CheckIntervene
    \/ Terminate \/ Terminated \/ Kill \/ Reap

Environment ==
    \/ CliBlocks \/ Cancel
    \/ \E i \in Iterations : LaunchApp(i) \/ AppDies(i) \/ BashExits(i)

Next == Install \/ Environment

Spec == Init /\ [][Next]_vars

\* The install and the CLI make progress; a script need not end.
FairSpec == Spec /\ WF_vars(Install)

-----------------------------------------------------------------------------

\* superviseScript waits for bash on every path (its deferred function), so no
\* installer runs once an iteration is over: not under the next iteration's
\* script, and not under the daemon that goes on to listen or exits.  (It is about
\* bash: of the group it leads, a child that ignores SIGTERM outlives a bash that
\* obeys it, since killPgroup returns when bash has exited.)
NoInstallerLeft ==
    \A i \in Iterations :
        bash[i] = "running" =>
            i = iter /\ pc \in {"select", "snapshot", "check", "kill", "term",
                                "reap"}

\* Although the gate inside an iteration fires only on an exact zero, the spend
\* of an install never exceeds its budget by more than one iteration's calls.
SpendBounded ==
    Budget > 0 => total + cost <= Budget - 1 + (1 + MaxTurns) * MaxCost
=============================================================================
