# A verified model of agent-ops

agent-ops is a Go daemon that lives next to one application, runs scheduled
agent tasks against it, and is operated over MCP.  This directory holds TLA+
models of the parts of it whose correctness is a matter of order: who may run,
restart, write or wait while something else fails.  Each module is translated
from the Go source (paths below are under `src/`); every definition names the
lines it stands for in the `map` of `PROJECT.json`.

Model checking (TLC) covers small instances; the theorems in the eight modules
`*Proofs` are checked by TLAPS for every value of the constants.  Every safety
invariant and action property of a passing run has one; what is left to the
instances alone is liveness.

    tlc -workers 2 -config MCDispatch.cfg MCDispatch
    tlapm DispatchProofs.tla

Contents: [the system](#the-system) ·
[modules and code](#modules-and-code) ·
[runs](#runs) · [fairness](#fairness) · [proofs](#proofs) ·
[disagreements found](#disagreements-found) ·
[not modelled](#not-modelled) · [plan](#plan)

## The system

One process, `internal/daemon.Run`, wires the parts together in this order:
node identity and MCP token, the SQLite store, the tool registry, outbound MCP
clients, the driver, the runner and scheduler, `Hydrate`, the cron loop, the
first-run bootstrap, and at last the HTTP server for MCP.  A signal cancels one
context; shutdown then drains HTTP requests, stops cron, closes the clients and
the store.

| component | state it keeps | operations | what makes it correct |
|---|---|---|---|
| scheduler (`internal/scheduler`) | cron entries, `entries` map under `mu`; rows of `tasks` | `Hydrate`, `register`, `SetTask`, `RunNow`, `Start`, `Stop` | the cron loop fires exactly what the tasks table says, after any edit, failure and restart |
| task runner (`internal/task`) | `inflight` map | `Run` | one run per task at a time; each run opens one row and closes it once; no path leaks a mark |
| store (`internal/state`) | SQLite: `tasks`, `task_runs`, events, facts | one transaction per call | ids are never reused, a terminal row never changes, readers see a truthful ledger |
| outbound MCP (`internal/mcpclient`) | subprocess, `cmd`/`writer`/`doneCh`, `pend.m`, `closed`; `Manager.stop` | `Boot`, `call`, `readLoop`, `superviseStdio`, `Close` | never two subprocesses, none left behind, every caller of a dead one returns, exited ones are restarted |
| daemon start (`internal/daemon`, `internal/bootstrap`, `internal/node`, `internal/zibby`) | `node.id`, `mcp.token`, `bootstrap.done`; the container's registration | `LoadOrInit`, `EnsureToken`, `MaybeRunFirstRun`, `RegisterPort` | a stale marker never stands in for an install, the control plane knows the container that serves, the token never changes |
| agent_script bootstrap (`internal/bootstrap/agent_script.go`) | iteration, turn, spend; the script's process group; final status | plan, run, supervise, kill, repeat | the spend is bounded, one installer at a time, a signal ends it |
| solo bootstrap (`internal/bootstrap/solo.go`) | version directories, `current`, secret, units, `litestream.yml`, `.failed` | a pipeline of steps, all run again after a crash and at each boot | what may start is a whole version, the secret and the data survive, a failure is reported |
| integrations (`internal/integrate`) | `config.yaml`, the env file with tokens, a lock file | `Add`, `Remove`, `List` | concurrent calls of daemon and CLI lose neither entries nor tokens |
| MCP server and front proxy (`internal/api/mcp`) | `appReady`, `appEverHealthy`, bearer token | tools, `appReverseProxy`, readiness gate, `ohAgentProxy`, `handleSetAuth` | the gate opens, a gated app refuses alike in every state, a crash is not shown as a start |
| access control (`internal/appauth`) | one atomic pointer | `Apply`, `Enforce` | the config in force is the one on record |
| control plane client (`internal/zibby`) | none | `RegisterPortIfNeeded` | sent on every boot; its answer undoes no newer config |
| proxy (`internal/proxy`, `internal/cli/proxy.go`) | Caddyfile, map file; Caddy's routes; NAT | `Setup`, `Sync`, `Up` | the map follows the table and Caddy serves the map |
| mission and facts (`internal/state/mission.go`) | capped list of facts | `AddFact`, `SetStatement` | the cap holds; an index shown to the agent names the fact it reads |
| drivers, tools (`internal/driver`, `internal/tool`) | none between runs | `Run`, tool loop, stream parsing | a run ends at its context; its cost and its error reach the caller |
| run reporter (`internal/runreport`) | none | one POST, three attempts | never disturbs the run |
| config, disk usage, service manager, CLI, MCP bridge, release scripts | files | parsing, printing, one-shot commands | - |

How they interact:

* cron goroutines, HTTP handlers (`agent_run_now`, `agent_set_task`) and the
  first-run bootstrap all enter `Runner.Run`; they share `Scheduler.mu`,
  `Runner.mu` and SQLite;
* a driver inside a run calls tools, some of which are calls through
  `mcpclient` to a subprocess that the supervisor may be restarting;
* the CLI and the daemon's MCP tools write `config.yaml` and the env file from
  two processes;
* `daemon.Run` builds the front, whose readiness gate starts polling, before the
  install that starts the app; the answer to `register-port` and the operator's
  `POST /_zibby_ops/auth` both swap the access config while requests are in
  flight;
* planner and supervisor of an agent_script install are runs of the claude CLI
  inside the daemon's first run; scripts and apps are processes of the container;
* on a solo host, systemd runs the pipeline beside the app and the Litestream of
  earlier runs; on the ingress, beside Caddy;
* the container runtime kills the daemon at any moment and may replace the
  container while the state volume stays.

What is hard about it, and hence what the models are about: interleavings of
ticks, requests and edits; a caller that goes away in the middle; a write that
fails between two others; a process that dies between creating a file and
writing it; a subprocess that is silent, exits, or is restarted while a call is
in flight; a shutdown that races all of these.  `PROJECT.json` lists the
individual hazards with the line each one bites at.

## Modules and code

| module | models | composed of / used by |
|---|---|---|
| `Dispatch` | `scheduler.go`, `runner.go`, the calls of `state.go` and the shutdown of `daemon.go` they rest on | implements `RunLedger` |
| `RunLedger` | what `task_runs` promises its readers (abstract) | instantiated by `Dispatch` |
| `McpClient` | `mcpclient/stdio.go`, `mcpclient/manager.go` | |
| `Boot` | `daemon.Run` up to serving, `bootstrap.go`, `cheatsheet.go`, `node.go`, `zibby/register.go` | |
| `Integrate` | `integrate.go`, `toolApplyTemplate` of `api/mcp/server.go` | |
| `Claudecli` | `driver/claudecli/claudecli.go`: the result of a run as a function of what the CLI prints | used by `AgentScript` |
| `AgentScript` | `bootstrap/agent_script.go` | part of `FirstServe` |
| `Front` | `appauth.go`, and of `api/mcp/server.go` the mux, `appReverseProxy`, the readiness gate, `ohAgentProxy`, `handleSetAuth` | part of `FirstServe` |
| `FirstServe` | `daemon.Run` in agent_script mode: front, install, `register-port`, listening | composes `AgentScript` and `Front` |
| `Solo` | `bootstrap/solo.go`, `cli/bootstrap.go` | |
| `Proxy` | `proxy/proxy.go`, `cli/proxy.go` | |
| `MC*` | instances for TLC | |
| `DispatchProofs`, `CronProofs` | theorems about `Dispatch`: runs and the ledger; the cron table and shutdown | `CronProofs` extends `DispatchProofs` |
| `BootProofs`, `McpClientProofs`, `IntegrateProofs`, `SoloProofs`, `ProxyProofs` | theorems about the module of that name | |
| `FirstServeProofs` | theorems about `FirstServe` and, through it, `AgentScript` and `Front` | |

### Dispatch

A thread is a goroutine that can be inside the scheduler: a cron tick, an
`agent_run_now` request or an `agent_set_task` request.  Its program counter
follows the critical sections of the code, one action per mutex section or
transaction:

    get      scheduler.go makeJob / runner.go   GetTask, GetTaskSkips
    mark     markInflight                       MarkInflight, AlreadyRunning
    start    store.StartRun                     StartRun, StartRunFails
    drive    driver.Run and the outcome switch  DriverReturns
    finish   store.FinishRun                    FinishRun, FinishRunFails
    release  deferred releaseInflight           ReleaseInflight
    sync     SetTask after its UpsertTask       SetTaskSync

`daemon` is where `daemon.Run` is (`off`, `hydrate`, `cron`, `up`, `drain`,
`stop`).  `task` and `runs` are the SQLite tables and survive `Crash` and
`Exit`; `entries`, `cronJobs`, `inflight` and the threads do not.  A run row's id
is its position in `runs`.  `lost` is a history variable: rows whose goroutine
is gone without `FinishRun`.  `ctxDone` is a caller whose HTTP context is
cancelled; `FinishRun` runs under a context of its own, so nothing after the
driver reads it.  Prompts, model overrides and tool lists are left out: no
property tells them apart.

### McpClient

One stdio integration.  `cmd`, `writer` and `doneCh` of `stdioClient` are set and
reset together under `mu`, so one variable `conn` (0 or the number of the
process) stands for the three.  A process that has exited (`alive`) is reaped by
a goroutine of its own (`reaped`: its `doneCh` is closed), and its read loop looks
a channel up under the lock (`ReadLine`) and sends without it (`Deliver`).
`Selects` models the supervisor's `select`, which evaluates `m.stop` at its
start: `Close` closes the channel and sets the field to nil without a lock the
supervisor takes, so a select may see the closed channel or nil.  A send on a
channel that `Close` has closed ends the daemon (`panicked`).

### Boot

The state volume (`node`, `token`, `marker`), the container (`box`, `app`) and the
point the daemon has reached (`pc`).  `os.WriteFile` is two steps, create and
write, because a daemon may die between them.  `setup` is how an instance is
deployed and never changes: bootstrap mode, `verify_prompt`, token from the
environment, outbound MCP clients, the three variables that make it an instance of
the control plane (`integrated`), and the app's port (declared, to be scanned for, or
no port).  `schedOn` may differ from one start to the next.  `Install` stands for a
script, a cheatsheet, an agent_script or an agent run and may end `ok`,
`failed` or `error`: `RunNow` returns an error only when no run took place or its
row could not be finished, so a run that failed is not an error to its caller.
`RegisterPort` sends its one request only where `RegisterPortIfNeeded` does: not
standalone, not without a port (`Resolved`), not under a cancelled context.  `Waiting`
names the places where `Run` waits for something that has no deadline.

### Integrate

Callers live in processes (`Hosts`).  `lockConfig` takes the package mutex of its
process and then the flock; `setup.flock` says whether the file system has
locks, and the model takes a deployment without them only with one process.
`writeConfigAtomic` is one step (rename); the rollback and
`agent_apply_template` use `os.WriteFile`, hence `Truncate` and `Fill`, between
which the process may die (`torn`) or another call may rename the file away
(`orphans`).  An integration is its name and its AuthEnv, a token is named for
the integration it was given for.  `given` is a history variable.

### Claudecli and AgentScript

`Claudecli` is data: a run of the CLI is the lines it prints, whether more follows
than its pipe holds, and its exit code.  `ParseStream` folds the lines as the loop
of `parseStream` does, `Run` is the `driver.Result`, and `Blocks` says which CLI
waits for a reader that has returned.  A line is its kind, its cost and whether its
error has a text; `AgentScript` takes a plan or a verdict only from `Run`.

`AgentScript` follows the install with one `pc`:

    loop      head of the for: iteration cap, context, budget   NextIteration
    plan      the planner's CLI                                 Plan
    read      ReadFile and cmd.Start                            StartScript, NoScript, StartFails
    select    head of a turn: context, budget, turn cap         SelectCancelled, SelectTurn, TurnsUsedUp
    snapshot  is bash still there, is the verify port open      Snapshot
    check     the supervisor's CLI and its verdict              CheckContinue, CheckDone, CheckIntervene
    kill      SIGTERM to the group                              Terminate
    term      five seconds, then SIGKILL                        Terminated, Kill
    reap      the deferred wait for bash                        Reap
    after     the result of superviseScript                     AfterScript

`bash` and `app` are the script of each iteration and the app it launched, which
may outlive it; both change at any moment (`BashExits`, `LaunchApp`, `AppDies`).
`seen` is the snapshot a turn works with while bash goes on.  Files under
`/tmp/agent-ops`, tails and prompts are left out; of the install script only its
existence counts, since an earlier daemon may have left one.

### Front

`access` is the atomic pointer, `ready` and `healthy` the latches `appReady` and
`appEverHealthy`.  A request goes through `Arrive` (access control), `PassGate`
(readiness gate, redirect, port), `Answered` or `DialFails`, and `HandleError`, so
that a config may be swapped, the app die and another request be answered between
any two of them; the routes that bring access control of their own are one step
(`ArriveOps`).  `stored`, `push` and `lost` are the control plane: the config on
record, a POST under way, and whether one was lost.  Addresses and credentials are
two Booleans of a request, "would it pass"; `clean` says whether the mux takes its path
as it is, and answers with its own redirect before any handler runs if not
(`Redirect`).  The gate's goroutine is `gate`: before its request (`Get`), which an app
may answer acceptably or not, or not within the client's four seconds; then before its
test of the deadline (`TestDeadline`), which fails open or asks again.
`DeadlinePasses` is the clock.

### FirstServe

`phase` is where `daemon.Run` is: `install` (an `AgentScript` behaviour), `register`,
`apply` (the answer is in, not yet applied), `serve`.  The clients' requests and the
operator's POSTs reach the daemon only in `serve`.  The gate's poller runs from `Start`
on, but takes its steps after the install: nothing in an install reads the gate, and
what a poll during it could do, open the gate, the deadline still does after it.  A
failed install counts as done while the app's port is open, as in `MaybeRunFirstRun`.
Every start is that of a new container, with the control plane's record kept.

### Solo

One `pc` for the pipeline of `SoloRunner.Run`, one action per step, two where a file
is truncated and filled (`TruncateConfig`, `FillConfig`; `TruncateUnit`, `WriteUnit`)
and where systemd has to be told (`EnableApp`, `RestartApp`).  `StepFails` is any fatal
error; errors the code logs and goes on from are disjuncts of the step itself
(`Restore`, `EnableLitestream`, `Migrate`, `StoreSecret`).  `ver` and `db` are by
version directory; a database is the set of writes in it.  A repository may bring a
database file along (`committed`).  `Crash`, `Reboot` and
`ReplaceMachine` cut a run short anywhere, and since nothing marks a success, `Begin`
is enabled after each of them unless `.failed` exists.  The phases between the first
and the last are one (`progress`), pushes may be lost.  History variables: `served`
(the secrets the app of this machine ran with), `carried` (the replica when the
machine was provisioned), `unsaved`, `unrestored`, `untold` (an error that the code
ignores and that makes the corresponding promise void).  Left out: swap, jemalloc,
package lists, the contents of the Caddyfile and the exec wrapper, a secret file that
was only partly written.

### Proxy

`table` is the control plane's rows, `map` and `caddyfile` the files (`Torn` is one
that was truncated and not filled), `serves` what Caddy has loaded.  `Setup` is
`TruncateConfig` to `ReloadOrRestart`, `Sync` is `Scan` to `Reload`.  The proxy may die
between any two steps and Caddy may stop and start beside it.  `unheard` says that the
last reload of Caddy failed.  A row is what `parseDDBScan` looks at.

## Runs

Passing runs are exhaustive over their instance; the others stop at the
counterexample.

| run | instance | what it shows |
|---|---|---|
| `dispatch` | 1 task, 2 threads, 2 boots, 2 run rows, 1 edit (a new schedule, one that does not parse, a disabled row) | `SingleFlight`, `InflightExact`, `OwnRow`, `RunningIsAccounted`, `DrainedBeforeStop`, `TerminalIsFinal`, that `Dispatch` implements `RunLedger`, and `RunsEnd`, `InflightReleased`, `ShutdownEnds` |
| `dispatch_edits` | 2 tasks, 2 threads, 2 boots, 1 run row, 2 edits one after the other, all rows incl. a cron expression that does not parse | `CronAgrees`, `NoStrayJob`, `ConfigWins` |
| `dispatch_race` | 2 tasks, 2 edits at the same time | `CronAgrees` fails |
| `mcp_client` | 1 tool caller besides Boot and the supervisor, 3 processes, 4 requests | `OneProcess`, `NoOrphan`, `PendExact`, `CallsReturn`, `CloseReturns` |
| `mcp_restart` | 2 processes, 2 requests | `RestartRetried` fails |
| `boot` | 36 deployments (all modes; token minted or given; standalone; outbound clients; port declared, scanned, invalid), 3 containers, 4 starts | `NeverSkipsBlind`, `Reregistered`, `TokenSurvives`, `MarkerVerified`, `BootEnds` |
| `boot_marker` | agent and cheatsheet mode, 1 start | `MarkerEarned` fails |
| `integrate` | 3 callers in 2 processes with a flock, and in 1 without, 2 names, 2 keys, 3 calls | `KeepsOthers`, `KeepsSecrets`, `CallsEnd` |
| `first_serve` | 2 iterations of 1 turn, budget 3, 11 kinds of CLI runs, 2 requests of 5 kinds, one with a path that is not clean, 2 configs and none, 1 change, 1 start | `NoInstallerLeft`, `SpendBounded`, `RefusedUniformly`, `NoFalseStartingUp`, `ConfigFresh`, `GateOpens`, `CancelledInstallEnds` |
| `solo` | 8 deployments, 3 runs, 2 machines, 1 write | `CurrentComplete`, `SecretKept`, `DataFollows`, `FailureReported` |
| `solo_captured` | a Rails app, 2 runs, 1 machine | `Captured` fails |
| `proxy` | 2 hosts, 2 upstreams, 2 modes, 2 changes, 2 starts | `ServesMap`, `MapFollows` |

Each module states one type invariant (`TypeOK`, `FirstServeTypeOK`, `SoloTypeOK`,
`ProxyTypeOK`).  That of `Dispatch` is checked by its run; all of them are proved and
so are not repeated in the runs, which are kept for what could really go wrong.
Every property of a passing run has a mutant in `PROJECT.json`: a
change of one definition, as a plausible bug would make it, under which the same
run fails.  `CronAgrees` appears twice: it holds when edits follow one another and
fails when two of one task overlap.

Why the bounds are enough.

* `Dispatch`: the interactions the properties forbid are between two threads on
  one task or one thread and the daemon.  That marks, rows and entries of several
  tasks are not confused is what the proofs show for any set of tasks; the two runs
  about edits, `dispatch_edits` and `dispatch_race`, have two, one of them not in the
  config.  Two boots let
  rows and edits survive a crash and be read back; two run rows let one be lost and
  the next one opened.  `MaxRuns` bounds the rows ever inserted: a thread whose
  `StartRun` would exceed it can still fail or be cancelled, so it never blocks the
  model's other steps.
* `McpClient`: three processes are two restarts, so a call can begin under one
  process, wait while a second is started and outlive it.  Boot needs two
  requests and a restart one; `MaxCalls` leaves calls of users in between.
* `Boot`: three containers and four starts let a container be replaced before,
  during and after the marker is written, and a start be repeated in one.  The
  deployments throw each switch in turn for every mode: no step reads two of them but
  `RegisterPort`, and there any one of the three keeps the request from being sent.
* `Integrate`: three callers let one wait for the mutex while another waits for
  the flock that a third holds; two names and two keys suffice to lose one
  integration or token through a write that concerns the other.

* `FirstServe`: two iterations let a second script meet what the first one left; a
  turn that is checked and repeated is the turn cap itself, so one turn is enough to
  reach `TurnsUsedUp` with a script that runs and with one that has ended.  Budget 3
  against costs of 0, 1 and 2 is met exactly and overspent.  Two requests are one
  whose answer the other learns from; one change of the config is one that meets the
  answer to `register-port` in either order.  Of the kinds, a browser that passes meets
  the gate and both pages, one on a bare path that does not pass the refusals, an API
  client without credentials the other refusal and, on a path that is not clean, the
  redirect, and one of a bridge the ops routes.  A second start adds nothing that
  survives but the control plane's record, which the initial states already vary.
* `Solo`: three runs and two machines give a run that is cut short, one that repeats
  it, and one on a machine that must restore; one write tells a database from its
  schema.  `MaxRuns` counts over both machines.
* `Proxy`: two hosts let a row appear, move or go while another stays; two changes
  one between two scans and one that undoes it; two starts a torn file that is read.

Deadlock checking is off in all runs: the bounds let every system stop, and a
daemon that is off and may not be started again is a state with no successor.

## Fairness

* `Dispatch`: weak fairness of every thread inside `Run` or `SetTask` (the driver
  obeys the context that `TaskTimeout` cancels, a transaction ends within
  `busy_timeout`; that a driver does is an assumption about what it runs: a child that
  keeps the output pipe of the claude CLI or of the shell tool, `shell.go:93`, after
  its parent was killed keeps the driver reading), of `GraceExpires` (a timer),
  `StopCron` and `Exit` (straight code after a wait). Not of `Tick`, `RunNow`,
  `SetTask`, `Signal`, `Crash` or `Boot`: nothing obliges a client, a schedule or an
  operator to act.
* `McpClient`: goroutines run, dead processes are reaped, the two seconds of
  `Close` and the backoff pass.  No fairness for `ReadLine`, `ProcExits` or
  `CallCancelled`: a server need not answer and a call of `Boot` or of the
  supervisor has no deadline.
* `Boot`: weak fairness of the daemon's steps where each call has a deadline: the port
  probe two minutes, a script its timeout and five seconds, the POST twenty.  None
  where it is `Waiting`: the `initialize` of an outbound server (`manager.go:69`) and
  the agents of an install or verifier have none, so `BootEnds` speaks of every other
  place.
* `Integrate`: file operations end and the wait for the flock has a deadline
  (weak fairness of `Step`); Go's `sync.Mutex` hands the lock to a waiter that
  has starved for a millisecond (strong fairness of `TakeMutex`).
* `FirstServe`: weak fairness of the install's own steps, of the daemon's steps around
  it (one request with a timeout each) and of the gate's poller (every request of it
  has the client's timeout), and that time passes (`Clock`); that the gate opens is
  then the doing of the loop and of its test of the deadline. None for a script, an app,
  the CLI's wish to end, a client or the operator: `CancelledInstallEnds` has to hold
  with a planner that never answers.
* `Solo` has no liveness property: it is a script that systemd may stop at any point.
* `Proxy`: weak fairness of a start (`Restart=always`) and of the loop; strong fairness
  of a scan that answers and of writes that succeed, that is, the table and the disk
  do not refuse for ever.  Nothing is assumed of reloads or of Caddy.

## Proofs

All theorems are about `Spec` (`FirstServeSpec` in its module) with the constants
arbitrary: any set of tasks, threads, callers, schedules, deployments, requests and
hosts, and any value of the bounds.  They rest on the assumption each module states
on its constants, which TLC evaluates in every run, and on no other, but for the three
theorems whose hypothesis is named below:

* `DispatchAssumption`: the special cron values are distinct, and the config's cron
  expressions are ones the parser accepts (`config.Load` has parsed them).
* `McpAssumption`: Boot and the supervisor are not among the users; a first process can
  be started.
* `BootAssumption`, `SoloAssumption`: there is a first container, a first machine.
* `IntegrateAssumption`: there is a name to call about; a spec that brings a token
  names its key (`Add` refuses others).
* `AgentScriptAssumption`: both caps are at least 1, as their defaults are, and a run of
  the CLI costs at most `MaxCost`.  The cost of what `Run` makes of every stream is a
  fold over a sequence, out of the provers' reach; TLC evaluates it on the streams of
  the run.
* `FrontAssumption`: there is a kind of request; "no config" and "malformed" are no
  configs.
* `ProxyAssumption`: "missing", "torn" and "whole" are no routes and differ.

| theorem | property of the run | says |
|---|---|---|
| `DispatchProofs` | | |
| `TypeCorrect` | `TypeOK` | rows only ever hold one of the five statuses, a real task and a real trigger |
| `SingleFlightHolds` | `SingleFlight` | two goroutines are never inside `Run` for one task |
| `InflightExactHolds` | `InflightExact` | no path of `Run` leaks a mark |
| `OwnRowHolds` | `OwnRow` | a goroutine past `StartRun` works on the row it inserted |
| `RunningIsAccountedHolds` | `RunningIsAccounted` | a row says running while somebody works on it, or it was lost |
| `TerminalIsFinalHolds` | `TerminalIsFinal` | no step takes a row out of a terminal status |
| `ImplementsLedger` | `LedgerSpec` | every step of `Dispatch` is a step of `RunLedger` or a stutter |
| `CronProofs` | | |
| `NoStrayJobHolds` | `NoStrayJob` | the cron loop has no job `entries` does not know |
| `ConfigWinsHolds` | `ConfigWins` | a `Hydrate` that ends leaves the config stored and firing |
| `CronAgreesHolds` | `CronAgrees` | with at most one editor, jobs and table agree whenever no edit is half done |
| `CronAgreesApart` | (`CronAgrees`) | so they do with any number, while those that overlap are about different tasks |
| `DrainedBeforeStopHolds` | `DrainedBeforeStop` | requests are drained before `sched.Stop` waits |
| `BootProofs` | | |
| `NeverSkipsBlindHolds` | `NeverSkipsBlind` | no boot serves on the strength of a stale marker |
| `ReregisteredHolds` | `Reregistered` | an integrated daemon that knows its port has named the container it serves in |
| `TokenSurvivesHolds` | `TokenSurvives` | clients are served one token, never the empty one |
| `MarkerVerifiedHolds` | `MarkerVerified` | with a `verify_prompt`, the marker needs the verdict |
| `MarkerEarnedElsewhere` | (`MarkerEarned`) | `boot_marker` finds all there is: any other deployment earns its marker |
| `BootTypeHolds` | | `TypeOK` |
| `McpClientProofs` | | |
| `OneProcessHolds` | `OneProcess` | never two subprocesses of an integration |
| `NoOrphanHolds` | `NoOrphan` | none is left when `Close` has returned |
| `PendExactHolds` | `PendExact` | `pend.m` is the calls in progress |
| `NoCallLostHolds` | | a call waits for the present process or for one that was reaped |
| `McpTypeHolds` | | `TypeOK`, in particular that the numbers of requests suffice |
| `IntegrateProofs` | | |
| `KeepsOthersHolds` | `KeepsOthers` | a call takes no other integration out of `config.yaml` |
| `KeepsSecretsHolds` | `KeepsSecrets` | nor another token out of the env file |
| `NoLockLeftHolds` | | a lock is held only by a call that will release it |
| `IntegrateTypeHolds` | | `TypeOK` |
| `FirstServeProofs` | | |
| `NoInstallerLeftHolds` | `NoInstallerLeft` | no script runs on after its supervision |
| `SpendBoundedHolds` | `SpendBounded` | the budget is overspent by one iteration's calls at most |
| `ConfigFreshHolds` | `ConfigFresh` | `register-port` undoes no newer config |
| `RefusedUniformlyHolds` | `RefusedUniformly` | a gated app refuses alike in every state, for every path the mux takes as it is |
| `NoFalseStartingUpHolds` | `NoFalseStartingUp` | a crash is not shown as a start |
| `FirstServeTypeHolds` | | `FirstServeTypeOK` |
| `SoloProofs` | | |
| `FailureReportedHolds` | `FailureReported` | a failed machine has said so |
| `CurrentCompleteHolds` | `CurrentComplete` | what may start is a version whose build ended |
| `SecretKeptHolds` | `SecretKept` | the app of a machine runs with one secret |
| `DataFollowsHolds` | `DataFollows` | the data of the last machine is in the database the app serves |
| `SoloTypeHolds` | | `SoloTypeOK` |
| `ProxyProofs` | | |
| `ServesMapHolds` | `ServesMap` | Caddy serves the map between two ticks |
| `ProxyTypeHolds` | | `ProxyTypeOK` |

The three hypotheses:

* `KeepsOthersHolds` and `KeepsSecretsHolds` assume `Lockable`: the file system has locks
  or one process makes all the calls.  `lockConfig` goes on without a flock where the
  file system has none, and its mutex is of one process; with the CLI and the daemon on
  such a volume both properties are false.  `NoLockLeftHolds` needs no hypothesis.
* `CronAgreesHolds` assumes `MaxEditors <= 1`, the instance of `dispatch_edits`;
  `CronAgreesApart` has the weaker `[]EditsApart` instead.  That much is needed:
  `dispatch_race` is two edits of one task.
* `MarkerEarnedElsewhere` assumes `Judged`: a deployment with the mode `agent` has a
  `verify_prompt`, and none has the mode `cheatsheet`.  These are the deployments of
  `boot_marker`, where the property is violated.

The arguments, by the inductive invariant of each.

`DispatchProofs`.  The invariant adds two facts to its properties.  `RunKinds`: a thread
inside `Run` serves a tick or a request, never an edit; without it a row could be
opened with a trigger the ledger does not know.  `LostRows`: a lost row exists and
nobody owns it; without it a crash could "lose" an id a later run is given.
`SingleFlight` and `InflightExact` need each other: the mark admits a second
thread unless `inflight` holds the name of the first, and the release of one
thread would unmark the other.  `TerminalIsFinal` follows from `OwnRow`, since
`FinishRun` touches only the row the thread owns, and that one says `running`.
For the refinement, `SingleFlight` makes the thread that `LiveRow` chooses the
only candidate (`LiveRowIs`); then `StartRun` is `Begin`, `FinishRun` is `End`, a
failed `FinishRun`, an exit or a crash is `Abandon`, and all else stutters.

`CronProofs`.  `TableInv`: no two tasks share a nonzero entry id and none is above
`lastEntry`, so removing one entry removes one job.  `HydrateInv`: what `Hydrate` has
merged is what is stored, a task it has not come to has no job and one it has agrees
with its row; at the end that is the config's row, whatever was stored before.
`AgreeInv` carries the agreement on: the only tasks on which the tables may differ are
those of a request between its two critical sections, and that request holds the row
that is stored, until a second one about the same task overwrites it.

`BootProofs`.  `TokenInv` says that a token is minted exactly when `mcp.token` is
complete, that the daemon past `EnsureToken` holds that token, and that a client ever
served was served it: so a boot that finds the file complete cannot mint another, and
one that finds it empty has served nobody.  `PathInv` says what a boot knows on its way:
at `mark` the container has been named to the control plane if the deployment is
integrated, its port declared and no signal has come, at `register` with a `verify_prompt` the
verdict is in, at `reregister` the port was seen open.  `EarnedInv` adds that an install
ends `failed` without an error in two modes only.

`McpClientProofs`.  `RestartInv`: while the supervisor restarts, the process it replaces
has been reaped, and before Boot has ended there is no supervisor; so nothing starts
beside a live process.  `CloseInv`: the process `Close` has picked up is the only one
alive, since a client that is closed starts none.  `IdInv` gives each request a number
of its own, without which one call's return could take another's channel out of
`pend.m`.  `NoCallLost` is what wakes a caller: a restart moves on only from a reaped
process, whose `doneCh` is closed already.  `BudgetInv` counts the requests against the
calls of users, of Boot and of the restarts so far.

`IntegrateProofs`.  `LockInv`: a call past its mutex holds it and, where there are locks,
a call inside holds the flock; with `Lockable` only one is inside (`LockExcludes`).
`EditInv` then says that what it has read is what is there: the file holds nothing that
`prev` does not but the call's own integration, and the env file is its `snap`.  A
rollback writes `prev`, the other direction of the same fact.  `NoLockLeft` is the
converse of `LockInv`: whoever holds a lock is a call inside.  `FoundInv` types the
rollback of a `Remove`, which puts back what it has found.

`FirstServeProofs`.  The install's invariants are shown for its own steps and carried
over the steps of the daemon, the front and the clients, which leave its variables
alone (`InstallSteps`); `PhaseInv` says that a start finds no install under way.
`InstallerInv`: bash runs only while its iteration is supervised.  `SpendInv` is the sum
at each place: an iteration begins under the budget, the planner adds one cost and
every turn at most one more, so at the head of the loop the total is under
`Budget + MaxCost + MaxTurns * MaxCost`.  `ConfigInv`: while an answer is under way, it
is the config on record, or the newer one's POST is still to come or was lost.
`RefusedInv`: a request that goes on past access control has a clean path and is due
nothing, so whatever answers it later is no refusal, and one that is due an answer
already has it.
`HealthyInv`: an answer of the app means that the latch `appEverHealthy` was set, and a
request that came after it has passed the gate or there is none; from then on a failed
dial is reported as such.

`SoloProofs`.  `UsedInv`: the version directories in use are `1 .. k`, with `k` at most
the number of runs, so `nextVersionDir` returns one that is new.  `BuiltInv`: what a
step finds in that directory, and that `current` and the running app have a built one.
`SecretInv`: as long as the file could be written, the run, the unit, systemd and the
app know no secret but the one in it; `DataInv`: as long as no restore failed and the
source brings no database, every
database there is, the one in the run's directory and the one under `current`, contain
what the replica held when the machine came.  `MarkerInv`: the marker is written after
the push, and no run begins under it.

`ProxyProofs`.  `ServesInv`: where Caddy has been told of the map since it was last
written (`Told`), it serves it, unless it is down or its reload failed.

Only model-checked:

* Liveness (`RunsEnd`, `InflightReleased`, `ShutdownEnds`, `CallsReturn`, `CloseReturns`,
  `BootEnds`, `CallsEnd`, `GateOpens`, `CancelledInstallEnds`, `MapFollows`): fairness and
  ENABLED are outside the prover's temporal logic.  For some of them the state that
  would make waiting endless is proved not to occur: a mark without a run
  (`InflightExact`), a call that nothing wakes (`NoCallLost`), a lock without a holder
  (`NoLockLeft`).
* What `ParseStream` computes for every stream: a fold over a sequence, which needs
  induction over data.  No module uses a RECURSIVE operator.

## Disagreements found

Each is a run that TLC refutes; the property states what the quoted line says.

| run | code | says | does |
|---|---|---|---|
| `dispatch_race` | `internal/scheduler/scheduler.go:229` | `:221` "atomically upserts + re-registers (or removes) a task" | two concurrent calls may commit the row in one order and change the cron table in the other |
| `mcp_restart` | `internal/mcpclient/manager.go:140` | `:19` "restarted with exponential backoff" | after one restart that fails to exec, the supervisor waits on a nil channel |
| `boot_marker` | `internal/bootstrap/bootstrap.go:300` | `:252` "Don't write the marker on failure" | a first run that failed, timed out or was cancelled is no error to `MaybeRunFirstRun`, which writes the marker |
| `solo_captured` | `internal/bootstrap/solo.go:849` | `:815` "before the app starts, so the WAL is captured from the first write" | `enable --now` leaves a Litestream that runs with the config of an earlier run: the app's database is not replicated |

Others, which the models reach or the translation met, without a run of their own:

* A cron expression that does not parse is stored first (`scheduler.go:229`); the next
  `Hydrate`, and with it the daemon, fails on it, against `scheduler.go:6` "so MCP-side
  edits survive restart".  In `Dispatch`: `SetTask`, `HydrateFails`.
* A stdio server that starts and never answers `initialize` blocks the boot
  (`manager.go:69`), against `daemon.go:96` "so a bad integration cannot prevent the
  daemon from starting".  In `McpClient`: `BootCall`.
* `Remove` deletes an AuthEnv that another integration also names
  (`integrate.go:245`), against `:164` "so the daemon never reads a config that
  references a missing AuthEnv secret".  In `Integrate`, with two specs of one key.
* After a `done` verdict on a script that still runs, `superviseScript` waits for it in
  its deferred function (`agent_script.go:731`): the daemon never listens and does not
  see a signal, against `:603-604` "Returns when the supervisor says done/intervene"
  and `:870-871` "If bash is still running (e.g. tailing a log file), we leave it".  In
  `AgentScript`: `CheckDone`, then `Reap`; `CancelledInstallEnds` exempts it.
* The budget gate inside an iteration fires on an exact zero only
  (`agent_script.go:757`), while its comment (`:585-588`) has "<= 0" stop the polling;
  `SpendBounded` states the bound that remains.
* A reload of Caddy that failed is not repeated (`proxy.go:244-250`), against
  `proxy.go:326-328` "the proxy will keep retrying via the sync loop"; `ServesMap`
  exempts it.
* An error result of the claude CLI without a text counts as a success, and the cost
  of a CLI that exits non-zero is not counted (`Claudecli`, `Run`).
* A `register-port` that was lost is not repeated, so the config of
  `register.go:86-90`, which "survives a task restart", is unset until the next start;
  `ConfigFresh` is about boots that were answered.
* A path that is not clean (`//x`, `/a/../b`) is answered by `http.ServeMux`
  (`server.go:182`) with a 301 whose Location is the path made clean, before access
  control runs, against `server.go:373-376` "a gated app returns 401/403 UNIFORMLY for
  every path and leaks nothing pre-auth (not even [...] a reflected redirect
  Location)".  In `Front`: `Redirect`; `RefusedUniformly` is about the other paths.
* Without a declared port, an app that does not listen when the daemon looks is not
  registered (`register.go:55-59`) before a later start, although the daemon serves: the
  wait before it (`bootstrap.go:383-385`) ends without one.  `Reregistered` is about a
  declared port.
* With a ready path but no declared port the gate has no poller (`server.go:368`), so
  its page is all a browser is ever shown, against `:273` "a mis-configured path can
  never permanently mask a working app"; there is no port to forward to either.
  `GateOpens` is about both being set.
* `killPgroup` returns when bash has exited (`agent_script.go:719-721`), so a child of
  the script that ignores SIGTERM lives on, against `:710-712` "the WHOLE pgroup [...]
  dies".  `NoInstallerLeft` is about bash.
* A map that was left torn and a table that is then emptied look alike to `Sync`
  (`proxy.go:242-246`), which reloads nothing; `ServesMap` is not about a torn map.
* Solo: no step builds an Elixir release or copies Cargo's target to `./app` ("We
  compiled to ./app above", `solo.go:1242`), and a static site is `sleep infinity`
  behind a Caddyfile that forwards to its port ("served by Caddy directly", `:1245`):
  these never pass the health check (`NeverListens`).  A restore that fails is not
  fatal, and the fresh database is then replicated over the old one.  So is a database
  file that is committed in the repository: the restore takes it for the app's
  (`solo.go:911`), against `:872` "data follows"; `DataFollows` exempts both.

## Not modelled

* Two daemons on one state volume, while one container is being replaced by the
  next: nothing in the code locks the volume, and `Boot` replaces at once.
* The HTTP flavour of outbound MCP, which keeps no state between requests.
* Mission and facts, event appends, the bound on history queries: see the plan.
* Driver internals other than the claude CLI's stream: what a driver answers, and
  when, is the environment of `Dispatch`.
* The JSON-RPC framing and the read-only tools of the MCP server; sticky error texts
  and the numbers in final-status.json of an agent_script install.
* NAT and parameter lookups of the proxy: idempotent commands that no property tells
  apart; the lookups change which certificates Caddy asks for.
* Memory tuning of the solo bootstrap.  Its swap commands are one shell line whose
  precedence lets an fstab entry be appended on any failure; nothing else reads it.
* Config parsing, disk usage, the service manager, the CLI's printing and
  prompts, release scripts: no state, or pure I/O.
* The order of first run and first check: `src/README.md:178` says that
  `discover_stack` runs "once before the first scheduled check fires", while the
  cron loop is started before the bootstrap (`internal/daemon/daemon.go:146`).  It
  needs the composition of `Boot` and `Dispatch` planned below.

## Plan

Done: `Dispatch` with `RunLedger`, `McpClient`, `Boot`, `Integrate`, `FirstServe`
with `Claudecli`, `AgentScript` and `Front`, `Solo`, `Proxy`, and a theorem for each
of their safety invariants and action properties.  Next, more theorems:

1. Abstract specifications of `Integrate` (two maps that a call changes in one step) and
   of the token and marker files of `Boot`, with the refinements.
2. The safe halves of the liveness properties that have none yet: that a gate which has
   not opened has a poller (`GateOpens`), that a cancelled install is at a
   step that reads its context (`CancelledInstallEnds`), that the map of a proxy between
   two ticks is the table of its last scan (`MapFollows`).
3. `Claudecli`: that one line more never lowers the cost `ParseStream` has found.

Modules that remain:

* `Mission`: the capped fact list and the index shown in a prompt, with two runs.  An
  abstract specification (a list whose newest entries are kept) and a refinement.
* `FirstCheck`: `Boot` and `Dispatch` together, for the order of first run and first
  tick and for a bootstrap task that carries the name of a schedule.
* the tool loop of the API driver and the parsing of codex, as functions checked
  against a reference definition; `Bridge`, the stdio to HTTPS bridge under `clients/`.
