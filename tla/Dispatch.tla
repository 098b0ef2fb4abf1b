------------------------------ MODULE Dispatch ------------------------------
(***************************************************************************)
(* How one agent-ops daemon dispatches task runs: internal/scheduler       *)
(* (Hydrate, register, makeJob, SetTask, RunNow, Stop), internal/task      *)
(* (Runner.Run) and the parts of internal/state and internal/daemon they   *)
(* rest on.                                                                *)
(*                                                                         *)
(* Every goroutine that can be inside the scheduler is a thread: a cron    *)
(* tick, an agent_run_now request, an agent_set_task request.  A thread    *)
(* takes one action per critical section or database transaction, so the   *)
(* interleavings are those of the mutexes and of SQLite.  The SQLite rows  *)
(* survive a crash, everything else is lost with the process.              *)
(***************************************************************************)
EXTENDS Naturals, Sequences, FiniteSets

CONSTANTS
    Tasks,       \* task names
    Threads,     \* goroutines that can be inside the scheduler at a time
    Schedules,   \* cron expressions the parser accepts
    BadCron,     \* a cron expression the parser rejects
    NoCron,      \* the empty cron expression
    Config,      \* the rows of cfg.Schedules: a function on some of the tasks
    EditRows,    \* the rows agent_set_task is called with
    MaxRuns,     \* bound: run rows ever inserted
    MaxEdits,    \* bound: agent_set_task requests
    MaxEditors,  \* bound: agent_set_task requests in progress together
    MaxBoots     \* bound: times the process is started

Crons == Schedules \cup {BadCron, NoCron}
Row   == [cron : Crons, enabled : BOOLEAN]
NoRow == [cron |-> NoCron, enabled |-> FALSE, absent |-> TRUE]

ASSUME DispatchAssumption ==
    /\ BadCron \notin Schedules /\ NoCron \notin Schedules /\ BadCron # NoCron
    /\ Tasks # {} /\ DOMAIN Config \subseteq Tasks
    \* config.Load has parsed every cron expression of cfg.Schedules
    /\ \A n \in DOMAIN Config : Config[n] \in [cron : Schedules, enabled : BOOLEAN]
    /\ EditRows \subseteq Row
    /\ MaxRuns \in Nat /\ MaxEdits \in Nat /\ MaxEditors \in Nat /\ MaxBoots \in Nat

VARIABLES
    \* SQLite: survives the process
    task,      \* tasks table, NoRow where the name is absent
    runs,      \* task_runs table, in insertion order; ids are fresh
    \* the process
    daemon,    \* where daemon.Run is
    gate,      \* schedulerGate: a runner was built and the cron loop started
    grace,     \* shutdown's 30 seconds are not over
    byName,    \* Hydrate's merged map
    toUpsert,  \* config schedules Hydrate has still to write
    toRegister,\* tasks Hydrate has still to look at
    entries,   \* Scheduler.entries: task name -> cron entry id, 0 for none
    cronJobs,  \* the jobs robfig/cron holds
    inflight,  \* Runner.inflight
    pc,        \* where each thread is
    job,       \* what each thread carries
    ctxDone,   \* threads whose caller's context is cancelled
    \* counters that bound the model, and a history variable
    lastEntry, edits, boots,
    lost       \* ids of rows whose goroutine is gone without FinishRun

store   == <<task, runs>>
hydrate == <<byName, toUpsert, toRegister>>
cron    == <<entries, cronJobs, lastEntry>>
threads == <<pc, job, ctxDone>>
vars    == <<store, daemon, gate, grace, hydrate, cron, inflight, threads,
             edits, boots, lost>>

Terminal == {"completed", "failed", "timeout", "canceled"}
Triggers == {"schedule", "manual"}
RunRow   == [task : Tasks, trigger : Triggers, status : Terminal \cup {"running"}]
Daemon   == {"off", "hydrate", "cron", "up", "drain", "stop"}
Label    == {"idle", "get", "mark", "start", "drive", "finish", "release", "sync"}
Job      == [name : Tasks, trigger : Triggers \cup {"edit"},
             row : Row \cup {NoRow}, id : Nat, status : Terminal]

NoJob == [name |-> CHOOSE n \in Tasks : TRUE, trigger |-> "edit",
          row |-> NoRow, id |-> 0, status |-> "failed"]

Critical   == {"start", "drive", "finish", "release"}
Recorded   == {"drive", "finish"}   \* the thread's row is in task_runs, running
Busy       == {t \in Threads : pc[t] # "idle"}
Requests   == {t \in Busy : job[t].trigger # "schedule"}
Editors    == {t \in Busy : job[t].trigger = "edit"}
Ticks      == {t \in Busy : job[t].trigger = "schedule"}
Owned      == {job[t].id : t \in {u \in Threads : pc[u] \in Recorded}}

-----------------------------------------------------------------------------
Init ==
    /\ task = [n \in Tasks |-> NoRow]
    /\ runs = <<>>
    /\ daemon = "off" /\ gate = FALSE /\ grace = TRUE
    /\ byName = [n \in Tasks |-> NoRow] /\ toUpsert = {} /\ toRegister = {}
    /\ entries = [n \in Tasks |-> 0] /\ cronJobs = {}
    /\ inflight = {}
    /\ pc = [t \in Threads |-> "idle"] /\ job = [t \in Threads |-> NoJob]
    /\ ctxDone = {}
    /\ lastEntry = 0 /\ edits = 0 /\ boots = 0
    /\ lost = {}

Goto(t, l) == pc' = [pc EXCEPT ![t] = l]

\* A goroutine returns.
Return(t) ==
    /\ pc' = [pc EXCEPT ![t] = "idle"]
    /\ job' = [job EXCEPT ![t] = NoJob]
    /\ ctxDone' = ctxDone \ {t}

\* The process ends: memory is lost, rows in flight keep status 'running'.
ProcessEnds ==
    /\ daemon' = "off" /\ gate' = FALSE /\ grace' = TRUE
    /\ byName' = [n \in Tasks |-> NoRow] /\ toUpsert' = {} /\ toRegister' = {}
    /\ entries' = [n \in Tasks |-> 0] /\ cronJobs' = {} /\ lastEntry' = 0
    /\ inflight' = {}
    /\ pc' = [t \in Threads |-> "idle"] /\ job' = [t \in Threads |-> NoJob]
    /\ ctxDone' = {}
    /\ lost' = lost \cup Owned
    /\ UNCHANGED <<store, edits, boots>>

-----------------------------------------------------------------------------
(* The cron table, changed only under Scheduler.mu                         *)

\* Mutant: the job being replaced stays in the cron loop.
RegisterKeepsOld(n, c) ==
    /\ lastEntry' = IF c \in Schedules THEN lastEntry + 1 ELSE lastEntry
    /\ entries' = [entries EXCEPT ![n] = IF c \in Schedules THEN lastEntry' ELSE 0]
    /\ cronJobs' = cronJobs
                   \cup {[id |-> lastEntry', name |-> n, cron |-> x] : x \in {c} \cap Schedules}

\* register: the old entry goes first, and stays gone when AddFunc fails.
Register(n, c) ==
    /\ lastEntry' = IF c \in Schedules THEN lastEntry + 1 ELSE lastEntry
    /\ entries' = [entries EXCEPT ![n] = IF c \in Schedules THEN lastEntry' ELSE 0]
    /\ cronJobs' = {j \in cronJobs : j.id # entries[n]}
                   \cup {[id |-> lastEntry', name |-> n, cron |-> x] : x \in {c} \cap Schedules}

Unregister(n) ==
    /\ entries' = [entries EXCEPT ![n] = 0]
    /\ cronJobs' = {j \in cronJobs : j.id # entries[n]}
    /\ UNCHANGED lastEntry

-----------------------------------------------------------------------------
(* The daemon's life                                                       *)

\* daemon.Run up to Hydrate's ListTasks.
Boot(g) ==
    /\ daemon = "off" /\ boots < MaxBoots
    /\ daemon' = "hydrate" /\ gate' = g /\ boots' = boots + 1
    /\ byName' = task
    /\ toUpsert' = DOMAIN Config /\ toRegister' = Tasks
    /\ UNCHANGED <<store, grace, cron, inflight, threads, edits, lost>>

\* Mutant: the stored version of a config task is the one registered.
HydrateUpsertStale(n) ==
    /\ daemon = "hydrate" /\ n \in toUpsert
    /\ task' = [task EXCEPT ![n] = Config[n]]
    /\ toUpsert' = toUpsert \ {n}
    /\ UNCHANGED <<runs, daemon, gate, grace, byName, toRegister, cron, inflight,
                   threads, edits, boots, lost>>

\* Hydrate's first loop: config-defined tasks overwrite the persisted ones.
HydrateUpsert(n) ==
    /\ daemon = "hydrate" /\ n \in toUpsert
    /\ task' = [task EXCEPT ![n] = Config[n]]
    /\ byName' = [byName EXCEPT ![n] = Config[n]]
    /\ toUpsert' = toUpsert \ {n}
    /\ UNCHANGED <<runs, daemon, gate, grace, toRegister, cron, inflight,
                   threads, edits, boots, lost>>

\* Hydrate's second loop: one enabled row of the merged map is registered.
HydrateRegister(n) ==
    /\ daemon = "hydrate" /\ toUpsert = {}
    /\ n \in toRegister /\ byName[n].enabled
    /\ byName[n].cron \in Schedules
    /\ Register(n, byName[n].cron)
    /\ toRegister' = toRegister \ {n}
    /\ UNCHANGED <<store, daemon, gate, grace, byName, toUpsert, inflight,
                   threads, edits, boots, lost>>

\* register fails, so Hydrate fails, so daemon.Run returns its error.
HydrateFails(n) ==
    /\ daemon = "hydrate" /\ toUpsert = {}
    /\ n \in toRegister /\ byName[n].enabled
    /\ byName[n].cron \notin Schedules
    /\ ProcessEnds

\* Hydrate returns; the cron loop starts if the gate is open.
HydrateDone ==
    /\ daemon = "hydrate" /\ toUpsert = {}
    /\ \A n \in toRegister : ~byName[n].enabled
    /\ daemon' = "cron"
    /\ byName' = [n \in Tasks |-> NoRow] /\ toRegister' = {}
    /\ UNCHANGED <<store, gate, grace, toUpsert, cron, inflight, threads,
                   edits, boots, lost>>

\* First-run bootstrap is over: the HTTP server starts to listen.
Serve ==
    /\ daemon = "cron" /\ Requests = {}
    /\ daemon' = "up"
    /\ UNCHANGED <<store, gate, grace, hydrate, cron, inflight, threads,
                   edits, boots, lost>>

\* SIGTERM reaches the main loop, which enters httpSrv.Shutdown.
Signal ==
    /\ daemon = "up"
    /\ daemon' = "drain"
    /\ UNCHANGED <<store, gate, grace, hydrate, cron, inflight, threads,
                   edits, boots, lost>>

\* The context both halves of shutdown wait under runs out.
GraceExpires ==
    /\ daemon \in {"drain", "stop"} /\ grace
    /\ grace' = FALSE
    /\ UNCHANGED <<store, daemon, gate, hydrate, cron, inflight, threads,
                   edits, boots, lost>>

\* Mutant: the cron loop is stopped before the requests are drained.
StopCronFirst ==
    /\ daemon = "drain"
    /\ daemon' = "stop"
    /\ UNCHANGED <<store, gate, grace, hydrate, cron, inflight, threads,
                   edits, boots, lost>>

\* Mutant: the cron loop is stopped once nothing runs, however long that takes.
StopCronWhenQuiet ==
    /\ daemon = "drain" /\ Busy = {}
    /\ daemon' = "stop"
    /\ UNCHANGED <<store, gate, grace, hydrate, cron, inflight, threads,
                   edits, boots, lost>>

\* httpSrv.Shutdown returns, sched.Stop stops the cron loop.  Until here the
\* cron loop keeps firing.
StopCron ==
    /\ daemon = "drain" /\ (Requests = {} \/ ~grace)
    /\ daemon' = "stop"
    /\ UNCHANGED <<store, gate, grace, hydrate, cron, inflight, threads,
                   edits, boots, lost>>

\* sched.Stop returns and daemon.Run with it.
Exit ==
    /\ daemon = "stop" /\ (Ticks = {} \/ ~grace)
    /\ ProcessEnds

Crash ==
    /\ daemon # "off"
    /\ ProcessEnds

-----------------------------------------------------------------------------
(* Runs                                                                    *)

\* robfig/cron starts a goroutine for one of its jobs.
Tick(t) ==
    /\ daemon \in {"cron", "up", "drain"} /\ gate
    /\ pc[t] = "idle"
    /\ \E j \in cronJobs :
         job' = [job EXCEPT ![t] = [NoJob EXCEPT !.name = j.name,
                                                 !.trigger = "schedule"]]
    /\ Goto(t, "get")
    /\ UNCHANGED <<store, daemon, gate, grace, hydrate, cron, inflight, ctxDone,
                   edits, boots, lost>>

\* agent_run_now, or the first-run bootstrap before the server listens.  With
\* the gate closed RunNow only returns an error.
RunNow(t, n) ==
    /\ daemon = "up" \/ (daemon = "cron" /\ Requests = {})
    /\ gate
    /\ pc[t] = "idle"
    /\ job' = [job EXCEPT ![t] = [NoJob EXCEPT !.name = n, !.trigger = "manual"]]
    /\ Goto(t, "get")
    /\ UNCHANGED <<store, daemon, gate, grace, hydrate, cron, inflight, ctxDone,
                   edits, boots, lost>>

\* The HTTP client of an agent_run_now request goes away, or SIGTERM cancels
\* the first-run bootstrap's context.  Nothing reads the context after the driver.
CallerGone(t) ==
    /\ pc[t] \in {"get", "mark", "start", "drive"}
    /\ job[t].trigger = "manual" /\ t \notin ctxDone
    /\ ctxDone' = ctxDone \cup {t}
    /\ UNCHANGED <<store, daemon, gate, grace, hydrate, cron, inflight, pc, job,
                   edits, boots, lost>>

\* GetTask succeeds; a tick goes on only if the row is enabled now.
GetTask(t) ==
    /\ pc[t] = "get" /\ t \notin ctxDone
    /\ task[job[t].name] # NoRow
    /\ job[t].trigger = "schedule" => task[job[t].name].enabled
    /\ Goto(t, "mark")
    /\ UNCHANGED <<store, daemon, gate, grace, hydrate, cron, inflight, job,
                   ctxDone, edits, boots, lost>>

\* The task is absent, disabled for a tick, or the query fails.
GetTaskSkips(t) ==
    /\ pc[t] = "get"
    /\ Return(t)
    /\ UNCHANGED <<store, daemon, gate, grace, hydrate, cron, inflight,
                   edits, boots, lost>>

\* Mutant: a busy task is not noticed.
MarkInflightUnchecked(t) ==
    /\ pc[t] = "mark"
    /\ inflight' = inflight \cup {job[t].name}
    /\ Goto(t, "start")
    /\ UNCHANGED <<store, daemon, gate, grace, hydrate, cron, job, ctxDone,
                   edits, boots, lost>>

\* markInflight, the single-flight guard.
MarkInflight(t) ==
    /\ pc[t] = "mark" /\ job[t].name \notin inflight
    /\ inflight' = inflight \cup {job[t].name}
    /\ Goto(t, "start")
    /\ UNCHANGED <<store, daemon, gate, grace, hydrate, cron, job, ctxDone,
                   edits, boots, lost>>

\* A run of the task is in flight: this one is skipped with an error.
AlreadyRunning(t) ==
    /\ pc[t] = "mark" /\ job[t].name \in inflight
    /\ Return(t)
    /\ UNCHANGED <<store, daemon, gate, grace, hydrate, cron, inflight,
                   edits, boots, lost>>

NewRunRow(t) == [task |-> job[t].name, trigger |-> job[t].trigger,
                 status |-> "running"]

\* Mutant: Run goes on under the id of the row before.
StartRunOldId(t) ==
    /\ pc[t] = "start" /\ t \notin ctxDone
    /\ Len(runs) < MaxRuns
    /\ runs' = Append(runs, NewRunRow(t))
    /\ job' = [job EXCEPT ![t].id = Len(runs)]
    /\ Goto(t, "drive")
    /\ UNCHANGED <<task, daemon, gate, grace, hydrate, cron, inflight, ctxDone,
                   edits, boots, lost>>

\* StartRun commits a row under a fresh id.
StartRun(t) ==
    /\ pc[t] = "start" /\ t \notin ctxDone
    /\ Len(runs) < MaxRuns
    /\ runs' = Append(runs, NewRunRow(t))
    /\ job' = [job EXCEPT ![t].id = Len(runs) + 1]
    /\ Goto(t, "drive")
    /\ UNCHANGED <<task, daemon, gate, grace, hydrate, cron, inflight, ctxDone,
                   edits, boots, lost>>

\* Mutant: the release is deferred only once the row is there.
StartRunFailsHeld(t) ==
    /\ pc[t] = "start"
    /\ Return(t)
    /\ UNCHANGED <<store, daemon, gate, grace, hydrate, cron, inflight,
                   edits, boots, lost>>

\* StartRun fails: no row, and Run returns through releaseInflight.
StartRunFails(t) ==
    /\ pc[t] = "start"
    /\ Goto(t, "release")
    /\ UNCHANGED <<store, daemon, gate, grace, hydrate, cron, inflight, job,
                   ctxDone, edits, boots, lost>>

\* Mutant: finalStatus has no default.
OutcomesOpen(t) == IF t \in ctxDone THEN {"canceled", "timeout"}
                   ELSE {"running", "failed", "timeout"}

\* What Run's switch can conclude: the contexts outrank the driver.
Outcomes(t) == IF t \in ctxDone THEN {"canceled", "timeout"}
               ELSE {"completed", "failed", "timeout"}

\* Mutant: a cancelled run returns without FinishRun.
DriverReturnsEarly(t) ==
    /\ pc[t] = "drive"
    /\ \E s \in Outcomes(t) :
         /\ job' = [job EXCEPT ![t].status = s]
         /\ Goto(t, IF s = "canceled" THEN "release" ELSE "finish")
    /\ UNCHANGED <<store, daemon, gate, grace, hydrate, cron, inflight, ctxDone,
                   edits, boots, lost>>

\* Mutant: no TaskTimeout, only the caller can end a driver that hangs.
DriverReturnsNoTimeout(t) ==
    /\ pc[t] = "drive" /\ t \in ctxDone
    /\ \E s \in Outcomes(t) : job' = [job EXCEPT ![t].status = s]
    /\ Goto(t, "finish")
    /\ UNCHANGED <<store, daemon, gate, grace, hydrate, cron, inflight, ctxDone,
                   edits, boots, lost>>

\* Driver.Run returns, at the latest when TaskTimeout cancels its context.
DriverReturns(t) ==
    /\ pc[t] = "drive"
    /\ \E s \in Outcomes(t) : job' = [job EXCEPT ![t].status = s]
    /\ Goto(t, "finish")
    /\ UNCHANGED <<store, daemon, gate, grace, hydrate, cron, inflight, ctxDone,
                   edits, boots, lost>>

\* Mutant: the update selects by task, not by id and status.
FinishRunByTask(t) ==
    /\ pc[t] = "finish"
    /\ runs' = [i \in DOMAIN runs |->
                   IF runs[i].task = job[t].name
                   THEN [runs[i] EXCEPT !.status = job[t].status] ELSE runs[i]]
    /\ Goto(t, "release")
    /\ UNCHANGED <<task, daemon, gate, grace, hydrate, cron, inflight, job,
                   ctxDone, edits, boots, lost>>

\* FinishRun, under a context of its own: the caller's does not matter.
FinishRun(t) ==
    /\ pc[t] = "finish"
    /\ job[t].id \in DOMAIN runs /\ runs[job[t].id].status = "running"
    /\ runs' = [runs EXCEPT ![job[t].id].status = job[t].status]
    /\ Goto(t, "release")
    /\ UNCHANGED <<task, daemon, gate, grace, hydrate, cron, inflight, job,
                   ctxDone, edits, boots, lost>>

\* FinishRun fails or its 5 seconds run out: the row stays 'running'.
FinishRunFails(t) ==
    /\ pc[t] = "finish"
    /\ lost' = lost \cup {job[t].id}
    /\ Goto(t, "release")
    /\ UNCHANGED <<store, daemon, gate, grace, hydrate, cron, inflight, job,
                   ctxDone, edits, boots>>

\* Run returns: the deferred releaseInflight.
ReleaseInflight(t) ==
    /\ pc[t] = "release"
    /\ inflight' = inflight \ {job[t].name}
    /\ Return(t)
    /\ UNCHANGED <<store, daemon, gate, grace, hydrate, cron, edits, boots, lost>>

-----------------------------------------------------------------------------
(* agent_set_task                                                          *)

\* SetTask's checks and its UpsertTask transaction.
SetTask(t, n, row) ==
    /\ daemon = "up" /\ pc[t] = "idle"
    /\ edits < MaxEdits /\ Cardinality(Editors) < MaxEditors
    /\ ~(row.enabled /\ row.cron = NoCron)
    /\ task' = [task EXCEPT ![n] = row]
    /\ job' = [job EXCEPT ![t] = [NoJob EXCEPT !.name = n, !.row = row]]
    /\ Goto(t, "sync")
    /\ edits' = edits + 1
    /\ UNCHANGED <<runs, daemon, gate, grace, hydrate, cron, inflight, ctxDone,
                   boots, lost>>

\* Mutant: a disabled task keeps its cron entry.
SetTaskSyncKeeps(t) ==
    /\ pc[t] = "sync"
    /\ IF job[t].row.enabled THEN Register(job[t].name, job[t].row.cron)
                             ELSE UNCHANGED cron
    /\ Return(t)
    /\ UNCHANGED <<store, daemon, gate, grace, hydrate, inflight, edits, boots, lost>>

\* Then, in a second critical section, the cron table follows.
SetTaskSync(t) ==
    /\ pc[t] = "sync"
    /\ IF job[t].row.enabled THEN Register(job[t].name, job[t].row.cron)
                             ELSE Unregister(job[t].name)
    /\ Return(t)
    /\ UNCHANGED <<store, daemon, gate, grace, hydrate, inflight, edits, boots, lost>>

-----------------------------------------------------------------------------
RunStep(t) ==
    \/ GetTask(t) \/ GetTaskSkips(t)
    \/ MarkInflight(t) \/ AlreadyRunning(t)
    \/ StartRun(t) \/ StartRunFails(t)
    \/ DriverReturns(t)
    \/ FinishRun(t) \/ FinishRunFails(t)
    \/ ReleaseInflight(t)

DaemonStep ==
    \/ \E g \in BOOLEAN : Boot(g)
    \/ \E n \in Tasks : HydrateUpsert(n) \/ HydrateRegister(n) \/ HydrateFails(n)
    \/ HydrateDone \/ Serve \/ Signal \/ GraceExpires \/ StopCron \/ Exit \/ Crash

Next ==
    \/ DaemonStep
    \/ \E t \in Threads :
         \/ Tick(t)
         \/ \E n \in Tasks : RunNow(t, n)
         \/ CallerGone(t)
         \/ RunStep(t)
         \/ \E n \in Tasks, row \in EditRows : SetTask(t, n, row)
         \/ SetTaskSync(t)

Spec == Init /\ [][Next]_vars

\* A goroutine inside Run or SetTask is stopped by nobody but the process: the
\* driver obeys the context TaskTimeout cancels, a transaction ends within
\* busy_timeout.  Shutdown goes on once begun, its 30 seconds run out.  Nothing
\* obliges cron to tick or a client to call.
Fairness ==
    /\ \A t \in Threads : WF_vars(RunStep(t)) /\ WF_vars(SetTaskSync(t))
    /\ WF_vars(GraceExpires) /\ WF_vars(StopCron) /\ WF_vars(Exit)

FairSpec == Spec /\ Fairness

-----------------------------------------------------------------------------
(* Properties                                                              *)

TypeOK ==
    /\ task \in [Tasks -> Row \cup {NoRow}]
    /\ runs \in Seq(RunRow)
    /\ daemon \in Daemon /\ gate \in BOOLEAN /\ grace \in BOOLEAN
    /\ byName \in [Tasks -> Row \cup {NoRow}]
    /\ toUpsert \subseteq DOMAIN Config /\ toRegister \subseteq Tasks
    /\ entries \in [Tasks -> Nat]
    /\ cronJobs \subseteq [id : Nat, name : Tasks, cron : Schedules]
    /\ inflight \subseteq Tasks
    /\ pc \in [Threads -> Label] /\ job \in [Threads -> Job]
    /\ ctxDone \subseteq Threads
    /\ lastEntry \in Nat /\ edits \in Nat /\ boots \in Nat
    /\ lost \subseteq Nat

\* Two goroutines are never between markInflight and releaseInflight for the
\* same task, however ticks, run_now requests and failures interleave
\* (Runner.Run's single-flight guard).
SingleFlight ==
    \A t, u \in Threads :
        /\ t # u
        /\ pc[t] \in Critical
        /\ pc[u] \in Critical
        => job[t].name # job[u].name

\* A task is marked in flight exactly while some goroutine is between the mark
\* and the release: no error path of Run leaves the task blocked for good.
InflightExact ==
    inflight = {job[t].name : t \in {u \in Threads : pc[u] \in Critical}}

\* The row a goroutine is running under is its own: it names the goroutine's
\* task and trigger, is still 'running', and no other goroutine holds its id.
OwnRow ==
    \A t \in Threads : pc[t] \in Recorded =>
        /\ job[t].id \in DOMAIN runs
        /\ runs[job[t].id] = NewRunRow(t)
        /\ \A u \in Threads \ {t} : pc[u] \in Recorded => job[u].id # job[t].id

\* agent_history tells the truth: a row with status 'running' is one some
\* goroutine is still working on, unless the process died under it or
\* FinishRun itself failed.
RunningIsAccounted ==
    \A i \in DOMAIN runs :
        runs[i].status = "running" <=> i \in Owned \cup lost

\* No step takes a run row out of a terminal status, renames it or drops it
\* (RunStatus.IsTerminal: "no further transitions").
TerminalIsFinal ==
    [][\A i \in DOMAIN runs :
          /\ i \in DOMAIN runs'
          /\ runs'[i].task = runs[i].task
          /\ runs[i].status \in Terminal => runs'[i] = runs[i]]_runs

\* The cron loop holds exactly the jobs Scheduler.entries refers to: a
\* replaced or failed registration leaves no job that fires unseen.
NoStrayJob ==
    /\ \A j \in cronJobs : entries[j.name] = j.id
    /\ \A n \in Tasks : entries[n] # 0 =>
           \E j \in cronJobs : j.name = n /\ j.id = entries[n]

Hydrated == daemon \in {"cron", "up", "drain", "stop"}

\* With no agent_set_task request in progress, the cron table is the tasks
\* table: every enabled task the parser accepts has a job, at its stored cron
\* expression, and no other task has one (SetTask "atomically upserts +
\* re-registers (or removes)").
CronAgrees ==
    Hydrated /\ Editors = {} =>
        \A n \in Tasks :
            IF task[n].enabled /\ task[n].cron \in Schedules
            THEN \E j \in cronJobs : j.name = n /\ j.cron = task[n].cron
            ELSE \A j \in cronJobs : j.name # n

\* Hydrate ends with the config's rows stored and registered, whatever was
\* stored before, also after a crash in the middle of an earlier Hydrate.
ConfigWins ==
    [][HydrateDone =>
          \A n \in DOMAIN Config :
              /\ task[n] = Config[n]
              /\ \A j \in cronJobs : j.name = n => j.cron = Config[n].cron]_vars

\* While sched.Stop waits within the grace period, no request is left inside
\* Run or SetTask and no run starts but those of ticks already fired.
DrainedBeforeStop == daemon = "stop" /\ grace => Requests = {}

\* The row task n is running under now, 0 if none.
LiveRow(n) ==
    LET here == {t \in Threads : pc[t] \in Recorded /\ job[t].name = n}
    IN IF here = {} THEN 0 ELSE job[CHOOSE t \in here : TRUE].id

Ledger == INSTANCE RunLedger
    WITH Triggers <- Triggers, Statuses <- Terminal,
         rows <- runs, live <- [n \in Tasks |-> LiveRow(n)]

\* Dispatch implements the ledger: through every interleaving, crash and failed
\* write, task_runs reads as one run per task after the other.
LedgerSpec == Ledger!LedgerSpec

\* Every recorded run comes to a terminal status or is lost with its process:
\* none hangs under a live daemon.
RunsEnd ==
    \A i \in 1 .. MaxRuns :
        i \in DOMAIN runs ~>
            i \in lost \/ (i \in DOMAIN runs /\ runs[i].status \in Terminal)

\* A task in flight is released in the end: later ticks are not skipped for ever.
InflightReleased == \A n \in Tasks : n \in inflight ~> n \notin inflight

\* A shutdown once begun ends, even while ticks keep firing and runs are long.
ShutdownEnds == daemon = "drain" ~> daemon = "off"
=============================================================================
