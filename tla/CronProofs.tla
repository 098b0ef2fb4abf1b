----------------------------- MODULE CronProofs -----------------------------
(***************************************************************************)
(* Theorems about Dispatch's cron table and its shutdown, for every set of *)
(* tasks, threads and schedules and every value of the bounds.             *)
(***************************************************************************)
EXTENDS DispatchProofs, FiniteSetTheorems

-----------------------------------------------------------------------------
(* The jobs of the cron loop                                               *)

\* At which expressions the cron loop fires a task.
FiresAt(n) == {j.cron : j \in {k \in cronJobs : k.name = n}}

\* Entry ids are never used twice in a process, so that removing one entry
\* removes one job.
TableInv ==
    /\ NoStrayJob
    /\ \A n \in Tasks : entries[n] <= lastEntry
    /\ \A m, n \in Tasks : entries[m] = entries[n] /\ m # n => entries[n] = 0
    /\ \A j \in cronJobs : j.id # 0

\* Taking a task's entry out takes its jobs out and no other.
LEMMA DropEntry ==
  ASSUME TypeOK, TableInv, NEW n \in Tasks, NEW j \in cronJobs
  PROVE  j.id = entries[n] <=> j.name = n
  <1>1. j.name \in Tasks /\ entries[j.name] = j.id /\ j.id # 0
    BY DEF TypeOK, TableInv, NoStrayJob
  <1>2. QED
    BY <1>1 DEF TableInv

LEMMA UnregisterTable ==
  ASSUME TypeOK, TableInv, NEW n \in Tasks, Unregister(n)
  PROVE  TableInv' /\ FiresAt(n)' = {} /\ \A m \in Tasks \ {n} : FiresAt(m)' = FiresAt(m)
  <1>1. cronJobs' = {j \in cronJobs : j.name # n}
    BY DropEntry DEF Unregister
  <1>2. /\ entries'[n] = 0 /\ \A m \in Tasks \ {n} : entries'[m] = entries[m]
        /\ lastEntry' = lastEntry /\ lastEntry \in Nat
    BY DEF Unregister, TypeOK
  <1>3. NoStrayJob'
    BY <1>1, <1>2 DEF TypeOK, TableInv, NoStrayJob
  <1>4. TableInv'
    BY <1>1, <1>2, <1>3 DEF TableInv
  <1>5. QED
    BY <1>1, <1>4 DEF FiresAt

LEMMA RegisterTable ==
  ASSUME TypeOK, TableInv, NEW n \in Tasks, NEW c, Register(n, c)
  PROVE  /\ TableInv' /\ FiresAt(n)' = {c} \cap Schedules
         /\ \A m \in Tasks \ {n} : FiresAt(m)' = FiresAt(m)
  <1>1. CASE c \notin Schedules
    <2>1. Unregister(n)
      BY <1>1 DEF Register, Unregister
    <2>2. QED
      BY <1>1, <2>1, UnregisterTable
  <1>2. CASE c \in Schedules
    <2> DEFINE new == [id |-> lastEntry', name |-> n, cron |-> c]
    <2>1. /\ lastEntry \in Nat /\ lastEntry' = lastEntry + 1
          /\ entries'[n] = lastEntry' /\ \A m \in Tasks \ {n} : entries'[m] = entries[m]
      BY <1>2 DEF Register, TypeOK
    <2>2. cronJobs' = {j \in cronJobs : j.name # n} \cup {new}
      BY <1>2, DropEntry DEF Register
    <2>3. new.id = lastEntry' /\ new.name = n /\ new.cron = c
      OBVIOUS
    <2> HIDE DEF new
    <2>4. \A m \in Tasks : entries[m] \in Nat /\ entries[m] <= lastEntry
      BY DEF TypeOK, TableInv
    <2>5. NoStrayJob'
      <3>1. \A j \in cronJobs' : entries'[j.name] = j.id
        BY <2>1, <2>2, <2>3 DEF TypeOK, TableInv, NoStrayJob
      <3>2. \A m \in Tasks : entries'[m] # 0 =>
              \E j \in cronJobs' : j.name = m /\ j.id = entries'[m]
        BY <2>1, <2>2, <2>3 DEF TableInv, NoStrayJob
      <3>3. QED
        BY <3>1, <3>2 DEF NoStrayJob
    <2>6. \A m \in Tasks : entries'[m] <= lastEntry'
      BY <2>1, <2>4
    <2>7. \A l, m \in Tasks : entries'[l] = entries'[m] /\ l # m => entries'[m] = 0
      BY <2>1, <2>4 DEF TableInv
    <2>8. \A j \in cronJobs' : j.id # 0
      BY <2>1, <2>2, <2>3 DEF TableInv
    <2>9. TableInv'
      BY <2>5, <2>6, <2>7, <2>8 DEF TableInv
    <2>10. QED
      BY <1>2, <2>2, <2>3, <2>9 DEF FiresAt
  <1>3. QED
    BY <1>1, <1>2

\* All that a step of t outside agent_set_task shows of itself here.
Unseen(t) ==
    /\ pc[t] # "sync" /\ pc'[t] # "sync" /\ Others(t)
    /\ UNCHANGED <<task, daemon, grace, hydrate, cron>>

LEMMA RunStepUnseen ==
  ASSUME TypeOK, NEW t \in Threads, RunStep(t)
  PROVE  /\ Unseen(t) /\ pc[t] # "idle"
         /\ pc'[t] = "idle" \/ job'[t].trigger = job[t].trigger
  <1> USE DEF TypeOK, Unseen, Others, store
  <1>1. CASE GetTask(t) \/ MarkInflight(t) \/ StartRunFails(t) \/ FinishRun(t)
             \/ FinishRunFails(t)
    BY <1>1 DEF GetTask, MarkInflight, StartRunFails, FinishRun, FinishRunFails, Goto
  <1>2. CASE GetTaskSkips(t) \/ AlreadyRunning(t) \/ ReleaseInflight(t)
    BY <1>2 DEF GetTaskSkips, AlreadyRunning, ReleaseInflight, Return
  <1>3. CASE StartRun(t)
    BY <1>3 DEF StartRun, Goto, Job
  <1>4. CASE DriverReturns(t)
    <2>1. PICK s : job' = [job EXCEPT ![t].status = s]
      BY <1>4 DEF DriverReturns
    <2>2. job'[t].trigger = job[t].trigger /\ \A u \in Threads \ {t} : job'[u] = job[u]
      BY <2>1 DEF Job
    <2>3. QED
      BY <1>4, <2>2 DEF DriverReturns, Goto
  <1>5. QED
    BY <1>1, <1>2, <1>3, <1>4 DEF RunStep

LEMMA CallUnseen ==
  ASSUME TypeOK, NEW t \in Threads,
         Tick(t) \/ CallerGone(t) \/ \E n \in Tasks : RunNow(t, n)
  PROVE  Unseen(t) /\ (pc[t] # "idle" \/ daemon \in {"cron", "up", "drain"})
  <1>1. CASE CallerGone(t)
    BY <1>1 DEF CallerGone, Unseen, Others, store
  <1>2. CASE Tick(t)
    <2>1. \A u \in Threads \ {t} : job'[u] = job[u]
      BY <1>2 DEF Tick, TypeOK
    <2>2. QED
      BY <1>2, <2>1 DEF Tick, Goto, TypeOK, Unseen, Others, store
  <1>3. ASSUME NEW n \in Tasks, RunNow(t, n)
        PROVE  Unseen(t) /\ daemon \in {"cron", "up", "drain"}
    <2>1. \A u \in Threads \ {t} : job'[u] = job[u]
      BY <1>3 DEF RunNow, TypeOK
    <2>2. QED
      BY <1>3, <2>1 DEF RunNow, Goto, TypeOK, Unseen, Others, store
  <1>4. QED
    BY <1>1, <1>2, <1>3

LEMMA StepTable == TypeOK /\ TableInv /\ [Next]_vars => TableInv'
  <1> SUFFICES ASSUME TypeOK, TableInv, [Next]_vars PROVE TableInv'
    OBVIOUS
  <1>1. ASSUME UNCHANGED cron PROVE TableInv'
    BY <1>1 DEF cron, TableInv, NoStrayJob
  <1>2. CASE ProcessEnds
    BY <1>2 DEF ProcessEnds, TableInv, NoStrayJob
  <1>3. ASSUME NEW n \in Tasks, HydrateRegister(n) PROVE TableInv'
    BY <1>3, RegisterTable DEF HydrateRegister
  <1>4. ASSUME NEW t \in Threads, SetTaskSync(t) PROVE TableInv'
    <2>1. job[t].name \in Tasks
      BY DEF TypeOK, Job
    <2>2. QED
      BY <1>4, <2>1, RegisterTable, UnregisterTable DEF SetTaskSync
  <1>5. ASSUME NEW t \in Threads,
               RunStep(t) \/ Tick(t) \/ CallerGone(t) \/ \E n \in Tasks : RunNow(t, n)
        PROVE  TableInv'
    BY <1>1, <1>5, RunStepUnseen, CallUnseen DEF Unseen
  <1>6. ASSUME NEW t \in Threads, NEW n \in Tasks, NEW row \in EditRows, SetTask(t, n, row)
        PROVE  TableInv'
    BY <1>1, <1>6 DEF SetTask
  <1>7. CASE DaemonStep
    BY <1>1, <1>2, <1>3, <1>7
       DEF DaemonStep, Boot, HydrateUpsert, HydrateFails, HydrateDone, Serve, Signal,
           GraceExpires, StopCron, Exit, Crash
  <1>8. CASE UNCHANGED vars
    BY <1>1, <1>8 DEF vars
  <1>9. QED
    BY <1>4, <1>5, <1>6, <1>7, <1>8 DEF Next

LEMMA InitTable == Init => TypeOK /\ RunKinds /\ TableInv
  <1>1. Init => TableInv
    BY DEF Init, TableInv, NoStrayJob
  <1>2. QED
    BY <1>1, InitType

\* Through edits, rejected expressions, crashes and restarts, every job of the
\* cron loop is one Scheduler.entries knows of, and the reverse.
THEOREM NoStrayJobHolds == Spec => []NoStrayJob
  <1>1. TypeOK /\ RunKinds /\ TableInv /\ [Next]_vars => (TypeOK /\ RunKinds /\ TableInv)'
    BY StepType, StepTable
  <1>2. TableInv => NoStrayJob
    BY DEF TableInv
  <1>3. QED
    BY <1>1, <1>2, InitTable, PTL DEF Spec

-----------------------------------------------------------------------------
(* Hydrate                                                                 *)

\* Where a task row says it fires.
Wanted(row) == IF row.enabled /\ row.cron \in Schedules THEN {row.cron} ELSE {}

Agrees(n) == FiresAt(n) = Wanted(task[n])

\* No goroutine is left of an earlier process, and none is there before Hydrate
\* is over.
QuietInv == daemon \in {"off", "hydrate"} => \A t \in Threads : pc[t] = "idle"

\* Hydrate starts from an empty table and goes through the rows it has merged,
\* which are those stored: what it has not come to has no job yet, what it has
\* agrees.
HydrateInv ==
    /\ daemon = "off" => \A n \in Tasks : FiresAt(n) = {}
    /\ daemon = "hydrate" =>
          /\ byName = task
          /\ toUpsert # {} => toRegister = Tasks
          /\ \A n \in DOMAIN Config \ toUpsert : task[n] = Config[n]
          /\ \A n \in Tasks : IF n \in toRegister THEN FiresAt(n) = {} ELSE Agrees(n)

BaseInv == TypeOK /\ RunKinds /\ TableInv /\ QuietInv /\ HydrateInv

LEMMA UpsertStep ==
  ASSUME BaseInv, NEW n \in Tasks, HydrateUpsert(n)
  PROVE  QuietInv' /\ HydrateInv'
  <1> USE DEF BaseInv
  <1>1. /\ daemon = "hydrate" /\ toRegister = Tasks
        /\ UNCHANGED <<daemon, pc, toRegister, cronJobs>>
        /\ toUpsert' = toUpsert \ {n} /\ n \in toUpsert
    BY DEF HydrateUpsert, HydrateInv, cron, threads
  <1>2. \A m \in Tasks : FiresAt(m)' = {}
    BY <1>1 DEF HydrateInv, FiresAt
  <1>3. byName' = task'
    BY <1>1 DEF HydrateUpsert, HydrateInv, TypeOK
  <1>4. \A m \in DOMAIN Config \ toUpsert' : task'[m] = Config[m]
    BY <1>1, DispatchAssumption DEF HydrateUpsert, HydrateInv, TypeOK
  <1>5. QED
    BY <1>1, <1>2, <1>3, <1>4 DEF QuietInv, HydrateInv

LEMMA HydrateRegisterStep ==
  ASSUME BaseInv, NEW n \in Tasks, HydrateRegister(n)
  PROVE  QuietInv' /\ HydrateInv'
  <1> USE DEF BaseInv
  <1>1. /\ daemon = "hydrate" /\ byName = task /\ toUpsert = {}
        /\ UNCHANGED <<daemon, pc, task, byName, toUpsert>>
        /\ toRegister' = toRegister \ {n}
    BY DEF HydrateRegister, HydrateInv, store, threads
  <1>2. /\ FiresAt(n)' = {task[n].cron} \cap Schedules
        /\ \A m \in Tasks \ {n} : FiresAt(m)' = FiresAt(m)
    BY <1>1, RegisterTable DEF HydrateRegister
  <1>3. task[n].enabled /\ task[n].cron \in Schedules
    BY <1>1 DEF HydrateRegister
  <1>4. Agrees(n)' /\ \A m \in Tasks \ {n} : Agrees(m)' <=> Agrees(m)
    BY <1>1, <1>2, <1>3 DEF Agrees, Wanted
  <1>5. QED
    BY <1>1, <1>2, <1>4 DEF QuietInv, HydrateInv

\* A step that is not Hydrate's, when it is not at work.
LEMMA NotHydrating ==
  ASSUME daemon \notin {"off", "hydrate"}, daemon' \notin {"off", "hydrate"}
  PROVE  QuietInv' /\ HydrateInv'
  BY DEF QuietInv, HydrateInv

LEMMA StepHydrate == BaseInv /\ [Next]_vars => QuietInv' /\ HydrateInv'
  <1> SUFFICES ASSUME BaseInv, [Next]_vars PROVE QuietInv' /\ HydrateInv'
    OBVIOUS
  <1> USE DEF BaseInv
  <1>1. ASSUME ProcessEnds PROVE QuietInv' /\ HydrateInv'
    BY <1>1 DEF ProcessEnds, QuietInv, HydrateInv, FiresAt
  <1>2. ASSUME NEW g \in BOOLEAN, Boot(g) PROVE QuietInv' /\ HydrateInv'
    <2>1. /\ \A n \in Tasks : FiresAt(n)' = {}
          /\ daemon' = "hydrate" /\ byName' = task' /\ toRegister' = Tasks
          /\ toUpsert' = DOMAIN Config
          /\ \A t \in Threads : pc'[t] = "idle"
      BY <1>2 DEF Boot, QuietInv, HydrateInv, FiresAt, store, cron, threads
    <2>2. QED
      BY <2>1 DEF QuietInv, HydrateInv
  <1>3. ASSUME HydrateDone \/ Serve \/ Signal \/ GraceExpires \/ StopCron
        PROVE  QuietInv' /\ HydrateInv'
    BY <1>3 DEF HydrateDone, Serve, Signal, GraceExpires, StopCron, QuietInv, HydrateInv
  <1>4. CASE DaemonStep
    BY <1>1, <1>2, <1>3, <1>4, UpsertStep, HydrateRegisterStep
       DEF DaemonStep, HydrateFails, Exit, Crash
  <1>5. ASSUME NEW t \in Threads,
               RunStep(t) \/ Tick(t) \/ CallerGone(t) \/ \E n \in Tasks : RunNow(t, n)
        PROVE  QuietInv' /\ HydrateInv'
    BY <1>5, RunStepUnseen, CallUnseen, NotHydrating DEF Unseen, QuietInv
  <1>6. ASSUME NEW t \in Threads,
               \/ SetTaskSync(t)
               \/ \E n \in Tasks, row \in EditRows : SetTask(t, n, row)
        PROVE  QuietInv' /\ HydrateInv'
    <2>1. daemon \notin {"off", "hydrate"} /\ daemon' = daemon
      BY <1>6 DEF SetTaskSync, SetTask, QuietInv
    <2>2. QED
      BY <2>1, NotHydrating
  <1>7. CASE UNCHANGED vars
    BY <1>7 DEF vars, store, hydrate, cron, threads, QuietInv, HydrateInv, Agrees,
                FiresAt
  <1>8. QED
    BY <1>4, <1>5, <1>6, <1>7 DEF Next

LEMMA InitBase == Init => BaseInv
  <1>1. Init => QuietInv /\ HydrateInv
    BY DEF Init, QuietInv, HydrateInv, FiresAt
  <1>2. QED
    BY <1>1, InitTable DEF BaseInv

LEMMA StepBase == BaseInv /\ [Next]_vars => BaseInv'
  BY StepType, StepTable, StepHydrate DEF BaseInv

\* Whatever is stored when the process starts, at the end of Hydrate the tasks of
\* the config file have the config's rows and fire where these say.
THEOREM ConfigWinsHolds == Spec => ConfigWins
  <1> DEFINE Won == \A n \in DOMAIN Config :
                      /\ task[n] = Config[n]
                      /\ \A j \in cronJobs : j.name = n => j.cron = Config[n].cron
  <1>1. ASSUME BaseInv, HydrateDone PROVE Won
    <2>1. /\ daemon = "hydrate" /\ toUpsert = {} /\ byName = task
          /\ \A n \in toRegister : ~byName[n].enabled
      BY <1>1 DEF BaseInv, HydrateInv, HydrateDone
    <2>2. \A n \in DOMAIN Config : n \in Tasks /\ task[n] = Config[n]
      BY <1>1, <2>1, DispatchAssumption DEF BaseInv, HydrateInv
    <2>3. \A n \in Tasks : FiresAt(n) \subseteq {task[n].cron}
      BY <1>1, <2>1 DEF BaseInv, HydrateInv, Agrees, Wanted
    <2>4. \A n \in Tasks : \A j \in cronJobs : j.name = n => j.cron \in FiresAt(n)
      BY DEF FiresAt
    <2>5. QED
      BY <2>2, <2>3, <2>4
  <1>2. BaseInv /\ [Next]_vars => [HydrateDone => Won]_vars
    BY <1>1
  <1>3. QED
    BY <1>2, InitBase, StepBase, PTL DEF Spec, ConfigWins

-----------------------------------------------------------------------------
(* The cron table and the tasks table                                      *)

\* A request for n is between its two critical sections.
Syncing(n) == \E t \in Threads : pc[t] = "sync" /\ job[t].name = n

\* Requests that overlap there are about different tasks.
EditsApart ==
    \A t, u \in Threads :
        pc[t] = "sync" /\ pc[u] = "sync" /\ job[t].name = job[u].name => t = u

\* After Hydrate the tables agree on every task no request is about, and a
\* request carries the row it has stored.
AgreeInv ==
    /\ Hydrated => \A n \in Tasks : Syncing(n) \/ Agrees(n)
    /\ \A t \in Threads : pc[t] = "sync" =>
           job[t].trigger = "edit" /\ job[t].row = task[job[t].name]

CronInv == BaseInv /\ AgreeInv

LEMMA SyncIsEditor ==
  ASSUME CronInv PROVE Editors = {t \in Threads : pc[t] = "sync"}
  BY DEF CronInv, BaseInv, TypeOK, RunKinds, RunLabels, Label, AgreeInv, Editors, Busy

LEMMA UnseenAgree ==
  ASSUME CronInv, NEW t \in Threads, Unseen(t) PROVE AgreeInv'
  <1> USE DEF CronInv, Unseen, Others, cron
  <1>1. \A n : FiresAt(n)' = FiresAt(n) /\ (Syncing(n)' <=> Syncing(n))
    BY DEF FiresAt, Syncing
  <1>2. QED
    BY <1>1 DEF AgreeInv, Hydrated, Agrees

LEMMA SetTaskAgree ==
  ASSUME CronInv, EditsApart',
         NEW t \in Threads, NEW n \in Tasks, NEW row \in EditRows, SetTask(t, n, row)
  PROVE  AgreeInv'
  <1> USE DEF CronInv, BaseInv
  <1>1. /\ daemon = "up" /\ daemon' = "up" /\ pc[t] = "idle" /\ UNCHANGED cronJobs
        /\ task' = [task EXCEPT ![n] = row] /\ pc' = [pc EXCEPT ![t] = "sync"]
        /\ job' = [job EXCEPT ![t] = [NoJob EXCEPT !.name = n, !.row = row]]
    BY DEF SetTask, Goto, cron
  <1>2. job'[t].name = n /\ job'[t].row = row /\ job'[t].trigger = "edit"
    BY <1>1 DEF TypeOK, NoJob
  <1>3. /\ \A u \in Threads \ {t} : pc'[u] = pc[u] /\ job'[u] = job[u]
        /\ pc'[t] = "sync" /\ task'[n] = row
        /\ \A m \in Tasks \ {n} : task'[m] = task[m]
    BY <1>1 DEF TypeOK
  <1>4. \A u \in Threads \ {t} : pc[u] = "sync" => job[u].name # n
    BY <1>2, <1>3 DEF EditsApart
  <1>5. \A u \in Threads : job[u].name \in Tasks
    BY DEF TypeOK, Job
  <1>6. \A u \in Threads : pc'[u] = "sync" =>
            job'[u].trigger = "edit" /\ job'[u].row = task'[job'[u].name]
    BY <1>2, <1>3, <1>4, <1>5 DEF AgreeInv
  <1>7. Syncing(n)'
    BY <1>2, <1>3 DEF Syncing
  <1>8. \A m \in Tasks \ {n} : /\ Syncing(m) => Syncing(m)'
                               /\ Agrees(m)' <=> Agrees(m)
    BY <1>1, <1>3 DEF Syncing, Agrees, FiresAt
  <1>9. QED
    BY <1>1, <1>6, <1>7, <1>8 DEF AgreeInv, Hydrated

LEMMA SetTaskSyncAgree ==
  ASSUME CronInv, NEW t \in Threads, SetTaskSync(t)
  PROVE  AgreeInv'
  <1> USE DEF CronInv, BaseInv
  <1>1. PICK n \in Tasks : n = job[t].name
    BY DEF TypeOK, Job
  <1>2. /\ pc[t] = "sync" /\ pc' = [pc EXCEPT ![t] = "idle"]
        /\ \A u \in Threads \ {t} : pc'[u] = pc[u] /\ job'[u] = job[u]
        /\ UNCHANGED <<task, daemon>>
    BY DEF SetTaskSync, Return, TypeOK, store
  <1>3. job[t].row = task[n] /\ pc'[t] = "idle"
    BY <1>1, <1>2 DEF TypeOK, AgreeInv
  <1>4. /\ FiresAt(n)' = Wanted(task[n])
        /\ \A m \in Tasks \ {n} : FiresAt(m)' = FiresAt(m)
    <2>1. CASE task[n].enabled
      <3>1. Register(n, task[n].cron)
        BY <1>1, <1>3, <2>1 DEF SetTaskSync
      <3>2. Wanted(task[n]) = {task[n].cron} \cap Schedules
        BY <2>1 DEF Wanted
      <3>3. QED
        BY <3>1, <3>2, RegisterTable
    <2>2. CASE ~task[n].enabled
      <3>1. Unregister(n)
        BY <1>1, <1>3, <2>2 DEF SetTaskSync
      <3>2. Wanted(task[n]) = {}
        BY <2>2 DEF Wanted
      <3>3. QED
        BY <3>1, <3>2, UnregisterTable
    <2>3. QED
      BY <2>1, <2>2
  <1>5. Agrees(n)' /\ \A m \in Tasks \ {n} : Agrees(m)' <=> Agrees(m)
    BY <1>2, <1>4 DEF Agrees
  <1>6. \A m \in Tasks \ {n} : Syncing(m) => Syncing(m)'
    BY <1>1, <1>2 DEF Syncing
  <1>7. QED
    BY <1>2, <1>3, <1>5, <1>6 DEF AgreeInv, Hydrated

LEMMA StepAgree ==
  ASSUME CronInv, EditsApart', [Next]_vars
  PROVE  AgreeInv'
  <1> USE DEF CronInv, BaseInv, store, cron, threads
  <1>1. ASSUME ProcessEnds PROVE AgreeInv'
    BY <1>1 DEF ProcessEnds, AgreeInv, Hydrated
  <1>2. ASSUME daemon' = "hydrate" PROVE AgreeInv'
    <2>1. \A t \in Threads : pc'[t] = "idle"
      BY <1>2, StepBase DEF QuietInv
    <2>2. QED
      BY <1>2, <2>1 DEF AgreeInv, Hydrated
  <1>3. CASE HydrateDone
    <2>1. /\ UNCHANGED <<task, cronJobs, pc>> /\ \A t \in Threads : pc[t] = "idle"
          /\ daemon = "hydrate" /\ byName = task
          /\ \A n \in toRegister : ~byName[n].enabled
      BY <1>3 DEF HydrateDone, QuietInv, HydrateInv
    <2>2. \A n \in Tasks : Agrees(n)'
      BY <2>1 DEF HydrateInv, Agrees, FiresAt, Wanted
    <2>3. QED
      BY <2>1, <2>2 DEF AgreeInv
  <1>4. CASE Serve \/ Signal \/ GraceExpires \/ StopCron
    <2>1. UNCHANGED <<task, cronJobs, pc, job>> /\ Hydrated
      BY <1>4 DEF Serve, Signal, GraceExpires, StopCron, Hydrated
    <2>2. \A n : FiresAt(n)' = FiresAt(n) /\ (Syncing(n)' <=> Syncing(n))
      BY <2>1 DEF FiresAt, Syncing
    <2>3. QED
      BY <2>1, <2>2 DEF AgreeInv, Agrees
  <1>5. CASE DaemonStep
    BY <1>1, <1>2, <1>3, <1>4, <1>5
       DEF DaemonStep, Boot, HydrateUpsert, HydrateRegister, HydrateFails, Exit, Crash
  <1>6. ASSUME NEW t \in Threads,
               RunStep(t) \/ Tick(t) \/ CallerGone(t) \/ \E n \in Tasks : RunNow(t, n)
        PROVE  AgreeInv'
    BY <1>6, RunStepUnseen, CallUnseen, UnseenAgree
  <1>7. CASE UNCHANGED vars
    BY <1>7 DEF vars, AgreeInv, Hydrated, Agrees, Syncing, FiresAt
  <1>8. QED
    BY <1>5, <1>6, <1>7, SetTaskAgree, SetTaskSyncAgree DEF Next

LEMMA InitCron == Init => CronInv
  <1>1. Init => AgreeInv
    BY DEF Init, AgreeInv, Hydrated
  <1>2. QED
    BY <1>1, InitBase DEF CronInv

LEMMA AgreeEnough == CronInv => CronAgrees
  <1> SUFFICES ASSUME CronInv, Hydrated, Editors = {}, NEW n \in Tasks
               PROVE  IF task[n].enabled /\ task[n].cron \in Schedules
                      THEN \E j \in cronJobs : j.name = n /\ j.cron = task[n].cron
                      ELSE \A j \in cronJobs : j.name # n
    BY DEF CronAgrees
  <1>1. FiresAt(n) = Wanted(task[n])
    BY SyncIsEditor DEF CronInv, AgreeInv, Syncing, Agrees
  <1>2. QED
    BY <1>1 DEF FiresAt, Wanted

\* As long as requests that overlap are about different tasks, however many they
\* are, the cron loop fires what the tasks table says when they are through.
THEOREM CronAgreesApart == Spec /\ []EditsApart => []CronAgrees
  <1>1. CronInv /\ EditsApart' /\ [Next]_vars => CronInv'
    BY StepBase, StepAgree DEF CronInv
  <1>2. QED
    BY <1>1, InitCron, AgreeEnough, PTL DEF Spec

OneEdits == \A t, u \in Threads : pc[t] = "sync" /\ pc[u] = "sync" => t = u

LEMMA StepOneEdits ==
  ASSUME MaxEditors <= 1, CronInv, OneEdits, [Next]_vars
  PROVE  OneEdits'
  <1> USE DEF CronInv, BaseInv, store, threads
  <1>1. ASSUME \A t \in Threads : pc'[t] = "sync" => pc[t] = "sync" PROVE OneEdits'
    BY <1>1 DEF OneEdits
  <1>2. ASSUME NEW t \in Threads, NEW n \in Tasks, NEW row \in EditRows, SetTask(t, n, row)
        PROVE  OneEdits'
    <2>1. Editors = {}
      <3>1. SUFFICES ASSUME NEW u \in Editors PROVE FALSE
        OBVIOUS
      <3>2. Editors = {u}
        BY <3>1, SyncIsEditor DEF OneEdits
      <3>3. Cardinality(Editors) = 1
        BY <3>2, FS_Singleton
      <3>4. QED
        BY <1>2, <3>3, DispatchAssumption DEF SetTask
    <2>2. pc' = [pc EXCEPT ![t] = "sync"]
      BY <1>2 DEF SetTask, Goto
    <2>3. QED
      BY <2>1, <2>2, SyncIsEditor DEF TypeOK, OneEdits
  <1>3. CASE DaemonStep
    BY <1>1, <1>3
       DEF DaemonStep, Boot, HydrateUpsert, HydrateRegister, HydrateFails, HydrateDone,
           Serve, Signal, GraceExpires, StopCron, Exit, Crash, ProcessEnds
  <1>4. ASSUME NEW t \in Threads,
               RunStep(t) \/ Tick(t) \/ CallerGone(t) \/ \E n \in Tasks : RunNow(t, n)
        PROVE  OneEdits'
    BY <1>1, <1>4, RunStepUnseen, CallUnseen DEF Unseen, Others
  <1>5. ASSUME NEW t \in Threads, SetTaskSync(t) PROVE OneEdits'
    BY <1>1, <1>5 DEF SetTaskSync, Return, TypeOK
  <1>6. CASE UNCHANGED vars
    BY <1>1, <1>6 DEF vars
  <1>7. QED
    BY <1>2, <1>3, <1>4, <1>5, <1>6 DEF Next

\* In particular with one agent_set_task request at a time.
THEOREM CronAgreesHolds == ASSUME MaxEditors <= 1 PROVE Spec => []CronAgrees
  <1>1. Init => OneEdits
    BY DEF Init, OneEdits
  <1>2. OneEdits' => EditsApart'
    BY DEF OneEdits, EditsApart
  <1>3. (CronInv /\ OneEdits) /\ [Next]_vars => (CronInv /\ OneEdits)'
    BY <1>2, StepBase, StepAgree, StepOneEdits DEF CronInv
  <1>4. QED
    BY <1>1, <1>3, InitCron, AgreeEnough, PTL DEF Spec

-----------------------------------------------------------------------------
(* Shutdown                                                                *)

LEMMA StepDrained ==
  ASSUME TypeOK, DrainedBeforeStop, [Next]_vars
  PROVE  DrainedBeforeStop'
  <1> USE DEF store, threads
  <1>1. ASSUME daemon' # "stop" \/ grace' = FALSE PROVE DrainedBeforeStop'
    BY <1>1 DEF DrainedBeforeStop
  <1>2. ASSUME UNCHANGED <<pc, job>> PROVE Requests' = Requests
    BY <1>2 DEF Requests, Busy
  <1>3. CASE StopCron
    BY <1>2, <1>3 DEF StopCron, DrainedBeforeStop
  <1>4. CASE DaemonStep
    BY <1>1, <1>2, <1>3, <1>4
       DEF DaemonStep, Boot, HydrateUpsert, HydrateRegister, HydrateFails, HydrateDone,
           Serve, Signal, GraceExpires, Exit, Crash, ProcessEnds
  <1>5. ASSUME NEW t \in Threads, RunStep(t) PROVE DrainedBeforeStop'
    <2>1. /\ pc[t] # "idle" /\ \A u \in Threads \ {t} : pc'[u] = pc[u] /\ job'[u] = job[u]
          /\ pc'[t] = "idle" \/ job'[t].trigger = job[t].trigger
          /\ UNCHANGED <<daemon, grace>>
      BY <1>5, RunStepUnseen DEF Unseen, Others
    <2>2. Requests' \subseteq Requests
      BY <2>1 DEF Requests, Busy
    <2>3. QED
      BY <2>1, <2>2 DEF DrainedBeforeStop
  <1>6. ASSUME NEW t \in Threads, CallerGone(t) PROVE DrainedBeforeStop'
    BY <1>2, <1>6 DEF CallerGone, DrainedBeforeStop
  <1>7. ASSUME NEW t \in Threads, SetTaskSync(t) PROVE DrainedBeforeStop'
    <2>1. /\ pc'[t] = "idle" /\ \A u \in Threads \ {t} : pc'[u] = pc[u] /\ job'[u] = job[u]
          /\ UNCHANGED <<daemon, grace>>
      BY <1>7 DEF SetTaskSync, Return, TypeOK
    <2>2. Requests' \subseteq Requests
      BY <2>1 DEF Requests, Busy
    <2>3. QED
      BY <2>1, <2>2 DEF DrainedBeforeStop
  <1>8. ASSUME NEW t \in Threads,
               \/ Tick(t) \/ \E n \in Tasks : RunNow(t, n)
               \/ \E n \in Tasks, row \in EditRows : SetTask(t, n, row)
        PROVE  DrainedBeforeStop'
    BY <1>1, <1>8 DEF Tick, RunNow, SetTask
  <1>9. CASE UNCHANGED vars
    BY <1>2, <1>9 DEF vars, DrainedBeforeStop
  <1>10. QED
    BY <1>4, <1>5, <1>6, <1>7, <1>8, <1>9 DEF Next

\* The two halves of shutdown are in order: while sched.Stop waits within the
\* grace period, every request has been drained and none comes in.
THEOREM DrainedBeforeStopHolds == Spec => []DrainedBeforeStop
  <1>1. Init => DrainedBeforeStop
    BY DEF Init, DrainedBeforeStop
  <1>2. (TypeOK /\ RunKinds /\ DrainedBeforeStop) /\ [Next]_vars
          => (TypeOK /\ RunKinds /\ DrainedBeforeStop)'
    BY StepType, StepDrained
  <1>3. QED
    BY <1>1, <1>2, InitType, PTL DEF Spec
=============================================================================
