--------------------------- MODULE DispatchProofs ---------------------------
(***************************************************************************)
(* Theorems about Dispatch, for every set of tasks and threads and every   *)
(* value of the bounds.                                                    *)
(***************************************************************************)
EXTENDS Dispatch, SequenceTheorems, TLAPS

RunLabels == {"get", "mark", "start", "drive", "finish", "release"}

\* A goroutine inside Run serves a tick or a run_now request.
RunKinds == \A t \in Threads : pc[t] \in RunLabels => job[t].trigger # "edit"

\* A lost row exists and nobody works on it any more.
LostRows == lost \subseteq DOMAIN runs /\ lost \cap Owned = {}

IInv == /\ TypeOK /\ RunKinds
        /\ SingleFlight /\ InflightExact
        /\ OwnRow /\ LostRows /\ RunningIsAccounted

-----------------------------------------------------------------------------
(* Types                                                                   *)

LEMMA NoJobType == NoJob \in Job
  BY DispatchAssumption DEF NoJob, Job, Terminal

LEMMA InitType == Init => TypeOK /\ RunKinds
  <1> SUFFICES ASSUME Init PROVE TypeOK /\ RunKinds
    OBVIOUS
  <1> USE DEF Init
  <1>1. runs \in Seq(RunRow)
    OBVIOUS
  <1>2. gate \in BOOLEAN /\ grace \in BOOLEAN /\ daemon \in Daemon
    BY DEF Daemon
  <1>3. pc \in [Threads -> Label] /\ job \in [Threads -> Job]
    BY NoJobType DEF Label
  <1>4. RunKinds
    BY DEF RunKinds, RunLabels
  <1>5. QED
    BY <1>1, <1>2, <1>3, <1>4 DEF TypeOK

LEMMA GoType ==
  ASSUME TypeOK, NEW t \in Threads, NEW l \in Label, Goto(t, l)
  PROVE  pc' \in [Threads -> Label]
  BY DEF TypeOK, Goto

LEMMA ReturnType ==
  ASSUME TypeOK, NEW t \in Threads, Return(t)
  PROVE  pc' \in [Threads -> Label] /\ job' \in [Threads -> Job] /\ ctxDone' \subseteq Threads
  BY NoJobType DEF TypeOK, Return, Label

LEMMA RegisterType ==
  ASSUME TypeOK, NEW n \in Tasks, NEW c, Register(n, c)
  PROVE  /\ entries' \in [Tasks -> Nat] /\ lastEntry' \in Nat
         /\ cronJobs' \subseteq [id : Nat, name : Tasks, cron : Schedules]
  <1>1. lastEntry' \in Nat
    BY DEF TypeOK, Register
  <1>2. entries' \in [Tasks -> Nat]
    BY <1>1 DEF TypeOK, Register
  <1>3. cronJobs' \subseteq [id : Nat, name : Tasks, cron : Schedules]
    BY <1>1 DEF TypeOK, Register
  <1>4. QED BY <1>1, <1>2, <1>3

LEMMA UnregisterType ==
  ASSUME TypeOK, NEW n \in Tasks, Unregister(n)
  PROVE  /\ entries' \in [Tasks -> Nat] /\ lastEntry' \in Nat
         /\ cronJobs' \subseteq [id : Nat, name : Tasks, cron : Schedules]
  BY DEF TypeOK, Unregister

LEMMA ProcessEndsType ==
  ASSUME TypeOK, ProcessEnds
  PROVE  TypeOK'
  <1>1. Owned \subseteq Nat
    BY DEF TypeOK, Owned, Job
  <1>2. QED
    BY <1>1, NoJobType DEF TypeOK, ProcessEnds, Daemon, Label, store

LEMMA NewRunRowType ==
  ASSUME TypeOK, RunKinds, NEW t \in Threads, pc[t] = "start"
  PROVE  NewRunRow(t) \in RunRow
  BY DEF TypeOK, RunKinds, RunLabels, NewRunRow, RunRow, Job

LEMMA DaemonStepType ==
  ASSUME TypeOK, RunKinds, DaemonStep
  PROVE  TypeOK' /\ RunKinds'
  <1>1. CASE ProcessEnds
    <2>1. TypeOK' BY <1>1, ProcessEndsType
    <2>2. RunKinds' BY <1>1 DEF ProcessEnds, RunKinds, RunLabels
    <2>3. QED BY <2>1, <2>2
  <1>2. ASSUME NEW g \in BOOLEAN, Boot(g) PROVE TypeOK' /\ RunKinds'
    BY <1>2 DEF Boot, TypeOK, RunKinds, Daemon, store, cron, threads
  <1>3. ASSUME NEW n \in Tasks, HydrateUpsert(n) PROVE TypeOK' /\ RunKinds'
    <2>1. Config[n] \in Row
      BY <1>3, DispatchAssumption DEF HydrateUpsert, TypeOK, Row, Crons
    <2>2. /\ task' \in [Tasks -> Row \cup {NoRow}]
          /\ byName' \in [Tasks -> Row \cup {NoRow}]
      BY <1>3, <2>1 DEF HydrateUpsert, TypeOK
    <2>3. QED
      BY <1>3, <2>2 DEF HydrateUpsert, TypeOK, RunKinds, cron, threads
  <1>4. ASSUME NEW n \in Tasks, HydrateRegister(n) PROVE TypeOK' /\ RunKinds'
    BY <1>4, RegisterType DEF HydrateRegister, TypeOK, RunKinds, store, threads
  <1>5. CASE HydrateDone
    BY <1>5 DEF HydrateDone, TypeOK, RunKinds, Daemon, store, cron, threads
  <1>6. CASE Serve \/ Signal \/ GraceExpires \/ StopCron
    BY <1>6 DEF Serve, Signal, GraceExpires, StopCron, TypeOK, RunKinds, Daemon,
                store, hydrate, cron, threads
  <1>7. QED
    BY <1>1, <1>2, <1>3, <1>4, <1>5, <1>6 DEF DaemonStep, HydrateFails, Exit, Crash

\* What a step outside the cron table and the hydration leaves typed.
LEMMA FrameType ==
  ASSUME TypeOK,
         UNCHANGED <<daemon, gate, grace, hydrate>>,
         task' \in [Tasks -> Row \cup {NoRow}],
         runs' \in Seq(RunRow),
         /\ entries' \in [Tasks -> Nat] /\ lastEntry' \in Nat
         /\ cronJobs' \subseteq [id : Nat, name : Tasks, cron : Schedules],
         inflight' \subseteq Tasks,
         pc' \in [Threads -> Label], job' \in [Threads -> Job],
         ctxDone' \subseteq Threads,
         edits' \in Nat, boots' \in Nat, lost' \subseteq Nat
  PROVE  TypeOK'
  BY DEF TypeOK, hydrate

LEMMA RunStepType ==
  ASSUME TypeOK, RunKinds, NEW t \in Threads, RunStep(t)
  PROVE  TypeOK' /\ RunKinds'
  <1> USE DEF store, cron
  <1>1. CASE GetTask(t) \/ StartRunFails(t)
    <2>1. pc' \in [Threads -> Label]
      BY <1>1, GoType DEF GetTask, StartRunFails, Label
    <2>2. TypeOK'
      BY <1>1, <2>1, FrameType DEF GetTask, StartRunFails, TypeOK
    <2>3. RunKinds'
      BY <1>1 DEF GetTask, StartRunFails, Goto, TypeOK, RunKinds, RunLabels
    <2>4. QED BY <2>2, <2>3
  <1>2. CASE GetTaskSkips(t) \/ AlreadyRunning(t)
    <2>1. TypeOK'
      BY <1>2, ReturnType, FrameType DEF GetTaskSkips, AlreadyRunning, TypeOK
    <2>2. RunKinds'
      BY <1>2 DEF GetTaskSkips, AlreadyRunning, Return, TypeOK, RunKinds, RunLabels
    <2>3. QED BY <2>1, <2>2
  <1>3. CASE MarkInflight(t)
    <2>1. pc' \in [Threads -> Label] /\ inflight' \subseteq Tasks
      BY <1>3, GoType DEF MarkInflight, Label, TypeOK, Job
    <2>2. TypeOK'
      BY <1>3, <2>1, FrameType DEF MarkInflight, TypeOK
    <2>3. RunKinds'
      BY <1>3 DEF MarkInflight, Goto, TypeOK, RunKinds, RunLabels
    <2>4. QED BY <2>2, <2>3
  <1>4. CASE StartRun(t)
    <2>0. [job[t] EXCEPT !.id = Len(runs) + 1] \in Job
      <3>1. job[t] \in Job /\ Len(runs) + 1 \in Nat
        BY LenProperties DEF TypeOK
      <3>2. QED BY <3>1 DEF Job
    <2>1. pc' \in [Threads -> Label] /\ job' \in [Threads -> Job]
      BY <1>4, <2>0, GoType DEF StartRun, Label, TypeOK
    <2>2. runs' \in Seq(RunRow)
      BY <1>4, NewRunRowType DEF StartRun, TypeOK
    <2>3. TypeOK'
      BY <1>4, <2>1, <2>2, FrameType DEF StartRun, TypeOK
    <2>4. RunKinds'
      BY <1>4 DEF StartRun, Goto, TypeOK, RunKinds, RunLabels
    <2>5. QED BY <2>3, <2>4
  <1>5. CASE DriverReturns(t)
    <2>0. \A s \in Outcomes(t) : [job[t] EXCEPT !.status = s] \in Job
      BY DEF TypeOK, Job, Outcomes, Terminal
    <2>1. pc' \in [Threads -> Label] /\ job' \in [Threads -> Job]
      BY <1>5, <2>0, GoType DEF DriverReturns, Label, TypeOK
    <2>2. TypeOK'
      BY <1>5, <2>1, FrameType DEF DriverReturns, TypeOK
    <2>3. RunKinds'
      BY <1>5 DEF DriverReturns, Goto, TypeOK, RunKinds, RunLabels
    <2>4. QED BY <2>2, <2>3
  <1>6. CASE FinishRun(t)
    <2>1. pc' \in [Threads -> Label]
      BY <1>6, GoType DEF FinishRun, Label
    <2>2. runs' \in Seq(RunRow)
      <3>1. job[t].status \in Terminal
        BY DEF TypeOK, Job
      <3>2. job[t].id \in 1 .. Len(runs)
        BY <1>6, LenProperties DEF FinishRun, TypeOK
      <3>3. runs[job[t].id] \in RunRow
        BY <3>2, ElementOfSeq DEF TypeOK
      <3>4. [runs[job[t].id] EXCEPT !.status = job[t].status] \in RunRow
        BY <3>1, <3>3 DEF RunRow
      <3>5. runs' = [runs EXCEPT ![job[t].id] = [runs[job[t].id] EXCEPT !.status = job[t].status]]
        BY <1>6 DEF FinishRun
      <3>6. runs \in Seq(RunRow)
        BY DEF TypeOK
      <3>7. QED
        BY <3>2, <3>4, <3>5, <3>6, ExceptSeq
    <2>3. TypeOK'
      BY <1>6, <2>1, <2>2, FrameType DEF FinishRun, TypeOK
    <2>4. RunKinds'
      BY <1>6 DEF FinishRun, Goto, TypeOK, RunKinds, RunLabels
    <2>5. QED BY <2>3, <2>4
  <1>7. CASE FinishRunFails(t)
    <2>1. pc' \in [Threads -> Label] /\ lost' \subseteq Nat
      BY <1>7, GoType DEF FinishRunFails, Label, TypeOK, Job
    <2>2. TypeOK'
      BY <1>7, <2>1, FrameType DEF FinishRunFails, TypeOK
    <2>3. RunKinds'
      BY <1>7 DEF FinishRunFails, Goto, TypeOK, RunKinds, RunLabels
    <2>4. QED BY <2>2, <2>3
  <1>8. CASE ReleaseInflight(t)
    <2>1. TypeOK'
      BY <1>8, ReturnType, FrameType DEF ReleaseInflight, TypeOK
    <2>2. RunKinds'
      BY <1>8 DEF ReleaseInflight, Return, TypeOK, RunKinds, RunLabels
    <2>3. QED BY <2>1, <2>2
  <1>9. QED
    BY <1>1, <1>2, <1>3, <1>4, <1>5, <1>6, <1>7, <1>8 DEF RunStep

LEMMA CallType ==
  ASSUME TypeOK, RunKinds, NEW t \in Threads,
         \/ Tick(t) \/ CallerGone(t) \/ SetTaskSync(t)
         \/ \E n \in Tasks : RunNow(t, n)
         \/ \E n \in Tasks, row \in EditRows : SetTask(t, n, row)
  PROVE  TypeOK' /\ RunKinds'
  <1> USE DEF store, cron
  <1>1. CASE Tick(t)
    <2>1. PICK j \in cronJobs :
            job' = [job EXCEPT ![t] = [NoJob EXCEPT !.name = j.name, !.trigger = "schedule"]]
      BY <1>1 DEF Tick
    <2>2. [NoJob EXCEPT !.name = j.name, !.trigger = "schedule"] \in Job
      BY NoJobType DEF Job, Triggers, TypeOK
    <2>3. pc' \in [Threads -> Label] /\ job' \in [Threads -> Job]
      BY <1>1, <2>1, <2>2, GoType DEF Tick, Label, TypeOK
    <2>4. TypeOK'
      BY <1>1, <2>3, FrameType DEF Tick, TypeOK
    <2>5. RunKinds'
      BY <1>1, <2>1, NoJobType DEF Tick, Goto, TypeOK, RunKinds, RunLabels, Job
    <2>6. QED BY <2>4, <2>5
  <1>2. ASSUME NEW n \in Tasks, RunNow(t, n) PROVE TypeOK' /\ RunKinds'
    <2>1. [NoJob EXCEPT !.name = n, !.trigger = "manual"] \in Job
      BY NoJobType DEF Job, Triggers
    <2>2. pc' \in [Threads -> Label] /\ job' \in [Threads -> Job]
      BY <1>2, <2>1, GoType DEF RunNow, Label, TypeOK
    <2>3. TypeOK'
      BY <1>2, <2>2, FrameType DEF RunNow, TypeOK
    <2>4. RunKinds'
      BY <1>2, NoJobType DEF RunNow, Goto, TypeOK, RunKinds, RunLabels, Job
    <2>5. QED BY <2>3, <2>4
  <1>3. ASSUME NEW n \in Tasks, NEW row \in EditRows, SetTask(t, n, row)
        PROVE  TypeOK' /\ RunKinds'
    <2>1. row \in Row
      BY DispatchAssumption
    <2>2. [NoJob EXCEPT !.name = n, !.row = row] \in Job
      BY <2>1, NoJobType DEF Job
    <2>3. /\ pc' \in [Threads -> Label] /\ job' \in [Threads -> Job]
          /\ task' \in [Tasks -> Row \cup {NoRow}]
      BY <1>3, <2>1, <2>2, GoType DEF SetTask, Label, TypeOK
    <2>4. TypeOK'
      <3>1. /\ edits' = edits + 1
            /\ UNCHANGED <<runs, daemon, gate, grace, hydrate, cron, inflight,
                           ctxDone, boots, lost>>
        BY <1>3 DEF SetTask
      <3>2. QED
        BY <2>3, <3>1, FrameType DEF TypeOK
    <2>5. RunKinds'
      BY <1>3 DEF SetTask, Goto, TypeOK, RunKinds, RunLabels
    <2>6. QED BY <2>4, <2>5
  <1>4. CASE CallerGone(t)
    BY <1>4 DEF CallerGone, TypeOK, RunKinds, hydrate
  <1>5. CASE SetTaskSync(t)
    <2>1. /\ entries' \in [Tasks -> Nat] /\ lastEntry' \in Nat
          /\ cronJobs' \subseteq [id : Nat, name : Tasks, cron : Schedules]
      BY <1>5, RegisterType, UnregisterType DEF SetTaskSync, TypeOK, Job
    <2>2. TypeOK'
      BY <1>5, <2>1, ReturnType, FrameType DEF SetTaskSync, TypeOK
    <2>3. RunKinds'
      BY <1>5 DEF SetTaskSync, Return, TypeOK, RunKinds, RunLabels
    <2>4. QED BY <2>2, <2>3
  <1>6. QED
    BY <1>1, <1>2, <1>3, <1>4, <1>5

LEMMA StepType == TypeOK /\ RunKinds /\ [Next]_vars => TypeOK' /\ RunKinds'
  <1> SUFFICES ASSUME TypeOK, RunKinds, [Next]_vars
               PROVE  TypeOK' /\ RunKinds'
    OBVIOUS
  <1>1. CASE DaemonStep
    BY <1>1, DaemonStepType
  <1>2. ASSUME NEW t \in Threads, RunStep(t) PROVE TypeOK' /\ RunKinds'
    BY <1>2, RunStepType
  <1>3. ASSUME NEW t \in Threads,
               \/ Tick(t) \/ CallerGone(t) \/ SetTaskSync(t)
               \/ \E n \in Tasks : RunNow(t, n)
               \/ \E n \in Tasks, row \in EditRows : SetTask(t, n, row)
        PROVE  TypeOK' /\ RunKinds'
    BY <1>3, CallType
  <1>4. CASE UNCHANGED vars
    BY <1>4 DEF vars, store, hydrate, cron, threads, TypeOK, RunKinds
  <1>5. QED
    BY <1>1, <1>2, <1>3, <1>4 DEF Next

\* Every reachable state is well typed: in particular the rows of task_runs
\* only ever hold one of the five statuses and a real task and trigger.
THEOREM TypeCorrect == Spec => []TypeOK
  <1>1. Init => TypeOK /\ RunKinds
    BY InitType
  <1>2. (TypeOK /\ RunKinds) /\ [Next]_vars => (TypeOK /\ RunKinds)'
    BY StepType
  <1>3. QED
    BY <1>1, <1>2, PTL DEF Spec

-----------------------------------------------------------------------------
(* Single flight                                                           *)

\* What the other goroutines see of a step of t.
Others(t) == \A u \in Threads \ {t} : pc'[u] = pc[u] /\ job'[u] = job[u]

\* A step of t that neither enters nor leaves the single-flight section.
OutsideStep(t) ==
    /\ pc[t] \notin Critical /\ pc'[t] \notin Critical /\ Others(t)
    /\ UNCHANGED <<runs, inflight, lost>>

SectionStep(t) ==
    \/ MarkInflight(t) \/ StartRun(t) \/ StartRunFails(t) \/ DriverReturns(t)
    \/ FinishRun(t) \/ FinishRunFails(t) \/ ReleaseInflight(t)

FrameStep == UNCHANGED <<runs, inflight, pc, job, lost>>

\* All the single-flight section can see of a step.
LEMMA StepKinds ==
  ASSUME TypeOK, [Next]_vars
  PROVE  \/ FrameStep \/ ProcessEnds
         \/ \E t \in Threads : OutsideStep(t) \/ SectionStep(t)
  <1> USE DEF store, threads, FrameStep
  <1>1. CASE UNCHANGED vars
    BY <1>1 DEF vars
  <1>2. CASE DaemonStep
    <2>1. CASE ProcessEnds
      BY <2>1
    <2>2. CASE \E g \in BOOLEAN : Boot(g)
      BY <2>2 DEF Boot
    <2>3. CASE \E n \in Tasks : HydrateUpsert(n) \/ HydrateRegister(n)
      BY <2>3 DEF HydrateUpsert, HydrateRegister
    <2>4. CASE HydrateDone \/ Serve \/ Signal \/ GraceExpires \/ StopCron
      BY <2>4 DEF HydrateDone, Serve, Signal, GraceExpires, StopCron
    <2>5. QED
      BY <1>2, <2>1, <2>2, <2>3, <2>4 DEF DaemonStep, HydrateFails, Exit, Crash
  <1>3. ASSUME NEW t \in Threads, GetTask(t) \/ GetTaskSkips(t) \/ AlreadyRunning(t)
        PROVE  OutsideStep(t)
    BY <1>3 DEF GetTask, GetTaskSkips, AlreadyRunning, Goto, Return, OutsideStep,
                Others, Critical, TypeOK
  <1>4. ASSUME NEW t \in Threads, RunStep(t) PROVE OutsideStep(t) \/ SectionStep(t)
    BY <1>3, <1>4 DEF RunStep, SectionStep
  <1>5. ASSUME NEW t \in Threads, Tick(t) PROVE OutsideStep(t)
    <2>1. /\ pc[t] = "idle" /\ pc' = [pc EXCEPT ![t] = "get"]
          /\ UNCHANGED <<runs, inflight, lost>>
      BY <1>5 DEF Tick, Goto
    <2>2. \A u \in Threads \ {t} : job'[u] = job[u]
      BY <1>5 DEF Tick, TypeOK
    <2>3. QED
      BY <2>1, <2>2 DEF OutsideStep, Others, Critical, TypeOK
  <1>6. ASSUME NEW t \in Threads, NEW n \in Tasks, RunNow(t, n) PROVE OutsideStep(t)
    <2>1. /\ pc[t] = "idle" /\ pc' = [pc EXCEPT ![t] = "get"]
          /\ UNCHANGED <<runs, inflight, lost>>
      BY <1>6 DEF RunNow, Goto
    <2>2. \A u \in Threads \ {t} : job'[u] = job[u]
      BY <1>6 DEF RunNow, TypeOK
    <2>3. QED
      BY <2>1, <2>2 DEF OutsideStep, Others, Critical, TypeOK
  <1>7. ASSUME NEW t \in Threads, NEW n \in Tasks, NEW row \in EditRows, SetTask(t, n, row)
        PROVE  OutsideStep(t)
    <2>1. /\ pc[t] = "idle" /\ pc' = [pc EXCEPT ![t] = "sync"]
          /\ UNCHANGED <<runs, inflight, lost>>
      BY <1>7 DEF SetTask, Goto
    <2>2. \A u \in Threads \ {t} : job'[u] = job[u]
      BY <1>7 DEF SetTask, TypeOK
    <2>3. QED
      BY <2>1, <2>2 DEF OutsideStep, Others, Critical, TypeOK
  <1>8. ASSUME NEW t \in Threads, CallerGone(t) PROVE FrameStep
    BY <1>8 DEF CallerGone
  <1>9. ASSUME NEW t \in Threads, SetTaskSync(t) PROVE OutsideStep(t)
    BY <1>9 DEF SetTaskSync, Return, OutsideStep, Others, Critical, TypeOK
  <1>10. QED
    BY <1>1, <1>2, <1>4, <1>5, <1>6, <1>7, <1>8, <1>9 DEF Next

\* inflight, element by element.
LEMMA InflightMembers ==
  InflightExact <=>
      \A n : n \in inflight <=> \E t \in Threads : pc[t] \in Critical /\ job[t].name = n
  BY DEF InflightExact

LEMMA FlightStep ==
  ASSUME TypeOK, TypeOK', SingleFlight, InflightExact, [Next]_vars
  PROVE  SingleFlight' /\ InflightExact'
  <1> USE DEF Critical
  <1>0. pc \in [Threads -> Label] /\ job \in [Threads -> Job]
    BY DEF TypeOK
  <1>1. CASE FrameStep
    BY <1>1 DEF FrameStep, SingleFlight, InflightExact
  <1>2. CASE ProcessEnds
    BY <1>2 DEF ProcessEnds, SingleFlight, InflightExact
  <1>3. ASSUME NEW t \in Threads, OutsideStep(t)
        PROVE  SingleFlight' /\ InflightExact'
    BY <1>3 DEF OutsideStep, Others, SingleFlight, InflightExact
  <1>4. ASSUME NEW t \in Threads,
               StartRun(t) \/ StartRunFails(t) \/ DriverReturns(t)
               \/ FinishRun(t) \/ FinishRunFails(t)
        PROVE  SingleFlight' /\ InflightExact'
    <2>1. /\ pc[t] \in Critical /\ pc'[t] \in Critical
          /\ \A u \in Threads \ {t} : pc'[u] = pc[u]
          /\ inflight' = inflight
      BY <1>0, <1>4 DEF StartRun, StartRunFails, DriverReturns, FinishRun,
                        FinishRunFails, Goto
    <2>2. \A u \in Threads : job'[u].name = job[u].name
      <3>1. CASE UNCHANGED job
        BY <3>1
      <3>2. CASE \E k : job' = [job EXCEPT ![t].id = k]
        BY <1>0, <3>2 DEF Job
      <3>3. CASE \E s : job' = [job EXCEPT ![t].status = s]
        BY <1>0, <3>3 DEF Job
      <3>4. QED
        BY <1>4, <3>1, <3>2, <3>3 DEF StartRun, StartRunFails, DriverReturns,
                                      FinishRun, FinishRunFails
    <2>3. QED
      BY <2>1, <2>2 DEF SingleFlight, InflightExact
  <1>5. ASSUME NEW t \in Threads, MarkInflight(t)
        PROVE  SingleFlight' /\ InflightExact'
    <2>1. /\ job[t].name \notin inflight /\ inflight' = inflight \cup {job[t].name}
          /\ pc[t] = "mark" /\ pc' = [pc EXCEPT ![t] = "start"] /\ job' = job
      BY <1>5 DEF MarkInflight, Goto
    <2>2. SingleFlight'
      BY <1>0, <2>1 DEF SingleFlight, InflightExact
    <2>3. InflightExact'
      BY <1>0, <2>1 DEF InflightExact
    <2>4. QED BY <2>2, <2>3
  <1>6. ASSUME NEW t \in Threads, ReleaseInflight(t)
        PROVE  SingleFlight' /\ InflightExact'
    <2>1. /\ pc[t] = "release" /\ pc'[t] = "idle" /\ Others(t)
          /\ inflight' = inflight \ {job[t].name}
      BY <1>0, <1>6 DEF ReleaseInflight, Return, Others
    <2>2. SingleFlight'
      BY <1>0, <2>1 DEF SingleFlight, Others
    <2>3. InflightExact'
      BY <1>0, <2>1 DEF SingleFlight, InflightExact, Others
    <2>4. QED BY <2>2, <2>3
  <1>7. QED
    BY <1>1, <1>2, <1>3, <1>4, <1>5, <1>6, StepKinds DEF SectionStep

\* No two goroutines ever run the same task: whatever ticks, requests, failures,
\* crashes and restarts do, Runner.inflight admits one at a time.
THEOREM SingleFlightHolds == Spec => []SingleFlight
  <1>1. Init => TypeOK /\ RunKinds /\ SingleFlight /\ InflightExact
    BY InitType DEF Init, SingleFlight, InflightExact, Critical
  <1>2. (TypeOK /\ RunKinds /\ SingleFlight /\ InflightExact) /\ [Next]_vars
        => (TypeOK /\ RunKinds /\ SingleFlight /\ InflightExact)'
    BY StepType, FlightStep
  <1>3. QED
    BY <1>1, <1>2, PTL DEF Spec

\* And it holds a task no longer than that: the in-flight set is exactly the
\* tasks some goroutine is running, so no error path leaves one blocked.
THEOREM InflightExactHolds == Spec => []InflightExact
  <1>1. Init => TypeOK /\ RunKinds /\ SingleFlight /\ InflightExact
    BY InitType DEF Init, SingleFlight, InflightExact, Critical
  <1>2. (TypeOK /\ RunKinds /\ SingleFlight /\ InflightExact) /\ [Next]_vars
        => (TypeOK /\ RunKinds /\ SingleFlight /\ InflightExact)'
    BY StepType, FlightStep
  <1>3. QED
    BY <1>1, <1>2, PTL DEF Spec

-----------------------------------------------------------------------------
(* Run rows                                                                *)

Rows == OwnRow /\ LostRows /\ RunningIsAccounted

\* A step that neither opens nor closes t's row.
QuietStep(t) ==
    /\ pc[t] \notin Recorded /\ pc'[t] \notin Recorded /\ Others(t)
    /\ UNCHANGED <<runs, lost>>

LEMMA QuietSteps ==
  ASSUME TypeOK, NEW t \in Threads,
         \/ OutsideStep(t) \/ MarkInflight(t) \/ StartRunFails(t) \/ ReleaseInflight(t)
  PROVE  QuietStep(t)
  BY DEF OutsideStep, MarkInflight, StartRunFails, ReleaseInflight, Goto, Return,
         QuietStep, Others, Critical, Recorded, TypeOK, store

LEMMA OwnedMembers ==
  \A i : i \in Owned <=> \E t \in Threads : pc[t] \in Recorded /\ job[t].id = i
  BY DEF Owned

LEMMA OwnedRows ==
  ASSUME OwnRow
  PROVE  Owned \subseteq DOMAIN runs
  BY DEF OwnRow, Owned

\* Rows that keep the goroutines' ids and rows keep Rows.
LEMMA RowsFrame ==
  ASSUME TypeOK, Rows, UNCHANGED <<runs, lost>>,
         \A t \in Threads : (pc[t] \in Recorded) <=> (pc'[t] \in Recorded),
         \A t \in Threads : pc[t] \in Recorded =>
            /\ job'[t].id = job[t].id
            /\ job'[t].name = job[t].name
            /\ job'[t].trigger = job[t].trigger
  PROVE  Rows'
  <1>1. Owned' = Owned
    BY DEF Owned
  <1>2. \A t \in Threads : pc[t] \in Recorded => NewRunRow(t)' = NewRunRow(t)
    BY DEF NewRunRow
  <1>3. OwnRow'
    BY <1>2 DEF Rows, OwnRow
  <1>4. LostRows' /\ RunningIsAccounted'
    BY <1>1 DEF Rows, LostRows, RunningIsAccounted
  <1>5. QED
    BY <1>3, <1>4 DEF Rows

LEMMA RowsProcessEnds ==
  ASSUME TypeOK, Rows, ProcessEnds
  PROVE  Rows'
  <1>1. /\ runs' = runs /\ lost' = lost \cup Owned
        /\ \A t \in Threads : pc'[t] = "idle"
    BY DEF ProcessEnds, store
  <1>2. Owned' = {}
    BY <1>1 DEF Owned, Recorded
  <1>3. OwnRow'
    BY <1>1 DEF OwnRow, Recorded
  <1>4. LostRows' /\ RunningIsAccounted'
    BY <1>1, <1>2, OwnedRows DEF Rows, LostRows, RunningIsAccounted
  <1>5. QED
    BY <1>3, <1>4 DEF Rows

LEMMA RowsStartRun ==
  ASSUME TypeOK, TypeOK', RunKinds, Rows, NEW t \in Threads, StartRun(t)
  PROVE  Rows'
  <1> DEFINE new == Len(runs) + 1
  <1>1. /\ pc[t] = "start" /\ pc'[t] = "drive" /\ lost' = lost
        /\ job'[t].id = new
        /\ job'[t].name = job[t].name /\ job'[t].trigger = job[t].trigger
        /\ Others(t)
    BY DEF StartRun, Goto, TypeOK, Job, Others
  <1>2. /\ DOMAIN runs' = DOMAIN runs \cup {new} /\ new \notin DOMAIN runs
        /\ \A i \in DOMAIN runs : runs'[i] = runs[i]
        /\ runs'[new] = NewRunRow(t)
    <2>1. runs \in Seq(RunRow) /\ NewRunRow(t) \in RunRow
      BY <1>1, NewRunRowType DEF TypeOK
    <2>2. runs' = Append(runs, NewRunRow(t))
      BY DEF StartRun
    <2>3. QED
      BY <2>1, <2>2
  <1>3. Owned' = Owned \cup {new}
    <2>1. \A u \in Threads : pc'[u] \in Recorded <=> (pc[u] \in Recorded \/ u = t)
      BY <1>1 DEF Others, Recorded
    <2>2. \A u \in Threads : pc[u] \in Recorded => job'[u].id = job[u].id
      BY <1>1 DEF Others, Recorded
    <2>3. QED
      BY <1>1, <2>1, <2>2 DEF Owned
  <1>4. OwnRow'
    <2> SUFFICES ASSUME NEW u \in Threads, pc'[u] \in Recorded
                 PROVE  /\ job'[u].id \in DOMAIN runs'
                        /\ runs'[job'[u].id] = NewRunRow(u)'
                        /\ \A v \in Threads \ {u} :
                             pc'[v] \in Recorded => job'[v].id # job'[u].id
      BY DEF OwnRow
    <2>1. \A v \in Threads \ {t} : pc'[v] \in Recorded =>
              pc[v] \in Recorded /\ job'[v] = job[v] /\ job[v].id \in DOMAIN runs
      BY <1>1 DEF Rows, OwnRow, Others
    <2>2. CASE u = t
      <3>1. runs'[job'[u].id] = NewRunRow(u)'
        BY <1>1, <1>2, <2>2 DEF NewRunRow
      <3>2. QED
        BY <1>1, <1>2, <2>1, <2>2, <3>1
    <2>3. CASE u # t
      <3>1. runs'[job'[u].id] = NewRunRow(u)'
        BY <1>2, <2>1, <2>3 DEF NewRunRow, Rows, OwnRow
      <3>2. \A v \in Threads \ {u} : pc'[v] \in Recorded => job'[v].id # job'[u].id
        BY <1>1, <1>2, <2>1, <2>3 DEF Rows, OwnRow
      <3>3. QED
        BY <1>2, <2>1, <2>3, <3>1, <3>2
    <2>4. QED BY <2>2, <2>3
  <1>5. LostRows'
    BY <1>1, <1>2, <1>3 DEF Rows, LostRows
  <1>6. RunningIsAccounted'
    <2>1. runs'[new].status = "running"
      BY <1>2 DEF NewRunRow
    <2>2. QED
      BY <1>1, <1>2, <1>3, <2>1 DEF Rows, LostRows, RunningIsAccounted
  <1>7. QED
    BY <1>4, <1>5, <1>6 DEF Rows

\* A goroutine that leaves its row behind, closed or lost.
LEMMA RowsClose ==
  ASSUME TypeOK, Rows, NEW t \in Threads,
         pc[t] = "finish", pc'[t] = "release", Others(t),
         DOMAIN runs' = DOMAIN runs,
         \A i \in DOMAIN runs : i # job[t].id => runs'[i] = runs[i],
         \/ runs'[job[t].id].status # "running" /\ lost' = lost
         \/ runs' = runs /\ lost' = lost \cup {job[t].id}
  PROVE  Rows'
  <1>1. /\ job[t].id \in DOMAIN runs /\ runs[job[t].id].status = "running"
        /\ \A u \in Threads \ {t} : pc[u] \in Recorded => job[u].id # job[t].id
    <2>1. pc[t] \in Recorded
      BY DEF Recorded
    <2>2. NewRunRow(t).status = "running"
      BY DEF NewRunRow
    <2>3. QED
      BY <2>1, <2>2 DEF Rows, OwnRow
  <1>2. /\ \A u \in Threads : pc'[u] \in Recorded <=> (pc[u] \in Recorded /\ u # t)
        /\ \A u \in Threads : u # t => job'[u] = job[u]
    BY DEF Others, Recorded
  <1>3. Owned' = Owned \ {job[t].id}
    BY <1>1, <1>2 DEF Owned
  <1>4. job[t].id \in Owned
    BY DEF Owned, Recorded
  <1>5. OwnRow'
    <2> SUFFICES ASSUME NEW u \in Threads, pc'[u] \in Recorded
                 PROVE  /\ job'[u].id \in DOMAIN runs'
                        /\ runs'[job'[u].id] = NewRunRow(u)'
                        /\ \A v \in Threads \ {u} :
                             pc'[v] \in Recorded => job'[v].id # job'[u].id
      BY DEF OwnRow
    <2>1. /\ pc[u] \in Recorded /\ u # t /\ job'[u] = job[u]
          /\ job[u].id # job[t].id /\ job[u].id \in DOMAIN runs
          /\ runs[job[u].id] = NewRunRow(u)
      BY <1>1, <1>2 DEF Rows, OwnRow
    <2>2. runs'[job'[u].id] = NewRunRow(u)'
      BY <2>1 DEF NewRunRow
    <2>3. QED
      BY <1>2, <2>1, <2>2 DEF Rows, OwnRow
  <1>6. LostRows'
    BY <1>1, <1>3 DEF Rows, LostRows
  <1>7. RunningIsAccounted'
    BY <1>1, <1>3, <1>4 DEF Rows, LostRows, RunningIsAccounted
  <1>8. QED
    BY <1>5, <1>6, <1>7 DEF Rows

\* What FinishRun does to the table.
LEMMA FinishRunRows ==
  ASSUME TypeOK, NEW t \in Threads, FinishRun(t)
  PROVE  /\ job[t].id \in DOMAIN runs /\ runs[job[t].id].status = "running"
         /\ DOMAIN runs' = DOMAIN runs
         /\ \A i \in DOMAIN runs : i # job[t].id => runs'[i] = runs[i]
         /\ runs'[job[t].id].task = runs[job[t].id].task
         /\ runs'[job[t].id].status \in Terminal
  <1>1. job[t].id \in DOMAIN runs /\ runs[job[t].id] \in RunRow /\ job[t].status \in Terminal
    BY ElementOfSeq, LenProperties DEF FinishRun, TypeOK, Job
  <1>2. /\ DOMAIN runs' = DOMAIN runs
        /\ \A i \in DOMAIN runs : i # job[t].id => runs'[i] = runs[i]
        /\ runs'[job[t].id] = [runs[job[t].id] EXCEPT !.status = job[t].status]
    BY <1>1 DEF FinishRun
  <1>3. runs[job[t].id].status = "running"
    BY DEF FinishRun
  <1>4. /\ runs'[job[t].id].task = runs[job[t].id].task
        /\ runs'[job[t].id].status = job[t].status
    BY <1>1, <1>2 DEF RunRow
  <1>5. QED
    BY <1>1, <1>2, <1>3, <1>4

LEMMA RowsStep ==
  ASSUME TypeOK, TypeOK', RunKinds, Rows, [Next]_vars
  PROVE  Rows'
  <1>1. CASE FrameStep
    BY <1>1, RowsFrame DEF FrameStep
  <1>2. CASE ProcessEnds
    BY <1>2, RowsProcessEnds
  <1>3. ASSUME NEW t \in Threads,
               OutsideStep(t) \/ MarkInflight(t) \/ StartRunFails(t) \/ ReleaseInflight(t)
        PROVE  Rows'
    <2>1. QuietStep(t)
      BY <1>3, QuietSteps
    <2>2. QED
      BY <2>1, RowsFrame DEF QuietStep, Others
  <1>4. ASSUME NEW t \in Threads, StartRun(t) PROVE Rows'
    BY <1>4, RowsStartRun
  <1>5. ASSUME NEW t \in Threads, DriverReturns(t) PROVE Rows'
    <2>1. /\ pc[t] = "drive" /\ pc' = [pc EXCEPT ![t] = "finish"]
          /\ UNCHANGED <<runs, lost>>
      BY <1>5 DEF DriverReturns, Goto, store
    <2>2. PICK s : job' = [job EXCEPT ![t].status = s]
      BY <1>5 DEF DriverReturns
    <2>3. \A u \in Threads : /\ job'[u].id = job[u].id
                             /\ job'[u].name = job[u].name
                             /\ job'[u].trigger = job[u].trigger
      BY <2>2 DEF TypeOK, Job
    <2>4. \A u \in Threads : (pc[u] \in Recorded) <=> (pc'[u] \in Recorded)
      BY <2>1 DEF Recorded, TypeOK
    <2>5. QED
      BY <2>1, <2>3, <2>4, RowsFrame
  <1>6. ASSUME NEW t \in Threads, FinishRun(t) PROVE Rows'
    <2>1. /\ pc[t] = "finish" /\ pc'[t] = "release" /\ Others(t) /\ lost' = lost
      BY <1>6 DEF FinishRun, Goto, Others, TypeOK
    <2>2. runs'[job[t].id].status # "running"
      BY <1>6, FinishRunRows DEF Terminal
    <2>3. QED
      BY <1>6, <2>1, <2>2, FinishRunRows, RowsClose
  <1>7. ASSUME NEW t \in Threads, FinishRunFails(t) PROVE Rows'
    <2>1. /\ pc[t] = "finish" /\ pc'[t] = "release" /\ Others(t)
          /\ runs' = runs /\ lost' = lost \cup {job[t].id}
      BY <1>7 DEF FinishRunFails, Goto, Others, TypeOK, store
    <2>2. QED
      BY <2>1, RowsClose
  <1>8. QED
    BY <1>1, <1>2, <1>3, <1>4, <1>5, <1>6, <1>7, StepKinds DEF SectionStep

LEMMA InitInv == Init => IInv
  <1> SUFFICES ASSUME Init PROVE IInv
    OBVIOUS
  <1>1. /\ \A t \in Threads : pc[t] = "idle"
        /\ runs = <<>> /\ lost = {} /\ inflight = {}
    BY DEF Init
  <1>2. Owned = {}
    BY <1>1 DEF Owned, Recorded
  <1>3. TypeOK /\ RunKinds
    BY InitType
  <1>4. SingleFlight /\ InflightExact /\ OwnRow
    BY <1>1 DEF SingleFlight, InflightExact, OwnRow, Critical, Recorded
  <1>5. LostRows /\ RunningIsAccounted
    BY <1>1, <1>2 DEF LostRows, RunningIsAccounted
  <1>6. QED
    BY <1>3, <1>4, <1>5 DEF IInv

LEMMA StepInv == IInv /\ [Next]_vars => IInv'
  BY StepType, FlightStep, RowsStep DEF IInv, Rows

\* Every goroutine that is past StartRun works on a row of its own, the one it
\* inserted.
THEOREM OwnRowHolds == Spec => []OwnRow
  <1>1. IInv => OwnRow
    BY DEF IInv
  <1>2. QED
    BY <1>1, InitInv, StepInv, PTL DEF Spec

\* A row says 'running' exactly while a goroutine works on it or after it was
\* lost to a crash, a shutdown or a failed FinishRun.
THEOREM RunningIsAccountedHolds == Spec => []RunningIsAccounted
  <1>1. IInv => RunningIsAccounted
    BY DEF IInv
  <1>2. QED
    BY <1>1, InitInv, StepInv, PTL DEF Spec

RowsKept == \A i \in DOMAIN runs :
               /\ i \in DOMAIN runs'
               /\ runs'[i].task = runs[i].task
               /\ runs[i].status \in Terminal => runs'[i] = runs[i]

LEMMA StepKeepsRows ==
  ASSUME IInv, [Next]_vars
  PROVE  RowsKept
  <1> USE DEF IInv
  <1>1. CASE UNCHANGED runs
    BY <1>1 DEF RowsKept
  <1>2. ASSUME NEW t \in Threads, StartRun(t) PROVE RowsKept
    <2>1. /\ runs \in Seq(RunRow) /\ NewRunRow(t) \in RunRow
          /\ runs' = Append(runs, NewRunRow(t))
      BY <1>2, NewRunRowType DEF StartRun, TypeOK
    <2>2. QED
      BY <2>1 DEF RowsKept
  <1>3. ASSUME NEW t \in Threads, FinishRun(t) PROVE RowsKept
    BY <1>3, FinishRunRows DEF RowsKept, Terminal
  <1>4. QED
    BY <1>1, <1>2, <1>3, StepKinds
       DEF FrameStep, ProcessEnds, OutsideStep, SectionStep, MarkInflight,
           StartRunFails, DriverReturns, FinishRunFails, ReleaseInflight, store

\* No step, of whatever goroutine, takes a row out of a terminal status.
THEOREM TerminalIsFinalHolds == Spec => TerminalIsFinal
  <1>1. IInv /\ [Next]_vars => [RowsKept]_runs
    BY StepKeepsRows
  <1>2. QED
    BY <1>1, InitInv, StepInv, PTL DEF Spec, TerminalIsFinal, RowsKept

-----------------------------------------------------------------------------
(* Dispatch implements RunLedger                                           *)

Works(t, n) == pc[t] \in Recorded /\ job[t].name = n

LiveRowFound ==
    \A n \in Tasks :
      /\ \A t \in Threads : Works(t, n) => LiveRow(n) = job[t].id
      /\ (\A t \in Threads : ~Works(t, n)) => LiveRow(n) = 0

\* By SingleFlight the row a task is running under is that of the one goroutine
\* working on it.
LEMMA LiveRowIs == SingleFlight => LiveRowFound
  <1> SUFFICES ASSUME SingleFlight, NEW n \in Tasks
               PROVE  /\ \A t \in Threads : Works(t, n) => LiveRow(n) = job[t].id
                      /\ (\A t \in Threads : ~Works(t, n)) => LiveRow(n) = 0
    BY DEF LiveRowFound
  <1> DEFINE here == {t \in Threads : Works(t, n)}
  <1>1. LiveRow(n) = IF here = {} THEN 0 ELSE job[CHOOSE t \in here : TRUE].id
    BY DEF LiveRow, Works
  <1>2. ASSUME NEW t \in Threads, Works(t, n) PROVE here = {t}
    BY <1>2 DEF SingleFlight, Works, Recorded, Critical
  <1>3. ASSUME NEW t \in Threads, here = {t} PROVE (CHOOSE u \in here : TRUE) = t
    BY <1>3
  <1>4. ASSUME NEW t \in Threads, Works(t, n) PROVE LiveRow(n) = job[t].id
    BY <1>1, <1>2, <1>3, <1>4
  <1>5. ASSUME \A t \in Threads : ~Works(t, n) PROVE LiveRow(n) = 0
    BY <1>1, <1>5
  <1>6. QED
    BY <1>4, <1>5

LEMMA LiveRowIsNext == SingleFlight' => LiveRowFound'
  BY LiveRowIs, PTL

\* A task nobody has just begun or ended working on has the row it had.
LEMMA LiveRowFrame ==
  ASSUME SingleFlight, SingleFlight', NEW n \in Tasks,
         \A t \in Threads : Works(t, n) <=> Works(t, n)',
         \A t \in Threads : Works(t, n) => job'[t].id = job[t].id
  PROVE  LiveRow(n)' = LiveRow(n)
  BY LiveRowIs, LiveRowIsNext DEF LiveRowFound

LEMMA StepLedger ==
  ASSUME IInv, IInv', [Next]_vars
  PROVE  [Ledger!LedgerNext]_(Ledger!lvars)
  <1> DEFINE live == [n \in Tasks |-> LiveRow(n)]
  <1> USE DEF IInv
  <1>1. ASSUME runs' = runs, \A n \in Tasks : LiveRow(n)' = LiveRow(n)
        PROVE  UNCHANGED Ledger!lvars
    BY <1>1 DEF Ledger!lvars
  <1>2. CASE FrameStep
    BY <1>1, <1>2, LiveRowFrame DEF FrameStep, Works
  <1>3. CASE ProcessEnds
    <2>1. \A n \in Tasks : LiveRow(n)' = 0
      BY <1>3, LiveRowIsNext DEF LiveRowFound, ProcessEnds, Works, Recorded
    <2>2. Ledger!Abandon(Tasks)
      BY <1>3, <2>1 DEF Ledger!Abandon, ProcessEnds, store
    <2>3. QED
      BY <2>2 DEF Ledger!LedgerNext
  <1>4. ASSUME NEW t \in Threads, QuietStep(t) PROVE UNCHANGED Ledger!lvars
    BY <1>1, <1>4, LiveRowFrame DEF QuietStep, Others, Works
  <1>5. ASSUME NEW t \in Threads, DriverReturns(t) PROVE UNCHANGED Ledger!lvars
    <2>1. pc[t] = "drive" /\ pc' = [pc EXCEPT ![t] = "finish"] /\ runs' = runs
      BY <1>5 DEF DriverReturns, Goto, store
    <2>2. PICK s : job' = [job EXCEPT ![t].status = s]
      BY <1>5 DEF DriverReturns
    <2>3. \A u \in Threads : job'[u].id = job[u].id /\ job'[u].name = job[u].name
      BY <2>2 DEF TypeOK, Job
    <2>4. \A u \in Threads : (pc[u] \in Recorded) <=> (pc'[u] \in Recorded)
      BY <2>1 DEF Recorded, TypeOK
    <2>5. QED
      BY <1>1, <2>1, <2>3, <2>4, LiveRowFrame DEF Works
  <1>6. ASSUME NEW t \in Threads, NEW n \in Tasks, n = job[t].name, StartRun(t)
        PROVE  Ledger!LedgerNext
    <2>1. /\ pc[t] = "start" /\ pc'[t] = "drive" /\ Others(t)
          /\ runs' = Append(runs, NewRunRow(t))
          /\ job'[t].name = n /\ job'[t].id = Len(runs) + 1
      BY <1>6 DEF StartRun, Goto, Others, TypeOK, Job
    <2>2. job[t].trigger \in Triggers
      BY <1>6, <2>1 DEF TypeOK, RunKinds, RunLabels, Job
    <2>3. \A u \in Threads : ~Works(u, n)
      BY <1>6, <2>1 DEF SingleFlight, Works, Recorded, Critical
    <2>4. LiveRow(n) = 0
      BY <2>3, LiveRowIs DEF LiveRowFound
    <2>5. LiveRow(n)' = Len(runs) + 1
      BY <1>6, <2>1, LiveRowIsNext DEF LiveRowFound, Works, Recorded
    <2>6. \A m \in Tasks \ {n} : LiveRow(m)' = LiveRow(m)
      BY <1>6, <2>1, LiveRowFrame DEF Others, Works
    <2>7. live' = [live EXCEPT ![n] = Len(runs) + 1]
      BY <2>5, <2>6
    <2>8. Ledger!Begin(n, job[t].trigger)
      BY <1>6, <2>1, <2>2, <2>4, <2>7 DEF Ledger!Begin, NewRunRow
    <2>9. QED
      BY <2>2, <2>8 DEF Ledger!LedgerNext
  <1>7. ASSUME NEW t \in Threads, NEW n \in Tasks, n = job[t].name,
               FinishRun(t) \/ FinishRunFails(t)
        PROVE  Ledger!LedgerNext
    <2>1. /\ pc[t] = "finish" /\ pc'[t] = "release" /\ Others(t)
          /\ job[t].status \in Terminal
      BY <1>7 DEF FinishRun, FinishRunFails, Goto, Others, TypeOK, Job
    <2>2. LiveRow(n) = job[t].id
      BY <1>7, <2>1, LiveRowIs DEF LiveRowFound, Works, Recorded
    <2>3. LiveRow(n)' = 0
      <3>1. \A u \in Threads \ {t} : ~Works(u, n)
        BY <1>7, <2>1 DEF SingleFlight, Works, Recorded, Critical
      <3>2. \A u \in Threads : ~Works(u, n)'
        BY <1>7, <2>1, <3>1 DEF Others, Works, Recorded
      <3>3. QED
        BY <3>2, LiveRowIsNext DEF LiveRowFound
    <2>4. \A m \in Tasks \ {n} : LiveRow(m)' = LiveRow(m)
      <3>1. job'[t].name = n
        BY <1>7 DEF FinishRun, FinishRunFails
      <3>2. QED
        BY <1>7, <2>1, <3>1, LiveRowFrame DEF Others, Works
    <2>5. CASE FinishRun(t)
      <3>1. live' = [live EXCEPT ![n] = 0]
        BY <1>7, <2>1, <2>3, <2>4
      <3>2. LiveRow(n) # 0
        BY <2>2, <2>5, LenProperties DEF FinishRun, TypeOK
      <3>3. Ledger!End(n, job[t].status)
        BY <1>7, <2>1, <2>2, <2>5, <3>1, <3>2 DEF Ledger!End, FinishRun
      <3>4. QED
        BY <1>7, <2>1, <3>3 DEF Ledger!LedgerNext
    <2>6. CASE FinishRunFails(t)
      <3>1. live' = [m \in Tasks |-> IF m \in {n} THEN 0 ELSE live[m]]
        BY <2>3, <2>4
      <3>2. Ledger!Abandon({n})
        BY <2>6, <3>1 DEF Ledger!Abandon, FinishRunFails, store
      <3>3. QED
        BY <1>7, <2>1, <3>2 DEF Ledger!LedgerNext
    <2>7. QED
      BY <1>7, <2>5, <2>6
  <1>8. ASSUME NEW t \in Threads, OutsideStep(t) \/ SectionStep(t)
        PROVE  [Ledger!LedgerNext]_(Ledger!lvars)
    <2>1. job[t].name \in Tasks
      BY DEF TypeOK, Job
    <2>2. QED
      BY <1>4, <1>5, <1>6, <1>7, <1>8, <2>1, QuietSteps DEF SectionStep
  <1>9. QED
    BY <1>1, <1>2, <1>3, <1>8, StepKinds

\* Dispatch implements RunLedger: whatever happens, task_runs reads as a ledger
\* in which the runs of a task follow one another and a row is closed once.
THEOREM ImplementsLedger == Spec => LedgerSpec
  <1>1. Init => Ledger!LedgerInit
    <2> SUFFICES ASSUME Init PROVE Ledger!LedgerInit
      OBVIOUS
    <2>1. SingleFlight /\ \A t \in Threads, n \in Tasks : ~Works(t, n)
      BY InitInv DEF IInv, Init, Works, Recorded
    <2>2. \A n \in Tasks : LiveRow(n) = 0
      BY <2>1, LiveRowIs DEF LiveRowFound
    <2>3. QED
      BY <2>2 DEF Ledger!LedgerInit, Init
  <1>2. QED
    BY <1>1, InitInv, StepInv, StepLedger, PTL DEF Spec, LedgerSpec, Ledger!LedgerSpec
=============================================================================
