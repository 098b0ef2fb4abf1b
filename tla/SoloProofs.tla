----------------------------- MODULE SoloProofs -----------------------------
(***************************************************************************)
(* Theorems about Solo, for every set of deployments and any number of     *)
(* runs, machines and writes.                                              *)
(***************************************************************************)
EXTENDS Solo, FiniteSetTheorems, TLAPS

-----------------------------------------------------------------------------
(* The failed marker                                                       *)

\* A run of the bootstrap finds no marker, and its failure is pushed before the
\* marker is written.
MarkerInv ==
    /\ pc # "off" => ~marker
    /\ (marker \/ pc = "mark") /\ spec.valid /\ ~untold => phase = "failed"

LEMMA StepMarker == MarkerInv /\ [Next]_vars => MarkerInv'
  <1> SUFFICES ASSUME MarkerInv, [Next]_vars PROVE MarkerInv'
    OBVIOUS
  <1> USE DEF MarkerInv, run, count, source, units, replic, history
  <1>1. CASE Begin
    BY <1>1 DEF Begin, Progress
  <1>2. CASE StepFails \/ ReportFailure
    BY <1>2 DEF StepFails, ReportFailure, MayFail, Fatal
  <1>3. CASE WriteFailedMarker \/ Succeed
    BY <1>3 DEF WriteFailedMarker, Succeed, Leaves
  <1>4. CASE MakeVersion \/ Fetch \/ DetectFramework \/ InstallOSDeps
             \/ InstallLitestream \/ TruncateConfig \/ FillConfig
    BY <1>4 DEF MakeVersion, Fetch, DetectFramework, InstallOSDeps,
                InstallLitestream, TruncateConfig, FillConfig, Goes
  <1>5. CASE Restore \/ EnableLitestream \/ InstallAppDeps \/ Migrate
             \/ ConfigureCaddy
    BY <1>5 DEF Restore, EnableLitestream, InstallAppDeps, Migrate,
                ConfigureCaddy, Goes
  <1>6. CASE SwapCurrent \/ PersistSecret \/ StoreSecret \/ TruncateUnit
             \/ WriteUnit \/ DaemonReload \/ InstallExecWrapper
    BY <1>6 DEF SwapCurrent, PersistSecret, StoreSecret, TruncateUnit,
                WriteUnit, DaemonReload, InstallExecWrapper, Goes
  <1>7. CASE EnableApp \/ RestartApp \/ Healthcheck
    BY <1>7 DEF EnableApp, RestartApp, Healthcheck, Goes
  <1>8. CASE Host
    BY <1>8 DEF Host, Crash, AppDies, Reboot, AppWrites, Replicate,
                ReplaceMachine, Leaves
  <1>9. CASE UNCHANGED vars
    BY <1>9 DEF vars
  <1>10. QED
    BY <1>1, <1>2, <1>3, <1>4, <1>5, <1>6, <1>7, <1>8, <1>9 DEF Next, Run

\* A machine with the marker has told the control plane that it failed, unless
\* that one push was lost (RunSoloFromSpec pushes before it writes the marker).
THEOREM FailureReportedHolds == Spec => []FailureReported
  <1>1. SoloInit => MarkerInv
    BY DEF SoloInit, MarkerInv
  <1>2. MarkerInv => FailureReported
    BY DEF MarkerInv, FailureReported
  <1>3. QED
    BY <1>1, <1>2, StepMarker, PTL DEF Spec

-----------------------------------------------------------------------------
(* Version directories                                                     *)

\* Where the run has a version directory, where it is being filled, and where it
\* is complete.
Filling  == {"detect", "os", "install", "truncate", "fill", "restore",
             "replicate", "deps"}
Complete == {"migrate", "caddy", "swap", "secret", "store", "unit", "write",
             "reload", "wrapper", "enable", "restart", "health", "told"}
HasDir   == {"fetch"} \cup Filling \cup Complete

Used == {v \in Versions : ver[v] # "none"}

\* The directories that were made are the first ones, one per run at most.
UsedInv ==
    /\ runs \in Nat /\ runs <= MaxRuns
    /\ ver \in [Versions -> {"none", "empty", "source", "built"}]
    /\ \E k \in Nat : /\ Used = 1 .. k /\ k <= runs
                      /\ pc = "make" => k < runs

\* The run works in a directory that nothing it did not build can be started
\* from.
BuiltInv ==
    /\ pc \in HasDir => dir \in Versions
    /\ pc = "fetch" => ver[dir] = "empty"
    /\ pc \in Filling => ver[dir] = "source"
    /\ pc \in Complete => ver[dir] = "built"
    /\ current # 0 => current \in Versions /\ ver[current] = "built"
    /\ app # 0 => app \in Versions /\ ver[app] = "built"

\* nextVersionDir returns a number no directory has.
LEMMA NextVersionIsNew ==
    ASSUME UsedInv, pc = "make"
    PROVE  /\ NextVersion \in Versions /\ ver[NextVersion] = "none"
           /\ \E k \in Nat : Used = 1 .. k /\ NextVersion = k + 1 /\ k < runs
  <1>1. PICK k \in Nat : Used = 1 .. k /\ k < runs
    BY DEF UsedInv
  <1>2. {0} \cup Used = 0 .. k
    BY <1>1
  <1>3. \A x \in 0 .. k : (\A y \in 0 .. k : x >= y) <=> x = k
    OBVIOUS
  <1>4. Max(0 .. k) = k
    BY <1>3 DEF Max
  <1>5. NextVersion = k + 1
    <2>1. NextVersion = 1 + Max({0} \cup Used)
      BY Zenon DEF NextVersion, Used
    <2>2. Max({0} \cup Used) = k
      BY <1>2, <1>4, Zenon
    <2>3. QED
      BY <2>1, <2>2
  <1>6. k + 1 \in Versions
    <2>1. runs \in Nat /\ runs <= MaxRuns /\ MaxRuns \in Nat
      BY SoloAssumption DEF UsedInv
    <2>2. QED
      BY <1>1, <2>1 DEF Versions
  <1>7. k + 1 \notin Used
    BY <1>1
  <1>8. QED
    BY <1>1, <1>5, <1>6, <1>7 DEF Used

LEMMA StepUsed == UsedInv /\ BuiltInv /\ [Next]_vars => UsedInv'
  <1> SUFFICES ASSUME UsedInv, BuiltInv, [Next]_vars PROVE UsedInv'
    OBVIOUS
  <1> USE DEF run, count, source, units, replic, history
  <1>1. CASE Begin
    <2>1. PICK k \in Nat : Used = 1 .. k /\ k <= runs
      BY DEF UsedInv
    <2>2. runs' \in Nat /\ runs' <= MaxRuns /\ k < runs'
      BY <1>1, <2>1, SoloAssumption DEF Begin, UsedInv
    <2>3. QED
      BY <1>1, <2>1, <2>2 DEF Begin, UsedInv, Used
  <1>2. CASE MakeVersion
    <2>1. PICK k \in Nat : Used = 1 .. k /\ NextVersion = k + 1 /\ k < runs
      BY <1>2, NextVersionIsNew DEF MakeVersion, Goes
    <2>2. NextVersion \in Versions
      BY <1>2, NextVersionIsNew DEF MakeVersion, Goes
    <2>3. Used' = Used \cup {NextVersion}
      BY <1>2, <2>2 DEF MakeVersion, UsedInv, Used
    <2>4. Used' = 1 .. (k + 1) /\ k + 1 <= runs
      BY <2>1, <2>3 DEF UsedInv
    <2>5. pc' # "make"
      BY <1>2 DEF MakeVersion, Goes
    <2>6. UNCHANGED runs /\ ver' \in [Versions -> {"none", "empty", "source", "built"}]
      BY <1>2 DEF MakeVersion, Goes, UsedInv
    <2>7. QED
      BY <2>1, <2>4, <2>5, <2>6 DEF UsedInv
  <1>3. CASE Fetch \/ InstallAppDeps
    <2>1. pc # "make" /\ pc' # "make" /\ UNCHANGED runs
      BY <1>3 DEF Fetch, InstallAppDeps, Goes
    <2>2. /\ dir \in Versions /\ ver[dir] # "none"
          /\ ver' \in {[ver EXCEPT ![dir] = "source"],
                        [ver EXCEPT ![dir] = "built"]}
      BY <1>3 DEF Fetch, InstallAppDeps, Goes, BuiltInv, HasDir, Filling
    <2>3. Used' = Used
      BY <2>2 DEF UsedInv, Used
    <2>4. QED
      BY <2>1, <2>2, <2>3 DEF UsedInv
  <1>4. CASE ReplaceMachine
    <2>1. Used' = 1 .. 0 /\ pc' # "make" /\ UNCHANGED runs
      BY <1>4 DEF ReplaceMachine, Leaves, Used
    <2>2. QED
      BY <1>4, <2>1 DEF UsedInv, ReplaceMachine
  <1>5. ASSUME UNCHANGED <<runs, ver>>, pc' = "make" => pc = "make"
        PROVE  UsedInv'
    BY <1>5 DEF UsedInv, Used
  <1>6. CASE StepFails \/ ReportFailure \/ WriteFailedMarker \/ Succeed
    BY <1>5, <1>6 DEF StepFails, ReportFailure, WriteFailedMarker, Succeed, Leaves
  <1>7. CASE DetectFramework \/ InstallOSDeps \/ InstallLitestream
             \/ TruncateConfig \/ FillConfig \/ Restore \/ EnableLitestream
             \/ Migrate \/ ConfigureCaddy
    BY <1>5, <1>7 DEF DetectFramework, InstallOSDeps, InstallLitestream,
             TruncateConfig, FillConfig, Restore, EnableLitestream, Migrate,
             ConfigureCaddy, Goes
  <1>8. CASE SwapCurrent \/ PersistSecret \/ StoreSecret \/ TruncateUnit
             \/ WriteUnit \/ DaemonReload \/ InstallExecWrapper \/ EnableApp
             \/ RestartApp \/ Healthcheck
    BY <1>5, <1>8 DEF SwapCurrent, PersistSecret, StoreSecret, TruncateUnit,
             WriteUnit, DaemonReload, InstallExecWrapper, EnableApp, RestartApp,
             Healthcheck, Goes
  <1>9. CASE Crash \/ AppDies \/ Reboot \/ AppWrites \/ Replicate
    BY <1>5, <1>9 DEF Crash, AppDies, Reboot, AppWrites, Replicate, Leaves
  <1>10. CASE UNCHANGED vars
    BY <1>5, <1>10 DEF vars
  <1>11. QED
    BY <1>1, <1>2, <1>3, <1>4, <1>6, <1>7, <1>8, <1>9, <1>10 DEF Next, Run, Host

LEMMA StepBuilt == UsedInv /\ BuiltInv /\ [Next]_vars => BuiltInv'
  <1> SUFFICES ASSUME UsedInv, BuiltInv, [Next]_vars PROVE BuiltInv'
    OBVIOUS
  <1> USE DEF BuiltInv, HasDir, Filling, Complete, run, count, source, units,
              replic, history
  <1>1. CASE Begin
    BY <1>1 DEF Begin
  <1>2. CASE MakeVersion
    BY <1>2, NextVersionIsNew DEF MakeVersion, Goes, UsedInv
  <1>3. CASE Fetch \/ InstallAppDeps
    BY <1>3 DEF Fetch, InstallAppDeps, Goes, UsedInv
  <1>4. CASE StepFails \/ ReportFailure \/ WriteFailedMarker \/ Succeed
    BY <1>4 DEF StepFails, ReportFailure, WriteFailedMarker, Succeed, Leaves
  <1>5. CASE DetectFramework \/ InstallOSDeps \/ InstallLitestream
             \/ TruncateConfig \/ FillConfig \/ Restore \/ EnableLitestream
             \/ Migrate \/ ConfigureCaddy
    BY <1>5 DEF DetectFramework, InstallOSDeps, InstallLitestream,
             TruncateConfig, FillConfig, Restore, EnableLitestream, Migrate,
             ConfigureCaddy, Goes
  <1>6. CASE SwapCurrent \/ PersistSecret \/ StoreSecret \/ TruncateUnit
             \/ WriteUnit \/ DaemonReload \/ InstallExecWrapper \/ EnableApp
             \/ RestartApp \/ Healthcheck
    BY <1>6 DEF SwapCurrent, PersistSecret, StoreSecret, TruncateUnit,
             WriteUnit, DaemonReload, InstallExecWrapper, EnableApp, RestartApp,
             Healthcheck, Goes
  <1>7. CASE Host
    BY <1>7 DEF Host, Crash, AppDies, Reboot, AppWrites, Replicate,
             ReplaceMachine, Leaves
  <1>8. CASE UNCHANGED vars
    BY <1>8 DEF vars
  <1>9. QED
    BY <1>1, <1>2, <1>3, <1>4, <1>5, <1>6, <1>7, <1>8 DEF Next, Run

LEMMA InitVersions == SoloInit => UsedInv /\ BuiltInv
  <1> SUFFICES ASSUME SoloInit PROVE UsedInv /\ BuiltInv
    OBVIOUS
  <1>1. Used = 1 .. 0
    BY DEF SoloInit, Used
  <1>2. UsedInv
    BY <1>1, SoloAssumption DEF SoloInit, UsedInv
  <1>3. BuiltInv
    BY DEF SoloInit, BuiltInv, HasDir, Filling, Complete
  <1>4. QED
    BY <1>2, <1>3

\* Whatever systemd may start, at a boot or after a crash of the app, is a version
\* whose build ended: stepWriteSystemdUnit moves the symlink only then.
THEOREM CurrentCompleteHolds == Spec => []CurrentComplete
  <1>1. BuiltInv => CurrentComplete
    BY DEF BuiltInv, CurrentComplete
  <1>2. QED
    BY <1>1, InitVersions, StepUsed, StepBuilt, PTL DEF Spec

-----------------------------------------------------------------------------
(* Types                                                                   *)

LEMMA StepNumbers == NumbersOK /\ UsedInv /\ BuiltInv /\ [Next]_vars => NumbersOK'
  <1> SUFFICES ASSUME NumbersOK, UsedInv, BuiltInv, [Next]_vars
               PROVE  NumbersOK'
    OBVIOUS
  <1> USE SoloAssumption
          DEF NumbersOK, run, count, source, units, replic,
              history
  <1>1. CASE Begin
    BY <1>1 DEF Begin, Progress
  <1>2. CASE MakeVersion
    <2>1. NextVersion \in Versions
      BY <1>2, NextVersionIsNew DEF MakeVersion, Goes
    <2>2. QED
      BY <1>2, <2>1 DEF MakeVersion, Goes, Versions
  <1>3. CASE Fetch \/ InstallAppDeps
    BY <1>3 DEF Fetch, InstallAppDeps, Goes
  <1>4. CASE StepFails \/ ReportFailure \/ WriteFailedMarker \/ Succeed
    BY <1>4 DEF StepFails, ReportFailure, WriteFailedMarker, Succeed, Leaves,
                Plain
  <1>5. CASE DetectFramework \/ InstallOSDeps \/ InstallLitestream
             \/ TruncateConfig \/ FillConfig \/ EnableLitestream
             \/ ConfigureCaddy
    BY <1>5 DEF DetectFramework, InstallOSDeps, InstallLitestream,
             TruncateConfig, FillConfig, EnableLitestream, ConfigureCaddy, Goes
  <1>6. CASE Restore \/ Migrate
    BY <1>6 DEF Restore, Migrate, Goes
  <1>7. CASE SwapCurrent \/ PersistSecret \/ StoreSecret \/ TruncateUnit
             \/ WriteUnit \/ DaemonReload \/ InstallExecWrapper \/ EnableApp
             \/ RestartApp \/ Healthcheck
    BY <1>7 DEF SwapCurrent, PersistSecret, StoreSecret, TruncateUnit,
             WriteUnit, DaemonReload, InstallExecWrapper, EnableApp, RestartApp,
             Healthcheck, Goes, Plain
  <1>8. CASE Crash \/ AppDies \/ Reboot \/ ReplaceMachine
    BY <1>8 DEF Crash, AppDies, Reboot, ReplaceMachine, Leaves, Plain
  <1>9. CASE AppWrites \/ Replicate
    BY <1>9 DEF AppWrites, Replicate
  <1>10. CASE UNCHANGED vars
    BY <1>10 DEF vars
  <1>11. QED
    BY <1>1, <1>2, <1>3, <1>4, <1>5, <1>6, <1>7, <1>8, <1>9, <1>10
       DEF Next, Run, Host

LEMMA StepContents == ContentsOK /\ NumbersOK /\ UsedInv /\ BuiltInv /\ [Next]_vars => ContentsOK'
  <1> SUFFICES ASSUME ContentsOK, NumbersOK, UsedInv, BuiltInv, [Next]_vars
               PROVE  ContentsOK'
    OBVIOUS
  <1> USE SoloAssumption
          DEF ContentsOK, run, count, source, units, replic,
              history
  <1>1. CASE Begin
    BY <1>1 DEF Begin, Progress
  <1>2. CASE MakeVersion
    <2>1. NextVersion \in Versions
      BY <1>2, NextVersionIsNew DEF MakeVersion, Goes
    <2>2. QED
      BY <1>2, <2>1 DEF MakeVersion, Goes
  <1>3. CASE Fetch \/ InstallAppDeps
    BY <1>3 DEF Fetch, InstallAppDeps, Goes
  <1>4. CASE StepFails \/ ReportFailure \/ WriteFailedMarker \/ Succeed
    BY <1>4 DEF StepFails, ReportFailure, WriteFailedMarker, Succeed, Leaves,
                Plain
  <1>5. CASE DetectFramework \/ InstallOSDeps \/ InstallLitestream
             \/ TruncateConfig \/ FillConfig \/ EnableLitestream
             \/ ConfigureCaddy
    BY <1>5 DEF DetectFramework, InstallOSDeps, InstallLitestream,
             TruncateConfig, FillConfig, EnableLitestream, ConfigureCaddy, Goes
  <1>6. CASE Restore \/ Migrate
    BY <1>6 DEF Restore, Migrate, Goes
  <1>7. CASE SwapCurrent \/ PersistSecret \/ StoreSecret \/ TruncateUnit
             \/ WriteUnit \/ DaemonReload \/ InstallExecWrapper \/ EnableApp
             \/ RestartApp \/ Healthcheck
    BY <1>7 DEF SwapCurrent, PersistSecret, StoreSecret, TruncateUnit,
             WriteUnit, DaemonReload, InstallExecWrapper, EnableApp, RestartApp,
             Healthcheck, Goes, Plain, NumbersOK
  <1>8. CASE Crash \/ AppDies \/ Reboot \/ ReplaceMachine
    BY <1>8 DEF Crash, AppDies, Reboot, ReplaceMachine, Leaves, Plain,
                NumbersOK
  <1>9. CASE AppWrites \/ Replicate
    BY <1>9 DEF AppWrites, Replicate
  <1>10. CASE UNCHANGED vars
    BY <1>10 DEF vars
  <1>11. QED
    BY <1>1, <1>2, <1>3, <1>4, <1>5, <1>6, <1>7, <1>8, <1>9, <1>10
       DEF Next, Run, Host

LEMMA StepDatabases == DatabasesOK /\ NumbersOK /\ UsedInv /\ BuiltInv /\ [Next]_vars => DatabasesOK'
  <1> SUFFICES ASSUME DatabasesOK, NumbersOK, UsedInv, BuiltInv, [Next]_vars
               PROVE  DatabasesOK'
    OBVIOUS
  <1> USE SoloAssumption
          DEF DatabasesOK, Databases, run, count, source, units, replic,
              history
  <1>1. CASE Begin
    BY <1>1 DEF Begin, Progress
  <1>2. CASE MakeVersion
    <2>1. NextVersion \in Versions
      BY <1>2, NextVersionIsNew DEF MakeVersion, Goes
    <2>2. QED
      BY <1>2, <2>1 DEF MakeVersion, Goes
  <1>3. CASE Fetch \/ InstallAppDeps
    <2>1. UNCHANGED <<writes, replica, carried>>
      BY <1>3 DEF Fetch, InstallAppDeps, Goes
    <2>2. db' = db \/ db' = [db EXCEPT ![dir] = {0}]
      BY <1>3 DEF Fetch, InstallAppDeps, Goes
    <2>3. {0} \in Databases
      BY DEF DatabasesOK
    <2>4. QED
      BY <2>1, <2>2, <2>3
  <1>4. CASE StepFails \/ ReportFailure \/ WriteFailedMarker \/ Succeed
    BY <1>4 DEF StepFails, ReportFailure, WriteFailedMarker, Succeed, Leaves,
                Plain
  <1>5. CASE DetectFramework \/ InstallOSDeps \/ InstallLitestream
             \/ TruncateConfig \/ FillConfig \/ EnableLitestream
             \/ ConfigureCaddy
    BY <1>5 DEF DetectFramework, InstallOSDeps, InstallLitestream,
             TruncateConfig, FillConfig, EnableLitestream, ConfigureCaddy, Goes
  <1>6. CASE Restore \/ Migrate
    <2>1. /\ UNCHANGED <<writes, replica, carried>>
          /\ \/ db' = db \/ db' = [db EXCEPT ![dir] = replica]
             \/ db' = [db EXCEPT ![dir] = db[dir] \cup {0}]
      BY <1>6 DEF Restore, Migrate, Goes
    <2>2. dir \in Versions
      BY <1>6 DEF Restore, Migrate, Goes, BuiltInv, HasDir, Filling, Complete
    <2>3. db[dir] \cup {0} \in Databases
      BY <2>2
    <2>4. db' \in [Versions -> Databases]
      BY <2>1, <2>3
    <2>5. QED
      BY <2>1, <2>4
  <1>7. CASE SwapCurrent \/ PersistSecret \/ StoreSecret \/ TruncateUnit
             \/ WriteUnit \/ DaemonReload \/ InstallExecWrapper \/ EnableApp
             \/ RestartApp \/ Healthcheck
    BY <1>7 DEF SwapCurrent, PersistSecret, StoreSecret, TruncateUnit,
             WriteUnit, DaemonReload, InstallExecWrapper, EnableApp, RestartApp,
             Healthcheck, Goes, Plain
  <1>8. CASE Crash \/ AppDies \/ Reboot \/ ReplaceMachine
    BY <1>8 DEF Crash, AppDies, Reboot, ReplaceMachine, Leaves, Plain
  <1>9. CASE AppWrites \/ Replicate
    <2>1. CASE AppWrites
      <3>1. app \in Versions
        BY <2>1 DEF AppWrites, BuiltInv
      <3>2. writes + 1 \in 0 .. MaxWrites
        BY <2>1 DEF AppWrites
      <3>3. db[app] \cup {writes + 1} \in Databases
        BY <3>1, <3>2
      <3>4. db' \in [Versions -> Databases]
        BY <2>1, <3>3 DEF AppWrites
      <3>5. QED
        BY <2>1, <3>2, <3>4 DEF AppWrites
    <2>2. CASE Replicate
      <3>1. db[litestream] \in Databases
        BY <2>2 DEF Replicate, NumbersOK, Versions
      <3>2. QED
        BY <2>2, <3>1 DEF Replicate
    <2>3. QED
      BY <1>9, <2>1, <2>2
  <1>10. CASE UNCHANGED vars
    BY <1>10 DEF vars
  <1>11. QED
    BY <1>1, <1>2, <1>3, <1>4, <1>5, <1>6, <1>7, <1>8, <1>9, <1>10
       DEF Next, Run, Host

LEMMA StepFlags == FlagsOK /\ [Next]_vars => FlagsOK'
  <1> SUFFICES ASSUME FlagsOK, [Next]_vars PROVE FlagsOK'
    OBVIOUS
  <1> USE DEF FlagsOK, run, count, source, units, replic, history
  <1>1. CASE Begin \/ MakeVersion \/ Fetch \/ DetectFramework \/ InstallOSDeps
             \/ InstallLitestream \/ TruncateConfig \/ FillConfig
    BY <1>1, Zenon DEF Begin, MakeVersion, Fetch, DetectFramework, InstallOSDeps,
             InstallLitestream, TruncateConfig, FillConfig, Goes
  <1>2. CASE Restore
    BY <1>2, Zenon DEF Restore
  <1>3. CASE EnableLitestream \/ InstallAppDeps \/ Migrate \/ ConfigureCaddy
             \/ SwapCurrent \/ PersistSecret
    BY <1>3, Zenon DEF EnableLitestream, InstallAppDeps, Migrate, ConfigureCaddy,
             SwapCurrent, PersistSecret, Goes
  <1>4. CASE StoreSecret \/ ReportFailure \/ WriteFailedMarker
    BY <1>4, Zenon DEF StoreSecret, ReportFailure, WriteFailedMarker
  <1>5. CASE TruncateUnit \/ WriteUnit \/ DaemonReload \/ InstallExecWrapper
             \/ EnableApp \/ RestartApp \/ Healthcheck \/ StepFails \/ Succeed
    BY <1>5, Zenon DEF TruncateUnit, WriteUnit, DaemonReload, InstallExecWrapper,
             EnableApp, RestartApp, Healthcheck, StepFails, Succeed, Goes
  <1>6. CASE Host
    BY <1>6, Zenon DEF Host, Crash, AppDies, Reboot, AppWrites, Replicate,
             ReplaceMachine
  <1>7. CASE UNCHANGED vars
    BY <1>7, Zenon DEF vars
  <1>8. QED
    BY <1>1, <1>2, <1>3, <1>4, <1>5, <1>6, <1>7 DEF Next, Run

\* Every variable keeps to its type, through any number of runs, boots and
\* machines of RunSoloFromSpec.
THEOREM SoloTypeHolds == Spec => []SoloTypeOK
  <1>1. SoloInit => NumbersOK
    BY SoloAssumption DEF SoloInit, NumbersOK, Plain
  <1>2. SoloInit => ContentsOK
    BY DEF SoloInit, ContentsOK
  <1>3. SoloInit => DatabasesOK
    BY SoloAssumption DEF SoloInit, DatabasesOK, Databases
  <1>4. SoloInit => FlagsOK
    BY Zenon DEF SoloInit, FlagsOK
  <1>5. NumbersOK /\ ContentsOK /\ DatabasesOK /\ FlagsOK => SoloTypeOK
    BY DEF SoloTypeOK
  <1>6. QED
    BY <1>1, <1>2, <1>3, <1>4, <1>5, InitVersions, StepUsed, StepBuilt,
       StepNumbers, StepContents, StepDatabases, StepFlags, PTL DEF Spec

-----------------------------------------------------------------------------
(* The secret                                                              *)

\* The one secret of this machine; 0: there is none yet.
Mine == IF Framework = "rails" THEN secretFile ELSE Plain

Rewriting == {"unit", "write", "reload", "wrapper", "enable", "restart"}

\* While no secret failed to get into its file, the run, the unit file, systemd
\* and the app know no other secret than the file's.
SecretInv ==
    /\ pc \in {"secret", "store"} => Framework = "rails"
    /\ Framework # "rails" => secret = Plain
    /\ pc = "store" => secret # 0 /\ secretFile = 0
    /\ ~unsaved =>
         /\ unit \in {0, Mine} /\ loaded \in {0, Mine}
         /\ \A s \in served : s = Mine /\ s # 0
         /\ app # 0 => loaded = Mine /\ Mine # 0
         /\ pc \in Rewriting => secret = Mine /\ Mine # 0
         /\ pc = "reload" => unit = secret
         /\ pc \in {"wrapper", "enable", "restart"} => loaded = secret

LEMMA StepSecret == NumbersOK /\ SecretInv /\ [Next]_vars => SecretInv'
  <1> SUFFICES ASSUME NumbersOK, SecretInv, [Next]_vars PROVE SecretInv'
    OBVIOUS
  <1> USE DEF SecretInv, Mine, Rewriting, Framework, Plain, run, count, source,
              units, replic, history
  <1>1. CASE Begin
    BY <1>1 DEF Begin
  <1>2. CASE StepFails \/ ReportFailure \/ WriteFailedMarker \/ Succeed
    BY <1>2 DEF StepFails, ReportFailure, WriteFailedMarker, Succeed, Leaves
  <1>3. CASE MakeVersion \/ Fetch \/ DetectFramework \/ InstallOSDeps
             \/ InstallLitestream \/ TruncateConfig \/ FillConfig
    BY <1>3 DEF MakeVersion, Fetch, DetectFramework, InstallOSDeps,
                InstallLitestream, TruncateConfig, FillConfig, Goes
  <1>4. CASE Restore \/ EnableLitestream \/ InstallAppDeps \/ Migrate
             \/ ConfigureCaddy
    BY <1>4 DEF Restore, EnableLitestream, InstallAppDeps, Migrate,
                ConfigureCaddy, Goes
  <1>5. CASE SwapCurrent
    BY <1>5 DEF SwapCurrent, Goes
  <1>6. CASE PersistSecret
    BY <1>6 DEF PersistSecret, NumbersOK
  <1>7. CASE StoreSecret
    BY <1>7 DEF StoreSecret
  <1>8. CASE TruncateUnit \/ WriteUnit \/ DaemonReload \/ InstallExecWrapper
             \/ EnableApp
    BY <1>8 DEF TruncateUnit, WriteUnit, DaemonReload, InstallExecWrapper,
                EnableApp, Goes
  <1>9. CASE RestartApp \/ Healthcheck
    BY <1>9 DEF RestartApp, Healthcheck, Goes
  <1>10. CASE Crash \/ AppDies \/ Reboot
    BY <1>10 DEF Crash, AppDies, Reboot, Leaves
  <1>11. CASE AppWrites \/ Replicate \/ ReplaceMachine
    BY <1>11 DEF AppWrites, Replicate, ReplaceMachine, Leaves
  <1>12. CASE UNCHANGED vars
    BY <1>12 DEF vars
  <1>13. QED
    BY <1>1, <1>2, <1>3, <1>4, <1>5, <1>6, <1>7, <1>8, <1>9, <1>10, <1>11, <1>12
       DEF Next, Run, Host

\* The app of a machine runs with one secret through all runs, crashes and boots,
\* unless persistOrGenerateSecret could not write its file.
THEOREM SecretKeptHolds == Spec => []SecretKept
  <1>1. SoloInit => SecretInv
    BY DEF SoloInit, SecretInv, Mine, Rewriting, Framework, Plain
  <1>2. SecretInv => SecretKept
    <2>1. SUFFICES ASSUME SecretInv, ~unsaved PROVE Cardinality(served) <= 1
      BY DEF SecretKept
    <2>2. served = {} \/ served = {Mine}
      BY <2>1 DEF SecretInv
    <2>3. Cardinality({}) = 0 /\ Cardinality({Mine}) = 1
      BY FS_EmptySet, FS_Singleton
    <2>4. QED
      BY <2>2, <2>3
  <1>3. SoloTypeOK => NumbersOK /\ DatabasesOK
    BY DEF SoloTypeOK
  <1>4. QED
    BY <1>1, <1>2, <1>3, SoloTypeHolds, StepSecret, PTL DEF Spec

-----------------------------------------------------------------------------
(* The database                                                            *)

\* Where the database of the run's version has been restored, if it is kept.
Restored == {"replicate", "deps"} \cup Complete

\* Without Litestream nothing is kept.  With it, until a restore fails, whatever
\* has a database has the one that was carried over, and so has what the run
\* built and what the symlink names: a database that came with the source aside.
DataInv ==
    /\ spec.db # "litestream" => /\ carried = {} /\ replica = {}
                                 /\ config = 0 /\ litestream = 0
                                 /\ "litestream" \notin enabled
                                 /\ pc \notin {"install", "truncate", "fill",
                                               "restore", "replicate"}
    /\ ~unrestored /\ ~spec.committed =>
         /\ carried \subseteq replica
         /\ \A v \in Versions : db[v] # {} => carried \subseteq db[v]
         /\ pc \in Restored => carried \subseteq db[dir]
         /\ current # 0 => carried \subseteq db[current]
         /\ app # 0 => carried \subseteq db[app]

LEMMA StepData ==
    NumbersOK /\ DatabasesOK /\ UsedInv /\ BuiltInv /\ DataInv /\ [Next]_vars => DataInv'
  <1> SUFFICES ASSUME NumbersOK, DatabasesOK, UsedInv, BuiltInv, DataInv,
                      [Next]_vars
               PROVE  DataInv'
    OBVIOUS
  <1> USE DEF DataInv, BuiltInv, HasDir, Filling, Restored, Complete, run, count,
              source, units, replic, history
  <1>1. CASE Begin
    BY <1>1 DEF Begin
  <1>2. CASE StepFails \/ ReportFailure \/ WriteFailedMarker \/ Succeed
    BY <1>2 DEF StepFails, ReportFailure, WriteFailedMarker, Succeed, Leaves
  <1>3. CASE MakeVersion \/ Fetch \/ DetectFramework \/ InstallOSDeps
             \/ InstallLitestream \/ TruncateConfig \/ FillConfig
    BY <1>3 DEF MakeVersion, Fetch, DetectFramework, InstallOSDeps,
                InstallLitestream, TruncateConfig, FillConfig, Goes
  <1>4. CASE Restore
    BY <1>4 DEF Restore, DatabasesOK
  <1>5. CASE EnableLitestream
    BY <1>5 DEF EnableLitestream
  <1>6. CASE InstallAppDeps \/ ConfigureCaddy
    BY <1>6 DEF InstallAppDeps, ConfigureCaddy, Goes
  <1>7. CASE Migrate
    BY <1>7 DEF Migrate, Goes, DatabasesOK
  <1>8. CASE SwapCurrent \/ PersistSecret \/ StoreSecret \/ TruncateUnit
             \/ WriteUnit \/ DaemonReload \/ InstallExecWrapper \/ EnableApp
             \/ RestartApp \/ Healthcheck
    BY <1>8 DEF SwapCurrent, PersistSecret, StoreSecret, TruncateUnit,
             WriteUnit, DaemonReload, InstallExecWrapper, EnableApp, RestartApp,
             Healthcheck, Goes
  <1>9. CASE Crash \/ AppDies \/ Reboot
    BY <1>9 DEF Crash, AppDies, Reboot, Leaves
  <1>10. CASE AppWrites \/ Replicate
    <2>1. /\ UNCHANGED <<spec, pc, dir, current, app, config, litestream, carried,
                          unrestored, enabled>>
          /\ db \in [Versions -> Databases]
      BY <1>10 DEF AppWrites, Replicate, DatabasesOK
    <2>2. CASE AppWrites
      <3>1. /\ app \in Versions /\ db[app] # {} /\ UNCHANGED replica
            /\ \A v \in Versions : \/ db'[v] = db[v]
                                   \/ v = app /\ db[v] \subseteq db'[v]
        BY <2>1, <2>2 DEF AppWrites
      <3>2. \A v \in Versions : db[v] \subseteq db'[v] /\ (db'[v] # {} => db[v] # {})
        BY <3>1
      <3>3. QED
        BY <2>1, <3>1, <3>2
    <2>3. CASE Replicate
      <3>1. litestream \in Versions /\ db[litestream] # {} /\ UNCHANGED db
        BY <2>3 DEF Replicate, NumbersOK, Versions
      <3>2. replica' = db[litestream] /\ litestream # 0
        BY <2>3 DEF Replicate
      <3>3. QED
        BY <2>1, <3>1, <3>2
    <2>4. QED
      BY <1>10, <2>2, <2>3
  <1>11. CASE ReplaceMachine
    BY <1>11 DEF ReplaceMachine, Leaves
  <1>12. CASE UNCHANGED vars
    BY <1>12 DEF vars
  <1>13. QED
    BY <1>1, <1>2, <1>3, <1>4, <1>5, <1>6, <1>7, <1>8, <1>9, <1>10, <1>11, <1>12
       DEF Next, Run, Host

\* A database that was in S3 when the machine was provisioned is in the one the
\* app serves, however often the bootstrap was cut short and repeated, unless
\* maybeRestoreFromLitestream failed or found a database that came with the source.
THEOREM DataFollowsHolds == Spec => []DataFollows
  <1>1. SoloInit => DataInv
    BY DEF SoloInit, DataInv, Restored, Complete
  <1>2. DataInv => DataFollows
    BY DEF DataInv, DataFollows
  <1>3. SoloTypeOK => NumbersOK /\ DatabasesOK
    BY DEF SoloTypeOK
  <1>4. QED
    BY <1>1, <1>2, <1>3, InitVersions, StepUsed, StepBuilt, SoloTypeHolds, StepData, PTL
       DEF Spec
=============================================================================
