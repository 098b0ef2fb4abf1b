-------------------------------- MODULE Solo --------------------------------
(***************************************************************************)
(* The solo bootstrap (internal/bootstrap/solo.go): one host, one app.     *)
(* systemd runs `agent-ops bootstrap --from-spec`, a pipeline of steps that *)
(* ends in a started app or in the failed marker.  It keeps no note of how *)
(* far it got: a run that was cut short, and the run of every later boot,  *)
(* starts from the first step with a new version directory, while the app  *)
(* and the Litestream of an earlier run may be at work.                    *)
(***************************************************************************)
EXTENDS Naturals, FiniteSets, FiniteSetsExt

CONSTANTS
    Specs,          \* what spec.json may say, and its source may hold
    MaxRuns,        \* bound: runs of the bootstrap
    MaxMachines,    \* bound: machines the app has lived on
    MaxWrites       \* bound: writes of the app to its database

ASSUME SoloAssumption ==
    MaxRuns \in Nat /\ MaxMachines \in Nat \ {0} /\ MaxWrites \in Nat

VARIABLES
    spec,           \* the deployment; never changes
    pc, dir,        \* where the run is; ZIBBY_APP_DIR
    secret,         \* the secret this run puts in the unit
    runs, machines, writes, generated,          \* counters
    ver, db,        \* by version directory: what is in it, and its database
    current,        \* the symlink
    secretFile,     \* /etc/zibby/rails-secret-key-base; 0: absent or empty
    unit, loaded,   \* the secret in the unit file (0: no whole file), and in
                    \* the unit as systemd has read it
    config,         \* the version litestream.yml names; 0: no whole file
    enabled,        \* the services that start at boot
    marker,         \* /etc/zibby/.failed exists
    app,            \* the version the app runs; 0: it does not
    litestream,     \* the version whose database is replicated; 0: not running
    replica,        \* the database in S3
    phase,          \* what the control plane was told last
    carried, served, unsaved, unrestored, untold    \* history, see SoloInit

run     == <<pc, dir, secret>>
count   == <<runs, machines, writes, generated>>
source  == <<ver, current>>
units   == <<unit, loaded, secretFile>>
replic  == <<config, litestream, replica>>
history == <<carried, served, unsaved, unrestored, untold>>
vars    == <<spec, run, count, source, db, units, replic, enabled, marker, app,
             phase, history>>

Versions == 1 .. MaxRuns

\* A database is the set of what was written to it, its schema being write 0.
Databases == SUBSET (0 .. MaxWrites)

NumbersOK ==
    /\ runs \in 0 .. MaxRuns /\ machines \in 0 .. MaxMachines
    /\ dir \in 0 .. MaxRuns /\ current \in 0 .. MaxRuns
    /\ app \in 0 .. MaxRuns /\ config \in 0 .. MaxRuns
    /\ litestream \in 0 .. MaxRuns
    /\ generated \in Nat /\ secret \in Nat /\ secretFile \in Nat
    /\ unit \in Nat /\ loaded \in Nat

ContentsOK ==
    /\ spec \in Specs
    /\ ver \in [Versions -> {"none", "empty", "source", "built"}]
    /\ enabled \subseteq {"app", "litestream"} /\ served \subseteq Nat
    /\ phase \in {"none", "progress", "running", "failed"}

DatabasesOK ==
    /\ writes \in 0 .. MaxWrites /\ db \in [Versions -> Databases]
    /\ replica \in Databases /\ carried \in Databases

FlagsOK == /\ marker \in BOOLEAN /\ unsaved \in BOOLEAN
           /\ unrestored \in BOOLEAN /\ untold \in BOOLEAN

SoloTypeOK == NumbersOK /\ ContentsOK /\ DatabasesOK /\ FlagsOK

\* 1 stands for a unit without a secret; generated secrets follow.
Plain == 1

SoloInit ==
    /\ spec \in Specs
    /\ runs = 0 /\ machines = 1 /\ writes = 0 /\ generated = Plain
    /\ replica = {} /\ phase = "none"
    /\ pc = "off" /\ dir = 0 /\ secret = Plain
    /\ ver = [v \in Versions |-> "none"] /\ db = [v \in Versions |-> {}]
    /\ current = 0 /\ secretFile = 0 /\ unit = 0 /\ loaded = 0 /\ config = 0
    /\ enabled = {} /\ marker = FALSE /\ app = 0 /\ litestream = 0
    /\ served = {}          \* the secrets the app of this machine ran with
    /\ unsaved = FALSE      \* a secret in use did not get into its file
    /\ unrestored = FALSE   \* a restore failed although there was a replica
    /\ untold = FALSE       \* the push of a failure was lost
    /\ carried = {}         \* the replica when this machine was provisioned

-----------------------------------------------------------------------------
(* The source and what it needs                                            *)

\* stepDetectFramework trusts the spec and looks at the files only for "auto".
Framework == IF spec.framework = "auto" THEN spec.found ELSE spec.framework

\* nextVersionDir counts directories, whatever became of them.
NextVersion == 1 + Max({0} \cup {v \in Versions : ver[v] # "none"})

\* What frameworkExecStart starts for these never listens: no step builds an
\* Elixir release or copies Cargo's target to ./app, and a static site is
\* `sleep infinity` behind a Caddyfile that forwards to its port.
NeverListens == {"elixir", "rust", "static", "none"}

-----------------------------------------------------------------------------
(* RunSoloFromSpec                                                         *)

\* A push may be lost.  The phases between the first and the last are one here,
\* and so are their pushes.
Progress == phase' \in {phase, "progress"}

\* The process ends, and what it knew with it.
Leaves == pc' = "off" /\ dir' = 0 /\ secret' = Plain

\* The step at `from` is done; its effects are the caller's.
Goes(from, to) == pc = from /\ pc' = to
                  /\ UNCHANGED <<spec, count, enabled, marker, phase, history>>

\* A spec that cannot be read, parsed or used leaves the marker and no phase.
Begin ==
    /\ pc = "off" /\ ~marker /\ runs < MaxRuns
    /\ runs' = runs + 1
    /\ \/ spec.valid /\ pc' = "make" /\ Progress
       \/ ~spec.valid /\ pc' = "mark" /\ UNCHANGED phase
    /\ UNCHANGED <<spec, dir, secret, machines, writes, generated, source, db,
                   units, replic, enabled, marker, app, history>>

\* The places where an error ends the run.
Fatal == {"make", "fetch", "detect", "os", "install", "truncate", "fill",
          "deps", "caddy", "swap", "unit", "write", "reload", "wrapper",
          "enable", "health"}

\* Nothing can go wrong where a framework is known, or needs no packages.
MayFail == /\ pc \in Fatal
           /\ pc = "detect" => Framework = "none"
           /\ pc = "os" => Framework # "static"

\* Mutant: the marker is written before the failure is pushed.
StepFailsMarked ==
    /\ MayFail
    /\ pc' = "fail" /\ marker' = TRUE
    /\ UNCHANGED <<spec, dir, secret, count, source, db, units, replic, enabled,
                   app, phase, history>>

StepFails ==
    /\ MayFail
    /\ pc' = "fail"
    /\ UNCHANGED <<spec, dir, secret, count, source, db, units, replic, enabled,
                   marker, app, phase, history>>

ReportFailure ==
    /\ pc = "fail" /\ pc' = "mark"
    /\ \/ phase' = "failed" /\ untold' = FALSE
       \/ untold' = TRUE /\ UNCHANGED phase
    /\ UNCHANGED <<spec, dir, secret, count, source, db, units, replic, enabled,
                   marker, app, carried, served, unsaved, unrestored>>

\* The marker's own write error is ignored.
WriteFailedMarker ==
    /\ pc = "mark" /\ Leaves
    /\ marker' \in BOOLEAN
    /\ UNCHANGED <<spec, count, source, db, units, replic, enabled,
                   app, phase, history>>

\* There is no marker for success: the run of the next boot does it all again.
Succeed ==
    /\ pc = "told" /\ Leaves
    /\ phase' \in {phase, "running"}
    /\ UNCHANGED <<spec, count, source, db, units, replic, enabled,
                   marker, app, history>>

-----------------------------------------------------------------------------
(* The steps of Run, in order                                              *)

\* A version directory of its own for every run.
MakeVersion ==
    /\ Goes("make", "fetch")
    /\ dir' = NextVersion /\ ver' = [ver EXCEPT ![NextVersion] = "empty"]
    /\ UNCHANGED <<secret, current, db, units, replic, app>>

\* A repository may have a database file committed, where the app keeps its own.
Fetch ==
    /\ spec.fetches /\ Goes("fetch", "detect")
    /\ ver' = [ver EXCEPT ![dir] = "source"]
    /\ db' = IF spec.committed THEN [db EXCEPT ![dir] = {0}] ELSE db
    /\ UNCHANGED <<dir, secret, current, units, replic, app>>

DetectFramework ==
    /\ Framework # "none" /\ Goes("detect", "os")
    /\ UNCHANGED <<dir, secret, source, db, units, replic, app>>

\* Packages are installed once or many times, as swap and jemalloc are in
\* stepMemoryTuning, where nothing is fatal.
InstallOSDeps ==
    /\ Goes("os", IF spec.db = "litestream" THEN "install" ELSE "deps")
    /\ UNCHANGED <<dir, secret, source, db, units, replic, app>>

\* stepConfigurePersistence: installLitestream, a skip where it is there.
InstallLitestream ==
    /\ Goes("install", "truncate")
    /\ UNCHANGED <<dir, secret, source, db, units, replic, app>>

\* writeLitestreamConfig needs the account for the bucket's name.  os.WriteFile
\* truncates the file, and then fills it.
TruncateConfig ==
    /\ spec.account /\ Goes("truncate", "fill")
    /\ config' = 0
    /\ UNCHANGED <<dir, secret, source, db, units, litestream, replica, app>>

FillConfig ==
    /\ Goes("fill", "restore")
    /\ config' = dir
    /\ UNCHANGED <<dir, secret, source, db, units, litestream, replica, app>>

\* Mutant: a replication that is running is taken for a database that is here.
RestoreUnlessReplicating ==
    /\ pc = "restore" /\ pc' = "replicate"
    /\ IF litestream # 0
         THEN UNCHANGED <<db, unrestored>>
         ELSE \/ db' = [db EXCEPT ![dir] = replica] /\ UNCHANGED unrestored
              \/ unrestored' = (unrestored \/ replica # {}) /\ UNCHANGED db
    /\ UNCHANGED <<spec, dir, secret, count, source, units, replic, enabled,
                   marker, app, phase, carried, served, unsaved, untold>>

\* maybeRestoreFromLitestream: skipped where there is a database, also one that
\* came with the source.  Its errors are not fatal, since an empty replica is one.
Restore ==
    /\ pc = "restore" /\ pc' = "replicate"
    /\ \/ /\ db[dir] = {} /\ replica # {}
          /\ db' = [db EXCEPT ![dir] = replica] /\ UNCHANGED unrestored
       \/ /\ db[dir] = {}
          /\ unrestored' = (unrestored \/ replica # {}) /\ UNCHANGED db
       \/ db[dir] # {} /\ UNCHANGED <<db, unrestored>>
    /\ UNCHANGED <<spec, dir, secret, count, source, units, replic, enabled,
                   marker, app, phase, carried, served, unsaved, untold>>

\* `enable --now` starts a service that does not run, and leaves one that does
\* with the configuration it has read.  Its error is not fatal.
EnableLitestream ==
    /\ pc = "replicate" /\ pc' = "deps"
    /\ \/ /\ enabled' = enabled \cup {"litestream"}
          /\ litestream' = IF litestream = 0 THEN config ELSE litestream
       \/ enabled' \in {enabled, enabled \cup {"litestream"}}
          /\ UNCHANGED litestream
    /\ UNCHANGED <<spec, dir, secret, count, source, db, units, config, replica,
                   marker, app, phase, history>>

\* Mutant: an error of the build is logged, as one of the migration is.
InstallAppDepsAnyway ==
    /\ Goes("deps", IF Framework = "rails" THEN "migrate" ELSE "caddy")
    /\ ver' \in {ver, [ver EXCEPT ![dir] = "built"]}
    /\ UNCHANGED <<dir, secret, current, db, units, replic, app>>

InstallAppDeps ==
    /\ Goes("deps", IF Framework = "rails" THEN "migrate" ELSE "caddy")
    /\ ver' = [ver EXCEPT ![dir] = "built"]
    /\ UNCHANGED <<dir, secret, current, db, units, replic, app>>

\* db:create db:migrate, whose error is not fatal.
Migrate ==
    /\ Goes("migrate", "caddy")
    /\ db' \in {db, [db EXCEPT ![dir] = @ \cup {0}]}
    /\ UNCHANGED <<dir, secret, source, units, replic, app>>

ConfigureCaddy ==
    /\ Goes("caddy", "swap")
    /\ UNCHANGED <<dir, secret, source, db, units, replic, app>>

\* stepWriteSystemdUnit: the symlink is renamed first.
SwapCurrent ==
    /\ Goes("swap", IF Framework = "rails" THEN "secret" ELSE "unit")
    /\ current' = dir /\ secret' = Plain
    /\ UNCHANGED <<dir, ver, db, units, replic, app>>

\* Mutant: a secret of its own for every version.
PersistSecretAfresh ==
    /\ pc = "secret" /\ pc' = "store"
    /\ secret' = generated + 1 /\ generated' = generated + 1
    /\ UNCHANGED <<spec, dir, runs, machines, writes, source, db, units, replic,
                   enabled, marker, app, phase, history>>

\* persistOrGenerateSecret: a file that is absent or empty is no secret.
PersistSecret ==
    /\ pc = "secret"
    /\ \/ /\ secretFile # 0 /\ pc' = "unit"
          /\ secret' = secretFile /\ UNCHANGED generated
       \/ /\ secretFile = 0 /\ pc' = "store"
          /\ secret' = generated + 1 /\ generated' = generated + 1
    /\ UNCHANGED <<spec, dir, runs, machines, writes, source, db, units, replic,
                   enabled, marker, app, phase, history>>

\* The file is created, and then filled; an error of either is ignored.
StoreSecret ==
    /\ pc = "store" /\ pc' = "unit"
    /\ \/ secretFile' = secret /\ UNCHANGED unsaved
       \/ unsaved' = TRUE /\ UNCHANGED secretFile
    /\ UNCHANGED <<spec, dir, secret, count, source, db, unit, loaded, replic,
                   enabled, marker, app, phase, carried, served, unrestored,
                   untold>>

TruncateUnit ==
    /\ Goes("unit", "write")
    /\ unit' = 0
    /\ UNCHANGED <<dir, secret, source, db, loaded, secretFile, replic, app>>

WriteUnit ==
    /\ Goes("write", "reload")
    /\ unit' = secret
    /\ UNCHANGED <<dir, secret, source, db, loaded, secretFile, replic, app>>

DaemonReload ==
    /\ Goes("reload", "wrapper")
    /\ loaded' = unit
    /\ UNCHANGED <<dir, secret, source, db, unit, secretFile, replic, app>>

InstallExecWrapper ==
    /\ Goes("wrapper", "enable")
    /\ UNCHANGED <<dir, secret, source, db, units, replic, app>>

EnableApp ==
    /\ pc = "enable" /\ pc' = "restart"
    /\ enabled' = enabled \cup {"app"}
    /\ UNCHANGED <<spec, dir, secret, count, source, db, units, replic, marker,
                   app, phase, history>>

\* `restart` stops the app in any case.  What starts is the unit systemd has
\* read, in the directory `current` names.
RestartApp ==
    /\ pc = "restart"
    /\ \/ pc' = "health" /\ app' = current /\ served' = served \cup {loaded}
       \/ pc' = "fail" /\ app' = 0 /\ UNCHANGED served
    /\ UNCHANGED <<spec, dir, secret, count, source, db, units, replic, enabled,
                   marker, phase, carried, unsaved, unrestored, untold>>

\* Otherwise its two minutes pass, and the step fails.
Healthcheck ==
    /\ app # 0 /\ Framework \notin NeverListens
    /\ Goes("health", "told")
    /\ UNCHANGED <<dir, secret, source, db, units, replic, app>>

Run ==
    \/ MakeVersion \/ Fetch \/ DetectFramework \/ InstallOSDeps
    \/ InstallLitestream \/ TruncateConfig \/ FillConfig \/ Restore
    \/ EnableLitestream \/ InstallAppDeps \/ Migrate \/ ConfigureCaddy
    \/ SwapCurrent \/ PersistSecret \/ StoreSecret \/ TruncateUnit \/ WriteUnit
    \/ DaemonReload \/ InstallExecWrapper \/ EnableApp \/ RestartApp
    \/ Healthcheck \/ StepFails \/ ReportFailure \/ WriteFailedMarker \/ Succeed

-----------------------------------------------------------------------------
(* The host                                                                *)

\* Nothing catches a signal, and the kernel may kill for memory.
Crash ==
    /\ pc # "off" /\ Leaves
    /\ UNCHANGED <<spec, count, source, db, units, replic, enabled,
                   marker, app, phase, history>>

\* systemd gives up on the app, or starts it again.
AppDies ==
    /\ app # 0
    /\ \/ app' = 0 /\ UNCHANGED served
       \/ app' = current /\ served' = served \cup {loaded}
    /\ UNCHANGED <<spec, run, count, source, db, units, replic, enabled, marker,
                   phase, carried, unsaved, unrestored, untold>>

\* The services that are enabled start on what is on disk.
Reboot ==
    /\ Leaves /\ loaded' = unit
    /\ litestream' = IF "litestream" \in enabled THEN config ELSE 0
    /\ IF "app" \in enabled /\ unit # 0
         THEN app' = current /\ served' = served \cup {unit}
         ELSE app' = 0 /\ UNCHANGED served
    /\ UNCHANGED <<spec, count, source, db, unit, secretFile,
                   config, replica, enabled, marker, phase, carried, unsaved,
                   unrestored, untold>>

AppWrites ==
    /\ app # 0 /\ db[app] # {} /\ writes < MaxWrites
    /\ writes' = writes + 1
    /\ db' = [db EXCEPT ![app] = @ \cup {writes + 1}]
    /\ UNCHANGED <<spec, run, runs, machines, generated, source, units, replic,
                   enabled, marker, app, phase, history>>

Replicate ==
    /\ litestream # 0 /\ db[litestream] # {}
    /\ replica' = db[litestream]
    /\ UNCHANGED <<spec, run, count, source, db, units, config, litestream,
                   enabled, marker, app, phase, history>>

\* The machine is gone with its disk; the next one gets the same spec.
ReplaceMachine ==
    /\ machines < MaxMachines /\ machines' = machines + 1
    /\ Leaves
    /\ ver' = [v \in Versions |-> "none"] /\ db' = [v \in Versions |-> {}]
    /\ current' = 0 /\ secretFile' = 0 /\ unit' = 0 /\ loaded' = 0
    /\ config' = 0 /\ enabled' = {} /\ marker' = FALSE
    /\ app' = 0 /\ litestream' = 0
    /\ served' = {} /\ unsaved' = FALSE /\ unrestored' = FALSE
    /\ untold' = FALSE
    /\ generated' = Plain /\ phase' = "none" /\ carried' = replica
    /\ UNCHANGED <<spec, runs, writes, replica>>

Host == Crash \/ AppDies \/ Reboot \/ AppWrites \/ Replicate \/ ReplaceMachine

Next == Begin \/ Run \/ Host

Spec == SoloInit /\ [][Next]_vars

-----------------------------------------------------------------------------

\* The pipeline has no memory, and yet whatever systemd may start, at a boot or
\* after a crash of the app, is a version whose dependencies were installed to
\* the end: never one that a run was cut short in.
CurrentComplete ==
    /\ current # 0 => ver[current] = "built"
    /\ app # 0 => ver[app] = "built"

\* persistOrGenerateSecret is there "so a restart-on-failure preserves the same
\* key": the app of a machine runs with one secret through all runs, crashes and
\* boots, unless the secret did not get into its file.
SecretKept == ~unsaved => Cardinality(served) <= 1

\* "The user replaces VM, data follows": a database that was in S3 when the
\* machine was provisioned is in the one the app serves, however often the
\* bootstrap was cut short and repeated, unless a restore failed or the source
\* brings a database, which is taken for the one to restore.
DataFollows ==
    (app # 0 /\ ~unrestored /\ ~spec.committed) => carried \subseteq db[app]

\* The marker keeps later runs from reporting anything: a machine that has it has
\* told the control plane that it failed, unless that one push was lost.
FailureReported == (marker /\ spec.valid /\ ~untold) => phase = "failed"

\* stepConfigurePersistence sets up Litestream before the app starts, "so the WAL
\* is captured from the first write": once a run has found the app healthy, what
\* a running Litestream replicates is what the app serves.
Captured == (pc = "told" /\ app # 0 /\ litestream # 0) => litestream = app
=============================================================================
