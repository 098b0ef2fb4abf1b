----------------------------- MODULE Integrate -----------------------------
(***************************************************************************)
(* Adding and removing integrations (internal/integrate): calls of the CLI *)
(* and of the daemon's MCP tools edit config.yaml and then the env file    *)
(* with the tokens, under a mutex per process and a flock between          *)
(* processes, while the daemon's agent_apply_template overwrites           *)
(* config.yaml without either.                                             *)
(*                                                                         *)
(* An integration is its name and its AuthEnv; the token stored under a    *)
(* key of the env file is named for the integration it was given for.      *)
(***************************************************************************)
EXTENDS FiniteSets, Naturals, Functions

CONSTANTS
    Callers,     \* goroutines and commands that call the package
    Hosts,       \* the processes they run in
    Names, Keys, \* integrations, variables of the env file
    Specs,       \* the AddSpecs they use, see Adds
    NoKey,       \* an integration without AuthEnv
    NoOne,       \* a lock nobody holds
    Setups,      \* [flock: the file system locks, host: of each caller]
    MaxCalls,    \* bound: calls ever made
    Templates    \* callers that may apply a template

Adds == [kind : {"add"}, name : Names, key : Keys \cup {NoKey},
         token : BOOLEAN]

ASSUME IntegrateAssumption ==
    /\ Setups \subseteq [flock : BOOLEAN, host : [Callers -> Hosts]]
    /\ Names # {} /\ NoKey \notin Keys /\ NoOne \notin Callers
    /\ Specs \subseteq Adds /\ \A s \in Specs : s.token => s.key # NoKey
    /\ Templates \subseteq Callers /\ MaxCalls \in Nat

VARIABLES
    setup,         \* never changes
    config, torn,  \* name -> AuthEnv in config.yaml when it was last whole;
                   \* whether it is now cut short
    env,           \* key -> integration whose token it holds
    mutex, flock,  \* holder in each process; holder between processes
    pc, op,        \* each caller: where it is, what it was called for
    orphans,       \* callers whose open config.yaml has been renamed over
    prev, snap,    \* prevBytes of readConfig; the env file mergeEnvFile read
    given,         \* keys Add has stored a token under, while some integration
                   \* in config.yaml names them
    calls

locks == <<mutex, flock>>
disk  == <<config, torn, orphans, env, given>>
vars  == <<setup, disk, locks, pc, op, prev, snap, calls>>

PCs == {"idle", "mutex", "flock", "read", "write", "env read", "env write",
        "rollback", "restore", "unlock", "truncate", "fill"}

Removes  == [kind : {"remove"}, name : Names, key : {NoKey}, token : {FALSE}]
Template == [kind |-> "template", name |-> CHOOSE n \in Names : TRUE,
             key |-> NoKey, token |-> FALSE]
Ops      == Specs \cup Removes \cup {Template}

Files == UNION {[N -> Keys \cup {NoKey}] : N \in SUBSET Names}
Envs  == UNION {[K -> Names] : K \in SUBSET Keys}
Empty == [n \in {} |-> NoKey]

host(c) == setup.host[c]

Init ==
    /\ setup \in Setups
    /\ config = Empty /\ torn = FALSE /\ orphans = {} /\ env = Empty
    /\ mutex = [h \in Hosts |-> NoOne] /\ flock = NoOne
    /\ pc = [c \in Callers |-> "idle"]
    /\ op = [c \in Callers |-> Template]
    /\ given = {}
    /\ prev = [c \in Callers |-> Empty] /\ snap = [c \in Callers |-> Empty]
    /\ calls = 0

Goto(c, l) == /\ pc' = [pc EXCEPT ![c] = l]
              /\ UNCHANGED <<setup, calls>>

\* The callers in C return, or die; what they remember goes.
Return(C) ==
    /\ pc'   = [c \in Callers |-> IF c \in C THEN "idle" ELSE pc[c]]
    /\ op'   = [c \in Callers |-> IF c \in C THEN Template ELSE op[c]]
    /\ prev' = [c \in Callers |-> IF c \in C THEN Empty ELSE prev[c]]
    /\ snap' = [c \in Callers |-> IF c \in C THEN Empty ELSE snap[c]]
    /\ UNCHANGED <<setup, calls>>

-----------------------------------------------------------------------------
(* lockConfig                                                              *)

Call(c, o) ==
    /\ pc[c] = "idle" /\ calls < MaxCalls
    /\ o.kind = "template" => c \in Templates
    /\ calls' = calls + 1 /\ op' = [op EXCEPT ![c] = o]
    /\ pc' = [pc EXCEPT ![c] = IF o.kind = "template" THEN "truncate" ELSE "mutex"]
    /\ UNCHANGED <<setup, disk, locks, prev, snap>>

TakeMutex(c) ==
    /\ pc[c] = "mutex" /\ mutex[host(c)] = NoOne
    /\ mutex' = [mutex EXCEPT ![host(c)] = c]
    /\ Goto(c, "flock")
    /\ UNCHANGED <<disk, flock, op, prev, snap>>

\* Mutant: a call that cannot have the lock goes on without it.
TakeFlockOrNot(c) ==
    /\ pc[c] = "flock"
    /\ flock' = IF setup.flock /\ flock = NoOne THEN c ELSE flock
    /\ Goto(c, "read")
    /\ UNCHANGED <<disk, mutex, op, prev, snap>>

\* Where the file system has no locks, the mutex is all there is.
TakeFlock(c) ==
    /\ pc[c] = "flock" /\ flock = NoOne
    /\ flock' = IF setup.flock THEN c ELSE NoOne
    /\ Goto(c, "read")
    /\ UNCHANGED <<disk, mutex, op, prev, snap>>

Release(c) == [mutex EXCEPT ![host(c)] = NoOne]

\* Mutant: a call that fails to lock keeps the mutex.
LockFailsKeeps(c) ==
    /\ pc[c] = "flock"
    /\ Return({c})
    /\ UNCHANGED <<disk, locks>>

\* The lock file does not open, or the deadline passes.
LockFails(c) ==
    /\ pc[c] = "flock"
    /\ mutex' = Release(c)
    /\ Return({c})
    /\ UNCHANGED <<disk, flock>>

Unlock(c) ==
    /\ pc[c] = "unlock"
    /\ mutex' = Release(c)
    /\ flock' = IF flock = c THEN NoOne ELSE flock
    /\ Return({c})
    /\ UNCHANGED disk

-----------------------------------------------------------------------------
(* Add and Remove                                                          *)

\* An unreadable config, a name that is taken or not there end the call.
ReadConfig(c) ==
    /\ pc[c] = "read"
    /\ \/ Goto(c, "unlock") /\ UNCHANGED prev
       \/ /\ ~torn
          /\ (op[c].name \in DOMAIN config) = (op[c].kind = "remove")
          /\ prev' = [prev EXCEPT ![c] = config]
          /\ Goto(c, "write")
    /\ UNCHANGED <<disk, locks, op, snap>>

\* What the call makes of the config it read.
Edited(c) ==
    IF op[c].kind = "remove" THEN Restrict(prev[c], DOMAIN prev[c] \ {op[c].name})
    ELSE [n \in DOMAIN prev[c] \cup {op[c].name} |->
            IF n = op[c].name THEN op[c].key ELSE prev[c][n]]

\* The key whose line the call changes, if it changes one.
Target(c) ==
    IF op[c].kind = "remove" THEN {prev[c][op[c].name]} \ {NoKey}
    ELSE IF op[c].token THEN {op[c].key} ELSE {}

\* writeConfigAtomic renames, or fails and leaves the file.
WriteConfig(c) ==
    /\ pc[c] = "write"
    /\ \/ /\ config' = Edited(c) /\ torn' = FALSE
          /\ orphans' = {d \in Callers : pc[d] \in {"restore", "fill"}}
          /\ Goto(c, IF Target(c) = {} THEN "unlock" ELSE "env read")
       \/ /\ Goto(c, "unlock") /\ UNCHANGED <<config, torn, orphans>>
    /\ UNCHANGED <<env, given, locks, op, prev, snap>>

ReadEnv(c) ==
    /\ pc[c] = "env read"
    /\ \/ snap' = [snap EXCEPT ![c] = env] /\ Goto(c, "env write")
       \/ UNCHANGED snap /\ Goto(c, "rollback")
    /\ UNCHANGED <<disk, locks, op, prev>>

\* Mutant: the file is written with the call's own pair only.
MergedFresh(c) ==
    IF op[c].kind = "remove" THEN Empty ELSE [k \in Target(c) |-> op[c].name]

\* mergeEnvFile
Merged(c) ==
    IF op[c].kind = "remove" THEN Restrict(snap[c], DOMAIN snap[c] \ Target(c))
    ELSE [k \in DOMAIN snap[c] \cup Target(c) |->
            IF k \in Target(c) THEN op[c].name ELSE snap[c][k]]

WriteEnv(c) ==
    /\ pc[c] = "env write"
    /\ \/ /\ env' = Merged(c)
          /\ given' = (IF op[c].kind = "add" THEN given \cup Target(c) ELSE given)
                        \cap (DOMAIN env' \cup Range(config))
          /\ Goto(c, "unlock")
       \/ UNCHANGED <<env, given>> /\ Goto(c, "rollback")
    /\ UNCHANGED <<config, torn, orphans, locks, op, prev, snap>>

\* os.WriteFile truncates the file and then writes it.  A file that was renamed
\* over meanwhile is no longer config.yaml, and one that another call has filled
\* may end as a mixture.
Truncate(c) == torn' = TRUE /\ UNCHANGED <<config, orphans>>

Fill(c, bytes) ==
    /\ orphans' = orphans \ {c}
    /\ \/ c \in orphans /\ UNCHANGED <<config, torn>>
       \/ c \notin orphans /\ config' = bytes /\ torn' = FALSE
       \/ c \notin orphans /\ ~torn /\ torn' = TRUE /\ UNCHANGED config

\* A full disk refuses the bytes.
NotFilled(c) == orphans' = orphans \ {c} /\ UNCHANGED <<config, torn>>

\* The error of the rollback's WriteFile is dropped.
Rollback(c) ==
    /\ pc[c] = "rollback"
    /\ \/ Truncate(c) /\ Goto(c, "restore")
       \/ UNCHANGED <<config, torn, orphans>> /\ Goto(c, "unlock")
    /\ UNCHANGED <<env, given, locks, op, prev, snap>>

Restore(c) ==
    /\ pc[c] = "restore"
    /\ Fill(c, prev[c]) \/ NotFilled(c)
    /\ Goto(c, "unlock")
    /\ UNCHANGED <<env, given, locks, op, prev, snap>>

-----------------------------------------------------------------------------
\* agent_apply_template: os.WriteFile of a bundled template, none of which
\* has an integration.
ApplyTemplate(c) ==
    \/ /\ pc[c] = "truncate"
       /\ \/ Truncate(c) /\ Goto(c, "fill") /\ UNCHANGED <<op, prev, snap>>
          \/ UNCHANGED <<config, torn, orphans>> /\ Return({c})
       /\ UNCHANGED <<env, given, locks>>
    \/ /\ pc[c] = "fill"
       /\ Fill(c, Empty) \/ NotFilled(c)
       /\ Return({c})
       /\ UNCHANGED <<env, given, locks>>

\* A process dies; the kernel and the dead runtime drop its locks.
HostDies(h) ==
    LET gone == {c \in Callers : host(c) = h}
    IN  /\ \E c \in gone : pc[c] # "idle"
        /\ Return(gone)
        /\ mutex' = [mutex EXCEPT ![h] = NoOne]
        /\ flock' = IF flock \in gone THEN NoOne ELSE flock
        /\ orphans' = orphans \ gone
        /\ UNCHANGED <<config, torn, env, given>>

Step(c) ==
    \/ TakeMutex(c) \/ TakeFlock(c) \/ LockFails(c) \/ Unlock(c)
    \/ ReadConfig(c) \/ WriteConfig(c) \/ ReadEnv(c) \/ WriteEnv(c)
    \/ Rollback(c) \/ Restore(c) \/ ApplyTemplate(c)

Next ==
    \/ \E c \in Callers : Step(c) \/ \E o \in Ops : Call(c, o)
    \/ \E h \in Hosts : HostDies(h)

Spec == Init /\ [][Next]_vars

\* File operations end, sync.Mutex hands itself to a waiter, and the wait for
\* the flock has a deadline.
FairSpec == /\ Spec
            /\ \A c \in Callers : WF_vars(Step(c)) /\ SF_vars(TakeMutex(c))

-----------------------------------------------------------------------------
(* Properties                                                              *)

TypeOK ==
    /\ setup \in Setups
    /\ config \in Files /\ torn \in BOOLEAN /\ env \in Envs
    /\ orphans \subseteq {c \in Callers : pc[c] \in {"restore", "fill"}}
    /\ given \subseteq Keys
    /\ mutex \in [Hosts -> Callers \cup {NoOne}]
    /\ flock \in Callers \cup {NoOne}
    /\ pc \in [Callers -> PCs] /\ op \in [Callers -> Ops]
    /\ prev \in [Callers -> Files] /\ snap \in [Callers -> Envs]
    /\ calls \in 0 .. MaxCalls

\* "two concurrent integrate add calls cannot race-clobber each other"
\* (integrate.go:15-16): an integration leaves config.yaml only when it is
\* removed, by the rollback of the call that added it, or with a template.
KeepsOthers ==
    [][\A n \in DOMAIN config \ DOMAIN config' :
         \E c \in Callers :
            \/ pc[c] \in {"write", "restore"} /\ pc'[c] # pc[c] /\ op[c].name = n
            \/ pc[c] = "fill" /\ pc'[c] = "idle"]_config

\* Token lines stay too: a key leaves the env file only with an integration
\* that names it, and changes its token only for one that brings its own.
KeepsSecrets ==
    [][\A k \in DOMAIN env :
         \/ k \in DOMAIN env' /\ env'[k] = env[k]
         \/ \E c \in Callers : pc[c] = "env write" /\ pc'[c] # pc[c]
                               /\ k \in Target(c)]_env

\* A call that waits gets the lock or its timeout.
CallsEnd == \A c \in Callers : pc[c] = "mutex" ~> pc[c] = "idle"
=============================================================================
