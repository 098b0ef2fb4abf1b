-------------------------- MODULE IntegrateProofs --------------------------
(***************************************************************************)
(* Theorems about Integrate, for every set of callers, processes, names    *)
(* and keys, and any number of calls.                                      *)
(***************************************************************************)
EXTENDS Integrate, TLAPS

\* What lockConfig presupposes: the file system has locks, or one process makes
\* all the calls, in which the mutex is enough.
Lockable ==
    \A s \in Setups : s.flock \/ \A c, d \in Callers : s.host[c] = s.host[d]

-----------------------------------------------------------------------------
(* The lock                                                                *)

\* Where a call is inside the lock, and where it depends on what it has read.
Inside  == {"read", "write", "env read", "env write", "rollback", "restore",
            "unlock"}
Editing == Inside \ {"read", "unlock"}

TypeInv ==
    /\ setup \in Setups
    /\ mutex \in [Hosts -> Callers \cup {NoOne}]
    /\ pc \in [Callers -> PCs]
    /\ DOMAIN op = Callers /\ DOMAIN prev = Callers /\ DOMAIN snap = Callers

\* A call on its way to the flock and inside it has the mutex of its process;
\* inside it also has the flock, if there are any.
LockInv ==
    \A c \in Callers :
        /\ pc[c] \in Inside \cup {"flock"} => mutex[host(c)] = c
        /\ pc[c] \in Inside /\ setup.flock => flock = c

LEMMA InitLock == Init => TypeInv /\ LockInv
  BY DEF Init, TypeInv, LockInv, Inside, PCs

LEMMA HostIsOne == ASSUME TypeInv, NEW c \in Callers PROVE host(c) \in Hosts
  BY IntegrateAssumption DEF TypeInv, host

\* What a return does to those that do not return.
LEMMA Returns ==
    ASSUME NEW C, Return(C)
    PROVE  /\ \A d \in Callers : IF d \in C THEN pc'[d] = "idle"
                                 ELSE /\ pc'[d] = pc[d] /\ op'[d] = op[d]
                                      /\ prev'[d] = prev[d] /\ snap'[d] = snap[d]
           /\ DOMAIN op' = Callers /\ DOMAIN prev' = Callers
           /\ DOMAIN snap' = Callers
           /\ TypeInv => pc' \in [Callers -> PCs] /\ setup' \in Setups
           /\ UNCHANGED setup
  BY DEF Return, TypeInv, PCs

LEMMA StepType == TypeInv /\ [Next]_vars => TypeInv'
  <1> SUFFICES ASSUME TypeInv, [Next]_vars PROVE TypeInv'
    OBVIOUS
  <1> USE DEF locks, disk
  <1>1. ASSUME NEW c \in Callers, NEW o \in Ops, Call(c, o) PROVE TypeInv'
    BY <1>1 DEF Call, TypeInv, PCs
  <1>2. ASSUME NEW c \in Callers, TakeMutex(c) \/ TakeFlock(c) PROVE TypeInv'
    BY <1>2, HostIsOne DEF TakeMutex, TakeFlock, Goto, TypeInv, PCs
  <1>3. ASSUME NEW c \in Callers, LockFails(c) \/ Unlock(c) PROVE TypeInv'
    BY <1>3, HostIsOne, Returns DEF LockFails, Unlock, Release, TypeInv
  <1>4. ASSUME NEW c \in Callers, ReadConfig(c) \/ ReadEnv(c) PROVE TypeInv'
    BY <1>4 DEF ReadConfig, ReadEnv, Goto, TypeInv, PCs
  <1>5. ASSUME NEW c \in Callers, WriteConfig(c) \/ WriteEnv(c) \/ Rollback(c)
                                  \/ Restore(c)
        PROVE  TypeInv'
    BY <1>5 DEF WriteConfig, WriteEnv, Rollback, Restore, Goto, TypeInv, PCs
  <1>6. ASSUME NEW c \in Callers, ApplyTemplate(c) PROVE TypeInv'
    BY <1>6, Returns DEF ApplyTemplate, Goto, TypeInv, PCs
  <1>7. ASSUME NEW h \in Hosts, HostDies(h) PROVE TypeInv'
    BY <1>7, Returns DEF HostDies, TypeInv
  <1>8. CASE UNCHANGED vars
    BY <1>8 DEF vars, TypeInv
  <1>9. QED
    BY <1>1, <1>2, <1>3, <1>4, <1>5, <1>6, <1>7, <1>8 DEF Next, Step

LEMMA StepLock == TypeInv /\ LockInv /\ [Next]_vars => LockInv'
  <1> SUFFICES ASSUME TypeInv, LockInv, [Next]_vars PROVE LockInv'
    OBVIOUS
  <1> USE DEF locks, disk, Inside
  <1>1. ASSUME NEW c \in Callers, NEW o \in Ops, Call(c, o) PROVE LockInv'
    BY <1>1 DEF Call, TypeInv, LockInv, host
  <1>2. ASSUME NEW c \in Callers, TakeMutex(c) PROVE LockInv'
    BY <1>2, HostIsOne, IntegrateAssumption DEF TakeMutex, Goto, TypeInv, LockInv, host
  <1>3. ASSUME NEW c \in Callers, TakeFlock(c) PROVE LockInv'
    BY <1>3, IntegrateAssumption DEF TakeFlock, Goto, TypeInv, LockInv, host
  <1>4. ASSUME NEW c \in Callers, LockFails(c) \/ Unlock(c) PROVE LockInv'
    <2>1. /\ mutex[host(c)] = c /\ mutex' = [mutex EXCEPT ![host(c)] = NoOne]
          /\ flock' = flock \/ (flock = c /\ flock' = NoOne)
          /\ Return({c})
      BY <1>4 DEF LockFails, Unlock, Release, LockInv
    <2>2. /\ pc'[c] = "idle" /\ UNCHANGED setup
          /\ \A d \in Callers \ {c} : pc'[d] = pc[d]
      BY <2>1, Returns
    <2>3. QED
      BY <2>1, <2>2, HostIsOne DEF TypeInv, LockInv, host
  <1>5. ASSUME NEW c \in Callers,
               ReadConfig(c) \/ WriteConfig(c) \/ ReadEnv(c) \/ WriteEnv(c)
                 \/ Rollback(c) \/ Restore(c)
        PROVE  LockInv'
    <2>1. pc[c] \in Inside /\ pc' = [pc EXCEPT ![c] = pc'[c]]
      BY <1>5 DEF ReadConfig, WriteConfig, ReadEnv, WriteEnv, Rollback, Restore,
                  Goto, TypeInv
    <2>2. UNCHANGED <<setup, locks>>
      BY <1>5 DEF ReadConfig, WriteConfig, ReadEnv, WriteEnv, Rollback, Restore, Goto
    <2>3. QED
      BY <2>1, <2>2 DEF TypeInv, LockInv, host
  <1>6. ASSUME NEW c \in Callers, ApplyTemplate(c) PROVE LockInv'
    <2>1. /\ UNCHANGED <<setup, locks>> /\ pc'[c] \in {"fill", "idle"}
          /\ \A d \in Callers \ {c} : pc'[d] = pc[d]
      BY <1>6, Returns DEF ApplyTemplate, Goto, TypeInv
    <2>2. QED
      BY <2>1 DEF LockInv, host
  <1>7. ASSUME NEW h \in Hosts, HostDies(h) PROVE LockInv'
    <2>1. /\ UNCHANGED setup
          /\ \A d \in Callers : IF host(d) = h THEN pc'[d] = "idle" ELSE pc'[d] = pc[d]
      BY <1>7, Returns DEF HostDies
    <2>2. /\ mutex' = [mutex EXCEPT ![h] = NoOne]
          /\ flock' = flock \/ \E d \in Callers : flock = d /\ host(d) = h
      BY <1>7 DEF HostDies
    <2>3. ASSUME NEW d \in Callers, pc'[d] \in Inside \cup {"flock"}
          PROVE  /\ mutex'[host(d)'] = d
                 /\ pc'[d] \in Inside /\ setup'.flock => flock' = d
      <3>1. pc'[d] = pc[d] /\ host(d) # h /\ host(d)' = host(d)
        BY <2>1, <2>3 DEF host
      <3>2. mutex[host(d)] = d /\ (pc[d] \in Inside /\ setup.flock => flock = d)
        BY <2>3, <3>1 DEF LockInv
      <3>3. mutex'[host(d)] = d
        BY <2>2, <3>1, <3>2, HostIsOne DEF TypeInv
      <3>4. QED
        BY <2>1, <2>2, <3>1, <3>2, <3>3
    <2>4. QED
      BY <2>3 DEF LockInv
  <1>8. CASE UNCHANGED vars
    BY <1>8 DEF vars, TypeInv, LockInv, host
  <1>9. QED
    BY <1>1, <1>2, <1>3, <1>4, <1>5, <1>6, <1>7, <1>8 DEF Next, Step

\* One call at a time is inside the lock.
Exclusive ==
    \A c, d \in Callers : pc[c] \in Inside /\ pc[d] \in Inside => c = d

LEMMA LockExcludes == Lockable /\ TypeInv /\ LockInv => Exclusive
  BY DEF Lockable, TypeInv, LockInv, Exclusive, host

-----------------------------------------------------------------------------
(* What a call has read is what is there                                   *)

\* A call that has read config.yaml knows every integration in it but its own:
\* the file has changed by its own hand, or a template has emptied it.  A call
\* about to write the env file has read what it says now.
EditInv ==
    \A c \in Callers :
        /\ pc[c] \in Editing => DOMAIN config \subseteq DOMAIN prev[c] \cup {op[c].name}
        /\ pc[c] = "env write" => snap[c] = env

LEMMA EditedDomain ==
    ASSUME NEW c \in Callers
    PROVE  /\ DOMAIN Edited(c) \subseteq DOMAIN prev[c] \cup {op[c].name}
           /\ DOMAIN prev[c] \subseteq DOMAIN Edited(c) \cup {op[c].name}
  BY DEF Edited, Restrict

\* What Fill makes of config.yaml.
LEMMA FillConfig ==
    ASSUME NEW c, NEW bytes, Fill(c, bytes) PROVE config' \in {config, bytes}
  BY DEF Fill

LEMMA StepEdit ==
  ASSUME TypeInv, Exclusive, EditInv, [Next]_vars
  PROVE  EditInv'
  <1> USE DEF locks, disk, Inside, Editing
  <1>1. ASSUME NEW c \in Callers, NEW o \in Ops, Call(c, o) PROVE EditInv'
    BY <1>1 DEF Call, TypeInv, EditInv
  <1>2. ASSUME NEW c \in Callers, TakeMutex(c) \/ TakeFlock(c) PROVE EditInv'
    BY <1>2 DEF TakeMutex, TakeFlock, Goto, TypeInv, EditInv
  <1>3. ASSUME NEW c \in Callers, LockFails(c) \/ Unlock(c) PROVE EditInv'
    <2>1. Return({c}) /\ UNCHANGED disk
      BY <1>3 DEF LockFails, Unlock
    <2>2. QED
      BY <2>1, Returns DEF EditInv
  <1>4. ASSUME NEW c \in Callers, ReadConfig(c) PROVE EditInv'
    BY <1>4 DEF ReadConfig, Goto, TypeInv, EditInv
  <1>5. ASSUME NEW c \in Callers, WriteConfig(c) PROVE EditInv'
    <2>1. /\ pc[c] = "write" /\ pc' = [pc EXCEPT ![c] = pc'[c]]
          /\ config' = Edited(c) \/ config' = config
          /\ pc'[c] \in {"unlock", "env read"}
          /\ config' = config => pc'[c] = "unlock" \/ config' = Edited(c)
          /\ UNCHANGED <<env, op, prev, snap>>
      BY <1>5 DEF WriteConfig, Goto, TypeInv
    <2>2. \A d \in Callers \ {c} : pc'[d] = pc[d] /\ pc[d] \notin Inside
      BY <2>1 DEF Exclusive, TypeInv
    <2>3. QED
      BY <2>1, <2>2, EditedDomain DEF EditInv
  <1>6. ASSUME NEW c \in Callers, ReadEnv(c) PROVE EditInv'
    BY <1>6 DEF ReadEnv, Goto, TypeInv, EditInv
  <1>7. ASSUME NEW c \in Callers, WriteEnv(c) PROVE EditInv'
    <2>1. /\ pc[c] = "env write" /\ pc' = [pc EXCEPT ![c] = pc'[c]]
          /\ pc'[c] \in {"unlock", "rollback"}
          /\ UNCHANGED <<config, op, prev, snap>>
      BY <1>7 DEF WriteEnv, Goto, TypeInv
    <2>2. \A d \in Callers \ {c} : pc'[d] = pc[d] /\ pc[d] \notin Inside
      BY <2>1 DEF Exclusive, TypeInv
    <2>3. QED
      BY <2>1, <2>2 DEF EditInv
  <1>8. ASSUME NEW c \in Callers, Rollback(c) PROVE EditInv'
    BY <1>8 DEF Rollback, Truncate, Goto, TypeInv, EditInv
  <1>9. ASSUME NEW c \in Callers, Restore(c) PROVE EditInv'
    <2>1. /\ pc[c] = "restore" /\ pc' = [pc EXCEPT ![c] = "unlock"]
          /\ UNCHANGED <<env, op, prev, snap>>
      BY <1>9 DEF Restore, Goto
    <2>2. \A d \in Callers \ {c} : pc'[d] = pc[d] /\ pc[d] \notin Inside
      BY <2>1 DEF Exclusive, TypeInv
    <2>3. pc'[c] = "unlock"
      BY <2>1 DEF TypeInv
    <2>4. QED
      BY <2>1, <2>2, <2>3 DEF EditInv
  <1>10. ASSUME NEW c \in Callers, ApplyTemplate(c) PROVE EditInv'
    <2>1. config' \in {config, Empty} /\ env' = env /\ pc'[c] \in {"fill", "idle"}
      BY <1>10, FillConfig, Returns DEF ApplyTemplate, Truncate, NotFilled, Goto, TypeInv
    <2>2. \A d \in Callers \ {c} : /\ pc'[d] = pc[d] /\ op'[d] = op[d]
                                   /\ prev'[d] = prev[d] /\ snap'[d] = snap[d]
      BY <1>10, Returns DEF ApplyTemplate, Goto, TypeInv
    <2>3. DOMAIN config' \subseteq DOMAIN config
      BY <2>1 DEF Empty
    <2>4. QED
      BY <2>1, <2>2, <2>3 DEF EditInv
  <1>11. ASSUME NEW h \in Hosts, HostDies(h) PROVE EditInv'
    BY <1>11, Returns DEF HostDies, EditInv
  <1>12. CASE UNCHANGED vars
    BY <1>12 DEF vars, EditInv
  <1>13. QED
    BY <1>1, <1>2, <1>3, <1>4, <1>5, <1>6, <1>7, <1>8, <1>9, <1>10, <1>11, <1>12
       DEF Next, Step

IInv == TypeInv /\ LockInv /\ EditInv

LEMMA InitInv == Init => IInv
  <1>1. Init => EditInv
    BY DEF Init, EditInv, Editing, Inside
  <1>2. QED
    BY <1>1, InitLock DEF IInv

LEMMA StepInv == Lockable /\ IInv /\ [Next]_vars => IInv'
  BY StepType, StepLock, LockExcludes, StepEdit DEF IInv

-----------------------------------------------------------------------------
(* The action properties                                                   *)

\* Whose step takes which integration out of config.yaml.
OthersKept ==
    \A n \in DOMAIN config \ DOMAIN config' :
       \E c \in Callers :
          \/ pc[c] \in {"write", "restore"} /\ pc'[c] # pc[c] /\ op[c].name = n
          \/ pc[c] = "fill" /\ pc'[c] = "idle"

LEMMA StepKeepsOthers == IInv /\ [Next]_vars => [OthersKept]_config
  <1> SUFFICES ASSUME IInv, [Next]_vars, config' # config PROVE OthersKept
    OBVIOUS
  <1> USE DEF IInv, disk
  <1>1. ASSUME NEW c \in Callers, WriteConfig(c) PROVE OthersKept
    <2>1. pc[c] = "write" /\ pc'[c] # pc[c] /\ config' = Edited(c)
      BY <1>1 DEF WriteConfig, Goto, TypeInv
    <2>2. DOMAIN config \subseteq DOMAIN config' \cup {op[c].name}
      BY <2>1, EditedDomain DEF EditInv, Editing, Inside
    <2>3. QED
      BY <2>1, <2>2 DEF OthersKept
  <1>2. ASSUME NEW c \in Callers, Restore(c) PROVE OthersKept
    <2>1. pc[c] = "restore" /\ pc'[c] # pc[c] /\ config' = prev[c]
      BY <1>2, FillConfig DEF Restore, NotFilled, Goto, TypeInv
    <2>2. DOMAIN config \subseteq DOMAIN config' \cup {op[c].name}
      BY <2>1 DEF EditInv, Editing, Inside
    <2>3. QED
      BY <2>1, <2>2 DEF OthersKept
  <1>3. ASSUME NEW c \in Callers, ApplyTemplate(c) PROVE OthersKept
    <2>1. pc[c] = "fill" /\ pc'[c] = "idle"
      BY <1>3, Returns DEF ApplyTemplate, Truncate
    <2>2. QED
      BY <2>1 DEF OthersKept
  <1>4. QED
    BY <1>1, <1>2, <1>3
       DEF Next, Step, Call, TakeMutex, TakeFlock, LockFails, Unlock, ReadConfig,
           ReadEnv, WriteEnv, Rollback, Truncate, HostDies, vars

\* Whose step takes which token out of the env file, or changes it.
SecretsKept ==
    \A k \in DOMAIN env :
       \/ k \in DOMAIN env' /\ env'[k] = env[k]
       \/ \E c \in Callers : pc[c] = "env write" /\ pc'[c] # pc[c] /\ k \in Target(c)

LEMMA MergedKeeps ==
    ASSUME NEW c \in Callers, NEW k \in DOMAIN snap[c], k \notin Target(c)
    PROVE  k \in DOMAIN Merged(c) /\ Merged(c)[k] = snap[c][k]
  BY DEF Merged, Restrict

LEMMA StepKeepsSecrets == IInv /\ [Next]_vars => [SecretsKept]_env
  <1> SUFFICES ASSUME IInv, [Next]_vars, env' # env PROVE SecretsKept
    OBVIOUS
  <1> USE DEF IInv, disk
  <1>1. ASSUME NEW c \in Callers, WriteEnv(c) PROVE SecretsKept
    <2>1. pc[c] = "env write" /\ pc'[c] # pc[c] /\ env' = Merged(c) /\ snap[c] = env
      BY <1>1 DEF WriteEnv, Goto, TypeInv, EditInv
    <2>2. QED
      BY <2>1, MergedKeeps DEF SecretsKept
  <1>2. QED
    BY <1>1
       DEF Next, Step, Call, TakeMutex, TakeFlock, LockFails, Unlock, ReadConfig,
           WriteConfig, ReadEnv, Rollback, Restore, ApplyTemplate, HostDies, vars

\* Concurrent Adds and Removes do not clobber one another's integrations, in one
\* process or in several: one leaves config.yaml only with the call that is
\* about it, or under a template.
THEOREM KeepsOthersHolds == ASSUME Lockable PROVE Spec => KeepsOthers
  <1>1. IInv /\ [Next]_vars => IInv'
    BY StepInv
  <1>2. QED
    BY <1>1, InitInv, StepKeepsOthers, PTL DEF Spec, KeepsOthers, OthersKept

\* Nor one another's tokens: the env file a call writes is the one it read, but
\* for the key of its own integration.
THEOREM KeepsSecretsHolds == ASSUME Lockable PROVE Spec => KeepsSecrets
  <1>1. IInv /\ [Next]_vars => IInv'
    BY StepInv
  <1>2. QED
    BY <1>1, InitInv, StepKeepsSecrets, PTL DEF Spec, KeepsSecrets, SecretsKept

-----------------------------------------------------------------------------
(* No lock is left behind                                                  *)

\* Who holds a lock is a call in progress inside it, of a caller in the process
\* the mutex is of.
NoLockLeft ==
    /\ flock \in Callers \cup {NoOne}
    /\ \A h \in Hosts, c \in Callers :
          mutex[h] = c => host(c) = h /\ pc[c] \in Inside \cup {"flock"}
    /\ \A c \in Callers : flock = c => pc[c] \in Inside

\* A step that leaves the locks alone, of a caller that stays where it may hold
\* one or was where it has none.
LEMMA LocksFrame ==
    ASSUME TypeInv, NoLockLeft, NEW c \in Callers, UNCHANGED <<setup, locks>>,
           \A d \in Callers \ {c} : pc'[d] = pc[d],
           \/ pc[c] \in Inside /\ pc'[c] \in Inside
           \/ pc[c] \notin Inside \cup {"flock"}
    PROVE  NoLockLeft'
  BY DEF locks, TypeInv, NoLockLeft, host

LEMMA StepNoLockLeft ==
  ASSUME TypeInv, LockInv, NoLockLeft, [Next]_vars
  PROVE  NoLockLeft'
  <1> USE DEF disk
  <1>1. ASSUME NEW c \in Callers, NEW o \in Ops, Call(c, o) PROVE NoLockLeft'
    BY <1>1, LocksFrame DEF Call, TypeInv, Inside
  <1>2. ASSUME NEW c \in Callers, TakeMutex(c) PROVE NoLockLeft'
    <2>1. /\ pc[c] = "mutex" /\ pc'[c] = "flock" /\ UNCHANGED <<setup, flock>>
          /\ \A d \in Callers \ {c} : pc'[d] = pc[d]
          /\ mutex' = [mutex EXCEPT ![host(c)] = c]
      BY <1>2 DEF TakeMutex, Goto, TypeInv
    <2>2. ASSUME NEW h \in Hosts, NEW d \in Callers, mutex'[h] = d
          PROVE  IF d = c THEN h = host(c) ELSE mutex[h] = d
      <3>1. pc[c] \notin Inside \cup {"flock"}
        BY <2>1 DEF Inside
      <3>2. mutex[h] # c
        BY <3>1 DEF NoLockLeft
      <3>3. QED
        BY <2>1, <2>2, <3>2 DEF TypeInv
    <2>3. pc[c] \notin Inside /\ host(c)' = host(c)
      BY <2>1 DEF Inside, host
    <2>4. QED
      BY <2>1, <2>2, <2>3 DEF NoLockLeft, host
  <1>3. ASSUME NEW c \in Callers, TakeFlock(c) PROVE NoLockLeft'
    BY <1>3, IntegrateAssumption DEF TakeFlock, Goto, TypeInv, NoLockLeft, Inside, host
  <1>4. ASSUME NEW c \in Callers, LockFails(c) \/ Unlock(c) PROVE NoLockLeft'
    <2>1. /\ mutex[host(c)] = c /\ mutex' = [mutex EXCEPT ![host(c)] = NoOne]
          /\ flock' = flock \/ flock' = NoOne
          /\ flock' # NoOne => flock # c
          /\ Return({c})
      BY <1>4, IntegrateAssumption
         DEF LockFails, Unlock, Release, LockInv, NoLockLeft, Inside
    <2>2. UNCHANGED setup /\ \A d \in Callers \ {c} : pc'[d] = pc[d]
      BY <2>1, Returns
    <2>3. QED
      BY <2>1, <2>2, HostIsOne, IntegrateAssumption DEF TypeInv, NoLockLeft, host
  <1>5. ASSUME NEW c \in Callers,
               ReadConfig(c) \/ WriteConfig(c) \/ ReadEnv(c) \/ WriteEnv(c)
                 \/ Rollback(c) \/ Restore(c)
        PROVE  NoLockLeft'
    <2>1. /\ UNCHANGED <<setup, locks>> /\ pc[c] \in Inside /\ pc'[c] \in Inside
          /\ \A d \in Callers \ {c} : pc'[d] = pc[d]
      BY <1>5 DEF ReadConfig, WriteConfig, ReadEnv, WriteEnv, Rollback, Restore,
                  Goto, TypeInv, Inside
    <2>2. QED
      BY <2>1, LocksFrame
  <1>6. ASSUME NEW c \in Callers, ApplyTemplate(c) PROVE NoLockLeft'
    <2>1. /\ UNCHANGED <<setup, locks>> /\ pc[c] \notin Inside \cup {"flock"}
          /\ \A d \in Callers \ {c} : pc'[d] = pc[d]
      BY <1>6, Returns DEF ApplyTemplate, Goto, TypeInv, Inside
    <2>2. QED
      BY <2>1, LocksFrame
  <1>7. ASSUME NEW h \in Hosts, HostDies(h) PROVE NoLockLeft'
    <2>1. /\ UNCHANGED setup
          /\ \A d \in Callers : host(d) # h => pc'[d] = pc[d]
      BY <1>7, Returns DEF HostDies
    <2>2. /\ mutex' = [mutex EXCEPT ![h] = NoOne]
          /\ flock' # NoOne => flock' = flock /\ (flock \in Callers => host(flock) # h)
      BY <1>7 DEF HostDies
    <2>3. QED
      BY <2>1, <2>2, IntegrateAssumption DEF TypeInv, NoLockLeft, host
  <1>8. CASE UNCHANGED vars
    BY <1>8 DEF vars, locks, NoLockLeft, host
  <1>9. QED
    BY <1>1, <1>2, <1>3, <1>4, <1>5, <1>6, <1>7, <1>8 DEF Next, Step

\* No path through Add, Remove or lockConfig returns with a lock held, and no
\* process that dies leaves one: what CallsEnd rests on, with or without locks in
\* the file system.
THEOREM NoLockLeftHolds == Spec => []NoLockLeft
  <1>1. Init => NoLockLeft
    BY IntegrateAssumption DEF Init, NoLockLeft
  <1>2. (TypeInv /\ LockInv /\ NoLockLeft) /\ [Next]_vars
          => (TypeInv /\ LockInv /\ NoLockLeft)'
    BY StepType, StepLock, StepNoLockLeft
  <1>3. QED
    BY <1>1, <1>2, InitLock, PTL DEF Spec

-----------------------------------------------------------------------------
(* Types                                                                   *)

\* A file that was renamed over is one that its writer has still open.
Orphaned == orphans \subseteq {c \in Callers : pc[c] \in {"restore", "fill"}}

\* TypeOK in parts: where each caller is, what it was called for, and what the
\* files hold.
PlacesOK ==
    /\ TypeInv
    /\ flock \in Callers \cup {NoOne} /\ calls \in 0 .. MaxCalls
    /\ torn \in BOOLEAN
    /\ Orphaned

OpsOK == op \in [Callers -> Ops]

FilesOK ==
    /\ config \in Files /\ env \in Envs /\ given \subseteq Keys
    /\ prev \in [Callers -> Files] /\ snap \in [Callers -> Envs]

LEMMA TypeParts == TypeOK <=> PlacesOK /\ OpsOK /\ FilesOK
  <1>1. TypeOK => PlacesOK /\ OpsOK /\ FilesOK
    BY DEF TypeOK, PlacesOK, Orphaned, OpsOK, FilesOK, TypeInv
  <1>2. PlacesOK /\ OpsOK /\ FilesOK => TypeOK
    BY DEF TypeOK, PlacesOK, Orphaned, OpsOK, FilesOK, TypeInv
  <1>3. QED
    BY <1>1, <1>2

LEMMA ATemplate == Template \in Ops
  BY DEF Ops

\* A config without an entry or with one more, and an env file likewise.
LEMMA FileSet ==
    ASSUME NEW f
    PROVE  f \in Files <=> /\ DOMAIN f \subseteq Names
                           /\ f = [n \in DOMAIN f |-> f[n]]
                           /\ \A n \in DOMAIN f : f[n] \in Keys \cup {NoKey}
  BY DEF Files

LEMMA EnvSet ==
    ASSUME NEW f
    PROVE  f \in Envs <=> /\ DOMAIN f \subseteq Keys
                          /\ f = [k \in DOMAIN f |-> f[k]]
                          /\ \A k \in DOMAIN f : f[k] \in Names
  BY DEF Envs

LEMMA EmptyFits == Empty \in Files /\ Empty \in Envs
  BY FileSet, EnvSet DEF Empty

\* An operation is about one integration; a token is stored under the key of
\* the integration it was given for, a removal's key is the one config.yaml had.
LEMMA OpFits ==
    ASSUME NEW o \in Ops
    PROVE  /\ o.name \in Names /\ o.key \in Keys \cup {NoKey}
           /\ o.kind \in {"add", "remove", "template"}
           /\ o.kind # "remove" /\ o.token => o.key \in Keys
  <1>1. CASE o \in Specs
    <2>1. o \in Adds /\ (o.token => o.key # NoKey)
      BY <1>1, IntegrateAssumption
    <2>2. QED
      BY <2>1 DEF Adds
  <1>2. CASE o \in Removes
    BY <1>2 DEF Removes
  <1>3. CASE o = Template
    <2>1. (CHOOSE n \in Names : TRUE) \in Names
      BY IntegrateAssumption
    <2>2. QED
      BY <1>3, <2>1 DEF Template
  <1>4. QED
    BY <1>1, <1>2, <1>3 DEF Ops

LEMMA EditedFits ==
    ASSUME OpsOK, FilesOK, NEW c \in Callers
    PROVE  Edited(c) \in Files
  <1>1. op[c] \in Ops /\ prev[c] \in Files
    BY DEF OpsOK, FilesOK
  <1>2. CASE op[c].kind = "remove"
    BY <1>1, <1>2, FileSet DEF Edited, Restrict
  <1>3. CASE op[c].kind # "remove"
    <2> DEFINE more == [n \in DOMAIN prev[c] \cup {op[c].name} |->
                          IF n = op[c].name THEN op[c].key ELSE prev[c][n]]
    <2>1. more \in Files
      BY <1>1, OpFits, FileSet
    <2>2. QED
      BY <1>3, <2>1 DEF Edited
  <1>4. QED
    BY <1>2, <1>3

LEMMA TargetFits ==
    ASSUME OpsOK, FilesOK, NEW c \in Callers,
           op[c].kind = "remove" => op[c].name \in DOMAIN prev[c]
    PROVE  Target(c) \subseteq Keys
  <1>1. op[c] \in Ops /\ prev[c] \in Files
    BY DEF OpsOK, FilesOK
  <1>2. CASE op[c].kind = "remove"
    BY <1>1, <1>2, FileSet DEF Target
  <1>3. CASE op[c].kind # "remove"
    BY <1>1, <1>3, OpFits DEF Target
  <1>4. QED
    BY <1>2, <1>3

LEMMA MergedFits ==
    ASSUME OpsOK, FilesOK, NEW c \in Callers,
           op[c].kind = "remove" => op[c].name \in DOMAIN prev[c]
    PROVE  Merged(c) \in Envs
  <1>1. op[c] \in Ops /\ snap[c] \in Envs /\ Target(c) \subseteq Keys
    BY TargetFits DEF OpsOK, FilesOK
  <1>2. CASE op[c].kind = "remove"
    BY <1>1, <1>2, EnvSet DEF Merged, Restrict
  <1>3. CASE op[c].kind # "remove"
    <2> DEFINE more == [k \in DOMAIN snap[c] \cup Target(c) |->
                          IF k \in Target(c) THEN op[c].name ELSE snap[c][k]]
    <2>1. more \in Envs
      BY <1>1, OpFits, EnvSet
    <2>2. QED
      BY <1>3, <2>1 DEF Merged
  <1>4. QED
    BY <1>2, <1>3

\* A call that removes an integration found it in the config it has read.
FoundInv ==
    \A c \in Callers : pc[c] \in Editing /\ op[c].kind = "remove"
                          => op[c].name \in DOMAIN prev[c]

\* A step that leaves what the calls are for, and have read, alone.
LEMMA FoundFrame ==
    ASSUME FoundInv, UNCHANGED <<op, prev>>,
           \A c \in Callers : pc'[c] \in Editing => pc[c] \in Editing
    PROVE  FoundInv'
  BY DEF FoundInv

LEMMA FoundReturn ==
    ASSUME FoundInv, NEW C, Return(C) PROVE FoundInv'
  <1> SUFFICES ASSUME NEW c \in Callers, pc'[c] \in Editing, op'[c].kind = "remove"
               PROVE  op'[c].name \in DOMAIN prev'[c]
    BY DEF FoundInv
  <1>1. c \notin C
    BY Returns DEF Editing, Inside
  <1>2. pc'[c] = pc[c] /\ op'[c] = op[c] /\ prev'[c] = prev[c]
    BY <1>1, Returns
  <1>3. QED
    BY <1>2 DEF FoundInv

LEMMA StepFound == TypeInv /\ FoundInv /\ [Next]_vars => FoundInv'
  <1> SUFFICES ASSUME TypeInv, FoundInv, [Next]_vars PROVE FoundInv'
    OBVIOUS
  <1> USE DEF locks, disk, Editing, Inside
  <1>1. ASSUME NEW c \in Callers, NEW o \in Ops, Call(c, o) PROVE FoundInv'
    BY <1>1 DEF Call, TypeInv, FoundInv
  <1>2. ASSUME NEW c \in Callers, TakeMutex(c) \/ TakeFlock(c) PROVE FoundInv'
    BY <1>2, FoundFrame DEF TakeMutex, TakeFlock, Goto, TypeInv
  <1>3. ASSUME NEW c \in Callers, LockFails(c) \/ Unlock(c) PROVE FoundInv'
    BY <1>3, FoundReturn DEF LockFails, Unlock
  <1>4. ASSUME NEW c \in Callers, ReadConfig(c) PROVE FoundInv'
    BY <1>4 DEF ReadConfig, Goto, TypeInv, FoundInv
  <1>5. ASSUME NEW c \in Callers,
               WriteConfig(c) \/ ReadEnv(c) \/ WriteEnv(c) \/ Rollback(c)
                 \/ Restore(c)
        PROVE  FoundInv'
    <2>1. /\ UNCHANGED <<op, prev>> /\ pc[c] \in Editing
          /\ \A d \in Callers \ {c} : pc'[d] = pc[d]
      BY <1>5 DEF WriteConfig, ReadEnv, WriteEnv, Rollback, Restore, Goto, TypeInv
    <2>2. QED
      BY <2>1, FoundFrame
  <1>6. ASSUME NEW c \in Callers, ApplyTemplate(c) PROVE FoundInv'
    <2>1. CASE pc'[c] = "fill" /\ UNCHANGED <<op, prev>>
               /\ \A d \in Callers \ {c} : pc'[d] = pc[d]
      BY <2>1, FoundFrame
    <2>2. CASE Return({c})
      BY <2>2, FoundReturn
    <2>3. QED
      BY <1>6, <2>1, <2>2 DEF ApplyTemplate, Goto, TypeInv
  <1>7. ASSUME NEW h \in Hosts, HostDies(h) PROVE FoundInv'
    BY <1>7, FoundReturn DEF HostDies
  <1>8. CASE UNCHANGED vars
    BY <1>8 DEF vars, FoundInv
  <1>9. QED
    BY <1>1, <1>2, <1>3, <1>4, <1>5, <1>6, <1>7, <1>8 DEF Next, Step

LEMMA StepOps == OpsOK /\ [Next]_vars => OpsOK'
  <1> SUFFICES ASSUME OpsOK, [Next]_vars PROVE OpsOK'
    OBVIOUS
  <1> USE DEF locks, disk, OpsOK
  <1>1. ASSUME NEW C, Return(C) PROVE OpsOK'
    BY <1>1, ATemplate DEF Return
  <1>2. ASSUME NEW c \in Callers, NEW o \in Ops, Call(c, o) PROVE OpsOK'
    BY <1>2 DEF Call
  <1>3. ASSUME NEW c \in Callers, Step(c) PROVE OpsOK'
    <2>1. Return({c}) \/ UNCHANGED op
      BY <1>3 DEF Step, TakeMutex, TakeFlock, LockFails, Unlock, ReadConfig,
                  WriteConfig, ReadEnv, WriteEnv, Rollback, Restore,
                  ApplyTemplate
    <2>2. CASE UNCHANGED op
      BY <2>2
    <2>3. QED
      BY <2>1, <2>2, <1>1
  <1>4. ASSUME NEW h \in Hosts, HostDies(h) PROVE OpsOK'
    BY <1>4, <1>1 DEF HostDies
  <1>5. CASE UNCHANGED vars
    BY <1>5 DEF vars
  <1>6. QED
    BY <1>2, <1>3, <1>4, <1>5 DEF Next

LEMMA StepFiles == OpsOK /\ FilesOK /\ FoundInv /\ [Next]_vars => FilesOK'
  <1> SUFFICES ASSUME OpsOK, FilesOK, FoundInv, [Next]_vars PROVE FilesOK'
    OBVIOUS
  <1> USE DEF locks, disk, FilesOK
  <1>1. ASSUME NEW C, Return(C), UNCHANGED <<env, given>>, config' \in Files
        PROVE  FilesOK'
    BY <1>1, EmptyFits DEF Return
  <1>2. ASSUME NEW c \in Callers, NEW o \in Ops, Call(c, o) PROVE FilesOK'
    BY <1>2 DEF Call
  <1>3. ASSUME NEW c \in Callers, TakeMutex(c) \/ TakeFlock(c) PROVE FilesOK'
    BY <1>3 DEF TakeMutex, TakeFlock
  <1>4. ASSUME NEW c \in Callers, LockFails(c) \/ Unlock(c) PROVE FilesOK'
    BY <1>4, <1>1 DEF LockFails, Unlock
  <1>5. ASSUME NEW c \in Callers, ReadConfig(c) \/ ReadEnv(c) PROVE FilesOK'
    BY <1>5 DEF ReadConfig, ReadEnv
  <1>6. ASSUME NEW c \in Callers, WriteConfig(c) PROVE FilesOK'
    BY <1>6, EditedFits DEF WriteConfig
  <1>7. ASSUME NEW c \in Callers, WriteEnv(c) PROVE FilesOK'
    <2>1. pc[c] \in Editing
      BY <1>7 DEF WriteEnv, Editing, Inside
    <2>2. Target(c) \subseteq Keys /\ Merged(c) \in Envs
      BY <2>1, TargetFits, MergedFits DEF FoundInv
    <2>3. given' \subseteq given \cup Target(c)
      BY <1>7 DEF WriteEnv
    <2>4. QED
      BY <1>7, <2>2, <2>3 DEF WriteEnv
  <1>8. ASSUME NEW c \in Callers, Rollback(c) \/ Restore(c) PROVE FilesOK'
    BY <1>8 DEF Rollback, Restore, Truncate, Fill, NotFilled
  <1>9. ASSUME NEW c \in Callers, ApplyTemplate(c) PROVE FilesOK'
    <2>1. UNCHANGED <<env, given>> /\ config' \in Files
      BY <1>9, EmptyFits DEF ApplyTemplate, Truncate, Fill, NotFilled
    <2>2. CASE Return({c})
      BY <2>1, <2>2, <1>1
    <2>3. CASE UNCHANGED <<prev, snap>>
      BY <2>1, <2>3
    <2>4. QED
      BY <1>9, <2>2, <2>3 DEF ApplyTemplate
  <1>10. ASSUME NEW h \in Hosts, HostDies(h) PROVE FilesOK'
    BY <1>10, <1>1 DEF HostDies
  <1>11. CASE UNCHANGED vars
    BY <1>11 DEF vars
  <1>12. QED
    BY <1>2, <1>3, <1>4, <1>5, <1>6, <1>7, <1>8, <1>9, <1>10, <1>11
       DEF Next, Step

\* The numbers of calls, whatever the callers.
LEMMA OneMoreCall ==
    ASSUME NEW n \in 0 .. MaxCalls, n < MaxCalls PROVE n + 1 \in 0 .. MaxCalls
  BY IntegrateAssumption

\* A step that orphans no file, and of nobody who has one open but c.
LEMMA OrphanFrame ==
    ASSUME Orphaned, NEW c \in Callers, orphans' \subseteq orphans,
           \A d \in Callers \ {c} : pc'[d] = pc[d],
           pc[c] \notin {"restore", "fill"} \/ c \notin orphans'
    PROVE  Orphaned'
  BY DEF Orphaned

LEMMA StepOrphans == TypeInv /\ Orphaned /\ [Next]_vars => Orphaned'
  <1> SUFFICES ASSUME TypeInv, Orphaned, [Next]_vars PROVE Orphaned'
    OBVIOUS
  <1> USE DEF locks, disk
  <1>1. ASSUME NEW c \in Callers, NEW o \in Ops, Call(c, o) PROVE Orphaned'
    BY <1>1, OrphanFrame DEF Call, TypeInv
  <1>2. ASSUME NEW c \in Callers,
               TakeMutex(c) \/ TakeFlock(c) \/ ReadConfig(c) \/ ReadEnv(c)
                 \/ WriteEnv(c) \/ Rollback(c)
        PROVE  Orphaned'
    <2>1. /\ UNCHANGED orphans /\ pc[c] \notin {"restore", "fill"}
          /\ \A d \in Callers \ {c} : pc'[d] = pc[d]
      BY <1>2 DEF TakeMutex, TakeFlock, ReadConfig, ReadEnv, WriteEnv, Rollback,
                  Truncate, Goto, TypeInv
    <2>2. QED
      BY <2>1, OrphanFrame
  <1>3. ASSUME NEW c \in Callers, LockFails(c) \/ Unlock(c) PROVE Orphaned'
    BY <1>3, Returns, OrphanFrame DEF LockFails, Unlock
  <1>4. ASSUME NEW c \in Callers, WriteConfig(c) PROVE Orphaned'
    <2>1. CASE UNCHANGED orphans
      BY <1>4, <2>1, OrphanFrame DEF WriteConfig, Goto, TypeInv
    <2>2. CASE orphans' = {d \in Callers : pc[d] \in {"restore", "fill"}}
      <3>1. pc[c] = "write" /\ \A d \in Callers \ {c} : pc'[d] = pc[d]
        BY <1>4 DEF WriteConfig, Goto, TypeInv
      <3>2. QED
        BY <2>2, <3>1 DEF Orphaned
    <2>3. QED
      BY <1>4, <2>1, <2>2 DEF WriteConfig
  <1>5. ASSUME NEW c \in Callers, Restore(c) \/ ApplyTemplate(c) PROVE Orphaned'
    <2>1. \A d \in Callers \ {c} : pc'[d] = pc[d]
      BY <1>5, Returns DEF Restore, ApplyTemplate, Goto, TypeInv
    <2>2. \/ UNCHANGED orphans /\ pc[c] = "truncate"
          \/ orphans' = orphans \ {c}
      BY <1>5 DEF Restore, ApplyTemplate, Truncate, Fill, NotFilled
    <2>3. QED
      BY <2>1, <2>2, OrphanFrame
  <1>6. ASSUME NEW h \in Hosts, HostDies(h) PROVE Orphaned'
    <2>1. /\ orphans' = orphans \ {c \in Callers : host(c) = h}
          /\ \A d \in Callers : host(d) # h => pc'[d] = pc[d]
      BY <1>6, Returns DEF HostDies
    <2>2. QED
      BY <2>1 DEF Orphaned
  <1>7. CASE UNCHANGED vars
    BY <1>7 DEF vars, Orphaned
  <1>8. QED
    BY <1>1, <1>2, <1>3, <1>4, <1>5, <1>6, <1>7 DEF Next, Step

LEMMA StepPlaces == PlacesOK /\ [Next]_vars => PlacesOK'
  <1> SUFFICES ASSUME PlacesOK, [Next]_vars PROVE PlacesOK'
    OBVIOUS
  <1>1. TypeInv /\ TypeInv'
    BY StepType DEF PlacesOK
  <1>2. flock' \in Callers \cup {NoOne}
    BY DEF Next, Step, Call, TakeMutex, TakeFlock, LockFails, Unlock, ReadConfig,
           WriteConfig, ReadEnv, WriteEnv, Rollback, Restore, ApplyTemplate,
           HostDies, vars, locks, PlacesOK
  <1>3. torn' \in BOOLEAN
    BY DEF Next, Step, Call, TakeMutex, TakeFlock, LockFails, Unlock, ReadConfig,
           WriteConfig, ReadEnv, WriteEnv, Rollback, Restore, ApplyTemplate,
           Truncate, Fill, NotFilled, HostDies, vars, disk, PlacesOK
  <1>4. calls' = calls \/ (calls < MaxCalls /\ calls' = calls + 1)
    BY DEF Next, Step, Call, TakeMutex, TakeFlock, LockFails, Unlock, ReadConfig,
           WriteConfig, ReadEnv, WriteEnv, Rollback, Restore, ApplyTemplate,
           HostDies, Goto, Return, vars
  <1>5. Orphaned'
    BY StepOrphans DEF PlacesOK
  <1>6. QED
    BY <1>1, <1>2, <1>3, <1>4, <1>5, OneMoreCall DEF PlacesOK

LEMMA InitTypes == Init => PlacesOK /\ OpsOK /\ FilesOK /\ FoundInv
  <1> SUFFICES ASSUME Init PROVE PlacesOK /\ OpsOK /\ FilesOK /\ FoundInv
    OBVIOUS
  <1>1. PlacesOK
    <2>1. 0 \in 0 .. MaxCalls
      BY IntegrateAssumption
    <2>2. TypeInv
      BY InitLock
    <2>3. QED
      BY <2>1, <2>2 DEF Init, PlacesOK, Orphaned
  <1>2. OpsOK /\ FilesOK
    BY ATemplate, EmptyFits DEF Init, OpsOK, FilesOK
  <1>3. FoundInv
    BY DEF Init, FoundInv, Editing, Inside
  <1>4. QED
    BY <1>1, <1>2, <1>3

\* config.yaml and the env file are files of integrations and of their keys
\* through every failure, rollback and death, and so is what a call remembers;
\* an orphaned file is one that its writer has still open.
THEOREM IntegrateTypeHolds == Spec => []TypeOK
  <1>1. PlacesOK /\ OpsOK /\ FilesOK /\ FoundInv /\ [Next]_vars
          => (PlacesOK /\ OpsOK /\ FilesOK /\ FoundInv)'
    BY StepPlaces, StepOps, StepFiles, StepFound DEF PlacesOK
  <1>2. PlacesOK /\ OpsOK /\ FilesOK => TypeOK
    BY TypeParts
  <1>3. QED
    BY <1>1, <1>2, InitTypes, PTL DEF Spec
=============================================================================
