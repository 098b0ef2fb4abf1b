-------------------------- MODULE McpClientProofs --------------------------
(***************************************************************************)
(* Theorems about McpClient, for every set of callers and any number of    *)
(* subprocesses and requests.                                              *)
(***************************************************************************)
EXTENDS McpClient, TLAPS

-----------------------------------------------------------------------------
(* The subprocess                                                          *)

\* The supervisor is on its way to a restart, and the process it saw exit is
\* still the client's.
Restarting == {"eval", "backoff", "reset"}

\* Before Boot has ended nobody supervises.
Booting == {"start", "init", "initing", "list", "listing"}

\* The processes that run, and those that were reaped, are numbered so far, and
\* none is both.
NumberInv ==
    /\ procs \in Nat /\ conn \in Nat
    /\ \A p \in alive \cup reaped : p \in Nat /\ 0 < p /\ p <= procs
    /\ alive \cap reaped = {}

\* A restart forgets a process only after its reaping.
RestartInv ==
    /\ main \in Booting => sup = "off"
    /\ sup \in Restarting => conn \in reaped
    /\ OneProcess

\* The process that Close has picked up is the only one there can be: nothing
\* starts in a client that is closed.
CloseInv ==
    /\ main = "wait" => closed /\ alive \subseteq {victim}
    /\ NoOrphan

ProcInv == NumberInv /\ RestartInv /\ CloseInv

\* A step that neither starts a process nor sees one end, and leaves the control
\* of Close and of the supervisor alone.
LEMMA ProcFrame ==
    ASSUME ProcInv, UNCHANGED <<process, client, boot, sup>>
    PROVE  ProcInv'
  <1> USE DEF process, client, boot
  <1>1. NumberInv'
    BY DEF ProcInv, NumberInv
  <1>2. RestartInv'
    BY DEF ProcInv, RestartInv, OneProcess
  <1>3. CloseInv'
    BY DEF ProcInv, CloseInv, NoOrphan
  <1>4. QED
    BY <1>1, <1>2, <1>3 DEF ProcInv

\* A subprocess starts: there was none.
LEMMA ProcStarts ==
    ASSUME ProcInv, StartOk, main' # "wait" \/ UNCHANGED main,
           main' \in Booting => sup' = "off", sup' \notin Restarting,
           main' = "wait" => main = "wait"
    PROVE  ProcInv'
  <1>1. alive = {}
    BY DEF ProcInv, NumberInv, RestartInv, OneProcess, StartOk
  <1>2. procs' = procs + 1 /\ alive' = {procs'} /\ conn' = procs'
        /\ UNCHANGED <<reaped, closed>> /\ ~closed
    BY <1>1 DEF StartOk
  <1>3. NumberInv'
    BY <1>2 DEF ProcInv, NumberInv
  <1>4. RestartInv'
    BY <1>2 DEF RestartInv, OneProcess
  <1>5. CloseInv'
    BY <1>2 DEF ProcInv, CloseInv, NoOrphan
  <1>6. QED
    BY <1>3, <1>4, <1>5 DEF ProcInv

LEMMA StepBoot ==
    ASSUME ProcInv, BootStart \/ BootCall \/ BootCalled \/ MgrClose
    PROVE  ProcInv'
  <1>1. CASE BootStart /\ StartOk
    <2>1. UNCHANGED sup /\ main = "start" /\ main' \in {"init", "up"}
      BY <1>1 DEF BootStart, Main, super
    <2>2. sup = "off"
      BY <2>1 DEF ProcInv, RestartInv, Booting
    <2>3. QED
      BY <1>1, <2>1, <2>2, ProcStarts DEF Restarting
  <1>2. CASE (BootStart /\ ~StartOk) \/ BootCall \/ BootCalled \/ MgrClose
    <2>1. /\ UNCHANGED <<process, client, victim>>
          /\ main # "wait" /\ main' # "wait"
          /\ main' \in Booting => UNCHANGED sup /\ main \in Booting
          /\ sup' \in Restarting => UNCHANGED sup
      BY <1>2 DEF BootStart, StartFails, BootCall, BootCalled, MgrClose, Main,
                  super, boot, Booting, Restarting
    <2>2. NumberInv'
      BY <2>1 DEF ProcInv, NumberInv, process, client
    <2>3. RestartInv'
      BY <2>1 DEF ProcInv, RestartInv, OneProcess, process, client
    <2>4. CloseInv'
      BY <2>1 DEF ProcInv, CloseInv, NoOrphan, process, client
    <2>5. QED
      BY <2>2, <2>3, <2>4 DEF ProcInv
  <1>3. QED
    BY <1>1, <1>2

LEMMA StepClose == ASSUME ProcInv, CloseStep PROVE ProcInv'
  <1> USE DEF process, client, boot, super
  <1>1. UNCHANGED <<procs, reaped, conn, sup>> /\ alive' \subseteq alive
    BY DEF CloseStep, CloseMark, CloseKill, CloseReaped, CloseFails, CloseJoins,
           Main
  <1>2. main' \in Booting => UNCHANGED main
    BY DEF CloseStep, CloseMark, CloseKill, CloseReaped, CloseFails, CloseJoins,
           Main, Booting
  <1>3. NumberInv'
    BY <1>1 DEF ProcInv, NumberInv
  <1>4. RestartInv'
    BY <1>1, <1>2 DEF ProcInv, RestartInv, OneProcess
  <1>5. CloseInv'
    <2> USE DEF ProcInv, CloseInv, NoOrphan, OneProcess, RestartInv
    <2>1. CASE CloseMark
      BY <2>1 DEF CloseMark
    <2>2. CASE CloseKill
      BY <2>2 DEF CloseKill
    <2>3. CASE CloseReaped
      <3>1. victim \notin alive
        BY <2>3 DEF CloseReaped, NumberInv
      <3>2. QED
        BY <2>3, <3>1 DEF CloseReaped, Main
    <2>4. CASE CloseFails \/ CloseJoins
      BY <2>4 DEF CloseFails, CloseJoins, Main
    <2>5. QED
      BY <2>1, <2>2, <2>3, <2>4 DEF CloseStep
  <1>6. QED
    BY <1>3, <1>4, <1>5 DEF ProcInv

LEMMA StepSup == ASSUME ProcInv, SupStep PROVE ProcInv'
  <1> USE DEF process, client, boot, super
  <1>1. UNCHANGED main /\ sup # "off" /\ main \notin Booting
    BY DEF SupStep, SupTop, SupSeesExit, SupEval, SupStopped, SupBackoff, SupReset,
           SupStart, SupCall, SupCalled, ProcInv, RestartInv
  <1>2. CASE SupStart /\ StartOk
    <2>1. sup' = "init" \/ sup' = "top"
      BY <1>2 DEF SupStart
    <2>2. QED
      BY <1>1, <1>2, <2>1, ProcStarts DEF Restarting
  <1>3. CASE SupReset
    <2>1. alive = {}
      BY <1>3 DEF SupReset, ProcInv, RestartInv, OneProcess, NumberInv, Restarting
    <2>2. /\ UNCHANGED <<procs, alive, reaped, closed, victim>>
          /\ sup' = "start" /\ conn' = 0
      BY <1>3 DEF SupReset
    <2>3. NumberInv'
      BY <2>2 DEF ProcInv, NumberInv
    <2>4. RestartInv'
      BY <1>1, <2>1, <2>2 DEF RestartInv, OneProcess, Restarting
    <2>5. CloseInv'
      BY <1>1, <2>1, <2>2 DEF ProcInv, CloseInv, NoOrphan
    <2>6. QED
      BY <2>3, <2>4, <2>5 DEF ProcInv
  <1>4. CASE SupTop \/ SupSeesExit \/ SupEval \/ SupStopped \/ SupBackoff
             \/ (SupStart /\ ~StartOk) \/ SupCall \/ SupCalled
    <2>1. /\ UNCHANGED <<process, client, victim>>
          /\ sup' \in Restarting => sup \in Restarting \/ conn \in reaped
      BY <1>4 DEF SupTop, SupSeesExit, SupEval, SupStopped, SupBackoff, SupStart,
                  StartFails, SupCall, SupCalled, Restarting
    <2>2. NumberInv'
      BY <2>1 DEF ProcInv, NumberInv
    <2>3. RestartInv'
      BY <1>1, <2>1 DEF ProcInv, RestartInv, OneProcess
    <2>4. CloseInv'
      BY <1>1, <2>1 DEF ProcInv, CloseInv, NoOrphan
    <2>5. QED
      BY <2>2, <2>3, <2>4 DEF ProcInv
  <1>5. QED
    BY <1>2, <1>3, <1>4 DEF SupStep

LEMMA StepProcess ==
    ASSUME ProcInv, NEW p \in Procs, ProcExits(p) \/ Reap(p)
    PROVE  ProcInv'
  <1> USE DEF client, boot, super
  <1>1. /\ UNCHANGED <<procs, client, boot, sup>>
        /\ alive' \subseteq alive /\ reaped \subseteq reaped'
    BY DEF ProcExits, Reap
  <1>2. NumberInv'
    BY DEF ProcExits, Reap, ProcInv, NumberInv, Procs
  <1>3. RestartInv'
    BY <1>1 DEF ProcInv, RestartInv, OneProcess
  <1>4. CloseInv'
    BY <1>1 DEF ProcInv, CloseInv, NoOrphan
  <1>5. QED
    BY <1>2, <1>3, <1>4 DEF ProcInv

LEMMA StepProc == ProcInv /\ [Next]_vars => ProcInv'
  <1> SUFFICES ASSUME ProcInv, [Next]_vars PROVE ProcInv'
    OBVIOUS
  <1>1. CASE BootStart \/ BootCall \/ BootCalled \/ MgrClose
    BY <1>1, StepBoot
  <1>2. CASE CloseStep
    BY <1>2, StepClose
  <1>3. CASE SupStep
    BY <1>3, StepSup
  <1>4. CASE \E c \in Callers : CallStep(c) \/ CallCancelled(c)
    BY <1>4, ProcFrame DEF CallStep, CallWrite, CallRefused, CallAborted,
                           CallAnswered, CallCancelled, super
  <1>5. CASE \E c \in Users : UserCalls(c)
    BY <1>5, ProcFrame DEF UserCalls, super
  <1>6. ASSUME NEW p \in Procs, ProcExits(p) \/ Reap(p)
        PROVE  ProcInv'
    BY <1>6, StepProcess
  <1>7. ASSUME NEW p \in Procs,
               Deliver(p) \/ \E id \in Ids : ReadLine(p, id)
        PROVE  ProcInv'
    BY <1>7, ProcFrame DEF Deliver, ReadLine, super
  <1>8. CASE UNCHANGED vars
    BY <1>8, ProcFrame DEF vars, super
  <1>9. QED
    BY <1>1, <1>2, <1>3, <1>4, <1>5, <1>6, <1>7, <1>8 DEF Next

LEMMA InitProc == Init => ProcInv
  BY DEF Init, ProcInv, NumberInv, RestartInv, CloseInv, OneProcess, NoOrphan,
         Booting, Restarting

\* superviseStdio restarts an integration only after the process before it was
\* reaped: it never runs twice.
THEOREM OneProcessHolds == Spec => []OneProcess
  <1>1. ProcInv => OneProcess
    BY DEF ProcInv, RestartInv
  <1>2. QED
    BY <1>1, InitProc, StepProc, PTL DEF Spec

\* Once stdioClient.Close has returned no subprocess is left running, also when a
\* restart was under way.
THEOREM NoOrphanHolds == Spec => []NoOrphan
  <1>1. ProcInv => NoOrphan
    BY DEF ProcInv, CloseInv
  <1>2. QED
    BY <1>1, InitProc, StepProc, PTL DEF Spec

-----------------------------------------------------------------------------
(* The table of calls in progress                                          *)

Active(c) == at[c] # "out"

\* A request has an id of its own; what Close has shut was one.
IdInv ==
    /\ ids \in Nat
    /\ at \in [Callers -> {"out", "write", "wait"}]
    /\ req \in [Callers -> [id : Nat, conn : Nat, ok : BOOLEAN]]
    /\ \A i \in shut : i \in Nat /\ i <= ids
    /\ \A c \in Callers : Active(c) => req[c].id <= ids
    /\ \A c, d \in Callers :
          Active(c) /\ Active(d) /\ req[c].id = req[d].id => c = d

\* PendExact, element by element.
PendInv ==
    \A i : i \in pend <=> /\ i \notin shut
                          /\ \E c \in Callers : Active(c) /\ req[c].id = i

LEMMA PendBegins ==
    ASSUME IdInv, PendInv, NEW c \in Callers, CallBegin(c)
    PROVE  IdInv' /\ PendInv'
  <1>1. /\ at' = [at EXCEPT ![c] = "write"]
        /\ req' = [req EXCEPT ![c] = [NoReq EXCEPT !.id = ids + 1]]
        /\ ids' = ids + 1 /\ pend' = pend \cup {ids + 1} /\ UNCHANGED shut
        /\ ~Active(c)
    BY DEF CallBegin, Active
  <1>2. /\ at' \in [Callers -> {"out", "write", "wait"}]
        /\ req' \in [Callers -> [id : Nat, conn : Nat, ok : BOOLEAN]]
        /\ ids' \in Nat
    <2>1. [NoReq EXCEPT !.id = ids + 1] \in [id : Nat, conn : Nat, ok : BOOLEAN]
      <3>1. ids + 1 \in Nat
        BY DEF IdInv
      <3>2. QED
        BY <3>1 DEF NoReq
    <2>2. QED
      BY <1>1, <2>1 DEF IdInv
  <1>3. /\ Active(c)' /\ req'[c].id = ids + 1
        /\ \A d \in Callers \ {c} :
              (Active(d)' <=> Active(d)) /\ req'[d].id = req[d].id
    <2>1. [NoReq EXCEPT !.id = ids + 1].id = ids + 1
      BY DEF NoReq
    <2>2. QED
      BY <1>1, <2>1 DEF IdInv, Active
  <1>4. /\ \A d \in Callers : Active(d) => req[d].id # ids + 1
        /\ ids + 1 \notin shut
    BY DEF IdInv
  <1>5. \A d \in Callers : Active(d)' => req'[d].id <= ids'
    BY <1>1, <1>3 DEF IdInv
  <1>6. \A i \in shut' : i \in Nat /\ i <= ids'
    BY <1>1 DEF IdInv
  <1>7. \A d, e \in Callers :
           Active(d)' /\ Active(e)' /\ req'[d].id = req'[e].id => d = e
    BY <1>3, <1>4 DEF IdInv
  <1>8. IdInv'
    BY <1>2, <1>5, <1>6, <1>7 DEF IdInv, Active
  <1>9. PendInv'
    BY <1>1, <1>3, <1>4 DEF PendInv
  <1>10. QED
    BY <1>8, <1>9

LEMMA PendEnds ==
    ASSUME IdInv, PendInv, NEW c \in Callers, Active(c), NEW ok \in BOOLEAN,
           CallEnds(c, ok)
    PROVE  IdInv' /\ PendInv'
  <1>1. /\ at' = [at EXCEPT ![c] = "out"]
        /\ req' = [req EXCEPT ![c] = [NoReq EXCEPT !.ok = ok]]
        /\ pend' = pend \ {req[c].id} /\ UNCHANGED <<ids, shut>>
    BY DEF CallEnds
  <1>2. /\ at' \in [Callers -> {"out", "write", "wait"}]
        /\ req' \in [Callers -> [id : Nat, conn : Nat, ok : BOOLEAN]]
    <2>1. [NoReq EXCEPT !.ok = ok] \in [id : Nat, conn : Nat, ok : BOOLEAN]
      BY DEF NoReq
    <2>2. QED
      BY <1>1, <2>1 DEF IdInv
  <1>3. /\ ~Active(c)'
        /\ \A d \in Callers \ {c} :
              (Active(d)' <=> Active(d)) /\ req'[d].id = req[d].id
    BY <1>1 DEF IdInv, Active
  <1>4. \A d \in Callers : Active(d) /\ req[d].id = req[c].id => d = c
    BY DEF IdInv
  <1>5. IdInv'
    BY <1>1, <1>2, <1>3 DEF IdInv, Active
  <1>6. PendInv'
    BY <1>1, <1>3, <1>4 DEF PendInv
  <1>7. QED
    BY <1>5, <1>6

\* What happens to a call between its begin and its end.
LEMMA PendFrame ==
    ASSUME IdInv, PendInv, UNCHANGED <<ids, pend, shut, at, req>>
    PROVE  IdInv' /\ PendInv'
  BY DEF IdInv, PendInv, Active

LEMMA PendCall ==
    ASSUME IdInv, PendInv, ProcInv, NEW c \in Callers,
           CallStep(c) \/ CallCancelled(c)
    PROVE  IdInv' /\ PendInv'
  <1>1. CASE CallWrite(c)
    <2>1. /\ at' = [at EXCEPT ![c] = "wait"] /\ Active(c)
          /\ req' = [req EXCEPT ![c] = [@ EXCEPT !.conn = conn]]
          /\ UNCHANGED <<ids, pend, shut>>
      BY <1>1 DEF CallWrite, Active
    <2>2. conn \in Nat
      BY DEF ProcInv, NumberInv
    <2>3. /\ at' \in [Callers -> {"out", "write", "wait"}]
          /\ req' \in [Callers -> [id : Nat, conn : Nat, ok : BOOLEAN]]
      BY <2>1, <2>2 DEF IdInv
    <2>4. \A d \in Callers : (Active(d)' <=> Active(d)) /\ req'[d].id = req[d].id
      BY <2>1 DEF IdInv, Active
    <2>5. QED
      BY <2>1, <2>3, <2>4 DEF IdInv, PendInv
  <1>2. CASE CallRefused(c) \/ CallAborted(c) \/ CallAnswered(c)
             \/ CallCancelled(c)
    BY <1>2, PendEnds DEF CallRefused, CallAborted, CallAnswered, CallCancelled,
                          Active
  <1>3. QED
    BY <1>1, <1>2 DEF CallStep

LEMMA StepPend ==
    ProcInv /\ IdInv /\ PendInv /\ [Next]_vars => IdInv' /\ PendInv'
  <1> SUFFICES ASSUME ProcInv, IdInv, PendInv, [Next]_vars
               PROVE  IdInv' /\ PendInv'
    OBVIOUS
  <1> USE DEF calls
  <1>1. CASE BootCall
    BY <1>1, PendBegins DEF BootCall, Callers
  <1>2. CASE SupCall
    BY <1>2, PendBegins DEF SupCall, Callers
  <1>3. CASE \E c \in Users : UserCalls(c)
    BY <1>3, PendBegins DEF UserCalls, Callers
  <1>4. CASE \E c \in Callers : CallStep(c) \/ CallCancelled(c)
    BY <1>4, PendCall
  <1>5. CASE CloseFails
    <2>1. /\ shut' = shut \cup pend /\ pend' = {}
          /\ UNCHANGED <<ids, at, req>>
      BY <1>5 DEF CloseFails
    <2>2. \A i \in pend : i \in Nat /\ i <= ids
      BY DEF PendInv, IdInv
    <2>3. IdInv'
      BY <2>1, <2>2 DEF IdInv, Active
    <2>4. PendInv'
      BY <2>1 DEF PendInv, Active
    <2>5. QED
      BY <2>3, <2>4
  <1>6. CASE BootStart \/ BootCalled \/ MgrClose \/ CloseMark \/ CloseKill
             \/ CloseReaped \/ CloseJoins
    BY <1>6, PendFrame DEF BootStart, BootCalled, MgrClose, CloseMark, CloseKill,
                           CloseReaped, CloseJoins
  <1>7. CASE SupTop \/ SupSeesExit \/ SupEval \/ SupStopped \/ SupBackoff
             \/ SupReset \/ SupStart \/ SupCalled
    BY <1>7, PendFrame DEF SupTop, SupSeesExit, SupEval, SupStopped, SupBackoff,
                           SupReset, SupStart, SupCalled
  <1>8. ASSUME NEW p \in Procs,
               ProcExits(p) \/ Reap(p) \/ Deliver(p)
               \/ \E id \in Ids : ReadLine(p, id)
        PROVE  IdInv' /\ PendInv'
    BY <1>8, PendFrame DEF ProcExits, Reap, Deliver, ReadLine
  <1>9. CASE UNCHANGED vars
    BY <1>9, PendFrame DEF vars
  <1>10. QED
    BY <1>1, <1>2, <1>3, <1>4, <1>5, <1>6, <1>7, <1>8, <1>9
       DEF Next, CloseStep, SupStep

\* pend.m holds the channel of every call in progress until Close takes it, and
\* no other: no path out of stdioClient.call leaks an entry.
THEOREM PendExactHolds == Spec => []PendExact
  <1>1. Init => IdInv /\ PendInv
    BY DEF Init, IdInv, PendInv, Active, NoReq
  <1>2. PendInv => PendExact
    BY DEF PendInv, PendExact, Active
  <1>3. QED
    BY <1>1, <1>2, InitProc, StepProc, StepPend, PTL DEF Spec

-----------------------------------------------------------------------------
(* No call is lost in a restart                                            *)

\* A call waits for the process the client has now or for one that was reaped:
\* when the supervisor puts another process in its place, the doneCh that the
\* call selects on is closed already.
NoCallLost ==
    \A c \in Callers : at[c] = "wait" =>
        /\ req[c].conn # 0
        /\ req[c].conn = conn \/ req[c].conn \in reaped

LEMMA LostFrame ==
    ASSUME NoCallLost, UNCHANGED <<at, req>>, reaped \subseteq reaped',
           conn' = conn \/ conn \in reaped \/ conn = 0
    PROVE  NoCallLost'
  BY DEF NoCallLost

LEMMA LostBegins ==
    ASSUME IdInv, NoCallLost, UNCHANGED <<conn, reaped>>, NEW c \in Callers,
           NEW ok \in BOOLEAN, CallBegin(c) \/ CallEnds(c, ok)
    PROVE  NoCallLost'
  BY DEF IdInv, NoCallLost, CallBegin, CallEnds

LEMMA StepLost ==
    ProcInv /\ IdInv /\ NoCallLost /\ [Next]_vars => NoCallLost'
  <1> SUFFICES ASSUME ProcInv, IdInv, NoCallLost, [Next]_vars
               PROVE  NoCallLost'
    OBVIOUS
  <1> USE DEF process, client, calls
  <1>1. CASE BootCall
    BY <1>1, LostBegins DEF BootCall, Callers
  <1>2. CASE SupCall
    BY <1>2, LostBegins DEF SupCall, Callers
  <1>3. CASE \E c \in Users : UserCalls(c)
    BY <1>3, LostBegins DEF UserCalls, Callers
  <1>4. ASSUME NEW c \in Callers, CallWrite(c) PROVE NoCallLost'
    <2>1. /\ at' = [at EXCEPT ![c] = "wait"] /\ conn # 0
          /\ req' = [req EXCEPT ![c] = [@ EXCEPT !.conn = conn]]
          /\ UNCHANGED <<conn, reaped>>
      BY <1>4 DEF CallWrite
    <2>2. req'[c].conn = conn /\ \A d \in Callers \ {c} : req'[d] = req[d] /\ at'[d] = at[d]
      BY <2>1 DEF IdInv
    <2>3. QED
      BY <2>1, <2>2 DEF NoCallLost
  <1>5. ASSUME NEW c \in Callers,
               CallRefused(c) \/ CallAborted(c) \/ CallAnswered(c) \/ CallCancelled(c)
        PROVE  NoCallLost'
    BY <1>5, LostBegins DEF CallRefused, CallAborted, CallAnswered, CallCancelled
  <1>6. CASE BootStart \/ SupStart
    BY <1>6, LostFrame DEF BootStart, SupStart, StartOk, StartFails
  <1>7. CASE SupReset
    <2>1. conn \in reaped
      BY <1>7 DEF SupReset, ProcInv, RestartInv, Restarting
    <2>2. QED
      BY <1>7, <2>1, LostFrame DEF SupReset
  <1>8. CASE BootCalled \/ MgrClose \/ CloseStep
    BY <1>8, LostFrame DEF BootCalled, MgrClose, CloseStep, CloseMark, CloseKill,
                           CloseReaped, CloseFails, CloseJoins
  <1>9. CASE SupTop \/ SupSeesExit \/ SupEval \/ SupStopped \/ SupBackoff \/ SupCalled
    BY <1>9, LostFrame DEF SupTop, SupSeesExit, SupEval, SupStopped, SupBackoff,
                           SupCalled
  <1>10. ASSUME NEW p \in Procs,
                ProcExits(p) \/ Reap(p) \/ Deliver(p)
                \/ \E id \in Ids : ReadLine(p, id)
         PROVE  NoCallLost'
    BY <1>10, LostFrame DEF ProcExits, Reap, Deliver, ReadLine
  <1>11. CASE UNCHANGED vars
    BY <1>11, LostFrame DEF vars
  <1>12. QED
    BY <1>1, <1>2, <1>3, <1>4, <1>5, <1>6, <1>7, <1>8, <1>9, <1>10, <1>11
       DEF Next, CallStep, SupStep

\* The safe half of CallsReturn: no restart leaves a call waiting for a process
\* that is neither the client's nor known to be gone, which nothing would wake.
THEOREM NoCallLostHolds == Spec => []NoCallLost
  <1>1. Init => IdInv /\ PendInv /\ NoCallLost
    BY DEF Init, IdInv, PendInv, NoCallLost, Active, NoReq
  <1>2. QED
    BY <1>1, InitProc, StepProc, StepPend, StepLost, PTL DEF Spec

-----------------------------------------------------------------------------
(* Types, and that the bounds on requests agree                            *)

\* The requests Boot has made where it is now, at most.
BootCalls(m) == IF m \in {"start", "init"} THEN 0
                ELSE IF m \in {"initing", "list"} THEN 1 ELSE 2

\* Whether the supervisor still has to initialize what it has started.
Owed(s) == IF s = "init" THEN 1 ELSE 0

\* Users stop at MaxCalls; Boot and every restart add their own.
BudgetInv ==
    /\ procs \in 0 .. MaxProcs
    /\ main = "start" => procs = 0
    /\ main \in Booting \ {"start"} \/ sup # "off" => procs # 0
    /\ IF procs = 0 THEN ids = 0
       ELSE ids + Owed(sup) + 1 <= MaxCalls + BootCalls(main) + procs

LEMMA Bounds == MaxCalls \in Nat /\ MaxProcs \in Nat
  BY McpAssumption

\* The arithmetic of a step, where a is MaxCalls: requests, those owed, Boot's,
\* processes.
LEMMA Budget ==
    ASSUME NEW a \in Nat,
           NEW i \in Nat, NEW o \in Nat, NEW b \in Nat, NEW p \in Nat,
           NEW j \in Nat, NEW q \in Nat, NEW c \in Nat, NEW r \in Nat,
           i + o + 1 <= a + b + p,
           j + q + b + p <= i + o + c + r
    PROVE  j + q + 1 <= a + c + r
  OBVIOUS

LEMMA BudgetFrame ==
    ASSUME BudgetInv, ids \in Nat, UNCHANGED <<procs, ids>>,
           BootCalls(main) <= BootCalls(main'), Owed(sup') <= Owed(sup),
           main' = "start" => main = "start",
           main' \in Booting \ {"start"} => main \in Booting \ {"start"},
           sup' # "off" => procs # 0
    PROVE  BudgetInv'
  <1>1. BootCalls(main) \in Nat /\ Owed(sup) \in Nat /\ BootCalls(main') \in Nat /\ Owed(sup') \in Nat
    BY DEF BootCalls, Owed
  <1>2. procs \in Nat
    BY Bounds DEF BudgetInv
  <1>3. CASE procs = 0
    BY <1>3 DEF BudgetInv
  <1>4. CASE procs # 0
    <2>1. ids + Owed(sup) + 1 <= MaxCalls + BootCalls(main) + procs
      BY <1>4 DEF BudgetInv
    <2>2. ids + Owed(sup') + 1 <= MaxCalls + BootCalls(main') + procs
      <3>1. ids + Owed(sup') + BootCalls(main) + procs <= ids + Owed(sup) + BootCalls(main') + procs
        BY <1>1, <1>2
      <3>2. QED
        BY <1>1, <1>2, <2>1, <3>1, Bounds, Budget
    <2>3. QED
      BY <1>4, <2>2 DEF BudgetInv
  <1>5. QED
    BY <1>3, <1>4

LEMMA BudgetStarts ==
    ASSUME BudgetInv, ids \in Nat, StartOk, UNCHANGED ids, main' # "start",
           BootCalls(main) <= BootCalls(main'), Owed(sup') <= Owed(sup) + 1,
           procs = 0 => Owed(sup') = 0
    PROVE  BudgetInv'
  <1>1. BootCalls(main) \in Nat /\ Owed(sup) \in Nat /\ BootCalls(main') \in Nat /\ Owed(sup') \in Nat
    BY DEF BootCalls, Owed
  <1>2. procs \in Nat /\ procs < MaxProcs /\ procs' = procs + 1
    BY Bounds DEF BudgetInv, StartOk
  <1>3. ids + Owed(sup') + 1 <= MaxCalls + BootCalls(main') + procs'
    <2>1. CASE procs = 0
      <3>1. ids = 0 /\ Owed(sup') = 0 /\ procs' = 1
        BY <1>2, <2>1 DEF BudgetInv
      <3>2. QED
        BY <1>1, <3>1, Bounds
    <2>2. CASE procs # 0
      <3>1. ids + Owed(sup) + 1 <= MaxCalls + BootCalls(main) + procs
        BY <2>2 DEF BudgetInv
      <3>2. ids + Owed(sup') + BootCalls(main) + procs <= ids + Owed(sup) + BootCalls(main') + procs'
        BY <1>1, <1>2
      <3>3. procs' \in Nat
        BY <1>2
      <3>4. QED
        BY <1>1, <1>2, <3>1, <3>2, <3>3, Bounds, Budget
    <2>3. QED
      BY <2>1, <2>2
  <1>4. procs' \in 0 .. MaxProcs /\ procs' # 0
    BY <1>2, Bounds
  <1>5. QED
    BY <1>3, <1>4 DEF BudgetInv

LEMMA StepBudget ==
    ProcInv /\ IdInv /\ BudgetInv /\ [Next]_vars => BudgetInv'
  <1> SUFFICES ASSUME ProcInv, IdInv, BudgetInv, [Next]_vars PROVE BudgetInv'
    OBVIOUS
  <1> USE DEF process, calls, boot, super
  <1>1. ids \in Nat /\ procs \in Nat /\ MaxCalls \in Nat /\ MaxProcs \in Nat
    BY Bounds DEF IdInv, BudgetInv
  <1>2. CASE BootStart
    <2>1. CASE StartOk
      BY <1>1, <1>2, <2>1, BudgetStarts
         DEF BootStart, Main, BootCalls, Owed, ProcInv, RestartInv, Booting
    <2>2. CASE ~StartOk
      BY <1>1, <1>2, <2>2, BudgetFrame
         DEF BootStart, StartFails, Main, BootCalls, Owed, ProcInv, RestartInv, Booting,
             BudgetInv
    <2>3. QED
      BY <1>2, <2>1, <2>2 DEF BootStart
  <1>3. CASE BootCall
    <2>1. /\ ids' = ids + 1 /\ UNCHANGED <<procs, sup>>
          /\ \/ main = "init" /\ main' = "initing"
             \/ main = "list" /\ main' = "listing"
      BY <1>3 DEF BootCall, CallBegin, Main
    <2>2. procs # 0 /\ ids + Owed(sup) + 1 <= MaxCalls + BootCalls(main) + procs
      BY <2>1 DEF BudgetInv, Booting
    <2>3. BootCalls(main') = BootCalls(main) + 1 /\ BootCalls(main) \in Nat /\ Owed(sup) \in Nat /\ Owed(sup') = Owed(sup)
      BY <2>1 DEF BootCalls, Owed
    <2>4. ids' + Owed(sup') + 1 <= MaxCalls + BootCalls(main') + procs
      BY <1>1, <2>1, <2>2, <2>3
    <2>5. QED
      BY <2>1, <2>2, <2>4 DEF BudgetInv
  <1>4. CASE BootCalled
    BY <1>1, <1>4, BudgetFrame DEF BootCalled, Main, BootCalls, Owed, BudgetInv, Booting
  <1>5. CASE MgrClose \/ CloseStep
    BY <1>1, <1>5, BudgetFrame
       DEF MgrClose, CloseStep, CloseMark, CloseKill, CloseReaped, CloseFails,
           CloseJoins, Main, BootCalls, Owed, BudgetInv, Booting
  <1>6. CASE SupTop \/ SupSeesExit \/ SupEval \/ SupStopped \/ SupBackoff
             \/ SupReset \/ SupCalled
    BY <1>1, <1>6, BudgetFrame
       DEF SupTop, SupSeesExit, SupEval, SupStopped, SupBackoff, SupReset,
           SupCalled, BootCalls, Owed, BudgetInv
  <1>7. CASE SupStart
    <2>1. procs # 0 /\ main # "start" /\ Owed(sup) = 0
      BY <1>7 DEF SupStart, BudgetInv, Owed
    <2>2. CASE StartOk
      BY <1>1, <1>7, <2>1, <2>2, BudgetStarts DEF SupStart, BootCalls, Owed
    <2>3. CASE ~StartOk
      BY <1>1, <1>7, <2>1, <2>3, BudgetFrame DEF SupStart, StartFails, BootCalls, Owed
    <2>4. QED
      BY <1>7, <2>2, <2>3 DEF SupStart
  <1>8. CASE SupCall
    <2>1. ids' = ids + 1 /\ UNCHANGED <<procs, main>> /\ Owed(sup) = 1 /\ Owed(sup') = 0
      BY <1>8 DEF SupCall, CallBegin, Owed
    <2>2. procs # 0 /\ ids + Owed(sup) + 1 <= MaxCalls + BootCalls(main) + procs
      BY <1>8 DEF SupCall, BudgetInv
    <2>3. BootCalls(main') = BootCalls(main) /\ BootCalls(main) \in Nat
      BY <2>1 DEF BootCalls
    <2>4. ids' + Owed(sup') + 1 <= MaxCalls + BootCalls(main') + procs
      BY <1>1, <2>1, <2>2, <2>3
    <2>5. QED
      BY <2>1, <2>2, <2>4 DEF BudgetInv
  <1>9. ASSUME NEW c \in Users, UserCalls(c) PROVE BudgetInv'
    <2>1. /\ ids' = ids + 1 /\ ids < MaxCalls /\ sup # "off"
          /\ UNCHANGED <<procs, main, sup>>
      BY <1>9 DEF UserCalls, CallBegin
    <2>2. procs # 0 /\ BootCalls(main) = 2
      BY <2>1 DEF BudgetInv, BootCalls, ProcInv, RestartInv, Booting
    <2>3. Owed(sup') \in 0 .. 1 /\ BootCalls(main') = 2
      BY <2>1, <2>2 DEF Owed, BootCalls
    <2>4. ids' + Owed(sup') + 1 <= MaxCalls + BootCalls(main') + procs
      BY <1>1, <2>1, <2>2, <2>3
    <2>5. QED
      BY <2>1, <2>2, <2>4 DEF BudgetInv
  <1>10. ASSUME NEW c \in Callers, CallStep(c) \/ CallCancelled(c) PROVE BudgetInv'
    <2>1. UNCHANGED <<procs, ids, main, sup>>
      BY <1>10 DEF CallStep, CallWrite, CallRefused, CallAborted, CallAnswered,
                   CallCancelled, CallEnds
    <2>2. QED
      BY <2>1 DEF BudgetInv, BootCalls, Owed
  <1>11. ASSUME NEW p \in Procs,
                ProcExits(p) \/ Reap(p) \/ Deliver(p)
                \/ \E id \in Ids : ReadLine(p, id)
         PROVE  BudgetInv'
    <2>1. UNCHANGED <<procs, ids, main, sup>>
      BY <1>11 DEF ProcExits, Reap, Deliver, ReadLine
    <2>2. QED
      BY <2>1 DEF BudgetInv, BootCalls, Owed
  <1>12. CASE UNCHANGED vars
    BY <1>12 DEF vars, BudgetInv, BootCalls, Owed
  <1>13. QED
    BY <1>2, <1>3, <1>4, <1>5, <1>6, <1>7, <1>8, <1>9, <1>10, <1>11, <1>12
       DEF Next, SupStep

\* TypeOK in parts: the control, the numbers of processes, and the ids.
ControlOK ==
    /\ main \in MainAt /\ sup \in SupAt
    /\ closed \in BOOLEAN /\ stop \in BOOLEAN /\ selStop \in BOOLEAN
    /\ panicked \in BOOLEAN

ProcsOK ==
    /\ conn <= procs /\ victim \in Nat /\ victim <= procs

IdsOK ==
    /\ asked \in [Procs -> SUBSET Ids] /\ hold \in [Procs -> Ids \cup {0}]
    /\ pend \subseteq Ids /\ shut \subseteq Ids /\ inbox \subseteq Ids
    /\ \A c \in Callers : req[c].id \in Ids \cup {0}
    /\ \A c \in Callers : at[c] # "out" => req[c].id \in Ids
    /\ \A c \in Callers : req[c].conn \in Procs \cup {0}

LEMMA StepControl == ControlOK /\ [Next]_vars => ControlOK'
  <1> SUFFICES ASSUME ControlOK, [Next]_vars PROVE ControlOK'
    OBVIOUS
  <1> USE DEF ControlOK, MainAt, SupAt, process, client, calls, boot, super
  <1>1. CASE BootStart \/ BootCall \/ BootCalled \/ MgrClose
    BY <1>1 DEF BootStart, StartOk, StartFails, BootCall, BootCalled, MgrClose, Main
  <1>2. CASE CloseStep
    BY <1>2 DEF CloseStep, CloseMark, CloseKill, CloseReaped, CloseFails,
                CloseJoins, Main
  <1>3. CASE SupTop \/ SupEval
    BY <1>3 DEF SupTop, SupEval, Selects
  <1>4. CASE SupSeesExit \/ SupStopped \/ SupBackoff \/ SupReset \/ SupStart
             \/ SupCall \/ SupCalled
    BY <1>4 DEF SupSeesExit, SupStopped, SupBackoff, SupReset, SupStart, StartOk,
                StartFails, SupCall, SupCalled
  <1>5. CASE \E c \in Callers : CallStep(c) \/ CallCancelled(c)
    BY <1>5 DEF CallStep, CallWrite, CallRefused, CallAborted, CallAnswered,
                CallCancelled
  <1>6. CASE \E c \in Users : UserCalls(c)
    BY <1>6 DEF UserCalls
  <1>7. ASSUME NEW p \in Procs, Deliver(p) PROVE ControlOK'
    <2>1. panicked' \in BOOLEAN
      <3>1. panicked' = (hold[p] \in shut)
        BY <1>7 DEF Deliver
      <3>2. (hold[p] \in shut) \in BOOLEAN
        OBVIOUS
      <3>3. QED
        BY <3>1, <3>2
    <2>2. UNCHANGED <<closed, stop, main, sup, selStop>>
      BY <1>7 DEF Deliver
    <2>3. QED
      BY <2>1, <2>2
  <1>8. ASSUME NEW p \in Procs,
               ProcExits(p) \/ Reap(p) \/ \E id \in Ids : ReadLine(p, id)
        PROVE  ControlOK'
    BY <1>8 DEF ProcExits, Reap, ReadLine
  <1>9. CASE UNCHANGED vars
    BY <1>9 DEF vars
  <1>10. QED
    BY <1>1, <1>2, <1>3, <1>4, <1>5, <1>6, <1>7, <1>8, <1>9 DEF Next, SupStep

LEMMA StepProcs == ProcInv /\ BudgetInv /\ ProcsOK /\ [Next]_vars => ProcsOK'
  <1> SUFFICES ASSUME ProcInv, BudgetInv, ProcsOK, [Next]_vars PROVE ProcsOK'
    OBVIOUS
  <1>1. procs \in Nat /\ conn \in Nat
    BY DEF ProcInv, NumberInv
  <1>2. \/ UNCHANGED <<procs, conn>>
        \/ procs' = procs + 1 /\ conn' = procs'
        \/ UNCHANGED procs /\ conn' = 0
    BY DEF Next, BootStart, BootCall, BootCalled, MgrClose, CloseStep, CloseMark,
           CloseKill, CloseReaped, CloseFails, CloseJoins, SupStep, SupTop,
           SupSeesExit, SupEval, SupStopped, SupBackoff, SupReset, SupStart,
           SupCall, SupCalled, StartOk, StartFails, CallStep, CallWrite,
           CallRefused, CallAborted, CallAnswered, CallCancelled, UserCalls,
           ProcExits, Reap, Deliver, ReadLine, process, client, vars
  <1>3. victim' \in {victim, conn, 0}
    BY DEF Next, BootStart, BootCall, BootCalled, MgrClose, CloseStep, CloseMark,
           CloseKill, CloseReaped, CloseFails, CloseJoins, SupStep, SupTop,
           SupSeesExit, SupEval, SupStopped, SupBackoff, SupReset, SupStart,
           SupCall, SupCalled, CallStep, CallWrite, CallRefused, CallAborted,
           CallAnswered, CallCancelled, UserCalls, ProcExits, Reap, Deliver,
           ReadLine, Main, boot, vars
  <1>4. QED
    BY <1>1, <1>2, <1>3 DEF ProcsOK

\* The id of a new request is one of Ids.
LEMMA NextId ==
    ASSUME BudgetInv', IdInv, NEW c, CallBegin(c)
    PROVE  ids + 1 \in Ids
  <1>1. ids' = ids + 1 /\ ids \in Nat
    BY DEF CallBegin, IdInv
  <1>2. /\ procs' \in Nat /\ procs' <= MaxProcs
        /\ ids' + Owed(sup') + 1 <= MaxCalls + BootCalls(main') + procs'
    BY <1>1, Bounds DEF BudgetInv
  <1>3. Owed(sup') \in Nat /\ BootCalls(main') \in 0 .. 2
    BY DEF Owed, BootCalls
  <1>4. ids + 1 <= MaxCalls + MaxProcs + 1
    BY <1>1, <1>2, <1>3, Bounds
  <1>5. QED
    BY <1>1, <1>4, Bounds DEF Ids

LEMMA IdsBegin ==
    ASSUME BudgetInv', IdInv, IdsOK, NEW c \in Callers, CallBegin(c),
           UNCHANGED <<asked, hold>>
    PROVE  IdsOK'
  <1>1. ids + 1 \in Ids
    BY NextId
  <1>2. /\ at' = [at EXCEPT ![c] = "write"]
        /\ req' = [req EXCEPT ![c] = [NoReq EXCEPT !.id = ids + 1]]
        /\ pend' = pend \cup {ids + 1} /\ UNCHANGED <<shut, inbox>>
    BY DEF CallBegin
  <1>3. [NoReq EXCEPT !.id = ids + 1].id = ids + 1
        /\ [NoReq EXCEPT !.id = ids + 1].conn = 0
    BY DEF NoReq
  <1>4. QED
    BY <1>1, <1>2, <1>3 DEF IdInv, IdsOK

LEMMA IdsEnd ==
    ASSUME IdInv, IdsOK, NEW c \in Callers, NEW ok \in BOOLEAN, CallEnds(c, ok),
           UNCHANGED <<asked, hold>>
    PROVE  IdsOK'
  <1>1. /\ at' = [at EXCEPT ![c] = "out"]
        /\ req' = [req EXCEPT ![c] = [NoReq EXCEPT !.ok = ok]]
        /\ pend' \subseteq pend /\ inbox' \subseteq inbox /\ UNCHANGED shut
    BY DEF CallEnds
  <1>2. [NoReq EXCEPT !.ok = ok].id = 0 /\ [NoReq EXCEPT !.ok = ok].conn = 0
    BY DEF NoReq
  <1>3. QED
    BY <1>1, <1>2 DEF IdInv, IdsOK

LEMMA IdsFrame ==
    ASSUME IdsOK, UNCHANGED <<asked, hold, at, req>>,
           pend' \subseteq pend, shut' \subseteq shut \cup pend, inbox' \subseteq inbox
    PROVE  IdsOK'
  BY DEF IdsOK

LEMMA StepIds ==
    ASSUME ProcInv, ProcsOK, IdInv, BudgetInv, BudgetInv', IdsOK, [Next]_vars
    PROVE  IdsOK'
  <1> USE DEF wire, calls
  <1>1. CASE BootCall
    BY <1>1, IdsBegin DEF BootCall, Callers
  <1>2. CASE SupCall
    BY <1>2, IdsBegin DEF SupCall, Callers
  <1>3. CASE \E c \in Users : UserCalls(c)
    BY <1>3, IdsBegin DEF UserCalls, Callers
  <1>4. ASSUME NEW c \in Callers, CallWrite(c) PROVE IdsOK'
    <2>1. /\ at' = [at EXCEPT ![c] = "wait"] /\ at[c] # "out"
          /\ req' = [req EXCEPT ![c] = [@ EXCEPT !.conn = conn]]
          /\ UNCHANGED <<hold, pend, shut, inbox>>
      BY <1>4 DEF CallWrite
    <2>2. conn \in Procs
      <3>1. conn \in Nat /\ conn # 0 /\ conn <= procs /\ procs \in Nat /\ procs <= MaxProcs
        BY <1>4, Bounds DEF CallWrite, ProcInv, NumberInv, ProcsOK, BudgetInv
      <3>2. QED
        BY <3>1, Bounds DEF Procs
    <2>3. asked' \in [Procs -> SUBSET Ids]
      <3>1. req[c].id \in Ids
        BY <2>1 DEF IdsOK
      <3>2. QED
        BY <1>4, <2>2, <3>1 DEF CallWrite, IdsOK
    <2>4. \A d \in Callers : /\ req'[d].id = req[d].id
                              /\ at'[d] # "out" => at[d] # "out"
                              /\ req'[d].conn \in {req[d].conn, conn}
      BY <2>1 DEF IdInv
    <2>5. QED
      BY <2>1, <2>2, <2>3, <2>4 DEF IdsOK
  <1>5. ASSUME NEW c \in Callers,
               CallRefused(c) \/ CallAborted(c) \/ CallAnswered(c) \/ CallCancelled(c)
        PROVE  IdsOK'
    BY <1>5, IdsEnd DEF CallRefused, CallAborted, CallAnswered, CallCancelled
  <1>6. ASSUME NEW p \in Procs, Deliver(p) PROVE IdsOK'
    BY <1>6 DEF Deliver, IdsOK
  <1>7. ASSUME NEW p \in Procs, NEW id \in Ids, ReadLine(p, id) PROVE IdsOK'
    BY <1>7 DEF ReadLine, IdsOK
  <1>8. CASE BootStart \/ BootCalled \/ MgrClose \/ CloseStep
    BY <1>8, IdsFrame DEF BootStart, BootCalled, MgrClose, CloseStep, CloseMark,
                          CloseKill, CloseReaped, CloseFails, CloseJoins
  <1>9. CASE SupTop \/ SupSeesExit \/ SupEval \/ SupStopped \/ SupBackoff
             \/ SupReset \/ SupStart \/ SupCalled
    BY <1>9, IdsFrame DEF SupTop, SupSeesExit, SupEval, SupStopped, SupBackoff,
                          SupReset, SupStart, SupCalled
  <1>10. ASSUME NEW p \in Procs, ProcExits(p) \/ Reap(p) PROVE IdsOK'
    BY <1>10, IdsFrame DEF ProcExits, Reap
  <1>11. CASE UNCHANGED vars
    BY <1>11, IdsFrame DEF vars
  <1>12. QED
    BY <1>1, <1>2, <1>3, <1>4, <1>5, <1>6, <1>7, <1>8, <1>9, <1>10, <1>11
       DEF Next, CallStep, SupStep

LEMMA InitTypes == Init => ControlOK /\ ProcsOK /\ IdsOK /\ BudgetInv
  <1> SUFFICES ASSUME Init PROVE ControlOK /\ ProcsOK /\ IdsOK /\ BudgetInv
    OBVIOUS
  <1>1. ControlOK
    BY DEF Init, ControlOK, MainAt, SupAt
  <1>2. ProcsOK /\ BudgetInv
    BY Bounds DEF Init, ProcsOK, BudgetInv, Booting
  <1>3. IdsOK
    BY DEF Init, IdsOK, NoReq
  <1>4. QED
    BY <1>1, <1>2, <1>3

\* Every variable stays in its range; above all, no run comes to the end of
\* Ids: the numbers that TLC and the wire can carry are as many as the calls of
\* the users, of Boot and of the restarts that the bounds admit.
THEOREM McpTypeHolds == Spec => []TypeOK
  <1>1. Init => IdInv /\ PendInv
    BY DEF Init, IdInv, PendInv, Active, NoReq
  <1> DEFINE Types == ControlOK /\ ProcsOK /\ IdsOK /\ BudgetInv
             Base  == ProcInv /\ IdInv /\ PendInv
  <1>2. Base /\ Types /\ [Next]_vars => Base' /\ Types'
    BY StepProc, StepPend, StepControl, StepProcs, StepBudget, StepIds
  <1>3. Base /\ Types => TypeOK
    <2> SUFFICES ASSUME Base, Types PROVE TypeOK
      OBVIOUS
    <2>1. /\ procs \in Nat /\ procs <= MaxProcs
          /\ conn \in Nat /\ conn <= procs /\ victim \in Nat /\ victim <= procs
          /\ \A p \in alive \cup reaped : p \in Nat /\ 0 < p /\ p <= procs
      BY Bounds DEF ProcInv, NumberInv, BudgetInv, ProcsOK
    <2>2. /\ procs \in 0 .. MaxProcs /\ conn \in 0 .. procs /\ victim \in 0 .. procs
          /\ alive \subseteq 1 .. procs /\ reaped \subseteq 1 .. procs
      BY <2>1, Bounds
    <2>3. req \in [Callers -> [id : Ids \cup {0}, conn : Procs \cup {0}, ok : BOOLEAN]]
      BY DEF IdInv, IdsOK
    <2>4. QED
      BY <2>2, <2>3 DEF TypeOK, ControlOK, IdsOK, IdInv
  <1>4. QED
    BY <1>1, <1>2, <1>3, InitProc, InitTypes, PTL DEF Spec
=============================================================================
