----------------------------- MODULE McpClient -----------------------------
(***************************************************************************)
(* One outbound stdio integration (internal/mcpclient): the stdioClient    *)
(* with its subprocess, reader and reaper goroutines, the Manager that     *)
(* boots and closes it, the supervisor that restarts it, and the tool      *)
(* calls that go through it.                                               *)
(*                                                                         *)
(* Processes are numbered in the order they are started.  stdioClient's    *)
(* cmd, writer and doneCh are assigned together and reset together, so one *)
(* variable, conn, stands for the three: 0 for nil, or the process.        *)
(***************************************************************************)
EXTENDS Naturals, FiniteSets

CONSTANTS
    Users,     \* goroutines that call a tool of the integration
    MaxProcs,  \* bound: subprocesses ever started
    MaxCalls   \* bound: a tool call begins only below this many requests

ASSUME McpAssumption ==
    /\ MaxProcs \in Nat \ {0} /\ MaxCalls \in Nat
    /\ "main" \notin Users /\ "sup" \notin Users

Procs   == 1 .. MaxProcs
\* Boot makes two more requests, each restart one.
Ids     == 1 .. MaxCalls + MaxProcs + 1
\* Boot and the supervisor make calls too, under context.Background().
Callers == Users \cup {"main", "sup"}

VARIABLES
    procs,     \* how many subprocesses were started
    alive,     \* those still running
    reaped,    \* those whose doneCh is closed
    asked,     \* requests a process was sent and has not answered
    hold,      \* the response its readLoop is about to deliver, 0 for none
    conn, closed,        \* stdioClient
    ids,       \* idGen
    pend,      \* pend.m: ids with a registered channel
    shut,      \* ids whose channel Close has closed
    inbox,     \* ids whose channel holds its response
    at,        \* where each caller is inside call: "out", "write", "wait"
    req,       \* the id and the process each caller waits for
    stop,      \* Manager.stop was closed and set to nil
    main,      \* daemon.Run's goroutine: Boot, then Close
    victim,    \* the process Close has picked up, 0 for none
    sup,       \* superviseStdio
    selStop,   \* its select has a stop channel, not nil
    panicked   \* the process died of a send on a closed channel

process == <<procs, alive, reaped>>
client  == <<conn, closed>>
wire    == <<asked, hold>>
calls   == <<ids, pend, shut, inbox, at, req>>
boot    == <<stop, main, victim>>
super   == <<sup, selStop>>
vars    == <<process, client, wire, calls, boot, super, panicked>>

NoReq == [id |-> 0, conn |-> 0, ok |-> FALSE]

MainAt == {"start", "init", "initing", "list", "listing", "up",
           "close", "wait", "fail", "join", "end"}
SupAt  == {"off", "top", "watch", "eval", "backoff", "reset", "start", "init",
           "initing", "gone"}

-----------------------------------------------------------------------------
Init ==
    /\ procs = 0 /\ alive = {} /\ reaped = {}
    /\ asked = [p \in Procs |-> {}] /\ hold = [p \in Procs |-> 0]
    /\ conn = 0 /\ closed = FALSE
    /\ ids = 0 /\ pend = {} /\ shut = {} /\ inbox = {}
    /\ at = [c \in Callers |-> "out"] /\ req = [c \in Callers |-> NoReq]
    /\ stop = FALSE /\ main = "start" /\ victim = 0
    /\ sup = "off" /\ selStop = FALSE
    /\ panicked = FALSE

-----------------------------------------------------------------------------
(* Start, under stdioClient.mu                                             *)

\* Mutant: Start does not look at closed.
StartOkUnchecked ==
    /\ conn = 0 /\ procs < MaxProcs
    /\ procs' = procs + 1 /\ alive' = alive \cup {procs'}
    /\ conn' = procs'
    /\ UNCHANGED <<reaped, closed>>

StartOk ==
    /\ ~closed /\ conn = 0 /\ procs < MaxProcs
    /\ procs' = procs + 1 /\ alive' = alive \cup {procs'}
    /\ conn' = procs'
    /\ UNCHANGED <<reaped, closed>>

\* The client is closed, a pipe or the exec fails.
StartFails ==
    /\ closed \/ conn = 0
    /\ UNCHANGED <<process, client>>

-----------------------------------------------------------------------------
(* call                                                                    *)

CallBegin(c) ==
    /\ at[c] = "out"
    /\ ids' = ids + 1 /\ pend' = pend \cup {ids'}
    /\ at' = [at EXCEPT ![c] = "write"]
    /\ req' = [req EXCEPT ![c] = [NoReq EXCEPT !.id = ids']]
    /\ UNCHANGED <<shut, inbox>>

\* Mutant: only an answered call unregisters its channel.
CallEndsLeaky(c, ok) ==
    /\ at' = [at EXCEPT ![c] = "out"]
    /\ req' = [req EXCEPT ![c] = [NoReq EXCEPT !.ok = ok]]
    /\ pend' = IF ok THEN pend \ {req[c].id} ELSE pend
    /\ inbox' = inbox \ {req[c].id}
    /\ UNCHANGED <<ids, shut>>

\* The deferred delete, on every return path.
CallEnds(c, ok) ==
    /\ at' = [at EXCEPT ![c] = "out"]
    /\ req' = [req EXCEPT ![c] = [NoReq EXCEPT !.ok = ok]]
    /\ pend' = pend \ {req[c].id}
    /\ inbox' = inbox \ {req[c].id}
    /\ UNCHANGED <<ids, shut>>

\* A scheduled run's driver calls one of the integration's tools.
UserCalls(c) ==
    /\ sup # "off" /\ main # "end" /\ ids < MaxCalls
    /\ CallBegin(c)
    /\ UNCHANGED <<process, client, wire, boot, super, panicked>>

\* writer, doneCh and closed are read together; a dead process still has a pipe
\* that may swallow the request.
CallWrite(c) ==
    /\ at[c] = "write" /\ ~closed /\ conn # 0
    /\ at' = [at EXCEPT ![c] = "wait"]
    /\ req' = [req EXCEPT ![c].conn = conn]
    /\ asked' = IF conn \in alive
                THEN [asked EXCEPT ![conn] = @ \cup {req[c].id}] ELSE asked
    /\ UNCHANGED <<process, client, hold, ids, pend, shut, inbox, boot, super,
                   panicked>>

\* Closed, not started, or the write fails.
CallRefused(c) ==
    /\ at[c] = "write" /\ (closed \/ conn = 0 \/ conn \notin alive)
    /\ CallEnds(c, FALSE)
    /\ UNCHANGED <<process, client, wire, boot, super, panicked>>

\* Mutant: only Close's closing of the channel tells a caller.
CallAbortedLate(c) ==
    /\ at[c] = "wait" /\ req[c].id \in shut \ inbox
    /\ CallEnds(c, FALSE)
    /\ UNCHANGED <<process, client, wire, boot, super, panicked>>

\* The subprocess exited mid-call, or Close closed the channel.
CallAborted(c) ==
    /\ at[c] = "wait"
    /\ req[c].conn \in reaped \/ req[c].id \in shut \ inbox
    /\ CallEnds(c, FALSE)
    /\ UNCHANGED <<process, client, wire, boot, super, panicked>>

\* The run is cancelled or times out.  Boot and the supervisor have no deadline.
CallCancelled(c) ==
    /\ c \in Users /\ at[c] = "wait"
    /\ CallEnds(c, FALSE)
    /\ UNCHANGED <<process, client, wire, boot, super, panicked>>

\* The response arrived: a result or a JSON-RPC error.
CallAnswered(c) ==
    /\ at[c] = "wait" /\ req[c].id \in inbox
    /\ \E ok \in BOOLEAN : CallEnds(c, ok)
    /\ UNCHANGED <<process, client, wire, boot, super, panicked>>

-----------------------------------------------------------------------------
(* The subprocess and its two goroutines                                   *)

\* It exits by itself; nothing obliges it to answer or to stay.
ProcExits(p) ==
    /\ p \in alive
    /\ alive' = alive \ {p}
    /\ UNCHANGED <<procs, reaped, client, wire, calls, boot, super, panicked>>

\* cmd.Wait returns: doneCh is closed.
Reap(p) ==
    /\ p <= procs /\ p \notin alive \cup reaped
    /\ reaped' = reaped \cup {p}
    /\ UNCHANGED <<procs, alive, client, wire, calls, boot, super, panicked>>

\* readLoop scans the answer to one request (written before p exited, if p has
\* exited) and looks its channel up.
ReadLine(p, id) ==
    /\ hold[p] = 0 /\ id \in asked[p]
    /\ asked' = [asked EXCEPT ![p] = @ \ {id}]
    /\ hold' = [hold EXCEPT ![p] = IF id \in pend THEN id ELSE 0]
    /\ UNCHANGED <<process, client, calls, boot, super, panicked>>

\* It sends without the lock: the caller may have left, Close may have closed
\* the channel, and then the send panics.
Deliver(p) ==
    /\ hold[p] # 0
    /\ hold' = [hold EXCEPT ![p] = 0]
    /\ panicked' = (hold[p] \in shut)
    /\ inbox' = IF hold[p] \in pend THEN inbox \cup {hold[p]} ELSE inbox
    /\ UNCHANGED <<process, client, asked, ids, pend, shut, at, req, boot, super>>

-----------------------------------------------------------------------------
(* Boot and Close                                                          *)

Main(l) == main' = l /\ UNCHANGED <<stop, victim>>

\* A client that does not start is skipped.
BootStart ==
    /\ main = "start"
    /\ \/ StartOk /\ Main("init")
       \/ StartFails /\ Main("up")
    /\ UNCHANGED <<wire, calls, super, panicked>>

\* Initialize, then ListTools: one call each.
BootCall ==
    /\ \/ main = "init" /\ Main("initing")
       \/ main = "list" /\ Main("listing")
    /\ CallBegin("main")
    /\ UNCHANGED <<process, client, wire, super, panicked>>

\* A failed call closes the client; after the second the supervisor starts.
BootCalled ==
    /\ main \in {"initing", "listing"} /\ at["main"] = "out"
    /\ Main(IF ~req["main"].ok THEN "close" ELSE IF main = "initing" THEN "list" ELSE "up")
    /\ sup' = IF req["main"].ok /\ main = "listing" THEN "top" ELSE sup
    /\ UNCHANGED <<process, client, wire, calls, selStop, panicked>>

\* Manager.Close: stop is closed and set to nil, then the client, if Boot kept
\* it, is closed.
MgrClose ==
    /\ main = "up"
    /\ main' = IF sup = "off" THEN "join" ELSE "close"
    /\ stop' = TRUE
    /\ UNCHANGED <<process, client, wire, calls, victim, super, panicked>>

\* stdioClient.Close, under mu; then it closes the child's stdin.
CloseMark ==
    /\ main = "close"
    /\ main' = "wait" /\ closed' = TRUE /\ victim' = conn
    /\ UNCHANGED <<process, conn, wire, calls, stop, super, panicked>>

\* Two seconds later it kills.
CloseKill ==
    /\ main = "wait" /\ victim \in alive
    /\ alive' = alive \ {victim}
    /\ UNCHANGED <<procs, reaped, client, wire, calls, boot, super, panicked>>

\* Mutant: Close waits on the client's doneCh of the moment.
CloseReapedCurrent ==
    /\ main = "wait" /\ conn \in reaped
    /\ Main("fail")
    /\ UNCHANGED <<process, client, wire, calls, super, panicked>>

\* It waits for the process it picked up, whatever the supervisor does meanwhile.
CloseReaped ==
    /\ main = "wait" /\ victim \in reaped \cup {0}
    /\ Main("fail")
    /\ UNCHANGED <<process, client, wire, calls, super, panicked>>

\* The channels of calls in flight are closed.  Boot goes on, Manager.Close joins.
CloseFails ==
    /\ main = "fail"
    /\ shut' = shut \cup pend /\ pend' = {}
    /\ main' = (IF stop THEN "join" ELSE "up") /\ victim' = 0
    /\ UNCHANGED <<process, client, wire, ids, inbox, at, req, stop, super, panicked>>

\* wg.Wait.
CloseJoins ==
    /\ main = "join" /\ sup \in {"off", "gone"}
    /\ Main("end")
    /\ UNCHANGED <<process, client, wire, calls, super, panicked>>

-----------------------------------------------------------------------------
(* superviseStdio                                                          *)

\* A select evaluates m.stop, which Close sets to nil without a lock the
\* supervisor takes: from then on it may see the closed channel or nil.
Selects == selStop' \in (IF stop THEN BOOLEAN ELSE {TRUE})

SupTop ==
    /\ sup = "top" /\ sup' = "watch" /\ Selects
    /\ UNCHANGED <<process, client, wire, calls, boot, panicked>>

\* Done() fires.
SupSeesExit ==
    /\ sup = "watch" /\ conn \in reaped
    /\ sup' = IF closed THEN "gone" ELSE "eval"
    /\ UNCHANGED <<process, client, wire, calls, boot, selStop, panicked>>

SupEval ==
    /\ sup = "eval" /\ sup' = "backoff" /\ Selects
    /\ UNCHANGED <<process, client, wire, calls, boot, panicked>>

SupStopped ==
    /\ sup \in {"watch", "backoff"} /\ selStop /\ stop
    /\ sup' = "gone"
    /\ UNCHANGED <<process, client, wire, calls, boot, selStop, panicked>>

SupBackoff ==
    /\ sup = "backoff" /\ sup' = "reset"
    /\ UNCHANGED <<process, client, wire, calls, boot, selStop, panicked>>

SupReset ==
    /\ sup = "reset" /\ sup' = "start" /\ conn' = 0
    /\ UNCHANGED <<process, closed, wire, calls, boot, selStop, panicked>>

SupStart ==
    /\ sup = "start"
    /\ \/ StartOk /\ sup' = "init"
       \/ StartFails /\ sup' = "top"
    /\ UNCHANGED <<wire, calls, boot, selStop, panicked>>

SupCall ==
    /\ sup = "init" /\ sup' = "initing"
    /\ CallBegin("sup")
    /\ UNCHANGED <<process, client, wire, boot, selStop, panicked>>

\* Mutant: a failed handshake is taken for a crash.
SupCalledRestarts ==
    /\ sup = "initing" /\ at["sup"] = "out"
    /\ sup' = IF req["sup"].ok THEN "top" ELSE "eval"
    /\ UNCHANGED <<process, client, wire, calls, boot, selStop, panicked>>

\* Whether Initialize worked only changes the next backoff.
SupCalled ==
    /\ sup = "initing" /\ at["sup"] = "out"
    /\ sup' = "top"
    /\ UNCHANGED <<process, client, wire, calls, boot, selStop, panicked>>

-----------------------------------------------------------------------------
CallStep(c) ==
    CallWrite(c) \/ CallRefused(c) \/ CallAborted(c) \/ CallAnswered(c)

CloseStep == CloseMark \/ CloseKill \/ CloseReaped \/ CloseFails \/ CloseJoins

SupStep ==
    SupTop \/ SupSeesExit \/ SupEval \/ SupStopped \/ SupBackoff \/ SupReset
    \/ SupStart \/ SupCall \/ SupCalled

Next ==
    /\ ~panicked
    /\ \/ BootStart \/ BootCall \/ BootCalled \/ MgrClose
       \/ CloseStep \/ SupStep
       \/ \E c \in Callers : CallStep(c) \/ CallCancelled(c)
       \/ \E c \in Users : UserCalls(c)
       \/ \E p \in Procs : ProcExits(p) \/ Reap(p) \/ Deliver(p)
                           \/ \E id \in Ids : ReadLine(p, id)

Spec == Init /\ [][Next]_vars

\* Goroutines run, a dead process is reaped, Close's 2 seconds and the backoff
\* pass.  Nothing obliges a server to answer or to exit, a user's context to be
\* cancelled, or the daemon to close.
Fairness ==
    /\ \A c \in Callers : WF_vars(~panicked /\ CallStep(c))
    /\ \A p \in Procs : WF_vars(~panicked /\ Reap(p)) /\ WF_vars(~panicked /\ Deliver(p))
    /\ WF_vars(~panicked /\ (BootStart \/ BootCall \/ BootCalled))
    /\ WF_vars(~panicked /\ CloseStep) /\ WF_vars(~panicked /\ SupStep)

FairSpec == Spec /\ Fairness

-----------------------------------------------------------------------------
(* Properties                                                              *)

TypeOK ==
    /\ procs \in 0 .. MaxProcs /\ alive \subseteq 1 .. procs /\ reaped \subseteq 1 .. procs
    /\ asked \in [Procs -> SUBSET Ids] /\ hold \in [Procs -> Ids \cup {0}]
    /\ conn \in 0 .. procs /\ closed \in BOOLEAN
    /\ ids \in Nat /\ pend \subseteq Ids /\ shut \subseteq Ids /\ inbox \subseteq Ids
    /\ at \in [Callers -> {"out", "write", "wait"}]
    /\ req \in [Callers -> [id : Ids \cup {0}, conn : Procs \cup {0}, ok : BOOLEAN]]
    /\ stop \in BOOLEAN /\ main \in MainAt /\ victim \in 0 .. procs
    /\ sup \in SupAt /\ selStop \in BOOLEAN /\ panicked \in BOOLEAN

\* The integration never runs twice: a restart begins only after the process
\* before it was reaped, and every process is the one the client talks to.
OneProcess == alive \subseteq {conn}

\* Once stdioClient.Close has returned no subprocess is left running, also when
\* a restart was under way.
NoOrphan == closed /\ main # "wait" => alive = {}

\* pend.m holds the channel of every call in progress, until Close takes it,
\* and no other: no path out of call leaks an entry.
PendExact == pend = {req[c].id : c \in {d \in Callers : at[d] # "out"}} \ shut

\* A call whose subprocess is gone returns, whoever made it and however the
\* process went, without waiting for the caller's context (call "returns when
\* ... the subprocess exits").
CallsReturn ==
    \A c \in Callers :
        at[c] # "out" /\ (closed \/ req[c].conn \in reaped) ~> at[c] = "out" \/ panicked

\* stdioClient.Close ends, whatever the server does with EOF.
CloseReturns == main = "close" ~> main \in {"up", "join"} \/ panicked

\* A restart that fails is tried again after a longer backoff (an exited
\* subprocess "is restarted with exponential backoff").
RestartRetried ==
    sup = "top" /\ conn = 0 ~> sup = "start" \/ main # "up"
=============================================================================
