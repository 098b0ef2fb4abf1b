----------------------------- MODULE RunLedger ------------------------------
(***************************************************************************)
(* What Runner.Run promises the readers of the task_runs table, and no     *)
(* more: runs of one task follow one another, a row is opened 'running'    *)
(* and closed once, and a run can be abandoned (its process died, or       *)
(* FinishRun failed), in which case its row says 'running' for good.       *)
(***************************************************************************)
EXTENDS Naturals, Sequences

CONSTANTS Tasks, Triggers, Statuses   \* names; triggers; terminal statuses

VARIABLES
    rows,   \* the ledger: a sequence of [task, trigger, status]
    live    \* the row each task is running under, 0 if it is not running

lvars == <<rows, live>>

LedgerInit == rows = <<>> /\ live = [n \in Tasks |-> 0]

Begin(n, k) ==
    /\ live[n] = 0
    /\ rows' = Append(rows, [task |-> n, trigger |-> k, status |-> "running"])
    /\ live' = [live EXCEPT ![n] = Len(rows) + 1]

End(n, s) ==
    /\ live[n] # 0
    /\ rows' = [rows EXCEPT ![live[n]].status = s]
    /\ live' = [live EXCEPT ![n] = 0]

Abandon(gone) ==
    /\ live' = [n \in Tasks |-> IF n \in gone THEN 0 ELSE live[n]]
    /\ UNCHANGED rows

LedgerNext ==
    \/ \E n \in Tasks, k \in Triggers : Begin(n, k)
    \/ \E n \in Tasks, s \in Statuses : End(n, s)
    \/ \E gone \in SUBSET Tasks : Abandon(gone)

LedgerSpec == LedgerInit /\ [][LedgerNext]_lvars
=============================================================================
