----------------------------- MODULE MCDispatch -----------------------------
(* Instances of Dispatch for TLC.                                       *)
EXTENDS Dispatch, TLC

CONSTANTS check, audit, t1, t2, hourly, daily

MCTasks   == {check, audit}
OneTask   == {check}
ThreadSym == Permutations(Threads)

On(c)       == [cron |-> c, enabled |-> TRUE]
\* audit comes from agent_set_task only.
CheckConfig == check :> On(hourly)

Off       == [cron |-> NoCron, enabled |-> FALSE]
\* SetTask refuses On(NoCron).
GoodRows  == {On(hourly), On(daily), On(NoCron), Off}
AllRows   == GoodRows \cup {On(BadCron)}
\* An edit that moves the job, one that is rejected half way, one that stops it.
EditKinds == {On(daily), On(BadCron), Off}
=============================================================================
