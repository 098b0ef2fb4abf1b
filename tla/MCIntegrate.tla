---------------------------- MODULE MCIntegrate ----------------------------
(* Instances of Integrate for TLC.                                         *)
EXTENDS Integrate, TLC

CONSTANTS tool1, tool2, cli, daemon, shell, n1, n2, k1, k2

\* Two MCP tool calls in the daemon and a command of the CLI; and, on a file
\* system without locks, the three in one process.
TwoProcesses == [flock |-> TRUE,
                 host |-> tool1 :> daemon @@ tool2 :> daemon @@ cli :> shell]
OneProcess   == [flock |-> FALSE, host |-> [c \in {tool1, tool2, cli} |-> daemon]]
Both         == {TwoProcesses, OneProcess}

Add(n, k, t) == [kind |-> "add", name |-> n, key |-> k, token |-> t]
Own          == {Add(n1, k1, TRUE), Add(n2, k2, TRUE), Add(n2, k1, FALSE)}
=============================================================================
