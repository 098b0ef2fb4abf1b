------------------------------- MODULE MCBoot -------------------------------
(* Instances of Boot for TLC.                                              *)
EXTENDS Boot

\* A verify_prompt matters to the agent mode only.
Bootstraps == [mode : Modes, verify : {FALSE}]
                \cup [mode : {"agent"}, verify : {TRUE}]

Deploy(b, env, outbound, integrated, port) ==
    [mode |-> b.mode, verify |-> b.verify, env |-> env, outbound |-> outbound,
     integrated |-> integrated, port |-> port]

\* Every bootstrap with both kinds of token, and with each of the other three
\* switches thrown in turn.
AllSetups ==
    UNION {{Deploy(b, FALSE, FALSE, TRUE, "declared"),
            Deploy(b, TRUE, FALSE, TRUE, "declared"),
            Deploy(b, TRUE, TRUE, TRUE, "declared"),
            Deploy(b, TRUE, FALSE, FALSE, "declared"),
            Deploy(b, TRUE, FALSE, TRUE, "scan"),
            Deploy(b, TRUE, FALSE, TRUE, "invalid")} : b \in Bootstraps}

Agents == {Deploy([mode |-> m, verify |-> FALSE], TRUE, FALSE, TRUE, "declared") :
             m \in {"agent", "cheatsheet"}}
=============================================================================
