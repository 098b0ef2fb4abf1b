---------------------------- MODULE MCMcpClient ----------------------------
(* Instances of McpClient for TLC.                                         *)
EXTENDS McpClient, TLC

UserSym == Permutations(Users)
=============================================================================
