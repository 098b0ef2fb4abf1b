------------------------------ MODULE MCProxy -------------------------------
(* An instance of Proxy for TLC.                                           *)
EXTENDS Proxy

\* An empty mode is shared; a dedicated host is not served here.
MCModes == {"", "dedicated"}
=============================================================================
