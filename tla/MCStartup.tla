------------------------------ MODULE MCStartup ------------------------------
(* Values of Startup's constants for TLC.                                   *)
EXTENDS Startup

CONSTANTS d1, d2, t1, j1, j2

\* d2 is the daemon after an upgrade, t1 a tool older than both.
MCKnows == [p \in Procs |-> CASE p = d2 -> 7 [] p = d1 -> 6 [] p = t1 -> 4]
=============================================================================
