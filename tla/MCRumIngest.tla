----------------------------- MODULE MCRumIngest -----------------------------
(* Values of RumIngest's constants for TLC.                                 *)
EXTENDS RumIngest

CONSTANTS h1, h2, shop, other
=============================================================================
