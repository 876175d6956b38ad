---------------------------- MODULE MCRetention ----------------------------
(* Values of Retention's and CliRun's constants for TLC.                    *)
EXTENDS Retention

CONSTANTS j1, e1, t1
=============================================================================
