----------------------------- MODULE MCScheduler -----------------------------
(* Values of Scheduler's constants for TLC.                                 *)
EXTENDS Scheduler

CONSTANTS s1, s2

MCInterval == [s \in Schedules |-> IF s = s1 THEN 1 ELSE 2]
=============================================================================
