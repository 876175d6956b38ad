--------------------------- MODULE MCJobLifecycle ---------------------------
(* Values of JobLifecycle's constants for TLC.                              *)
EXTENDS JobLifecycle, TLC

CONSTANTS j1, j2, w1, w2

\* j1: two runs, a budget and a webhook. j2: one run, no extras.
MCRuns == [j \in Jobs |-> IF j = j1 THEN 2 ELSE 1]

WorkerSymmetry == Permutations(Workers)
=============================================================================
