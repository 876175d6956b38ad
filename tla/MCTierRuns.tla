----------------------------- MODULE MCTierRuns -----------------------------
(* Values of TierRuns' constants for TLC.                                   *)
EXTENDS TierRuns

CONSTANTS j1, j2, w1, w2

Request(tiers, runs, sound) == [tiers |-> tiers, runs |-> runs, sound |-> sound]

\* j1: no tier and no number of runs; a browser tier, named twice, in two runs;
\* every tier; a name with a typo; too many runs; a request that fails another
\* check. j2: a browser tier.
MCRequests ==
  [j \in Jobs |->
     IF j = j2 THEN {Request(<<"browser">>, 1, TRUE)}
     ELSE {Request(<<>>, 0, TRUE),
           Request(<<"vitals", "vitals">>, 2, TRUE),
           Request(<<"all">>, 1, TRUE),
           Request(<<"Network">>, 1, TRUE),
           Request(<<"network">>, MaxRuns + 1, TRUE),
           Request(<<"browser">>, 1, FALSE)}]
=============================================================================
