---------------------------- MODULE MCBudgetGate ----------------------------
(* Values of BudgetGate's constants for TLC.                                *)
EXTENDS BudgetGate

CONSTANTS ttfb, lcp, bogus
=============================================================================
