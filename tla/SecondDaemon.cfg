SPECIFICATION Spec
CONSTANTS
  d1 = d1
  d2 = d2
  t1 = t1
  j1 = j1
  j2 = j2
  Procs = {d1, d2, t1}
  Daemons = {d1, d2}
  Knows <- MCKnows
  NoProc = NoProc
  Jobs = {j1, j2}
  Overlap = TRUE
  MaxCrashes = 2
PROPERTIES
  RecoveryTakesOnlyInterrupted
