SPECIFICATION FairSpec
CONSTANTS
  j1 = j1
  j2 = j2
  w1 = w1
  w2 = w2
  Jobs = {j1, j2}
  Workers = {w1}
  QueueDepth = 1
  Runs <- MCRuns
  Budgeted = {j1}
  Hooked = {j1}
  Scheduled = {j2}
  Flaky = {}
  NoJob = NoJob
  NoPayload = NoPayload
INVARIANTS
  IndInv
PROPERTIES
  AcceptedJobsSettle
  StopReturns
