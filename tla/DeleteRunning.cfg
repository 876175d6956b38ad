SPECIFICATION Spec
CONSTANTS
  j1 = j1
  j2 = j2
  w1 = w1
  w2 = w2
  Jobs = {j1}
  Workers = {w1, w2}
  QueueDepth = 1
  Runs <- MCRuns
  Budgeted = {j1}
  Hooked = {j1}
  Scheduled = {}
  Flaky = {}
  NoJob = NoJob
  NoPayload = NoPayload
PROPERTIES
  RunningRowIsNotDeleted
