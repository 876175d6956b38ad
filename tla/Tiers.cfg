SPECIFICATION FairSpec
CONSTANTS
  j1 = j1
  j2 = j2
  w1 = w1
  w2 = w2
  Jobs = {j1, j2}
  Workers = {w1, w2}
  Requests <- MCRequests
  MaxRuns = 2
  NoJob = NoJob
  Labels <- Final
  Buckets = 2
  Nothing = Nothing
INVARIANTS
  StatusIsWhatTheTiersDid
  NoTabIsLeaked
  ScrapesAgree
PROPERTIES
  WorkersComeBack
CHECK_DEADLOCK FALSE
