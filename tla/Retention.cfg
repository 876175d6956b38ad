SPECIFICATION FairSpec
CONSTANTS
  j1 = j1
  e1 = e1
  t1 = t1
  Jobs = {j1}
  Events = {e1}
  Keep = 1
  MaxPass = 1
  MaxSend = 1
  Runs = 2
  Tiers = {t1}
  HasBudget = TRUE
  HasStore = TRUE
INVARIANTS
  NothingLeftBehind
  ExitTellsTheTruth
  StoredVerdictIsTheGate
PROPERTIES
  NothingYoungIsTaken
  OldOnesGo
