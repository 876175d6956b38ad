SPECIFICATION FairSpec
CONSTANTS
  s1 = s1
  s2 = s2
  Schedules = {s1, s2}
  Interval <- MCInterval
  BatchSize = 1
  Flaky = {s1}
  NoSchedule = NoSchedule
  MaxLag = 1
  MaxPass = 1
INVARIANTS
  TypeOK
  NoPileUp
  OffMeansOff
PROPERTIES
  SubmissionsAreSpaced
  EnabledSchedulesGoOn
