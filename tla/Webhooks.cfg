SPECIFICATION FairSpec
CONSTANTS
  d1 = d1
  d2 = d2
  Deliveries = {d1, d2}
  MaxRetries = 2
  BatchSize = 2
  ChanSize = 1
  Flaky = {d1}
  MaxLost = 2
INVARIANTS
  TypeOK
  AttemptsAreCounted
PROPERTIES
  StoreTellsTheTruth
  EveryDeliverySettles
