SPECIFICATION FairSpec
CONSTANTS
  h1 = h1
  h2 = h2
  shop = shop
  Handlers = {h1, h2}
  other = other
  Origins = {shop, other}
  NoOrigin = NoOrigin
  AnyOrigin = AnyOrigin
  rumOrigins = {shop}
  Cost = 3
  Rate = 2
  Burst = 6
  FullAfter = 3
  MaxWindow = 4
  MaxStarts = 1
INVARIANTS
  WritePressureIsBounded
  IndInv
PROPERTIES
  FloodIsServed
