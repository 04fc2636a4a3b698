CONSTANTS
  k1 = k1  k2 = k2  h1 = h1  h2 = h2  p1 = p1
  Key = {k1}
  NoKey = NoKey
  Handler = {h1, h2}
  Replenisher = {p1}
  Quantity = {1}
  InitialStock = 2
  LowWater = 2
  RefillTo = 2
SPECIFICATION FairSpec
CHECK_DEADLOCK FALSE
PROPERTIES
  EveryRequestIsAnswered
  EveryOrderSettles
