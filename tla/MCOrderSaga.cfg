\* Two orders of one unit each, two request threads, one replenisher and one
\* unit in stock: the second order finds the row empty, finds it refilled, or
\* overlaps the transaction that empties or refills it.
CONSTANTS
  k1 = k1  k2 = k2  h1 = h1  h2 = h2  p1 = p1
  Key = {k1, k2}
  NoKey = NoKey
  Handler = {h1, h2}
  Replenisher = {p1}
  Quantity = {1}
  InitialStock = 1
  LowWater = 1
  RefillTo = 2
SPECIFICATION Spec
SYMMETRY Symmetry
CHECK_DEADLOCK FALSE
INVARIANTS
  ConfirmedMeansAccepted
  LogIsTruthful
  LeftoverIsLogged
  OneRunPerKey
  StrandedIsExplained
  InventoryIsExact
PROPERTIES
  OutcomeIsFinal
  ContractHolds
