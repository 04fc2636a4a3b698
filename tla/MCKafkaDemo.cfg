CONSTANTS
  o1 = o1  r1 = r1
  Nobody = Nobody
  Order = {o1}
  Relay = {r1}
  FailMode = {"NONE", "NOTIFICATION_RETRY", "NOTIFICATION_ALWAYS_FAIL"}
  MaxRetries = 1
  MaxFaults = 1
SPECIFICATION FairSpec
CHECK_DEADLOCK FALSE
INVARIANTS
  NotLeftOpen
  QuietMeansSettled
PROPERTIES
  ContractHolds
  NeverGoesBack
  EveryOrderSettles
