CONSTANTS
  o1 = o1  r1 = r1
  Nobody = Nobody
  Order = {o1}
  Relay = {r1}
  FailMode = {"NOTIFICATION_RETRY"}
  MaxRetries = 1
  MaxFaults = 1
SPECIFICATION Spec
CHECK_DEADLOCK FALSE
INVARIANT AllServedIsSettled
