CONSTANTS
  o1 = o1  r1 = r1
  Nobody = Nobody
  Order = {o1}
  Relay = {r1}
  FailMode = {"NONE"}
  MaxRetries = 1
  MaxFaults = 2
SPECIFICATION Spec
CHECK_DEADLOCK FALSE
INVARIANT DlqIsNotifications
