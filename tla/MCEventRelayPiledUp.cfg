CONSTANTS
  o1 = o1  o2 = o2  r1 = r1  r2 = r2  c1 = c1  c2 = c2
  NoConsumer = NoConsumer
  Order = {o1}
  Relay = {r1}
  Consumer = {c1}
  CLAIM_LIMIT = 2
  MaxRetries = 1
  MaxEvents = 1
  MaxFaults = 1
SPECIFICATION FairSpec
CHECK_DEADLOCK FALSE
PROPERTY PiledUpIsSent
