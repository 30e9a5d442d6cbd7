SPECIFICATION FairSpec
CONSTANTS
  Event = {v1}
  Endpoint = {e1}
  Sender = {s1}
  Admin = {}
  None = None
  MaxAttempts = 2
  BatchSize = 2
  Faults = {"shutdown"}
  MaxFaults = 1
  MaxRetries = 1
  MaxEdits = 0
  Overflow = 64
  MaxDelays = 8
PROPERTIES AtLeastOnce
CHECK_DEADLOCK FALSE
