SPECIFICATION FairSpec
CONSTANTS
  Event = {v1, v2}
  Endpoint = {e1}
  Sender = {s1}
  Admin = {a1, a2}
  None = None
  MaxAttempts = 2
  BatchSize = 2
  Faults = {"insert", "read"}
  MaxFaults = 1
  MaxRetries = 0
  MaxEdits = 2
  Overflow = 64
  MaxDelays = 8
PROPERTIES DeletedIsFinal EventuallySettled
CHECK_DEADLOCK FALSE
