SPECIFICATION Spec
CONSTANTS
  Event = {v1}
  Endpoint = {e1, e2}
  Sender = {s1, s2}
  Admin = {}
  None = None
  MaxAttempts = 2
  BatchSize = 2
  Faults = {"insert", "read", "write", "claim", "shutdown", "crash"}
  MaxFaults = 2
  MaxRetries = 1
  MaxEdits = 0
  Overflow = 64
  MaxDelays = 8
SYMMETRY Symmetry
INVARIANTS SoleSender AttemptBudget DeliveredIsTrue FanOutComplete BackoffExact
PROPERTIES DeliveredIsFinal OrphanedByFault
CHECK_DEADLOCK FALSE
