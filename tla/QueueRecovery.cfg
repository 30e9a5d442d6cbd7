SPECIFICATION FairSpec
CONSTANTS
  Task = {t1}
  Worker = {p1, p2}
  Proc = {p1, p2}
  PoolOf <- OwnPool
  Client = {c1}
  Loop = {l1}
  None = None
  MaxAttempts = 2
  Faults = {"enqueue", "nack", "cleanup", "write", "crash", "abandon", "shutdown", "heartbeat", "linger", "stall", "flush"}
  MaxFaults = 1
  MaxRequeues = 1
INVARIANTS NoStranded
PROPERTIES Finality EventuallyDone
CHECK_DEADLOCK FALSE
