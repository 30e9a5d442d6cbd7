SPECIFICATION Spec
CONSTANTS
  Task = {t1}
  Worker = {w1}
  Proc = {p1, p2}
  PoolOf <- OnePool
  Client = {c1}
  Loop = {l1}
  None = None
  MaxAttempts = 2
  Faults = {"enqueue", "nack", "cleanup", "write", "crash", "abandon", "shutdown", "claim", "skipLocked", "heartbeat", "linger", "misfire", "early", "stall", "late", "skew"}
  MaxFaults = 1
  MaxRequeues = 0
SYMMETRY Sym
INVARIANTS LeaseExclusion RowConsistent RetryBudget
PROPERTIES ImplementsLifecycle
CHECK_DEADLOCK FALSE
