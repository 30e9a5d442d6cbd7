SPECIFICATION Spec
CONSTANTS
  Task = {t1}
  Worker = {w1}
  Proc = {p1, p2}
  PoolOf <- OnePool
  Client = {c1}
  Loop = {l1}
  None = None
  MaxAttempts = 2
  Faults = {"early"}
  MaxFaults = 1
  MaxRequeues = 0
INVARIANTS NoStranded
CHECK_DEADLOCK FALSE
