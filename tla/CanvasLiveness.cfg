SPECIFICATION FairSpec
CONSTANTS
  trig = trig
  cond = cond
  task = task
  wait = wait
  hook = hook
  None = None
  Node = {trig, cond, task}
  Kind <- MCKind
  Branch <- Pair
  Advancer = {a1, a2}
  Faults = {"dispatch", "reply", "abandon", "skip", "slow", "retry"}
  MaxFaults = 2
INVARIANTS TerminalClosed SucceededIsTrue
PROPERTIES ExecutionFinal EventuallyFinished
CHECK_DEADLOCK FALSE
