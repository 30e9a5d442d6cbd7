SPECIFICATION Spec
CONSTANTS
  trig = trig
  cond = cond
  task = task
  wait = wait
  hook = hook
  None = None
  Node = {trig, cond, task, wait}
  Kind <- MCKind
  Branch <- Fork
  Advancer = {a1}
  Faults = {"skip"}
  MaxFaults = 1
SYMMETRY Symmetry
INVARIANTS BranchRespected
CHECK_DEADLOCK FALSE
