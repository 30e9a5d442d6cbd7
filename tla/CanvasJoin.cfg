SPECIFICATION Spec
CONSTANTS
  trig = trig
  cond = cond
  task = task
  wait = wait
  hook = hook
  None = None
  Node = {trig, cond, task, wait, hook}
  Kind <- MCKind
  Branch <- Diamond
  Advancer = {a1, a2}
  Faults = {"abandon", "delete", "dispatch"}
  MaxFaults = 1
SYMMETRY Symmetry
INVARIANTS DependencyOrder BranchRespected NeverStuck
PROPERTIES MirrorsWork
CHECK_DEADLOCK FALSE
