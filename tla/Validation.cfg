SPECIFICATION Spec
CONSTANTS
  NodeId = {n1, n2, n3}
  EdgeId = {e1, e2, e3}
  Condition = {"null", "object", "other"}
  None = None
SYMMETRY Symmetry
INVARIANTS SearchesExact ValidExactly
PROPERTIES SearchesTerminate
