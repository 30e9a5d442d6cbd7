SPECIFICATION Spec
CONSTANTS
  Def = {d1, d2, d3}
  Valid = {d1, d2}
  Caller = {c1, c2, c3}
  Key = {k1}
  Input = {i1, i2}
  None = None
  MaxWrites = 5
  Millis = 3
  Grain = 4
  Expiry = 2
  MaxRate = 3
  MaxBurst = 3
  MaxReading = 6
  MaxCalls = 4
SYMMETRY Symmetry
INVARIANTS VersionsSound PublishedIsLatest ExecutionPinned IdempotentStart RateLimited
PROPERTIES ImplementsLog
CHECK_DEADLOCK FALSE
