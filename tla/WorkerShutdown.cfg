SPECIFICATION FairSpec
CONSTANTS
  Scope = {s1}
  None = None
  MaxRunners = 2
  MaxMetrics = 1
  Capacity = 2
  BatchSize = 2
  Faults = {"write", "slow"}
  MaxFaults = 1
INVARIANTS SoleRunner StoppedIsLast NothingLeftBehind
PROPERTIES RecorderIsLog ShutdownCompletes ScopeServed EventuallyWritten
