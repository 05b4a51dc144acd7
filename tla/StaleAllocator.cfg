SPECIFICATION FairSpec
CONSTANTS
  Attempts = {a1}
  None = none
  WorkCapacity = 1
  ControlCapacity = 1
  Quanta = 1
  DebugAssertions = FALSE
INVARIANTS
  WorkerNeverPanics
CHECK_DEADLOCK FALSE
