SPECIFICATION FairSpec
CONSTANTS
  Attempts = {a1, a2}
  None = none
  WorkCapacity = 1
  ControlCapacity = 1
  Quanta = 1
  DebugAssertions = FALSE
INVARIANTS
  TypeOK
  LeasesCounted
  NothingLeftBehind
PROPERTIES
  DecidedOnce
  CallsReturn
CHECK_DEADLOCK FALSE
