SPECIFICATION FairSpec
CONSTANTS
  Threads = {t1, t2}
  None = none
  Capacity = 1
  MaxGeneration = 1
  MaxCalls = 1
PROPERTIES
  DisposalReturns
CHECK_DEADLOCK FALSE
