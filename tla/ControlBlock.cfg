SPECIFICATION FairSpec
CONSTANTS
  Threads = {t1, t2, t3}
  None = none
  Capacity = 1
  MaxGeneration = 2
  MaxCalls = 2
INVARIANTS
  TypeOK
  GateKept
PROPERTIES
  ImplementsGate
  TransactionsReturn
CHECK_DEADLOCK FALSE
