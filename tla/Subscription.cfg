SPECIFICATION SubFairSpec
CONSTANTS
  MaxBatches = 4
INVARIANTS
  SubTypeOK
  WakeUpNeverBlocks
  LossShutsTheBridge
  CancelledIsQuiet
  RejectedLeavesNothing
PROPERTIES
  ImplementsCredit
  EverythingSettles
CHECK_DEADLOCK FALSE
