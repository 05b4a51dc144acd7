SPECIFICATION FairSpec
CONSTANTS
  MaxAttempts = 2
  MaxLosses = 4
INVARIANTS
  TypeOK
  OneThingAtATime
  LossHasAPlan
  RecoveredIsHonest
PROPERTIES
  Settles
CHECK_DEADLOCK FALSE
