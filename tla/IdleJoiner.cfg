SPECIFICATION Spec
CONSTANTS
  MaxSubscriptions = 5
  MaxSpawns = 3
  Happens <- LastPublishes
  Faults = {}
INVARIANTS
  JoinedIsInactive
CHECK_DEADLOCK FALSE
