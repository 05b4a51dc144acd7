SPECIFICATION FairSpec
CONSTANTS
  MaxSubscriptions = 2
  MaxSpawns = 2
  Happens <- FirstEventful
  Faults = {"noSpawn", "teardown"}
INVARIANTS
  TypeOK
  CleanupHasOwner
  CompletedIsCleanedUp
PROPERTIES
  JoinedMeansEnded
  CallsReturn
CHECK_DEADLOCK FALSE
