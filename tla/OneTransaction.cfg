SPECIFICATION OneSpec
CONSTANTS
  Paths = {p}
  Root = root
  Identities = {a, b}
  Missing = missing
  MaxBatchPaths = 1
  OutputQueueCapacity = 1
  Calls = {"replace", "reconcile", "recover"}
  MaxGeneration = 1
  MaxJobs = 1
  MaxGrowth = 0
PROPERTIES
  RecoveryBoundary
  NothingWithheld
CHECK_DEADLOCK FALSE
