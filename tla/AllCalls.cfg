SPECIFICATION AllSpec
CONSTANTS
  Paths = {p}
  Root = root
  Identities = {a}
  Missing = missing
  MaxBatchPaths = 1
  OutputQueueCapacity = 1
  Calls = {"replace", "reconcile", "recover"}
  MaxGeneration = 1
  MaxJobs = 1
  MaxGrowth = 1
INVARIANTS
  TypeOK
  NoSilentLoss
  GapIsVisible
  BatchesHonest
  WorkAccountedFor
PROPERTIES
  ReconciliationBoundary
  LossesReported
CHECK_DEADLOCK FALSE
