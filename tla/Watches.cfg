SPECIFICATION Spec
CONSTANTS
  Subs = {s, t}
  Paths = {p, q}
  Inodes = {i, j}
  Descriptors = {d, e}
  None = none
  Budgets = {1, 2}
  LastLifetime = 2
  QueueLimit = 3
  Lossy = FALSE
  MaxChanges = 3
INVARIANTS
  TypeOK
  LifetimesAttributed
  WatchesAgree
  DirectoriesAccountedFor
PROPERTIES
  IgnoredDetachesOnlyDead
SYMMETRY Symmetry
CHECK_DEADLOCK FALSE
