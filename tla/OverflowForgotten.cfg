SPECIFICATION Spec
CONSTANTS
  Subs = {s}
  Paths = {p, q}
  Inodes = {i, j}
  Descriptors = {d, e}
  None = none
  Budgets = {2}
  LastLifetime = 3
  QueueLimit = 2
  Lossy = TRUE
  MaxChanges = 5
INVARIANTS
  DirectoriesAccountedFor
SYMMETRY Symmetry
CHECK_DEADLOCK FALSE
