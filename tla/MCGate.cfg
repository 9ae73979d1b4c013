SPECIFICATION Spec
CONSTANTS
  Ids = {1, 2}
  Paths = {1, 2}
  Revs = {1, 2, 3}
  BigRevs = {2}
  GlobPaths = {1, 2}
  Hash <- MCHash
  Fold <- MCFold
  ReusePaths = TRUE
  MaxEvents = 5
  RenamePolicy = "propagate"
  DeletePolicy = "delete"
  Paged = TRUE
  ConflictPolicy = "overwrite"
  NoFile = NoFile
  MaxAborts = 1
  MaxSkips = 1
  MaxResets = 1
INVARIANTS
  TypeOK
  StateGate
  GateInv
PROPERTIES
  ImplementsGate
