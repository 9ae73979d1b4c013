SPECIFICATION Spec
CONSTANTS
  Ids = {1, 2}
  Paths = {1, 2, 3}
  Revs = {1, 2, 3}
  BigRevs = {2}
  GlobPaths = {1, 2, 3}
  Hash <- MCDistinctHash
  Fold <- MCFold
  ReusePaths = FALSE
  MaxEvents = 5
  RenamePolicy = "propagate"
  DeletePolicy = "delete"
  Paged = FALSE
  ConflictPolicy = "overwrite"
  NoFile = NoFile
  MaxAborts = 0
  MaxSkips = 0
  MaxResets = 0
INVARIANTS
  DeletesOnlyWhatIsGone
