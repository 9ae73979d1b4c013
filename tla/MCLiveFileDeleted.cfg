SPECIFICATION Spec
CONSTANTS
  Ids = {1, 2}
  Paths = {1, 2}
  Revs = {1, 2, 3}
  BigRevs = {}
  GlobPaths = {1, 2}
  Hash <- MCHash
  Fold <- MCFold
  ReusePaths = TRUE
  MaxEvents = 5
  RenamePolicy = "propagate"
  DeletePolicy = "delete"
  Paged = FALSE
  ConflictPolicy = "overwrite"
  NoFile = NoFile
  MaxAborts = 0
  MaxSkips = 0
  MaxResets = 1
INVARIANTS
  LiveFilesAreKept
