SPECIFICATION Spec
CONSTANTS
  Ids = {1, 2}
  Paths = {1, 2}
  Revs = {1, 2, 3}
  BigRevs = {}
  GlobPaths = {1, 2}
  Hash <- MCHash
  Fold <- MCFold
  ReusePaths = FALSE
  MaxEvents = 5
  RenamePolicy = "propagate"
  DeletePolicy = "delete"
  Paged = TRUE
  ConflictPolicy = "overwrite"
  NoFile = NoFile
  MaxAborts = 0
  MaxSkips = 0
  MaxResets = 0
INVARIANTS
  DeletesOnlyWhatIsGone
