SPECIFICATION FairSpec
CONSTANTS
  Ids = {1, 2}
  Paths = {1, 2, 3}
  Revs = {1, 2, 3}
  BigRevs = {}
  GlobPaths = {1, 2}
  Hash <- MCHash
  Fold <- MCFold
  ReusePaths = FALSE
  MaxEvents = 5
  RenamePolicy = "propagate"
  DeletePolicy = "delete"
  Paged = FALSE
  ConflictPolicy = "overwrite"
  NoFile = NoFile
  MaxAborts = 0
  MaxSkips = 1
  MaxResets = 1
INVARIANTS
  Mirrored
  NothingRefused
PROPERTIES
  EventuallyMirrored
