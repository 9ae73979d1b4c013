SPECIFICATION FairSpec
CONSTANTS
  Current = 0
  Namespaces <- MCNamespaces
  Paths <- MCPaths
  NoCursor = NoCursor
  PageSize = 2
  Budget <- MCBudget
INVARIANTS
  TypeOK
  CheckpointCovers
  OnlyNews
PROPERTIES
  CursorsAreKept
  EventuallyRead
CHECK_DEADLOCK FALSE
