SPECIFICATION FairSpec
CONSTANTS
  Sizes <- MCSizes
  ChunkSize = 2
  MaxAttempts = 4
  MaxRecoveries = 2
  ConflictPolicy = "fail"
  NoFile = NoFile
  Foreign = Foreign
INVARIANTS
  TypeOK
  SessionIsPrefix
  LostIsRecovered
  GivesUpForCause
PROPERTIES
  Ends
  ImplementsAtomicUpload
CHECK_DEADLOCK FALSE
