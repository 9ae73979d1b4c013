SPECIFICATION Spec
CONSTANTS
    Idle = Idle
    Budget = 2
    PageSize = 1
    Current = 0
    Namespaces = {1, 2}
    Things = {1, 2}
    ThingFolders = {2}
    Syncs <- MCSyncs
    SharedFolders = {1, 2}
    Members = {1, 2}
    NoFolder = NoFolder
    BaseClient = BaseClient
    MountedAs <- MCMountedAs
    Timeout = 7
    MaxDelay = 2
    CallTime = 1
    TextFiles = {1, 2}
    TextShows <- MCTextShows
    NoFile = NoFile
    RecordPaths = {"a", "b"}
    ParentFolders = {"d", "e"}
    FoldersTo <- MCFoldersTo
    Parts <- MCParts
    Length = 3
    MaxRequestRetries = 1
    MaxOffsetRecoveries = 1
    Paths = {1, 2, 3}
    Odd = {3}
    Contents = {1, 2}
    Size <- MCSize
    Starts <- MCStarts
    ReportPageSize = 2
    Fold <- MCFold
    NoPath = NoPath
    Scopes = {"a", "b"}
    Files = {1, 2, 3}
    Shows <- MCShows
    NoScope = NoScope
    NoCursor = NoCursor
INVARIANTS
    ProgramsTypeOK
    NothingSkipped
    FailsForCause
    AskedWhereListed
    AnswersInTime
    NotedIsExtracted
    StateCoversUploads
    LastRecordStays
    UnchangedReported
    LinesAreTrue
    RepairConverges
    CursorFitsState
PROPERTIES
    NothingExtractedTwice
    ModesNeverMix
    EventuallyExtracted
    KeepsWhatIsThere
    WritesWhatIsReported
    DeletesWhatIsGone
CHECK_DEADLOCK FALSE
