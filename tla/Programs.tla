------------------------------- MODULE Programs -------------------------------
(***************************************************************************)
(* The programs beside the native pair and the entries stream, any one of  *)
(* them at work.  They share no state, so a behaviour is one program's:    *)
(* variables of one name are that program's, and those it does not have    *)
(* stay Idle.                                                              *)
(***************************************************************************)
EXTENDS Integers, Sequences, FiniteSets

CONSTANTS
    Idle,           \* the value of what is not at work
    Budget,         \* bound: how many disturbances there are in a behaviour
    PageSize,       \* bound: entries of a page of the structured source
    Current, Namespaces,
    Things, ThingFolders, Syncs,                                \* FullRefresh
    SharedFolders, Members, NoFolder, BaseClient, MountedAs,    \* SharingAcl
    Timeout, MaxDelay, CallTime,                                \* Riviera
    TextFiles, TextShows, NoFile,                               \* FileContents
    RecordPaths, ParentFolders, FoldersTo, Parts, Length,
    MaxRequestRetries, MaxOffsetRecoveries,                     \* RecordDestination
    Paths, Odd, Contents, Size, Starts, ReportPageSize,         \* Reconcile
    Fold, NoPath,                                               \* Repair
    Scopes, Files, Shows, NoScope, NoCursor                     \* CursorScope

VARIABLES
    program,
    valid, roots, emitted, resets, faulted,
    left, recovered, page,
    phase, more, touched, saved, dest, folder, spent,
    thing, stream, mode, shown,
    acl, visible, listed, folders, moreFolders, clients, via, counted, moreMembers,
    polling, due, clock, delay, answer,
    version, small, selection, state, file, text,
    input, policy, items, session, open, at, ensured, attempt, offset, recoveries, ended,
    written, lost,
    step, known, entries, report, changed, todo, staged, outcome, stored, unread,
    existing, deleted, config, scope, files, cursor, legacy, operations, transfers, last,
    sawError

\* What two listing streams share, what all three do, and each program's own.
listings == <<valid, roots, emitted, resets, faulted>>
walks == <<left, recovered, page>>
ofFullRefresh == <<thing, stream, mode, shown>>
ofSharingAcl == <<acl, visible, listed, folders, moreFolders, clients, via, counted, moreMembers>>
ofFileContents ==
    <<polling, due, clock, delay, answer, version, small, selection, state, file, text>>
ofDestination ==
    <<input, policy, items, session, open, at, ensured, attempt, offset, recoveries, ended,
      written, lost>>
ofRepair == <<step, known, entries, report, changed, todo, staged, outcome, stored, unread>>
ofCursorScope ==
    <<existing, deleted, config, scope, files, cursor, legacy, operations, transfers, last, sawError>>
programVars ==
    <<program, listings, walks, phase, more, touched, saved, dest, folder, spent, ofFullRefresh,
      ofSharingAcl, ofFileContents, ofDestination, ofRepair, ofCursorScope>>

F == INSTANCE FullRefresh WITH Folders <- ThingFolders
A == INSTANCE SharingAcl
C == INSTANCE FileContents WITH Files <- TextFiles, Shows <- TextShows
R == INSTANCE RecordDestination WITH Paths <- RecordPaths, Folders <- ParentFolders
P == INSTANCE Repair WITH PageSize <- ReportPageSize
S == INSTANCE CursorScope

ASSUME ProgramsAssumption ==
    /\ F!FullRefreshAssumption /\ A!SharingAclAssumption
    /\ C!RivieraAssumption /\ C!FileContentsAssumption /\ R!RecordAssumption
    /\ P!ReconcileAssumption /\ P!RepairAssumption /\ S!ScopeAssumption

FULL_REFRESH == "full refresh"
SHARING_ACL == "sharing_acl"
FILE_CONTENTS == "file_contents"
DESTINATION == "base64 destination"
REPAIR == "repair"
CURSOR_SCOPE == "cursor scope"

-----------------------------------------------------------------------------
ListingsIdle == valid = Idle /\ roots = Idle /\ emitted = Idle /\ resets = Idle /\ faulted = Idle
WalksIdle == left = Idle /\ recovered = Idle /\ page = Idle
FullRefreshIdle == thing = Idle /\ stream = Idle /\ mode = Idle /\ shown = Idle
SharingAclIdle ==
    /\ acl = Idle /\ visible = Idle /\ listed = Idle /\ folders = Idle /\ moreFolders = Idle
    /\ clients = Idle /\ via = Idle /\ counted = Idle /\ moreMembers = Idle
FileContentsIdle ==
    /\ polling = Idle /\ due = Idle /\ clock = Idle /\ delay = Idle /\ answer = Idle
    /\ version = Idle /\ small = Idle /\ selection = Idle /\ state = Idle /\ file = Idle
    /\ text = Idle
DestinationIdle ==
    /\ input = Idle /\ policy = Idle /\ items = Idle /\ session = Idle /\ open = Idle
    /\ at = Idle /\ ensured = Idle /\ attempt = Idle /\ offset = Idle /\ recoveries = Idle
    /\ ended = Idle /\ written = Idle /\ lost = Idle
RepairIdle ==
    /\ step = Idle /\ known = Idle /\ entries = Idle /\ report = Idle /\ changed = Idle
    /\ todo = Idle /\ staged = Idle /\ outcome = Idle /\ stored = Idle /\ unread = Idle
CursorScopeIdle ==
    /\ existing = Idle /\ deleted = Idle /\ config = Idle /\ scope = Idle /\ files = Idle
    /\ cursor = Idle /\ legacy = Idle /\ operations = Idle /\ transfers = Idle
    /\ last = Idle /\ sawError = Idle

ProgramsInit ==
    \/ /\ program = FULL_REFRESH /\ F!FullRefreshInit
       /\ saved = Idle /\ dest = Idle /\ folder = Idle
       /\ SharingAclIdle /\ FileContentsIdle /\ DestinationIdle /\ RepairIdle /\ CursorScopeIdle
    \/ /\ program = SHARING_ACL /\ A!SharingAclInit
       /\ more = Idle /\ saved = Idle /\ dest = Idle
       /\ FullRefreshIdle /\ FileContentsIdle /\ DestinationIdle /\ RepairIdle /\ CursorScopeIdle
    \/ /\ program = FILE_CONTENTS /\ C!FileContentsInit
       /\ ListingsIdle /\ more = Idle /\ touched = Idle /\ folder = Idle
       /\ FullRefreshIdle /\ SharingAclIdle /\ DestinationIdle /\ RepairIdle /\ CursorScopeIdle
    \/ /\ program = DESTINATION /\ R!RecordInit
       /\ ListingsIdle /\ WalksIdle /\ more = Idle /\ dest = Idle /\ folder = Idle
       /\ FullRefreshIdle /\ SharingAclIdle /\ FileContentsIdle /\ RepairIdle /\ CursorScopeIdle
    \/ /\ program = REPAIR /\ P!RepairInit
       /\ ListingsIdle /\ WalksIdle /\ phase = Idle /\ touched = Idle /\ saved = Idle /\ dest = Idle
       /\ FullRefreshIdle /\ SharingAclIdle /\ FileContentsIdle /\ DestinationIdle /\ CursorScopeIdle
    \/ /\ program = CURSOR_SCOPE /\ S!ScopeInit
       /\ ListingsIdle /\ WalksIdle /\ more = Idle /\ touched = Idle /\ folder = Idle
       /\ FullRefreshIdle /\ SharingAclIdle /\ FileContentsIdle /\ DestinationIdle /\ RepairIdle

RunFullRefresh ==
    /\ program = FULL_REFRESH /\ F!FullRefreshNext
    /\ UNCHANGED <<program, saved, dest, folder, ofSharingAcl, ofFileContents, ofDestination,
                   ofRepair, ofCursorScope>>

RunSharingAcl ==
    /\ program = SHARING_ACL /\ A!SharingAclNext
    /\ UNCHANGED <<program, more, saved, dest, ofFullRefresh, ofFileContents, ofDestination,
                   ofRepair, ofCursorScope>>

NotFileContents ==
    <<program, listings, more, touched, folder, ofFullRefresh, ofSharingAcl, ofDestination,
      ofRepair, ofCursorScope>>
RunFileContents == program = FILE_CONTENTS /\ C!FileContentsNext /\ UNCHANGED NotFileContents

RunDestination ==
    /\ program = DESTINATION /\ R!RecordNext
    /\ UNCHANGED <<program, listings, walks, more, dest, folder, ofFullRefresh, ofSharingAcl,
                   ofFileContents, ofRepair, ofCursorScope>>

RunRepair ==
    /\ program = REPAIR /\ P!RepairNext
    /\ UNCHANGED <<program, listings, walks, phase, touched, saved, dest, ofFullRefresh,
                   ofSharingAcl, ofFileContents, ofDestination, ofCursorScope>>

RunCursorScope ==
    /\ program = CURSOR_SCOPE /\ S!ScopeNext
    /\ UNCHANGED <<program, listings, walks, more, touched, folder, ofFullRefresh, ofSharingAcl,
                   ofFileContents, ofDestination, ofRepair>>

ProgramsNext ==
    \/ RunFullRefresh \/ RunSharingAcl \/ RunFileContents
    \/ RunDestination \/ RunRepair \/ RunCursorScope

\* A sync of file_contents that has begun goes on, and the platform begins the next one;
\* an operator resets a state that no sync can use, while it stays so.
SyncContents == program = FILE_CONTENTS /\ C!ContentsSync /\ UNCHANGED NotFileContents
ResetContents == program = FILE_CONTENTS /\ C!ResetState /\ UNCHANGED NotFileContents

Spec ==
    /\ ProgramsInit /\ [][ProgramsNext]_programVars
    /\ WF_programVars(SyncContents) /\ SF_programVars(ResetContents)

-----------------------------------------------------------------------------
\* Every variable has its type: offsets, retries and recoveries stay within their limits,
\* and what a phase needs at hand is there.
ProgramsTypeOK ==
    CASE program = FULL_REFRESH -> F!FullRefreshTypeOK
      [] program = SHARING_ACL -> A!SharingAclTypeOK
      [] program = FILE_CONTENTS -> C!FileContentsTypeOK
      [] program = DESTINATION -> R!RecordTypeOK
      [] program = REPAIR -> P!RepairTypeOK
      [] program = CURSOR_SCOPE -> S!ScopeTypeOK

\* A sync that ends well has delivered everything that was there, and did not change,
\* throughout: the listings of the streams that keep no state and the members of shared
\* folders, however often a listing had to start afresh, and the native source's files,
\* whichever scope its state was of before.
NothingSkipped ==
    CASE program = FULL_REFRESH -> F!NothingSkipped
      [] program = SHARING_ACL -> A!MembersComplete
      [] program = CURSOR_SCOPE -> S!ScopeIsCovered
      [] OTHER -> TRUE

\* A sync, a write or a compare that fails does so for a cause: a call that raised, a second
\* reset of one cursor, a change of what it listed, a conflict that is there.
FailsForCause ==
    CASE program = FULL_REFRESH -> F!FailsForCause
      [] program = SHARING_ACL -> A!AclFailsForCause
      [] program = DESTINATION -> R!RaisesForCause
      [] program = REPAIR -> P!DuplicateForCause
      [] OTHER -> TRUE

\* Members of a shared folder are asked for through the namespace whose page the folder
\* is on (sharing.py, _shared_folder_clients), and never through one left behind.
AskedWhereListed == program = SHARING_ACL => A!AskedWhereListed

\* riviera.py keeps its deadline, and gives up only a job that ended too late for a check
\* shortly before the deadline.
AnswersInTime == program = FILE_CONTENTS => C!AnswersInTime

\* A version in the state of file_contents has been answered for at the destination.
NotedIsExtracted == program = FILE_CONTENTS => C!NotedIsExtracted

\* file_contents never converts again what the saved state has, nor replaces a record by
\* one of an earlier version.
NothingExtractedTwice == [][program = FILE_CONTENTS => C!ExtractsOnce]_programVars

\* One root's versions never become namespaces' or the other way round, but by a reset: a
\* sync of file_contents on the other mode's versions fails and leaves them alone.
ModesNeverMix == [][program = FILE_CONTENTS => C!KeepsModesApart]_programVars

\* When files no longer change and syncs are no longer stopped or slow, every eligible
\* file is converted in its last version: a conversion that was given up or raised is
\* tried again, and a state no sync of file_contents can use does not stay.
EventuallyExtracted == <>[](program = FILE_CONTENTS => C!AllExtracted)

\* The base64 destination passes a STATE on only when every record before it is committed.
StateCoversUploads == program = DESTINATION => R!StateCoversUploads

\* Sessions never put a file together wrongly, and replayed records converge to the last.
LastRecordStays == program = DESTINATION => R!LastRecordStays

\* Under conflict_policy "fail" nothing is replaced, under either policy no folder is.
KeepsWhatIsThere == [][program = DESTINATION => R!KeepsItems]_programVars

\* A compare reports every path that did not change while it was listed, truly.
UnchangedReported == program = REPAIR => P!UnchangedReported

\* The lines dropbox-repair prints tell what became of each path.
LinesAreTrue == program = REPAIR => P!LinesAreTrue

\* A repair that runs to its end leaves at the destination every file that did not change,
\* but for those it says it passed over, because they could not be read or by their name.
RepairConverges == program = REPAIR => P!RepairConverges

\* A repair writes only what the report calls missing or mismatched, as reported.
WritesWhatIsReported == [][program = REPAIR => P!WritesReported]_programVars

\* A saved cursor that can be used fits the saved scope and file map.
CursorFitsState == program = CURSOR_SCOPE => S!CursorFitsState

\* A change of the scope, or a state without one, deletes nothing that is in Dropbox.
DeletesWhatIsGone == [][program = CURSOR_SCOPE => S!DeletesGone]_programVars
=============================================================================
