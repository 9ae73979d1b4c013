-------------------------- MODULE RecordDestination --------------------------
(***************************************************************************)
(* The base64 destination (destination_dropbox): write reads RECORD and    *)
(* STATE messages in order, validates and uploads each record before it    *)
(* reads on, and passes a STATE on when it gets to it.  Parent folders are *)
(* created once per process and remembered; a record above the threshold   *)
(* goes through an upload session.  Any error ends the write, and the      *)
(* platform replays from the last STATE it was given.                      *)
(*                                                                         *)
(* A record is the position of its message; its content is the sequence    *)
(* of its parts 1 .. n, of which a session sends one per request.  Dropbox *)
(* is external: a request whose answer is an error may have been handled.  *)
(***************************************************************************)
EXTENDS Integers, Sequences, FiniteSets

CONSTANTS
    Paths, Folders,     \* destination paths, and the folders on the way to them
    FoldersTo,          \* the folders to create for a path, outermost first
    Parts,              \* how many parts the records for a path have
    Length,             \* bound: messages of the input
    MaxRequestRetries,  \* 3
    MaxOffsetRecoveries,\* 2
    Budget              \* bound: how many disturbances there are in a behaviour

\* Assumed by Programs.
RecordAssumption ==
    /\ Paths \cap Folders = {} /\ Paths \cap {"state", "invalid"} = {}
    /\ FoldersTo \in [Paths -> Seq(Folders)]
    /\ Parts \in [Paths -> Nat \ {0}]
    /\ {Length, MaxRequestRetries, MaxOffsetRecoveries, Budget} \subseteq Nat

VARIABLES
    input, policy,      \* the messages of the source, and conflict_policy
    saved,              \* the platform: how many messages the last STATE covers
    items,              \* Dropbox: what is at each path and folder
    session, open,      \* Dropbox: the parts of the upload session, and whether it is open
    phase,              \* "idle", "next", "folders", "upload", "session", "done"
    at,                 \* the message at hand
    ensured,            \* _ensured_folders
    attempt,            \* retry, in _with_retry
    offset, recoveries, \* of _upload_session
    ended,              \* history: why the last write raised
    written, touched, lost, spent  \* history: records committed, items others have
                                   \* changed, appends whose answer was lost; the budget

recordVars == <<input, policy, saved, items, session, open, phase, at, ensured, attempt,
                offset, recoveries, ended, written, touched, lost, spent>>
source == <<input, policy>>
server == <<session, open>>
call == <<attempt, offset, recoveries>>
past == <<touched, lost>>

Policies == {"overwrite", "fail"}
Messages == {"state", "invalid"} \cup Paths
None == [kind |-> "none"]
Folder == [kind |-> "folder"]
Foreign == [kind |-> "foreign"]
File(i, parts) == [kind |-> "file", record |-> i, parts |-> parts]
IsFile(x) == items[x].kind \in {"file", "foreign"}

\* The folders that are not yet ensured on the way to the record at hand.
Path == input[at]
\* Content above upload_session_threshold_mb is sent in chunks.
InChunks(p) == Parts[p] > 1
Whole(p) == [i \in 1 .. Parts[p] |-> i]
Above(x) ==
    {y \in Folders : \E p \in Paths : LET s == FoldersTo[p] IN
        \/ x = p /\ \E i \in DOMAIN s : s[i] = y
        \/ \E i, j \in DOMAIN s : i < j /\ s[i] = y /\ s[j] = x}
Below(x) == {y \in Paths \cup Folders : x \in Above(y)}

\* Bound: so many disturbances, of any kind, there are in a behaviour.
Disturb == spent < Budget /\ spent' = spent + 1

\* Dropbox makes the folders above what it puts somewhere.
Put(x, item) ==
    items' = [y \in DOMAIN items |->
                 IF y = x THEN item ELSE IF y \in Above(x) THEN Folder ELSE items[y]]

RecordInit ==
    /\ input \in [1 .. Length -> Messages]
    /\ policy \in Policies
    /\ items = [x \in Paths \cup Folders |-> None]
    /\ session = <<>> /\ open = FALSE
    /\ phase = "idle" /\ saved = 0 /\ at = 1
    /\ ensured = {} /\ attempt = 0 /\ offset = 0 /\ recoveries = 0
    /\ ended = "none" /\ written = {} /\ touched = {} /\ lost = 0 /\ spent = 0

-----------------------------------------------------------------------------
(* write                                                                   *)

\* The platform replays what follows the last STATE, to a new process.
WriteStart ==
    /\ phase = "idle"
    /\ phase' = "next"
    /\ at' = saved + 1
    /\ ensured' = {}
    /\ ended' = "none"
    /\ UNCHANGED <<source, saved, items, server, call, written, past, spent>>

\* Reaching a STATE means that every record before it has been uploaded.
EmitState ==
    /\ phase = "next" /\ at <= Length /\ Path = "state"
    /\ saved' = at
    /\ at' = at + 1
    /\ UNCHANGED <<source, items, server, phase, ensured, call, ended, written, past, spent>>

TakeRecord ==
    /\ phase = "next" /\ at <= Length /\ Path \in Paths
    /\ phase' = "folders"
    /\ UNCHANGED <<source, saved, items, server, at, ensured, call, ended, written, past, spent>>

InputEnds ==
    /\ phase = "next" /\ at > Length
    /\ phase' = "done"
    /\ UNCHANGED <<source, saved, items, server, at, ensured, call, ended, written, past, spent>>

\* An error ends the write.
Raise(why) ==
    /\ phase' = "idle"
    /\ ended' = why
    /\ session' = <<>> /\ open' = FALSE
    /\ attempt' = 0 /\ offset' = 0 /\ recoveries' = 0
    /\ ensured' = {}

\* The record is of no configured stream, or validate_record refuses it.
RefuseRecord ==
    /\ phase = "next" /\ at <= Length /\ Path = "invalid"
    /\ Raise("invalid")
    /\ UNCHANGED <<source, saved, items, at, written, past, spent>>

\* Mutant: a record whose requests fail is skipped.
GiveUpRecord ==
    /\ phase' = "next" /\ at' = at + 1
    /\ session' = <<>> /\ open' = FALSE
    /\ attempt' = 0 /\ offset' = 0 /\ recoveries' = 0
    /\ UNCHANGED <<ended, ensured>>

GiveUp == Raise("exhausted") /\ UNCHANGED at

\* The request is answered by a rate limit or a server error.
Unanswered ==
    IF attempt = MaxRequestRetries THEN GiveUp
    ELSE /\ attempt' = attempt + 1
         /\ UNCHANGED <<phase, at, server, offset, recoveries, ended, ensured>>

Transient ==
    /\ phase \in {"folders", "upload", "session"}
    /\ Disturb
    /\ Unanswered
    /\ UNCHANGED <<source, saved, items, written, past>>

-----------------------------------------------------------------------------
(* _ensure_parent_folders                                                  *)

Missing == {i \in DOMAIN FoldersTo[Path] : FoldersTo[Path][i] \notin ensured}
NextFolder == FoldersTo[Path][CHOOSE i \in Missing : \A j \in Missing : i <= j]

\* Mutant: a folder that exists is an error.
FolderFineIfNew == items[NextFolder] = None /\ \A y \in Above(NextFolder) : ~IsFile(y)
\* A folder that exists is as good as a new one.
FolderFine == \A y \in {NextFolder} \cup Above(NextFolder) : ~IsFile(y)

CreateFolder ==
    /\ phase = "folders" /\ Missing # {} /\ FolderFine
    /\ Put(NextFolder, Folder)
    /\ \/ /\ ensured' = ensured \cup {NextFolder}
          /\ attempt' = 0
          /\ UNCHANGED <<phase, at, server, offset, recoveries, ended, spent>>
       \/ Disturb /\ Unanswered
    /\ UNCHANGED <<source, saved, written, past>>

FolderRefused ==
    /\ phase = "folders" /\ Missing # {} /\ ~FolderFine
    /\ Raise("folder")
    /\ UNCHANGED <<source, saved, items, at, written, past, spent>>

FoldersEnsured ==
    /\ phase = "folders" /\ Missing = {}
    /\ phase' = IF InChunks(Path) THEN "session" ELSE "upload"
    /\ UNCHANGED <<source, saved, items, server, at, ensured, call, ended, written, past, spent>>

-----------------------------------------------------------------------------
(* _upload_small and _finish_session: the commit                           *)

\* Mutant: "fail" is sent without WriteMode.add.
MayCommitOver == items[Path] # Folder /\ \A y \in Above(Path) : ~IsFile(y)
\* "fail" is WriteMode.add with strict_conflict: whatever is there is a conflict.
MayCommit ==
    /\ items[Path] # Folder /\ \A y \in Above(Path) : ~IsFile(y)
    /\ policy = "fail" => items[Path] = None

Uploaded ==
    /\ phase' = "next" /\ at' = at + 1
    /\ session' = <<>> /\ open' = FALSE
    /\ attempt' = 0 /\ offset' = 0 /\ recoveries' = 0
    /\ UNCHANGED <<ended, ensured, spent>>

UploadSmall ==
    /\ phase = "upload" /\ MayCommit
    /\ Put(Path, File(at, Whole(Path)))
    /\ written' = written \cup {at}
    /\ Uploaded \/ (Disturb /\ Unanswered)
    /\ UNCHANGED <<source, saved, past>>

UploadConflict ==
    /\ phase = "upload" /\ ~MayCommit
    /\ Raise("conflict")
    /\ UNCHANGED <<source, saved, items, at, written, past, spent>>

-----------------------------------------------------------------------------
(* _upload_session                                                         *)

Started == offset > 0
Finishing == offset >= Parts[Path] - 1

\* Mutant: a recovery does not move what is read of the content.
SendBehind(from, to) ==
    IF recoveries > 0 THEN SubSeq(Whole(Path), from, to - 1) ELSE SubSeq(Whole(Path), from + 1, to)

\* content[from:to]
Send(from, to) == SubSeq(Whole(Path), from + 1, to)

\* The server is where the client is.
InPlace == open /\ Len(session) = offset

StartSession ==
    /\ phase = "session" /\ ~Started
    /\ \/ /\ session' = Send(0, 1) /\ open' = TRUE
          /\ offset' = 1 /\ attempt' = 0
          /\ UNCHANGED <<phase, at, ensured, recoveries, ended, spent>>
       \/ Disturb /\ Unanswered
    /\ UNCHANGED <<source, saved, items, written, past>>

\* With no attempt left, an answer that is lost is the same as a request that is.
AppendSession ==
    /\ phase = "session" /\ Started /\ ~Finishing /\ InPlace
    /\ session' = session \o Send(offset, offset + 1)
    /\ \/ /\ offset' = offset + 1 /\ attempt' = 0
          /\ UNCHANGED <<phase, at, recoveries, ended, lost, spent>>
       \/ /\ Disturb
          /\ attempt < MaxRequestRetries
          /\ attempt' = attempt + 1 /\ lost' = lost + 1
          /\ UNCHANGED <<phase, at, offset, recoveries, ended>>
    /\ UNCHANGED <<source, saved, items, open, ensured, written, touched>>

FinishSession ==
    /\ phase = "session" /\ Started /\ Finishing /\ InPlace /\ MayCommit
    /\ LET parts == session \o Send(offset, Parts[Path]) IN
         Put(Path, File(at, parts))
    /\ written' = written \cup {at}
    /\ \/ Uploaded
       \/ /\ Disturb
          /\ IF attempt = MaxRequestRetries THEN GiveUp
             ELSE /\ attempt' = attempt + 1
                  /\ session' = <<>> /\ open' = FALSE
                  /\ UNCHANGED <<phase, at, offset, recoveries, ended, ensured>>
    /\ UNCHANGED <<source, saved, past>>

FinishConflict ==
    /\ phase = "session" /\ Started /\ Finishing /\ InPlace /\ ~MayCommit
    /\ Raise("conflict")
    /\ UNCHANGED <<source, saved, items, at, written, past, spent>>

\* _correct_offset: the client goes on from where the server is.
RecoverOffset ==
    /\ phase = "session" /\ Started /\ open /\ ~InPlace
    /\ recoveries < MaxOffsetRecoveries
    /\ offset' = Len(session)
    /\ recoveries' = recoveries + 1
    /\ attempt' = 0
    /\ UNCHANGED <<source, saved, items, server, phase, at, ensured, ended, written, past, spent>>

\* Too many recoveries, or the session was finished before: it names no offset.
SessionUnusable ==
    /\ phase = "session" /\ Started /\ ~InPlace
    /\ ~open \/ recoveries = MaxOffsetRecoveries
    /\ Raise("unusable")
    /\ UNCHANGED <<source, saved, items, at, written, past, spent>>

-----------------------------------------------------------------------------
\* The process is killed, or a request is refused: credentials, or any other error.
Stop ==
    /\ phase \notin {"idle", "done"}
    /\ Disturb
    /\ Raise("stopped")
    /\ UNCHANGED <<source, saved, items, at, written, past>>

\* Another writer removes something with what is below it, or puts a file somewhere.
ForeignRemove(x) ==
    /\ phase # "done"
    /\ Disturb
    /\ items[x] # None
    /\ items' = [y \in DOMAIN items |-> IF y \in {x} \cup Below(x) THEN None ELSE items[y]]
    /\ touched' = touched \cup {x} \cup Below(x)
    /\ UNCHANGED <<source, saved, server, phase, at, ensured, call, ended, written, lost>>

ForeignWrite(x) ==
    /\ phase # "done"
    /\ Disturb
    /\ items[x] # Folder /\ \A y \in Above(x) : ~IsFile(y)
    /\ Put(x, Foreign)
    /\ touched' = touched \cup {x}
    /\ UNCHANGED <<source, saved, server, phase, at, ensured, call, ended, written, lost>>

-----------------------------------------------------------------------------
Writer ==
    \/ EmitState \/ TakeRecord \/ InputEnds \/ RefuseRecord
    \/ CreateFolder \/ FolderRefused \/ FoldersEnsured
    \/ UploadSmall \/ UploadConflict
    \/ StartSession \/ AppendSession \/ FinishSession \/ FinishConflict
    \/ RecoverOffset \/ SessionUnusable

RecordNext ==
    \/ WriteStart \/ Writer \/ Transient \/ Stop
    \/ \E x \in Paths \cup Folders : ForeignRemove(x) \/ ForeignWrite(x)

-----------------------------------------------------------------------------
RecordTypeOK ==
    /\ input \in [1 .. Length -> Messages] /\ policy \in Policies
    /\ saved \in 0 .. Length /\ at \in 1 .. (Length + 1)
    /\ DOMAIN items = Paths \cup Folders
    /\ \A x \in Folders : items[x] \in {None, Folder, Foreign}
    /\ \A p \in Paths : \/ items[p] \in {None, Foreign}
                        \/ items[p].kind = "file" /\ input[items[p].record] = p
    /\ phase \in {"idle", "next", "folders", "upload", "session", "done"}
    /\ open \in BOOLEAN /\ ensured \subseteq Folders
    /\ attempt \in 0 .. MaxRequestRetries /\ recoveries \in 0 .. MaxOffsetRecoveries
    /\ offset \in Nat /\ session \in Seq(Nat) /\ Len(session) <= offset + 1
    /\ ended \in {"none", "invalid", "folder", "conflict", "exhausted", "unusable", "stopped"}
    /\ written \subseteq 1 .. Length /\ touched \subseteq DOMAIN items
    /\ lost \in Nat /\ spent \in 0 .. Budget

\* A STATE that was passed on covers only records that Dropbox has committed
\* (README.md:403), whatever was lost or restarted in between.
StateCoversUploads == \A i \in 1 .. saved : input[i] \in Paths => i \in written

\* No file is ever there with a part missing, doubled or out of place, and the file at a
\* path nobody else touches is, at the end of the input, that of its last record:
\* replayed records converge under "overwrite" (README.md:403).
LastRecordStays ==
    /\ \A p \in Paths : items[p].kind = "file" => items[p].parts = Whole(p)
    /\ phase = "done" /\ policy = "overwrite" =>
         \A p \in Paths : LET own == {i \in 1 .. Length : input[i] = p} IN
             own # {} /\ touched \cap ({p} \cup Above(p)) = {} =>
                 items[p].kind = "file" /\ \A i \in own : i <= items[p].record

\* A step of the write, under "fail", replaces nothing, and under either policy no folder.
KeepsItems ==
    <<phase, at, ensured, attempt>>' # <<phase, at, ensured, attempt>> =>
        \A x \in DOMAIN items :
            items[x] # None /\ (policy = "fail" \/ items[x] = Folder) =>
                items'[x] = items[x]

\* The write ends with an error only for a cause that is still there or is recorded: a
\* conflict needs another writer or, under "fail", a record that was already committed at
\* that path, and a session is given up when its file is there or too much was lost.
RaisesForCause ==
    CASE ended = "invalid" -> Path = "invalid"
      [] ended = "folder" -> touched # {}
      [] ended = "conflict" -> \/ touched # {}
                               \/ policy = "fail" /\ \E i \in written : input[i] = Path
      [] ended = "exhausted" -> spent > MaxRequestRetries
      [] ended = "unusable" -> at \in written \/ lost > MaxOffsetRecoveries
      [] OTHER -> TRUE
=============================================================================
