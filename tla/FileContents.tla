----------------------------- MODULE FileContents -----------------------------
(***************************************************************************)
(* The file_contents stream (streams/file_contents.py): incremental syncs  *)
(* that list the files of one root, or of the selected namespaces, and     *)
(* have every eligible one whose version is not in the state converted by  *)
(* Riviera.  A record is emitted for each; the version is noted, and the   *)
(* state emitted, once the conversion has succeeded or failed for good.    *)
(*                                                                         *)
(* The conversion is by file id: what it reads may be a later version than *)
(* the one listed.  Dropbox and the platform are external.  What a killed  *)
(* sync had sent and was lost amounts to its being killed earlier.         *)
(***************************************************************************)
EXTENDS Riviera, FiniteSets

CONSTANTS
    Current,        \* the configured root, when namespaces are not selected
    Namespaces,     \* namespace ids, numbered in their sort order
    Files,          \* file ids, numbered in the order a listing shows them
    Shows,          \* the files each root shows
    NoFile,         \* no file at hand
    Budget          \* bound: how many disturbances there are in a behaviour

Roots == {Current} \cup Namespaces
Nothing == [r \in Roots |-> [f \in Files |-> 0]]
NoState == [kind |-> "none", files |-> Nothing]
NoRecord == [listed |-> 0, status |-> "none", text |-> 0]

\* Files as a listing shows them.
Listed == [id : Files, version : Nat \ {0}]

\* Assumed by Programs.
FileContentsAssumption ==
    /\ Roots \subseteq Nat /\ Current \notin Namespaces
    /\ Files \subseteq Nat /\ Shows \in [Roots -> SUBSET Files]
    /\ NoFile \notin Listed /\ Budget \in Nat

VARIABLES
    version,    \* Dropbox: the version of each file
    small,      \* Dropbox: files of an allowed extension and within max_file_size_mb
    selection,  \* {Current}, or the namespaces to traverse
    saved,      \* the platform: the last state, with the versions noted under each root
    dest,       \* the destination: the last record of each file under each root
    phase,      \* "idle", "list", "page", "extract", "yielded"
    state,      \* FileContents._state
    left,       \* roots not yet listed, the one at hand included
    recovered,  \* reset_recovered
    page,       \* what is left of the listing of the root at hand
    file,       \* the file being converted, as it was listed
    text,       \* Dropbox: the version the conversion reads
    spent       \* of the budget

contentsVars == <<version, small, selection, saved, dest, phase, state, left, recovered, page,
                  file, text, spent, rivieraVars>>
dropbox == <<version, small>>
platform == <<selection, saved>>

\* Bound: so many disturbances, of any kind, there are in a behaviour.
Disturb == spent < Budget /\ spent' = spent + 1
First(S) == CHOOSE x \in S : \A y \in S : x <= y
Root == First(left)

Mode == IF selection = {Current} THEN "files" ELSE "namespaces"
HasVersions == saved.files # Nothing

\* A single root's versions are refused for namespaces.
Refused == Mode = "namespaces" /\ saved.kind = "files" /\ HasVersions

\* Mutant: the versions of namespaces are dropped for a single root.
ValidStateDropped ==
    IF saved.kind = Mode THEN saved ELSE [kind |-> Mode, files |-> Nothing]

\* _validate_state: namespaces' versions are taken for a single root, too, which has no
\* use for them.
ValidState ==
    IF saved.kind \in {Mode, "namespaces"} THEN saved ELSE [kind |-> Mode, files |-> Nothing]

\* Then there is no files map to look a version up in, or to emit.
Stuck == state.kind # Mode

FileVersion(f) == [id |-> f, version |-> version[f]]
Listing(r) == {FileVersion(f) : f \in {g \in Shows[r] \cap small : version[g] # 0}}

Entry == CHOOSE x \in page : \A y \in page : x.id <= y.id

\* Mutant: versions are looked up under the current root.
UnchangedAtCurrent(x) == state.files[Current][x.id] = x.version

\* Mutant: a version noted under any root will do.
UnchangedAnywhere(x) == \E r \in Roots : state.files[r][x.id] = x.version
Unchanged(x) == state.files[Root][x.id] = x.version

\* Mutant: a version is noted whatever the answer.
NotedAlways == TRUE
\* A conversion that was given up is not noted: the file is tried again.
Noted == answer \in {"succeeded", "failed"}

-----------------------------------------------------------------------------
FileContentsInit ==
    /\ RivieraInit
    /\ version = [f \in Files |-> 1]
    /\ small = Files
    /\ selection \in {{Current}} \cup ((SUBSET Namespaces) \ {{}})
    /\ saved = NoState
    /\ dest = [r \in Roots |-> [f \in Files |-> NoRecord]]
    /\ phase = "idle" /\ state = NoState /\ left = {} /\ recovered = FALSE /\ page = {}
    /\ file = NoFile /\ text = 0
    /\ spent = 0

\* The stream object goes with the process, and nobody asks for the job any more.
EndSync ==
    /\ phase' = "idle" /\ state' = NoState /\ left' = {} /\ recovered' = FALSE /\ page' = {}
    /\ file' = NoFile /\ text' = 0
    /\ Taken

SyncStart ==
    /\ phase = "idle" /\ ~Refused
    /\ phase' = "list"
    /\ state' = ValidState
    /\ left' = selection
    /\ UNCHANGED <<dropbox, platform, dest, recovered, page, file, text, spent, rivieraVars>>

ListRoot ==
    /\ phase = "list"
    /\ phase' = "page"
    /\ page' = Listing(Root)
    /\ UNCHANGED <<dropbox, platform, dest, state, left, recovered, file, text, spent, rivieraVars>>

\* The cursor was reset between two pages: what was listed is listed again.
Relist ==
    /\ phase = "page" /\ ~recovered
    /\ Disturb
    /\ recovered' = TRUE
    /\ page' = Listing(Root)
    /\ UNCHANGED <<dropbox, platform, dest, phase, state, left, file, text, rivieraVars>>

PassOver ==
    /\ phase = "page" /\ page # {} /\ ~Stuck
    /\ Unchanged(Entry)
    /\ page' = page \ {Entry}
    /\ UNCHANGED <<dropbox, platform, dest, phase, state, left, recovered, file, text, spent,
                   rivieraVars>>

\* extract_markdown is called: Riviera will read the file as it is then, or later.
Extract ==
    /\ phase = "page" /\ page # {} /\ ~Stuck
    /\ ~Unchanged(Entry)
    /\ phase' = "extract"
    /\ file' = Entry
    /\ page' = page \ {Entry}
    /\ text' = version[Entry.id]
    /\ Launch
    /\ IF due' = 0 THEN UNCHANGED spent ELSE Disturb
    /\ UNCHANGED <<dropbox, platform, dest, state, left, recovered>>

Convert ==
    /\ phase = "extract"
    /\ Poll
    /\ answer' = "succeeded" => text # 0
    /\ IF answer' = "raised" THEN Disturb ELSE UNCHANGED spent
    /\ UNCHANGED <<dropbox, platform, dest, phase, state, left, recovered, page, file, text>>

Yield ==
    /\ phase = "extract" /\ answer \in {"succeeded", "failed", "timed_out"}
    /\ phase' = "yielded"
    /\ dest' = [dest EXCEPT ![Root][file.id] =
                   [listed |-> file.version, status |-> answer,
                    text |-> IF answer = "succeeded" THEN text ELSE 0]]
    /\ UNCHANGED <<dropbox, platform, state, left, recovered, page, file, text, spent, rivieraVars>>

\* Back after the record: the version is noted, and the state emitted with the slice done.
NoteVersion ==
    /\ phase = "yielded"
    /\ state' = IF Noted THEN [kind |-> state.kind,
                               files |-> [state.files EXCEPT ![Root][file.id] = file.version]]
                ELSE state
    /\ saved' = state'
    /\ phase' = "page"
    /\ file' = NoFile /\ text' = 0
    /\ Taken
    /\ UNCHANGED <<dropbox, selection, dest, left, recovered, page, spent>>

NextRoot ==
    /\ phase = "page" /\ page = {} /\ ~Stuck
    /\ IF left # {Root} THEN
           /\ left' = left \ {Root}
           /\ phase' = "list"
           /\ recovered' = FALSE
           /\ UNCHANGED <<state, page, file, text, rivieraVars>>
       ELSE EndSync
    /\ UNCHANGED <<dropbox, platform, dest, spent>>

\* The sync ends with an error: Riviera's, or that the state has no files map.
SyncRaises ==
    /\ \/ phase = "extract" /\ answer = "raised"
       \/ phase = "page" /\ Stuck
    /\ EndSync
    /\ UNCHANGED <<dropbox, platform, dest, spent>>

\* A call raises, the consumer stops, or the process is killed.
Stop ==
    /\ phase # "idle"
    /\ Disturb
    /\ EndSync
    /\ UNCHANGED <<dropbox, platform, dest>>

-----------------------------------------------------------------------------
\* A file is edited, and maybe too large from then on, or deleted.
ChangeFile(f) ==
    /\ Disturb
    /\ version[f] # 0
    /\ version' \in {[version EXCEPT ![f] = 0], [version EXCEPT ![f] = @ + 1]}
    /\ small' \in {small \ {f}, small \cup {f}}
    \* The conversion may have read the file before, or will read the new version.
    /\ text' \in IF phase = "extract" /\ answer = "none" /\ file.id = f /\ version'[f] # 0
                 THEN {text, version'[f]} ELSE {text}
    /\ UNCHANGED <<platform, dest, phase, state, left, recovered, page, file, rivieraVars>>

SelectRoots ==
    /\ phase = "idle"
    /\ Disturb
    /\ selection' \in {{Current}} \cup ((SUBSET Namespaces) \ {{}})
    /\ UNCHANGED <<dropbox, saved, dest, phase, state, left, recovered, page, file, text, rivieraVars>>

\* The operator resets a state no sync can go on from.
ResetState ==
    /\ phase = "idle"
    /\ Refused \/ (Mode = "files" /\ saved.kind = "namespaces")
    /\ saved' = NoState
    /\ UNCHANGED <<dropbox, selection, dest, phase, state, left, recovered, page, file, text, spent,
                   rivieraVars>>

-----------------------------------------------------------------------------
ContentsSync ==
    \/ SyncStart \/ ListRoot \/ PassOver \/ Extract \/ Convert \/ Yield
    \/ NoteVersion \/ NextRoot \/ SyncRaises

FileContentsNext ==
    \/ ContentsSync
    \/ Relist \/ Stop \/ SelectRoots \/ ResetState
    \/ \E f \in Files : ChangeFile(f)

-----------------------------------------------------------------------------
StateDocs == [kind : {"none", "files", "namespaces"}, files : [Roots -> [Files -> Nat]]]
FileContentsTypeOK ==
    /\ RivieraTypeOK
    /\ version \in [Files -> Nat] /\ small \subseteq Files
    /\ selection \subseteq Roots /\ saved \in StateDocs
    /\ dest \in [Roots -> [Files -> [listed : Nat, status : Answers \cup {"none"}, text : Nat]]]
    /\ phase \in {"idle", "list", "page", "extract", "yielded"}
    /\ state \in StateDocs /\ left \subseteq selection /\ recovered \in BOOLEAN
    /\ phase = "idle" <=> left = {}
    /\ page \subseteq Listed /\ file \in Listed \cup {NoFile} /\ text \in Nat
    /\ phase \in {"extract", "yielded"} <=> file # NoFile
    /\ spent \in 0 .. Budget

\* A version in the saved state has been answered for: the last record under that root
\* is of this version, final, and with a text no older than it, or is of a later one.
NotedIsExtracted ==
    \A r \in Roots, f \in Files :
        LET v == saved.files[r][f]  x == dest[r][f]
        IN  v # 0 => /\ x.listed >= v
                     /\ x.listed = v => \/ x.status = "succeeded" /\ x.text >= v
                                        \/ x.status = "failed"

\* A step that writes a record: the version is not in the saved state of that root, and
\* not earlier than that of the record it replaces.
ExtractsOnce ==
    \A r \in Roots, f \in Files :
        dest'[r][f] # dest[r][f] =>
            /\ dest'[r][f].listed # saved.files[r][f]
            /\ dest'[r][f].listed >= dest[r][f].listed

\* A step leaves the kind of the saved versions, one root's or namespaces', as it is, but
\* for the reset of the state.
KeepsModesApart ==
    \/ saved.kind \in {"none", saved'.kind}
    \/ saved.kind = "files" /\ ~HasVersions
    \/ saved' = NoState /\ phase = "idle"

\* What syncs come to: every eligible file under the selected roots is converted in its
\* last version, and was not given up.
AllExtracted ==
    \A r \in selection, f \in Files :
        f \in Shows[r] /\ f \in small /\ version[f] # 0 =>
            dest[r][f].status # "timed_out" /\ dest[r][f].listed = version[f]
=============================================================================
