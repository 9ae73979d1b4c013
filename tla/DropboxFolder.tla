---------------------------- MODULE DropboxFolder ----------------------------
(***************************************************************************)
(* The source folder as the native file-transfer source uses it (external: *)
(* Dropbox is not under src/).  reader.py calls files_list_folder,         *)
(* files_list_folder_continue and files_download and relies on:            *)
(*   - a stable id per file, a new revision per write, a content hash that *)
(*     the revision determines, and an id that is not used again once its  *)
(*     file is deleted;                                                    *)
(*   - a change feed: a list_folder cursor is a position in the history of *)
(*     changes, and a listing from it shows each path changed since once,  *)
(*     as the file now there or as a deletion; it comes in pages, and the  *)
(*     folder may change between two pages.  A rename is a deletion of the *)
(*     old path and a file at the new one (test_cursor.py:358);            *)
(*   - a download by id that returns the current revision or an ApiError.  *)
(* Ids and paths are numbered in their sort order, because cursor.py plans *)
(* in that order.  0 stands for the absence of an id, a path or a revision.*)
(* Dropbox paths are case-insensitive: Fold maps a path to its casefolded  *)
(* form, the identity where a model has no two spellings of one path.      *)
(***************************************************************************)
EXTENDS Integers, Sequences

CONSTANTS
    Ids,        \* file ids
    Paths,      \* paths relative to the configured root
    Fold,       \* the casefolded form of a path
    Revs,       \* revisions, one per write
    Hash,       \* the content hash of a revision
    BigRevs,    \* revisions larger than file_transfer.max_file_size_mb
    GlobPaths,  \* paths the stream's globs match
    ReusePaths, \* may a path that held one file come to hold another?
    MaxEvents   \* bound: changes of the folder in a behaviour

ASSUME FolderAssumption ==
    /\ Ids \subseteq Nat \ {0}
    /\ Paths \subseteq Nat \ {0}
    /\ Fold \in [Paths -> Nat \ {0}]
    /\ Revs \subseteq Nat \ {0}
    /\ BigRevs \subseteq Revs
    /\ GlobPaths \subseteq Paths
    /\ DOMAIN Hash = Revs
    /\ ReusePaths \in BOOLEAN
    /\ MaxEvents \in Nat

VARIABLES
    live,       \* what the folder holds: the path and revision of each id
    journal     \* the history of changes the list_folder cursors point into

folderVars == <<live, journal>>

Absent == [path |-> 0, rev |-> 0]
Version == [path : Paths, rev : Revs]
Event == [path : Paths, id : Ids, rev : Revs] \cup [path : Paths, id : {0}, rev : {0}]

FileAt(p, id, r) == [path |-> p, id |-> id, rev |-> r]
Tombstone(p) == [path |-> p, id |-> 0, rev |-> 0]

FolderTypeOK ==
    /\ live \in [Ids -> Version \cup {Absent}]
    /\ journal \in Seq(Event)

FolderInit ==
    /\ live = [id \in Ids |-> Absent]
    /\ journal = <<>>

-----------------------------------------------------------------------------
Exists(id) == live[id] # Absent
Written == {journal[k].rev : k \in DOMAIN journal} \ {0}
FreshRevs == {r \in Revs : \A w \in Written : w < r}

SamePath(p, q) == Fold[p] = Fold[q]

\* A path may be taken when no other file is there and, unless ReusePaths, none
\* ever was.
MayTake(id, p) ==
    /\ \A other \in Ids \ {id} : Exists(other) => ~SamePath(live[other].path, p)
    /\ \/ ReusePaths
       \/ \A k \in DOMAIN journal :
             SamePath(journal[k].path, p) => journal[k].id \in {0, id}

Record(events) ==
    /\ Len(journal) + Len(events) <= MaxEvents
    /\ journal' = journal \o events

\* The next revision: the least one above all written so far.
NextRev(r) == r \in FreshRevs /\ \A q \in FreshRevs : r <= q

Create(id, p, r) ==
    /\ \A k \in DOMAIN journal : journal[k].id # id
    /\ MayTake(id, p)
    /\ NextRev(r)
    /\ live' = [live EXCEPT ![id] = [path |-> p, rev |-> r]]
    /\ Record(<<FileAt(p, id, r)>>)

Write(id, r) ==
    /\ Exists(id)
    /\ NextRev(r)
    /\ live' = [live EXCEPT ![id].rev = r]
    /\ Record(<<FileAt(live[id].path, id, r)>>)

\* A rename that only changes the spelling leaves no deletion behind.
Rename(id, p) ==
    /\ Exists(id)
    /\ p # live[id].path
    /\ MayTake(id, p)
    /\ live' = [live EXCEPT ![id].path = p]
    /\ Record((IF SamePath(p, live[id].path) THEN <<>> ELSE <<Tombstone(live[id].path)>>)
              \o <<FileAt(p, id, live[id].rev)>>)

Remove(id) ==
    /\ Exists(id)
    /\ live' = [live EXCEPT ![id] = Absent]
    /\ Record(<<Tombstone(live[id].path)>>)

FolderChange ==
    \E id \in Ids :
        \/ \E p \in Paths, r \in Revs : Create(id, p, r)
        \/ \E r \in Revs : Write(id, r)
        \/ \E p \in Paths : Rename(id, p)
        \/ Remove(id)

-----------------------------------------------------------------------------
\* A listing shows a change only while it is the last one of its path.
Latest(k) ==
    \A m \in (k + 1) .. Len(journal) : ~SamePath(journal[m].path, journal[k].path)

\* The files a stream is configured to select (reader.py file_matches_globs).
Selected(p) == p \in GlobPaths
TooLarge(r) == r \in BigRevs
=============================================================================
