-------------------------- MODULE FileVersionCursor --------------------------
(***************************************************************************)
(* DropboxFileVersionCursor (source_dropbox_files/cursor.py): the map from *)
(* stable file id to the path, revision and hash last staged, and the      *)
(* decisions taken for one file, one tombstone or one removed id.  A       *)
(* revision stands for the pair (rev, content_hash): Hash gives the hash.  *)
(***************************************************************************)
EXTENDS DropboxFolder

CONSTANTS
    RenamePolicy,   \* "ignore" or "propagate"
    DeletePolicy    \* "ignore" or "delete"

ASSUME PolicyAssumption ==
    /\ RenamePolicy \in {"ignore", "propagate"}
    /\ DeletePolicy \in {"ignore", "delete"}

VARIABLES
    files,      \* _files: id -> [path, rev], Absent when not tracked
    cursor      \* _cursor: a list_folder cursor or NoCursor

cursorVars == <<files, cursor>>

NoCursor == -1
FileMap == [Ids -> Version \cup {Absent}]
NoFiles == [id \in Ids |-> Absent]
NoState == [files |-> NoFiles, cursor |-> NoCursor]
State == [files : FileMap, cursor : Nat \cup {NoCursor}]

CursorTypeOK ==
    /\ files \in FileMap
    /\ cursor \in Nat \cup {NoCursor}

-----------------------------------------------------------------------------
Tracked(id) == files[id] # Absent

BytesChanged(previous, current) ==
    \/ previous.rev # current.rev
    \/ Hash[previous.rev] # Hash[current.rev]

\* Mutant: the move expects the bytes that are listed now.
MoveOpOfListedBytes(id, previous, current) ==
    [kind |-> "move", id |-> id,
     old |-> previous.path, oldHash |-> Hash[current.rev],
     new |-> current.path, newHash |-> Hash[current.rev]]

MoveOp(id, previous, current) ==
    [kind |-> "move", id |-> id,
     old |-> previous.path, oldHash |-> Hash[previous.rev],
     new |-> current.path, newHash |-> Hash[current.rev]]

DeleteOp(id, previous) ==
    [kind |-> "delete", id |-> id,
     old |-> previous.path, oldHash |-> Hash[previous.rev]]

MoveOps == [kind : {"move"}, id : Ids, old : Paths, oldHash : {Hash[r] : r \in Revs},
            new : Paths, newHash : {Hash[r] : r \in Revs}]
DeleteOps == [kind : {"delete"}, id : Ids, old : Paths, oldHash : {Hash[r] : r \in Revs}]

\* A file to transfer and the destination-relative path it is written to.
Transfer(id, p, r) == [id |-> id, path |-> p, rev |-> r]
Transfers == [id : Ids, path : Paths, rev : Revs]

\* The operations and transfers planned for one listed file, the same in
\* plan_inventory and plan_delta: a new file is transferred; a renamed one is
\* moved when renames are propagated and otherwise stays pinned to the path it
\* was first written to; changed bytes are transferred to the path that results.
PlannedOps(id, current) ==
    IF Tracked(id) /\ files[id].path # current.path /\ RenamePolicy = "propagate"
      THEN <<MoveOp(id, files[id], current)>>
      ELSE <<>>

\* Mutant: a file that was renamed is not looked at for changed bytes.
TransfersUnlessRenamed(id, current) ==
    IF ~Tracked(id) \/ (files[id].path = current.path /\ BytesChanged(files[id], current))
      THEN <<Transfer(id, current.path, current.rev)>>
      ELSE <<>>

\* Mutant: changed bytes go to the current path whatever the rename policy.
TransfersUnpinned(id, current) ==
    IF ~Tracked(id) \/ BytesChanged(files[id], current)
      THEN <<Transfer(id, current.path, current.rev)>>
      ELSE <<>>

PlannedTransfers(id, current) ==
    IF ~Tracked(id)
      THEN <<Transfer(id, current.path, current.rev)>>
    ELSE IF BytesChanged(files[id], current)
      THEN <<Transfer(id,
                      IF RenamePolicy = "propagate" THEN current.path ELSE files[id].path,
                      current.rev)>>
      ELSE <<>>

\* by_path: the id a casefolded path is pinned to.  The dict is built over the
\* map in id order (get_state sorts it), so of two ids at a path the last wins.
PinnedTo(key) == {id \in Ids : Tracked(id) /\ Fold[files[id].path] = key}
ByPath(id, key) == id \in PinnedTo(key) /\ \A other \in PinnedTo(key) : other <= id

-----------------------------------------------------------------------------
SetInitialState(state) ==
    /\ files' = state.files
    /\ cursor' = state.cursor

MarkMove(op) ==
    /\ Tracked(op.id)
    /\ files' = [files EXCEPT ![op.id].path = op.new]

\* Mutant: the entry of a deleted file keeps its path.
MarkDeleteRevOnly(op) ==
    /\ Tracked(op.id)
    /\ files' = [files EXCEPT ![op.id].rev = 0]

MarkDelete(op) ==
    /\ Tracked(op.id)
    /\ files' = [files EXCEPT ![op.id] = Absent]

AddFile(t) == files' = [files EXCEPT ![t.id] = [path |-> t.path, rev |-> t.rev]]
=============================================================================
