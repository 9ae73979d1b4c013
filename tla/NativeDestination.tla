-------------------------- MODULE NativeDestination --------------------------
(***************************************************************************)
(* destination-dropbox-files: DestinationDropboxFiles.write handles one    *)
(* message at a time and any failure raises, which ends the attempt.  A    *)
(* file is committed as a whole (UploadSession models how); a control      *)
(* record looks the paths up, compares content hashes and then moves or    *)
(* deletes.  Paths of the destination are keyed by their casefolded form.  *)
(***************************************************************************)
EXTENDS FileVersionCursor

CONSTANTS
    ConflictPolicy,     \* "overwrite" or "fail"
    NoFile              \* what the destination holds at an empty path

ASSUME DestinationAssumption ==
    /\ ConflictPolicy \in {"overwrite", "fail"}
    /\ \A r \in Revs : Hash[r] # NoFile

VARIABLES
    dest,       \* content hash at each casefolded path, or NoFile
    applied     \* history: the records the destination has applied

destinationVars == <<dest, applied>>

Keys == {Fold[p] : p \in Paths}
Hashes == {Hash[r] : r \in Revs}

DestinationInit ==
    /\ dest = [k \in Keys |-> NoFile]
    /\ applied = {}

-----------------------------------------------------------------------------
Applied(r) == applied' = applied \cup {r}

\* upload_staged_file: overwrite replaces whatever is at the path; fail commits
\* with WriteMode.add and strict_conflict.
MayUpload(r) == ConflictPolicy = "overwrite" \/ dest[Fold[r.path]] = NoFile

Upload(r) ==
    /\ MayUpload(r)
    /\ dest' = [dest EXCEPT ![Fold[r.path]] = Hash[r.rev]]
    /\ Applied(r)

\* _move_file: an absent source means the move was made before if the new path
\* holds the old or the new content.
AlreadyMoved(r) ==
    /\ dest[Fold[r.old]] = NoFile
    /\ dest[Fold[r.new]] \in {r.oldHash, r.newHash}

MayMove(r) ==
    /\ dest[Fold[r.old]] = r.oldHash
    /\ dest[Fold[r.new]] = NoFile

Move(r) ==
    /\ MayMove(r)
    /\ dest' = [dest EXCEPT ![Fold[r.new]] = dest[Fold[r.old]], ![Fold[r.old]] = NoFile]
    /\ Applied(r)

AcceptMoved(r) ==
    /\ AlreadyMoved(r)
    /\ UNCHANGED dest
    /\ Applied(r)

\* _delete_file: an absent target is already deleted.
MayDelete(r) == dest[Fold[r.old]] \in {NoFile, r.oldHash}

Delete(r) ==
    /\ MayDelete(r)
    /\ dest' = [dest EXCEPT ![Fold[r.old]] = NoFile]
    /\ Applied(r)

\* write, for one record.
ApplyRecord(r) ==
    \/ r.kind = "file" /\ Upload(r)
    \/ r.kind = "move" /\ Move(r)
    \/ r.kind = "move" /\ AcceptMoved(r)
    \/ r.kind = "delete" /\ Delete(r)

Raises(r) ==
    \/ r.kind = "file" /\ ~MayUpload(r)
    \/ r.kind = "move" /\ ~MayMove(r) /\ ~AlreadyMoved(r)
    \/ r.kind = "delete" /\ ~MayDelete(r)
=============================================================================
