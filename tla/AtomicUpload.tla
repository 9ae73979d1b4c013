---------------------------- MODULE AtomicUpload ----------------------------
(***************************************************************************)
(* What uploading one staged file promises, whatever its size, however it  *)
(* is cut into chunks and whichever replies are lost: at one instant, at   *)
(* most once, the whole file appears at the destination path; success is   *)
(* reported only after that instant; and with conflict_policy "fail" the   *)
(* instant never comes while the path is taken.                            *)
(***************************************************************************)
CONSTANTS
    ConflictPolicy,     \* "overwrite" or "fail"
    NoFile,             \* nothing at the destination path
    Foreign             \* what another writer puts there

VARIABLES
    file,               \* the staged file
    dest,               \* what is at the destination path
    committed,          \* has the file been committed?
    result              \* "none", "done" or "failed"

vars == <<file, dest, committed, result>>

Init == dest = NoFile /\ committed = FALSE /\ result = "none"

Commit ==
    /\ result = "none" /\ ~committed
    /\ ConflictPolicy = "fail" => dest = NoFile
    /\ dest' = file
    /\ committed' = TRUE
    /\ result' \in {"none", "done", "failed"}
    /\ UNCHANGED file

Fail ==
    /\ result = "none"
    /\ result' = "failed"
    /\ UNCHANGED <<file, dest, committed>>

ForeignWrite ==
    /\ dest' = Foreign
    /\ UNCHANGED <<file, committed, result>>

Next == Commit \/ Fail \/ ForeignWrite

Spec == Init /\ [][Next]_vars
=============================================================================
