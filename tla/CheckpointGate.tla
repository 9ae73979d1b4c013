--------------------------- MODULE CheckpointGate ---------------------------
(***************************************************************************)
(* What the native file-transfer pair promises about its state, whatever   *)
(* is listed, planned, skipped, refused or aborted: records take effect at *)
(* the destination one at a time, and a checkpoint changes what it says of *)
(* a file only on the word of a record that already took effect: a file    *)
(* record or a move that puts the file where the checkpoint says it is, or *)
(* a deletion of the file.                                                 *)
(***************************************************************************)
CONSTANTS
    Ids,            \* file ids
    Records,        \* records a source can send
    Absent,         \* the entry of a file the checkpoint does not know
    Hash            \* the content hash of a revision

VARIABLES
    applied,        \* the records that have taken effect
    checkpoint      \* what the last checkpoint says of each file

vars == <<applied, checkpoint>>

\* A record that puts a file where an entry says it is.
Covers(r, id, entry) ==
    \/ r.kind = "file" /\ r.id = id /\ r.path = entry.path /\ r.rev = entry.rev
    \/ r.kind = "move" /\ r.id = id /\ r.new = entry.path /\ r.oldHash = Hash[entry.rev]

Deletes(r, id) == r.kind = "delete" /\ r.id = id

Init ==
    /\ applied = {}
    /\ checkpoint = [id \in Ids |-> Absent]

Apply ==
    /\ \E r \in Records : applied' = applied \cup {r}
    /\ UNCHANGED checkpoint

Justified(id, entry) ==
    \/ entry = checkpoint[id]
    \/ entry # Absent /\ \E r \in applied : Covers(r, id, entry)
    \/ entry = Absent /\ \E r \in applied : Deletes(r, id)

Pass ==
    /\ \A id \in Ids : Justified(id, checkpoint'[id])
    /\ UNCHANGED applied

Next == Apply \/ Pass

Spec == Init /\ [][Next]_vars
=============================================================================
