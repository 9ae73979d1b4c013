---------------------------- MODULE NativeSource ----------------------------
(***************************************************************************)
(* One sync attempt of source-dropbox-files: compute_slices lists the      *)
(* folder (a delta from the cursor, or a snapshot) and plans; then         *)
(* read_records_from_slice emits the planned moves and deletes, transfers  *)
(* the planned files and moves the cursor; the CDK emits one state message *)
(* at the end of the slice.  Messages go to the destination on a channel.  *)
(*                                                                         *)
(* plan_delta loops over the listed files and then over the tombstones;    *)
(* plan_inventory over the listed ids and then over the removed ids.  One  *)
(* step below is one iteration.  The map the plan reads does not change    *)
(* before the first control record is emitted, so an iteration of          *)
(* plan_delta is taken as its entry is listed.                             *)
(***************************************************************************)
EXTENDS FileVersionCursor

CONSTANTS
    Paged       \* may a listing span pages the folder changes between?

ASSUME PagedAssumption == Paged \in BOOLEAN

VARIABLES
    pc,         \* where the attempt is; "idle" between attempts
    pos,        \* the position in the journal listed so far
    pageEnd,    \* the position the current page reaches: reader.last_cursor
    more,       \* has_more of the current page
    inventory,  \* plan_inventory's inventory: id -> listed version or Absent
    todo,       \* ids a planning loop has still to visit
    deleted,    \* deleted_paths of a delta still to be planned
    consumed,   \* consumed_rename_old_paths of a delta
    ops,        \* planned operations still to emit
    transfers,  \* planned files still to transfer
    sawError,   \* an ERROR log was seen in this slice
    channel     \* messages written and not yet read by the destination

listVars == <<pos, pageEnd, more>>
planVars == <<inventory, todo, deleted, consumed>>
sourceVars == <<cursorVars, pc, listVars, planVars, ops, transfers, sawError, channel>>

PCs == {"idle", "delta", "tombstones", "snapshot", "relist", "inventory", "removals",
        "emit", "transfer", "done", "failed"}

FileMsg(t) == [kind |-> "file", id |-> t.id, path |-> t.path, rev |-> t.rev]
StateMsg(s) == [kind |-> "state", state |-> s]
FileMsgs == [kind : {"file"}, id : Ids, path : Paths, rev : Revs]
StateMsgs == [kind : {"state"}, state : State]
Records == MoveOps \cup DeleteOps \cup FileMsgs

SourceTypeOK ==
    /\ CursorTypeOK
    /\ pc \in PCs
    /\ pos \in Nat /\ pageEnd \in Nat /\ more \in BOOLEAN
    /\ inventory \in FileMap
    /\ todo \in SUBSET Ids
    /\ deleted \in SUBSET Paths
    /\ consumed \in SUBSET {Fold[p] : p \in Paths}
    /\ ops \in Seq(MoveOps \cup DeleteOps)
    /\ transfers \in Seq(Transfers)
    /\ sawError \in BOOLEAN
    /\ channel \in Seq(Records \cup StateMsgs)

\* No process between attempts: everything but the durable state is gone.
NoAttempt ==
    /\ files = NoFiles /\ cursor = NoCursor
    /\ pc = "idle"
    /\ pos = 0 /\ pageEnd = 0 /\ more = FALSE
    /\ inventory = NoFiles
    /\ todo = {} /\ deleted = {} /\ consumed = {}
    /\ ops = <<>> /\ transfers = <<>>
    /\ sawError = FALSE
    /\ channel = <<>>

\* The process ends, by itself or not.
EndAttempt ==
    /\ files' = NoFiles /\ cursor' = NoCursor
    /\ pc' = "idle"
    /\ pos' = 0 /\ pageEnd' = 0 /\ more' = FALSE
    /\ inventory' = NoFiles
    /\ todo' = {} /\ deleted' = {} /\ consumed' = {}
    /\ ops' = <<>> /\ transfers' = <<>>
    /\ sawError' = FALSE
    /\ channel' = <<>>

-----------------------------------------------------------------------------
(* compute_slices: a delta if the state has a cursor, else a snapshot.     *)

StartAttempt(state) ==
    /\ pc = "idle"
    /\ SetInitialState(state)
    /\ IF state.cursor # NoCursor
         THEN /\ pc' = "delta"
              /\ pos' = state.cursor /\ pageEnd' = state.cursor
         ELSE /\ pc' = "snapshot"
              /\ UNCHANGED <<pos, pageEnd>>
    /\ more' = TRUE
    /\ UNCHANGED <<planVars, ops, transfers, sawError, channel>>

\* iter_delta_entries: the next page from files_list_folder_continue.
DeltaPage(last) ==
    /\ pc = "delta" /\ pos = pageEnd /\ more
    /\ last \in pos .. Len(journal)
    /\ last < Len(journal) => Paged /\ pos < last
    /\ pageEnd' = last
    /\ more' = (last < Len(journal))
    /\ UNCHANGED <<cursorVars, pc, pos, planVars, ops, transfers, sawError, channel>>

\* Dropbox has reset the cursor: what was listed is dropped for a rescan.
CursorReset ==
    /\ pc = "delta" /\ pos = pageEnd /\ more
    /\ pc' = "snapshot"
    /\ pos' = 0 /\ pageEnd' = 0
    /\ deleted' = {} /\ consumed' = {}
    /\ ops' = <<>> /\ transfers' = <<>>
    /\ UNCHANGED <<cursorVars, more, inventory, todo, sawError, channel>>

\* _delta_changes skips an entry that is too large or not selected before
\* plan_delta can see it; a change of the path consumes the pinned old path.
PlanChangedFile(e) ==
    /\ UNCHANGED deleted
    /\ IF TooLarge(e.rev) \/ ~Selected(e.path)
         THEN UNCHANGED <<consumed, ops, transfers>>
         ELSE /\ consumed' = IF Tracked(e.id) /\ files[e.id].path # e.path
                               THEN consumed \cup {Fold[files[e.id].path]}
                               ELSE consumed
              /\ ops' = ops \o PlannedOps(e.id, e)
              /\ transfers' = transfers \o PlannedTransfers(e.id, e)

DeltaEntry ==
    /\ pc = "delta" /\ pos < pageEnd
    /\ pos' = pos + 1
    /\ LET e == journal[pos + 1] IN
         IF ~Latest(pos + 1)
           THEN UNCHANGED <<deleted, consumed, ops, transfers>>
         ELSE IF e.id = 0
           THEN /\ deleted' = deleted \cup {e.path}
                /\ UNCHANGED <<consumed, ops, transfers>>
           ELSE PlanChangedFile(e)
    /\ UNCHANGED <<cursorVars, pc, pageEnd, more, inventory, todo, sawError, channel>>

DeltaListed ==
    /\ pc = "delta" /\ pos = pageEnd /\ ~more
    /\ pc' = IF DeletePolicy = "delete" THEN "tombstones" ELSE "emit"
    /\ UNCHANGED <<cursorVars, listVars, planVars, ops, transfers, sawError, channel>>

\* Mutant: the tombstone of a renamed file is not told from a deletion.
PlanTombstoneOfRename(p) ==
    /\ pc = "tombstones"
    /\ p \in deleted /\ \A q \in deleted : Fold[p] <= Fold[q]
    /\ deleted' = deleted \ {p}
    /\ IF PinnedTo(Fold[p]) = {}
         THEN UNCHANGED ops
         ELSE \E id \in Ids : /\ ByPath(id, Fold[p])
                              /\ ops' = Append(ops, DeleteOp(id, files[id]))
    /\ UNCHANGED <<cursorVars, pc, listVars, inventory, todo, consumed, transfers,
                   sawError, channel>>

\* plan_delta's second loop, in the order of the casefolded paths.
PlanTombstone(p) ==
    /\ pc = "tombstones"
    /\ p \in deleted /\ \A q \in deleted : Fold[p] <= Fold[q]
    /\ deleted' = deleted \ {p}
    /\ IF Fold[p] \in consumed \/ PinnedTo(Fold[p]) = {}
         THEN UNCHANGED ops
         ELSE \E id \in Ids : /\ ByPath(id, Fold[p])
                              /\ ops' = Append(ops, DeleteOp(id, files[id]))
    /\ UNCHANGED <<cursorVars, pc, listVars, inventory, todo, consumed, transfers,
                   sawError, channel>>

TombstonesPlanned ==
    /\ pc = "tombstones" /\ deleted = {}
    /\ pc' = "emit"
    /\ UNCHANGED <<cursorVars, listVars, planVars, ops, transfers, sawError, channel>>

-----------------------------------------------------------------------------
(* _snapshot_slice: the whole folder, then a page of what changed since.   *)

ListFolder ==
    /\ pc = "snapshot"
    /\ inventory' = [id \in Ids |->
                       IF Exists(id) /\ Selected(live[id].path) THEN live[id] ELSE Absent]
    /\ pos' = Len(journal) /\ pageEnd' = Len(journal)
    /\ pc' = "relist"
    /\ more' \in {FALSE, Paged}
    /\ UNCHANGED <<cursorVars, todo, deleted, consumed, ops, transfers, sawError, channel>>

\* A further page.  Tombstones on it are ignored (reader.py:166) and an id that
\* is already listed is an error (cursor.py:180).
Relisted == {k \in (pos + 1) .. Len(journal) :
                /\ Latest(k)
                /\ journal[k].id # 0 /\ Selected(journal[k].path)}

SnapshotPage ==
    /\ pc = "relist" /\ more
    /\ pos' = Len(journal) /\ pageEnd' = Len(journal) /\ more' = FALSE
    /\ IF \E k \in Relisted : inventory[journal[k].id] # Absent
         THEN /\ pc' = "failed"
              /\ UNCHANGED inventory
         ELSE /\ inventory' = [id \in Ids |->
                    IF \E k \in Relisted : journal[k].id = id
                      THEN LET k == CHOOSE k \in Relisted : journal[k].id = id
                           IN  [path |-> journal[k].path, rev |-> journal[k].rev]
                      ELSE inventory[id]]
              /\ UNCHANGED pc
    /\ UNCHANGED <<cursorVars, todo, deleted, consumed, ops, transfers, sawError, channel>>

SnapshotListed ==
    /\ pc = "relist" /\ ~more
    /\ pc' = "inventory"
    /\ todo' = {id \in Ids : inventory[id] # Absent}
    /\ UNCHANGED <<cursorVars, listVars, inventory, deleted, consumed, ops, transfers,
                   sawError, channel>>

\* plan_inventory's first loop.  A file that is too large is planned like the
\* others, so that it counts as present, and its transfer is dropped after.
PlanInventory(id) ==
    /\ pc = "inventory"
    /\ id \in todo /\ \A other \in todo : id <= other
    /\ todo' = todo \ {id}
    /\ ops' = ops \o PlannedOps(id, inventory[id])
    /\ transfers' = IF TooLarge(inventory[id].rev)
                      THEN transfers
                      ELSE transfers \o PlannedTransfers(id, inventory[id])
    /\ UNCHANGED <<cursorVars, pc, listVars, inventory, deleted, consumed, sawError, channel>>

InventoryPlanned ==
    /\ pc = "inventory" /\ todo = {}
    /\ IF DeletePolicy = "delete"
         THEN /\ pc' = "removals"
              /\ todo' = {id \in Ids : Tracked(id) /\ inventory[id] = Absent}
         ELSE /\ pc' = "emit"
              /\ UNCHANGED todo
    /\ UNCHANGED <<cursorVars, listVars, inventory, deleted, consumed, ops, transfers,
                   sawError, channel>>

PlanRemoval(id) ==
    /\ pc = "removals"
    /\ id \in todo /\ \A other \in todo : id <= other
    /\ todo' = todo \ {id}
    /\ ops' = Append(ops, DeleteOp(id, files[id]))
    /\ UNCHANGED <<cursorVars, pc, listVars, inventory, deleted, consumed, transfers,
                   sawError, channel>>

RemovalsPlanned ==
    /\ pc = "removals" /\ todo = {}
    /\ pc' = "emit"
    /\ UNCHANGED <<cursorVars, listVars, planVars, ops, transfers, sawError, channel>>

-----------------------------------------------------------------------------
(* read_records_from_slice.                                                *)

\* Mutant: a delete is taken off the map and its record is not emitted.
EmitOnlyMoves ==
    /\ pc = "emit" /\ ops # <<>>
    /\ LET op == Head(ops) IN
         /\ channel' = IF op.kind = "move" THEN Append(channel, op) ELSE channel
         /\ IF Tracked(op.id)
              THEN /\ IF op.kind = "move" THEN MarkMove(op) ELSE MarkDelete(op)
                   /\ ops' = Tail(ops)
                   /\ UNCHANGED pc
              ELSE /\ pc' = "failed"
                   /\ UNCHANGED <<files, ops>>
    /\ UNCHANGED <<cursor, listVars, planVars, transfers, sawError>>

\* The control record is emitted first and the map follows it; an operation
\* that does not match the map raises after its record was emitted.
EmitOperation ==
    /\ pc = "emit" /\ ops # <<>>
    /\ LET op == Head(ops) IN
         /\ channel' = Append(channel, op)
         /\ IF Tracked(op.id)
              THEN /\ IF op.kind = "move" THEN MarkMove(op) ELSE MarkDelete(op)
                   /\ ops' = Tail(ops)
                   /\ UNCHANGED pc
              ELSE /\ pc' = "failed"
                   /\ UNCHANGED <<files, ops>>
    /\ UNCHANGED <<cursor, listVars, planVars, transfers, sawError>>

OperationsEmitted ==
    /\ pc = "emit" /\ ops = <<>>
    /\ pc' = "transfer"
    /\ UNCHANGED <<cursorVars, listVars, planVars, ops, transfers, sawError, channel>>

\* The download is by id: it is staged when the revision is still the listed one.
TransferFile ==
    /\ pc = "transfer" /\ transfers # <<>>
    /\ LET t == Head(transfers) IN
         /\ live[t.id].rev = t.rev
         /\ channel' = Append(channel, FileMsg(t))
         /\ AddFile(t)
    /\ transfers' = Tail(transfers)
    /\ UNCHANGED <<cursor, pc, listVars, planVars, ops, sawError>>

\* Mutant: the map is told of a file that was skipped.
SkipFileButTrackIt ==
    /\ pc = "transfer" /\ transfers # <<>>
    /\ AddFile(Head(transfers))
    /\ transfers' = Tail(transfers)
    /\ sawError' = TRUE
    /\ UNCHANGED <<cursor, pc, listVars, planVars, ops, channel>>

\* A file that is gone, has changed or cannot be downloaded is skipped with an
\* ERROR log.
SkipFile ==
    /\ pc = "transfer" /\ transfers # <<>>
    /\ transfers' = Tail(transfers)
    /\ sawError' = TRUE
    /\ UNCHANGED <<cursorVars, pc, listVars, planVars, ops, channel>>

\* Mutant: the cursor moves although a file was skipped.
FinishDespiteErrors ==
    /\ pc = "transfer" /\ transfers = <<>>
    /\ cursor' = pageEnd
    /\ channel' = Append(channel, StateMsg([files |-> files, cursor |-> cursor']))
    /\ pc' = "done"
    /\ UNCHANGED <<files, listVars, planVars, ops, transfers, sawError>>

\* The cursor moves only if no file was skipped; the state follows the records.
Finish ==
    /\ pc = "transfer" /\ transfers = <<>>
    /\ cursor' = IF sawError THEN cursor ELSE pageEnd
    /\ channel' = Append(channel, StateMsg([files |-> files, cursor |-> cursor']))
    /\ pc' = "done"
    /\ UNCHANGED <<files, listVars, planVars, ops, transfers, sawError>>

SourceStep ==
    \/ \E last \in 0 .. MaxEvents : DeltaPage(last)
    \/ DeltaEntry
    \/ DeltaListed
    \/ \E p \in Paths : PlanTombstone(p)
    \/ TombstonesPlanned
    \/ ListFolder
    \/ SnapshotPage
    \/ SnapshotListed
    \/ \E id \in Ids : PlanInventory(id)
    \/ InventoryPlanned
    \/ \E id \in Ids : PlanRemoval(id)
    \/ RemovalsPlanned
    \/ EmitOperation
    \/ OperationsEmitted
    \/ TransferFile
    \/ Finish

\* Points at which an attempt waits for Dropbox, and so the folder may change:
\* between the pages of a listing and before a download.
AwaitsDropbox ==
    \/ Paged /\ pc = "delta" /\ pos = pageEnd /\ more
    \/ Paged /\ pc = "relist" /\ more
    \/ pc = "transfer" /\ transfers # <<>>
=============================================================================
