-------------------------- MODULE FileTransferProofs --------------------------
(***************************************************************************)
(* Proofs about FileTransfer for every value of its constants.             *)
(*                                                                         *)
(* TypeCorrect      Spec => []TypeOK                                       *)
(* MapsVouchedFor   Spec => []GateInv                                      *)
(* StateGateHolds   Spec => []StateGate                                    *)
(* GateRefined      Spec => ImplementsGate                                 *)
(***************************************************************************)
EXTENDS FileTransferProperties, TLAPS

-----------------------------------------------------------------------------
(* The operators the plan is built from.                                   *)

\* An entry of the map is a version or the absence of one, never both.
LEMMA AbsentIsNoVersion == Absent \notin Version
  BY FolderAssumption DEF Absent, Version

LEMMA TrackedIsVersion ==
  ASSUME files \in FileMap, NEW id \in Ids, Tracked(id)
  PROVE  files[id] \in Version
  BY DEF FileMap, Tracked

\* A planned operation is a move of a tracked file with the hash of the tracked
\* revision.
LEMMA PlannedOpsType ==
  ASSUME files \in FileMap, NEW id \in Ids, NEW e, e.path \in Paths, e.rev \in Revs
  PROVE  \/ PlannedOps(id, e) = <<>>
         \/ /\ PlannedOps(id, e) = <<MoveOp(id, files[id], e)>>
            /\ Tracked(id)
            /\ MoveOp(id, files[id], e) \in MoveOps
<1>1. Tracked(id) => MoveOp(id, files[id], e) \in MoveOps
  <2>1. SUFFICES ASSUME Tracked(id) PROVE MoveOp(id, files[id], e) \in MoveOps
    OBVIOUS
  <2>2. files[id] \in Version
    BY <2>1, TrackedIsVersion
  <2>3. QED
    BY <2>2, FolderAssumption DEF MoveOp, MoveOps, Version
<1>2. QED
  BY <1>1 DEF PlannedOps

LEMMA PlannedTransfersType ==
  ASSUME files \in FileMap, NEW id \in Ids, NEW e, e.path \in Paths, e.rev \in Revs
  PROVE  PlannedTransfers(id, e) \in Seq(Transfers)
<1>1. CASE Tracked(id)
  <2>1. files[id] \in Version
    BY <1>1, TrackedIsVersion
  <2>2. Transfer(id, IF RenamePolicy = "propagate" THEN e.path ELSE files[id].path, e.rev)
          \in Transfers
    BY <2>1 DEF Transfer, Transfers, Version
  <2>3. QED
    BY <1>1, <2>2 DEF PlannedTransfers
<1>2. CASE ~Tracked(id)
  <2>1. Transfer(id, e.path, e.rev) \in Transfers
    BY DEF Transfer, Transfers
  <2>2. QED
    BY <1>2, <2>1 DEF PlannedTransfers
<1>3. QED
  BY <1>1, <1>2

LEMMA DeleteOpType ==
  ASSUME files \in FileMap, NEW id \in Ids, Tracked(id)
  PROVE  DeleteOp(id, files[id]) \in DeleteOps
<1>1. files[id] \in Version
  BY TrackedIsVersion
<1>2. QED
  BY <1>1, FolderAssumption DEF DeleteOp, DeleteOps, Version

-----------------------------------------------------------------------------
(* Type correctness, one lemma per process.                                *)

LEMMA InitType == Init => TypeOK
<1> SUFFICES ASSUME Init PROVE TypeOK
  OBVIOUS
<1> USE DEF Init, FolderInit, NoAttempt, DestinationInit
<1>1. FolderTypeOK
  BY DEF FolderTypeOK
<1>2. NoFiles \in FileMap
  BY DEF NoFiles, FileMap
<1>3. SourceTypeOK
  <2>1. CursorTypeOK
    BY <1>2 DEF CursorTypeOK
  <2>2. inventory \in FileMap
    BY <1>2
  <2>3. pc \in PCs /\ more \in BOOLEAN /\ sawError \in BOOLEAN
    BY Zenon DEF PCs
  <2>4. pos \in Nat /\ pageEnd \in Nat
    OBVIOUS
  <2>5. todo \in SUBSET Ids /\ deleted \in SUBSET Paths
        /\ consumed \in SUBSET {Fold[p] : p \in Paths}
    OBVIOUS
  <2>6. ops \in Seq(MoveOps \cup DeleteOps) /\ transfers \in Seq(Transfers)
        /\ channel \in Seq(Records \cup StateMsgs)
    OBVIOUS
  <2>7. QED
    BY <2>1, <2>2, <2>3, <2>4, <2>5, <2>6 DEF SourceTypeOK
<1>4. durable \in State
  BY <1>2 DEF State, NoState, NoCursor
<1>5. budget \in Budgets
  BY BoundsAssumption DEF Budgets
<1>6. QED
  BY <1>1, <1>3, <1>4, <1>5 DEF TypeOK

LEMMA EndAttemptType == EndAttempt => SourceTypeOK'
<1>1. NoFiles \in FileMap
  BY DEF NoFiles, FileMap
<1>2. SUFFICES ASSUME EndAttempt PROVE SourceTypeOK'
  OBVIOUS
<1> USE DEF EndAttempt
<1>3. CursorTypeOK'
  BY <1>1, <1>2 DEF CursorTypeOK
<1>4. (inventory \in FileMap)'
  BY <1>1, <1>2
<1>5. (pc \in PCs /\ more \in BOOLEAN /\ sawError \in BOOLEAN)'
  BY <1>2, Zenon DEF PCs
<1>6. (pos \in Nat /\ pageEnd \in Nat)'
  BY <1>2
<1>7. (/\ todo \in SUBSET Ids /\ deleted \in SUBSET Paths
       /\ consumed \in SUBSET {Fold[p] : p \in Paths})'
  BY <1>2
<1>8. (/\ ops \in Seq(MoveOps \cup DeleteOps) /\ transfers \in Seq(Transfers)
       /\ channel \in Seq(Records \cup StateMsgs))'
  BY <1>2
<1>9. QED
  BY <1>3, <1>4, <1>5, <1>6, <1>7, <1>8 DEF SourceTypeOK

\* One iteration of a planning or listing step: the sequences are extended by
\* well-typed elements only.
LEMMA PlannedOpsAppended ==
  ASSUME SourceTypeOK, NEW id \in Ids, NEW e, e.path \in Paths, e.rev \in Revs
  PROVE  ops \o PlannedOps(id, e) \in Seq(MoveOps \cup DeleteOps)
<1> DEFINE S == MoveOps \cup DeleteOps
<1>1. files \in FileMap /\ ops \in Seq(S)
  BY DEF SourceTypeOK, CursorTypeOK
<1>2. PlannedOps(id, e) \in Seq(S)
  <2>1. CASE PlannedOps(id, e) = <<>>
    BY <2>1
  <2>2. CASE PlannedOps(id, e) = <<MoveOp(id, files[id], e)>> /\ MoveOp(id, files[id], e) \in MoveOps
    <3> DEFINE m == MoveOp(id, files[id], e)
    <3>1. m \in S
      BY <2>2
    <3> HIDE DEF m
    <3>2. <<m>> \in Seq(S)
      BY <3>1
    <3>3. QED
      BY <2>2, <3>2 DEF m
  <2>3. QED
    BY <1>1, <2>1, <2>2, PlannedOpsType
<1> HIDE DEF S
<1>3. ops \o PlannedOps(id, e) \in Seq(S)
  BY <1>1, <1>2
<1>4. QED
  BY <1>3 DEF S

LEMMA DeleteOpAppended ==
  ASSUME SourceTypeOK, NEW id \in Ids, Tracked(id)
  PROVE  Append(ops, DeleteOp(id, files[id])) \in Seq(MoveOps \cup DeleteOps)
<1>1. DeleteOp(id, files[id]) \in MoveOps \cup DeleteOps
  BY DeleteOpType DEF SourceTypeOK, CursorTypeOK
<1>2. QED
  BY <1>1 DEF SourceTypeOK

LEMMA PlannedTransfersAppended ==
  ASSUME SourceTypeOK, NEW id \in Ids, NEW e, e.path \in Paths, e.rev \in Revs
  PROVE  transfers \o PlannedTransfers(id, e) \in Seq(Transfers)
<1>1. PlannedTransfers(id, e) \in Seq(Transfers) /\ transfers \in Seq(Transfers)
  BY PlannedTransfersType DEF SourceTypeOK, CursorTypeOK
<1>2. QED
  BY <1>1

LEMMA ChangeType == TypeOK /\ Change => TypeOK'
<1> SUFFICES ASSUME TypeOK, Change PROVE TypeOK'
  OBVIOUS
<1> USE DEF TypeOK
<1>1. UNCHANGED <<sourceVars, destinationVars, durable, budget>>
  BY DEF Change
<1>2. SourceTypeOK'
  BY <1>1 DEF sourceVars, cursorVars, listVars, planVars, SourceTypeOK, CursorTypeOK
<1>3. FolderTypeOK'
  <2>1. ASSUME NEW id \in Ids, NEW p \in Paths, NEW r \in Revs, Create(id, p, r)
        PROVE  FolderTypeOK'
    BY <2>1 DEF FolderTypeOK, Create, Record, FileAt, Event, Version
  <2>2. ASSUME NEW id \in Ids, NEW r \in Revs, Write(id, r)
        PROVE  FolderTypeOK'
    BY <2>2 DEF FolderTypeOK, Write, Record, FileAt, Event, Version, Exists
  <2>3. ASSUME NEW id \in Ids, NEW p \in Paths, Rename(id, p)
        PROVE  FolderTypeOK'
    <3> DEFINE tomb == Tombstone(live[id].path)
               file == FileAt(p, id, live[id].rev)
               events == (IF SamePath(p, live[id].path) THEN <<>> ELSE <<tomb>>) \o <<file>>
    <3>1. live[id] \in Version
      BY <2>3 DEF Rename, Exists, FolderTypeOK
    <3>2. tomb \in Event /\ file \in Event
      BY <3>1 DEF Tombstone, FileAt, Event, Version
    <3>3. events \in Seq(Event)
      BY <3>2
    <3>4. journal' = journal \o events
      BY <2>3 DEF Rename, Record
    <3>5. journal' \in Seq(Event)
      BY <3>3, <3>4 DEF FolderTypeOK
    <3>6. live' \in [Ids -> Version \cup {Absent}]
      BY <3>1, <2>3 DEF Rename, FolderTypeOK, Version
    <3>7. QED
      BY <3>5, <3>6 DEF FolderTypeOK
  <2>4. ASSUME NEW id \in Ids, Remove(id)
        PROVE  FolderTypeOK'
    BY <2>4 DEF FolderTypeOK, Remove, Record, Tombstone, Event, Version, Exists
  <2>5. QED
    BY <2>1, <2>2, <2>3, <2>4 DEF Change, FolderChange
<1>4. QED
  BY <1>1, <1>2, <1>3 DEF destinationVars

-----------------------------------------------------------------------------
(* What TypeOK needs to be inductive: an attempt lists only what has       *)
(* happened, so an entry of a page is an event, and the planning loops     *)
(* visit only ids that are listed, or tracked.                             *)

InListing ==
    /\ pos <= pageEnd /\ pageEnd <= Len(journal)
    /\ pc = "inventory" => \A id \in todo : inventory[id] # Absent
    /\ pc = "removals" => \A id \in todo : Tracked(id)

CursorsSent ==
    \A i \in DOMAIN channel : channel[i].kind = "state" => channel[i].state.cursor <= Len(journal)

InHistory ==
    /\ InListing
    /\ cursor <= Len(journal)
    /\ durable.cursor <= Len(journal)
    /\ CursorsSent

TypeInv == TypeOK /\ InHistory

\* What a source step leaves alone.
LEMMA SourceFrame ==
  ASSUME TypeInv, SourceTypeOK',
         UNCHANGED <<folderVars, dest, durable>>,
         applied' = applied, budget' \in Budgets
  PROVE  TypeOK'
BY DEF TypeInv, TypeOK, FolderTypeOK, folderVars

\* A step that sends nothing and does not move the cursor.
LEMMA QuietStep ==
  ASSUME TypeInv, UNCHANGED folderVars,
         UNCHANGED <<cursorVars, channel>>
  PROVE  (cursor' <= Len(journal')) /\ CursorsSent'
BY DEF TypeInv, InHistory, CursorsSent, cursorVars, folderVars

LEMMA DeltaEntryType ==
  ASSUME TypeInv, UNCHANGED folderVars, DeltaEntry
  PROVE  SourceTypeOK' /\ InListing'
<1> DEFINE e == journal[pos + 1]
<1>1. SourceTypeOK /\ journal \in Seq(Event) /\ pos \in Nat /\ pageEnd \in Nat
      /\ pageEnd <= Len(journal) /\ pos < pageEnd
  BY DEF TypeInv, TypeOK, InHistory, InListing, FolderTypeOK, SourceTypeOK, DeltaEntry
<1>2. e \in Event
  BY <1>1
<1>3. e.path \in Paths
  BY <1>2 DEF Event
<1>4. /\ UNCHANGED <<cursorVars, pc, pageEnd, more, inventory, todo, sawError, channel>>
      /\ pos' = pos + 1
      /\ \/ UNCHANGED <<deleted, consumed, ops, transfers>>
         \/ deleted' = deleted \cup {e.path} /\ UNCHANGED <<consumed, ops, transfers>>
         \/ e.id # 0 /\ PlanChangedFile(e)
  BY DEF DeltaEntry
<1>5. /\ deleted' \in SUBSET Paths
      /\ consumed' \in SUBSET {Fold[p] : p \in Paths}
      /\ ops' \in Seq(MoveOps \cup DeleteOps)
      /\ transfers' \in Seq(Transfers)
  <2>1. CASE UNCHANGED <<deleted, consumed, ops, transfers>>
    BY <1>1, <2>1 DEF SourceTypeOK
  <2>2. CASE deleted' = deleted \cup {e.path} /\ UNCHANGED <<consumed, ops, transfers>>
    BY <1>1, <1>3, <2>2 DEF SourceTypeOK
  <2>3. CASE e.id # 0 /\ PlanChangedFile(e)
    <3>1. e.id \in Ids /\ e.rev \in Revs
      BY <1>2, <2>3 DEF Event
    <3>2. deleted' \in SUBSET Paths
      BY <1>1, <2>3 DEF PlanChangedFile, SourceTypeOK
    <3>3. consumed' \in SUBSET {Fold[p] : p \in Paths}
      <4>1. Tracked(e.id) => files[e.id].path \in Paths
        BY <1>1, <3>1, TrackedIsVersion DEF SourceTypeOK, CursorTypeOK, Version
      <4>2. QED
        BY <1>1, <2>3, <4>1 DEF PlanChangedFile, SourceTypeOK
    <3>4. ops' \in {ops, ops \o PlannedOps(e.id, e)}
          /\ transfers' \in {transfers, transfers \o PlannedTransfers(e.id, e)}
      BY <2>3 DEF PlanChangedFile
    <3>5. ops \o PlannedOps(e.id, e) \in Seq(MoveOps \cup DeleteOps)
      BY <1>1, <1>3, <3>1, PlannedOpsAppended
    <3>6. transfers \o PlannedTransfers(e.id, e) \in Seq(Transfers)
      BY <1>1, <1>3, <3>1, PlannedTransfersAppended
    <3>7. ops \in Seq(MoveOps \cup DeleteOps) /\ transfers \in Seq(Transfers)
      BY <1>1 DEF SourceTypeOK
    <3>8. QED
      BY <3>2, <3>3, <3>4, <3>5, <3>6, <3>7
  <2>4. QED
    BY <1>4, <2>1, <2>2, <2>3
<1>6. pos' \in Nat /\ pos' <= pageEnd
  BY <1>1, <1>4
<1>7. SourceTypeOK'
  BY <1>1, <1>4, <1>5, <1>6 DEF SourceTypeOK, CursorTypeOK, cursorVars
<1>8. InListing'
  BY <1>1, <1>4, <1>6 DEF DeltaEntry, InListing, folderVars
<1>9. QED
  BY <1>7, <1>8

LEMMA ListingType ==
  ASSUME TypeInv, UNCHANGED folderVars,
         \/ \E last \in 0 .. MaxEvents : DeltaPage(last)
         \/ CursorReset \/ DeltaListed \/ ListFolder \/ SnapshotPage \/ SnapshotListed
  PROVE  SourceTypeOK' /\ InListing'
<1> USE DEF TypeInv, TypeOK, FolderTypeOK, InHistory, InListing, SourceTypeOK, CursorTypeOK,
            cursorVars, planVars, listVars, PCs, folderVars, Tracked
<1>1. ASSUME NEW last \in 0 .. MaxEvents, DeltaPage(last)
      PROVE  SourceTypeOK' /\ InListing'
  BY <1>1 DEF DeltaPage
<1>2. CASE CursorReset
  BY <1>2 DEF CursorReset
<1>3. CASE DeltaListed
  BY <1>3 DEF DeltaListed
<1>4. CASE ListFolder
  <2>1. inventory' \in FileMap
    BY <1>4 DEF ListFolder, FileMap
  <2>2. more' \in BOOLEAN
    BY <1>4, PagedAssumption DEF ListFolder
  <2>3. QED
    BY <1>4, <2>1, <2>2 DEF ListFolder
<1>5. CASE SnapshotPage
  <2>1. inventory' \in FileMap
    <3>1. CASE UNCHANGED inventory
      BY <3>1
    <3>2. CASE inventory' = [id \in Ids |->
                 IF \E k \in Relisted : journal[k].id = id
                   THEN LET k == CHOOSE k \in Relisted : journal[k].id = id
                        IN  [path |-> journal[k].path, rev |-> journal[k].rev]
                   ELSE inventory[id]]
      <4>1. ASSUME NEW k \in Relisted
            PROVE  [path |-> journal[k].path, rev |-> journal[k].rev] \in Version
        <5>1. k \in DOMAIN journal /\ journal[k].id # 0
          BY <4>1 DEF Relisted
        <5>2. journal[k] \in Event
          BY <5>1
        <5>3. QED
          BY <5>1, <5>2 DEF Event, Version
      <4>2. QED
        BY <3>2, <4>1 DEF FileMap
    <3>3. QED
      BY <1>5, <3>1, <3>2 DEF SnapshotPage
  <2>2. pc' \in {"relist", "failed"}
    BY <1>5 DEF SnapshotPage
  <2>3. /\ pos' = Len(journal) /\ pageEnd' = Len(journal) /\ more' = FALSE
        /\ UNCHANGED <<cursorVars, todo, deleted, consumed, ops, transfers, sawError, channel>>
    BY <1>5 DEF SnapshotPage
  <2>4. pc' \in PCs /\ (more \in BOOLEAN)'
    BY <2>2, <2>3, Zenon
  <2>5. SourceTypeOK'
    <3> HIDE DEF PCs
    <3> QED BY <2>1, <2>3, <2>4
  <2>6. QED
    BY <2>2, <2>3, <2>5
<1>6. CASE SnapshotListed
  BY <1>6 DEF SnapshotListed
<1>7. QED
  BY <1>1, <1>2, <1>3, <1>4, <1>5, <1>6

LEMMA PlanningType ==
  ASSUME TypeInv, UNCHANGED folderVars,
         \/ \E p \in Paths : PlanTombstone(p)
         \/ TombstonesPlanned
         \/ \E id \in Ids : PlanInventory(id)
         \/ InventoryPlanned
         \/ \E id \in Ids : PlanRemoval(id)
         \/ RemovalsPlanned
  PROVE  SourceTypeOK' /\ InListing'
<1> DEFINE OpsType == ops \in Seq(MoveOps \cup DeleteOps)
<1> USE DEF TypeInv, TypeOK, FolderTypeOK, InHistory, InListing, SourceTypeOK, CursorTypeOK,
            cursorVars, planVars, listVars, PCs, folderVars, Tracked
<1>1. ASSUME NEW p \in Paths, PlanTombstone(p)
      PROVE  SourceTypeOK' /\ InListing'
  <2>1. ASSUME NEW id \in Ids, ByPath(id, Fold[p]), ops' = Append(ops, DeleteOp(id, files[id]))
        PROVE  OpsType'
    <3>1. Tracked(id)
      BY <2>1 DEF ByPath, PinnedTo
    <3>2. QED
      BY <2>1, <3>1, DeleteOpAppended
  <2>2. OpsType'
    BY <1>1, <2>1 DEF PlanTombstone
  <2>3. QED
    BY <1>1, <2>2 DEF PlanTombstone
<1>2. CASE TombstonesPlanned
  BY <1>2 DEF TombstonesPlanned
<1>3. ASSUME NEW id \in Ids, PlanInventory(id)
      PROVE  SourceTypeOK' /\ InListing'
  <2>1. inventory[id] \in Version
    BY <1>3 DEF PlanInventory, FileMap
  <2>2. inventory[id].path \in Paths /\ inventory[id].rev \in Revs
    BY <2>1 DEF Version
  <2>3. OpsType'
    BY <1>3, <2>2, PlannedOpsAppended DEF PlanInventory
  <2>4. transfers \o PlannedTransfers(id, inventory[id]) \in Seq(Transfers)
    BY <2>2, PlannedTransfersAppended
  <2>5. transfers' \in Seq(Transfers)
    BY <1>3, <2>4 DEF PlanInventory
  <2>6. QED
    BY <1>3, <2>3, <2>5 DEF PlanInventory
<1>4. CASE InventoryPlanned
  BY <1>4 DEF InventoryPlanned
<1>5. ASSUME NEW id \in Ids, PlanRemoval(id)
      PROVE  SourceTypeOK' /\ InListing'
  <2>1. Tracked(id)
    BY <1>5 DEF PlanRemoval
  <2>2. OpsType'
    BY <1>5, <2>1, DeleteOpAppended DEF PlanRemoval
  <2>3. QED
    BY <1>5, <2>2 DEF PlanRemoval
<1>6. CASE RemovalsPlanned
  BY <1>6 DEF RemovalsPlanned
<1>7. QED
  BY <1>1, <1>2, <1>3, <1>4, <1>5, <1>6

\* The steps that write to the channel.
LEMMA AppendedMessage ==
  ASSUME SourceTypeOK, NEW m \in Records \cup StateMsgs, channel' = Append(channel, m)
  PROVE  /\ channel' \in Seq(Records \cup StateMsgs)
         /\ \A i \in DOMAIN channel' :
               \/ i \in DOMAIN channel /\ channel'[i] = channel[i]
               \/ i = Len(channel) + 1 /\ channel'[i] = m
BY DEF SourceTypeOK

LEMMA RecordKinds ==
  ASSUME NEW m \in Records \cup StateMsgs
  PROVE  /\ m.kind # "state" => m \in Records
         /\ m.kind = "state" => m \in StateMsgs
         /\ m \in Records => m.kind \in {"file", "move", "delete"}
BY DEF Records, StateMsgs, MoveOps, DeleteOps, FileMsgs

LEMMA SendingType ==
  ASSUME TypeInv, UNCHANGED folderVars,
         EmitOperation \/ OperationsEmitted \/ TransferFile \/ SkipFile \/ Finish
  PROVE  SourceTypeOK' /\ InListing' /\ (cursor' <= Len(journal')) /\ CursorsSent'
<1>0. /\ SourceTypeOK /\ InListing /\ cursor <= Len(journal) /\ CursorsSent
      /\ files \in FileMap /\ ops \in Seq(MoveOps \cup DeleteOps) /\ transfers \in Seq(Transfers)
      /\ UNCHANGED journal
  BY DEF TypeInv, TypeOK, InHistory, CursorsSent, SourceTypeOK, CursorTypeOK, folderVars
<1>1. CASE EmitOperation
  <2> DEFINE op == Head(ops)
  <2>1. op \in MoveOps \cup DeleteOps /\ Tail(ops) \in Seq(MoveOps \cup DeleteOps)
    BY <1>0, <1>1 DEF EmitOperation
  <2>2. op \in Records
    BY <2>1 DEF Records
  <2>3. op.id \in Ids /\ (op.kind = "move" => op.new \in Paths)
    BY <2>1 DEF MoveOps, DeleteOps
  <2>4. /\ channel' = Append(channel, op)
        /\ UNCHANGED <<cursor, listVars, planVars, transfers, sawError>>
        /\ \/ op.kind = "move" /\ MarkMove(op) /\ ops' = Tail(ops) /\ pc' = pc
           \/ op.kind # "move" /\ MarkDelete(op) /\ ops' = Tail(ops) /\ pc' = pc
           \/ pc' = "failed" /\ UNCHANGED <<files, ops>>
    BY <1>1 DEF EmitOperation
  <2>5. files' \in FileMap /\ ops' \in Seq(MoveOps \cup DeleteOps)
    <3>1. CASE op.kind = "move" /\ MarkMove(op) /\ ops' = Tail(ops)
      <4>1. files[op.id] \in Version
        BY <1>0, <2>3, <3>1, TrackedIsVersion DEF MarkMove
      <4>2. files' \in FileMap
        BY <1>0, <2>3, <3>1, <4>1 DEF MarkMove, FileMap, Version
      <4>3. QED
        BY <2>1, <3>1, <4>2
    <3>2. CASE MarkDelete(op) /\ ops' = Tail(ops)
      BY <1>0, <2>1, <3>2 DEF MarkDelete, FileMap
    <3>3. CASE UNCHANGED <<files, ops>>
      BY <1>0, <3>3
    <3>4. QED
      BY <2>4, <3>1, <3>2, <3>3
  <2>6. channel' \in Seq(Records \cup StateMsgs) /\ CursorsSent'
    <3>1. /\ channel' \in Seq(Records \cup StateMsgs)
          /\ \A i \in DOMAIN channel' :
               \/ i \in DOMAIN channel /\ channel'[i] = channel[i]
               \/ i = Len(channel) + 1 /\ channel'[i] = op
      BY <1>0, <2>2, <2>4, AppendedMessage
    <3>2. op.kind # "state"
      BY <2>2, RecordKinds
    <3>3. QED
      BY <1>0, <3>1, <3>2 DEF CursorsSent
  <2>7. pc' \in {"emit", "failed"}
    BY <1>1 DEF EmitOperation
  <2>8. pc' \in PCs
    BY <2>7 DEF PCs
  <2>9. QED
    BY <1>0, <2>4, <2>5, <2>6, <2>7, <2>8
    DEF SourceTypeOK, CursorTypeOK, listVars, planVars, InListing
<1>2. CASE OperationsEmitted
  BY <1>0, <1>2 DEF OperationsEmitted, SourceTypeOK, CursorTypeOK, InListing, PCs, listVars,
                    planVars, cursorVars, CursorsSent
<1>3. CASE TransferFile
  <2> DEFINE t == Head(transfers)
  <2>1. t \in Transfers /\ Tail(transfers) \in Seq(Transfers)
    BY <1>0, <1>3 DEF TransferFile
  <2>2. FileMsg(t) \in Records /\ FileMsg(t).kind = "file"
    BY <2>1 DEF FileMsg, Records, FileMsgs, Transfers
  <2>3. /\ channel' = Append(channel, FileMsg(t)) /\ AddFile(t) /\ transfers' = Tail(transfers)
        /\ UNCHANGED <<cursor, pc, listVars, planVars, ops, sawError>> /\ pc = "transfer"
    BY <1>3 DEF TransferFile
  <2>4. files' \in FileMap
    BY <1>0, <2>1, <2>3 DEF AddFile, FileMap, Version, Transfers
  <2>5. channel' \in Seq(Records \cup StateMsgs) /\ CursorsSent'
    BY <1>0, <2>2, <2>3, AppendedMessage DEF CursorsSent
  <2>6. QED
    BY <1>0, <2>1, <2>3, <2>4, <2>5
    DEF SourceTypeOK, CursorTypeOK, listVars, planVars, InListing
<1>4. CASE SkipFile
  <2>1. /\ transfers' = Tail(transfers) /\ sawError' = TRUE /\ pc = "transfer"
        /\ UNCHANGED <<cursorVars, pc, listVars, planVars, ops, channel>>
    BY <1>4 DEF SkipFile
  <2>2. transfers' \in Seq(Transfers)
    BY <1>0, <1>4 DEF SkipFile
  <2>3. (sawError \in BOOLEAN)'
    BY <2>1, Zenon
  <2>4. SourceTypeOK'
    BY <1>0, <2>1, <2>2, <2>3 DEF SourceTypeOK, CursorTypeOK, listVars, planVars, cursorVars
  <2>5. QED
    BY <1>0, <2>1, <2>4 DEF InListing, CursorsSent, listVars, planVars, cursorVars
<1>5. CASE Finish
  <2> DEFINE m == StateMsg([files |-> files, cursor |-> cursor'])
  <2>1. /\ channel' = Append(channel, m) /\ pc' = "done" /\ cursor' \in {cursor, pageEnd}
        /\ UNCHANGED <<files, listVars, planVars, ops, transfers, sawError>>
    BY <1>5 DEF Finish
  <2>2. cursor' \in Nat \cup {NoCursor} /\ cursor' <= Len(journal)
    BY <1>0, <2>1 DEF SourceTypeOK, CursorTypeOK, InListing
  <2>3. m \in StateMsgs /\ m.state.cursor = cursor'
    BY <1>0, <2>2 DEF StateMsg, StateMsgs, State
  <2> HIDE DEF m
  <2>4. channel' \in Seq(Records \cup StateMsgs) /\ CursorsSent'
    BY <1>0, <2>1, <2>2, <2>3, AppendedMessage DEF CursorsSent
  <2>5. QED
    BY <1>0, <2>1, <2>2, <2>4 DEF SourceTypeOK, CursorTypeOK, PCs, InListing, listVars, planVars
<1>6. QED
  BY <1>1, <1>2, <1>3, <1>4, <1>5

-----------------------------------------------------------------------------
(* The composition.                                                        *)

LEMMA NowhereListed == EndAttempt => InListing' /\ cursor' = NoCursor /\ channel' = <<>>
  <1> SUFFICES ASSUME EndAttempt PROVE InListing' /\ cursor' = NoCursor /\ channel' = <<>>
    OBVIOUS
  <1>1. pos' = 0 /\ pageEnd' = 0 /\ pc' = "idle" /\ cursor' = NoCursor /\ channel' = <<>>
    BY DEF EndAttempt
  <1>2. QED
    BY <1>1 DEF InListing

LEMMA StartType ==
  ASSUME TypeInv, Start
  PROVE  SourceTypeOK' /\ InHistory'
BY DEF TypeInv, TypeOK, FolderTypeOK, InHistory, CursorsSent, InListing, SourceTypeOK, CursorTypeOK, planVars,
       Start, StartAttempt, SetInitialState, State, FileMap, PCs, folderVars

\* The destination takes the head of the channel; a record joins the applied ones.
LEMMA DeliverType ==
  ASSUME TypeInv, Deliver
  PROVE  TypeInv'
<1> DEFINE r == Head(channel)
<1>1. /\ channel \in Seq(Records \cup StateMsgs) /\ channel # <<>> /\ r.kind # "state"
      /\ channel' = Tail(channel) /\ ApplyRecord(r)
      /\ UNCHANGED <<folderVars, cursorVars, pc, listVars, planVars, ops, transfers, sawError,
                     durable, budget>>
  BY DEF Deliver, TypeInv, TypeOK, SourceTypeOK
<1>2. r \in Records
  BY <1>1, RecordKinds
<1>3. SourceTypeOK'
  BY <1>1 DEF TypeInv, TypeOK, SourceTypeOK, CursorTypeOK, cursorVars, listVars, planVars
<1>4. applied' \in SUBSET Records
  BY <1>1, <1>2 DEF TypeInv, TypeOK, ApplyRecord, Upload, Move, AcceptMoved, Delete, Applied
<1>5. dest' \in [Keys -> Hashes \cup {NoFile}]
  <2>0. dest \in [Keys -> Hashes \cup {NoFile}]
    BY DEF TypeInv, TypeOK
  <2>1. CASE r.kind = "file" /\ Upload(r)
    <3>1. r.rev \in Revs
      BY <1>2, <2>1 DEF Records, MoveOps, DeleteOps, FileMsgs
    <3>2. Hash[r.rev] \in Hashes
      BY <3>1 DEF Hashes
    <3>3. QED
      BY <2>0, <2>1, <3>2 DEF Upload
  <2>2. CASE r.kind = "move" /\ Move(r)
    <3>1. r.old \in Paths /\ r.new \in Paths
      BY <1>2, <2>2 DEF Records, MoveOps, DeleteOps, FileMsgs
    <3>2. Fold[r.old] \in Keys
      BY <3>1 DEF Keys
    <3>3. dest[Fold[r.old]] \in Hashes \cup {NoFile}
      BY <2>0, <3>2
    <3>4. QED
      BY <2>0, <2>2, <3>3 DEF Move
  <2>3. CASE AcceptMoved(r)
    BY <2>0, <2>3 DEF AcceptMoved
  <2>4. CASE Delete(r)
    BY <2>0, <2>4 DEF Delete
  <2>5. QED
    BY <1>1, <2>1, <2>2, <2>3, <2>4 DEF ApplyRecord
<1>6. TypeOK'
  BY <1>1, <1>3, <1>4, <1>5 DEF TypeInv, TypeOK, FolderTypeOK, folderVars
<1>7. \A i \in DOMAIN channel' : i + 1 \in DOMAIN channel /\ channel'[i] = channel[i + 1]
  BY <1>1
<1>8. InHistory'
  BY <1>1, <1>7 DEF TypeInv, InHistory, CursorsSent, InListing, cursorVars, listVars, planVars, folderVars,
                    Tracked
<1>9. QED
  BY <1>6, <1>8 DEF TypeInv

LEMMA EndedType ==
  ASSUME TypeInv, Refuse \/ Checkpoint \/ SourceFailed \/ Abort
  PROVE  TypeInv'
<1>1. EndAttempt /\ UNCHANGED <<folderVars, destinationVars>>
  BY DEF Refuse, Checkpoint, SourceFailed, Abort
<1>2. budget' \in Budgets
  <2>1. CASE Abort
    BY <2>1, BoundsAssumption DEF Abort, Budgets, TypeInv, TypeOK
  <2>2. CASE UNCHANGED budget
    BY <2>2 DEF TypeInv, TypeOK
  <2>3. QED
    BY <2>1, <2>2 DEF Refuse, Checkpoint, SourceFailed
<1>3. durable' \in State /\ durable'.cursor <= Len(journal)
  <2>1. CASE Checkpoint
    <3>1. Head(channel) \in StateMsgs
      BY <2>1, RecordKinds DEF Checkpoint, TypeInv, TypeOK, SourceTypeOK
    <3>2. Head(channel).state.cursor <= Len(journal)
      BY <2>1 DEF Checkpoint, TypeInv, TypeOK, SourceTypeOK, InHistory, CursorsSent
    <3>3. QED
      BY <2>1, <3>1, <3>2 DEF Checkpoint, StateMsgs
  <2>2. CASE UNCHANGED durable
    BY <2>2 DEF TypeInv, TypeOK, InHistory
  <2>3. QED
    BY <2>1, <2>2 DEF Refuse, SourceFailed, Abort
<1>4. SourceTypeOK' /\ InListing' /\ cursor' = NoCursor /\ channel' = <<>>
  BY <1>1, EndAttemptType, NowhereListed DEF TypeInv, TypeOK, FolderTypeOK, folderVars
<1>5. TypeOK'
  BY <1>1, <1>2, <1>3, <1>4 DEF TypeInv, TypeOK, FolderTypeOK, folderVars, destinationVars
<1>6. InHistory'
  BY <1>1, <1>3, <1>4 DEF TypeInv, TypeOK, FolderTypeOK, InHistory, CursorsSent, folderVars,
     NoCursor
<1>7. QED
  BY <1>5, <1>6 DEF TypeInv

LEMMA ChangeHistory == TypeInv /\ Change => InHistory'
<1> SUFFICES ASSUME TypeInv, Change PROVE InHistory'
  OBVIOUS
<1>1. journal' \in Seq(Event) /\ Len(journal) <= Len(journal')
  <2>1. journal \in Seq(Event) /\ journal' \in Seq(Event)
    BY ChangeType DEF TypeInv, TypeOK, FolderTypeOK
  <2>2. ASSUME NEW a, NEW b PROVE Len(journal) <= Len(journal \o (<<a>> \o <<b>>))
    BY <2>1
  <2>3. ASSUME NEW a PROVE Len(journal) <= Len(journal \o (<<>> \o <<a>>))
    BY <2>1
  <2>4. ASSUME NEW a PROVE Len(journal) <= Len(journal \o <<a>>)
    BY <2>1
  <2>5. ASSUME NEW id \in Ids, NEW p \in Paths, Rename(id, p)
        PROVE  Len(journal) <= Len(journal')
    <3>1. CASE SamePath(p, live[id].path)
      BY <2>3, <2>5, <3>1 DEF Rename, Record
    <3>2. CASE ~SamePath(p, live[id].path)
      BY <2>2, <2>5, <3>2 DEF Rename, Record
    <3>3. QED
      BY <3>1, <3>2
  <2>6. ASSUME NEW a, Record(<<a>>) PROVE Len(journal) <= Len(journal')
    BY <2>4, <2>6 DEF Record
  <2>7. ASSUME NEW id \in Ids, NEW p \in Paths, NEW r \in Revs, Create(id, p, r)
        PROVE  Len(journal) <= Len(journal')
    BY <2>6, <2>7 DEF Create
  <2>8. ASSUME NEW id \in Ids, NEW r \in Revs, Write(id, r)
        PROVE  Len(journal) <= Len(journal')
    BY <2>6, <2>8 DEF Write
  <2>9. ASSUME NEW id \in Ids, Remove(id)
        PROVE  Len(journal) <= Len(journal')
    BY <2>6, <2>9 DEF Remove
  <2>10. QED
    BY <2>1, <2>5, <2>7, <2>8, <2>9 DEF Change, FolderChange
<1>2. UNCHANGED sourceVars /\ UNCHANGED durable
  BY DEF Change
<1>3. /\ Len(journal) \in Nat /\ Len(journal') \in Nat
      /\ pageEnd \in Int /\ cursor \in Int /\ durable.cursor \in Int
      /\ \A i \in DOMAIN channel : channel[i].kind = "state" => channel[i].state.cursor \in Int
  <2>1. \A c : c \in State => c.cursor \in Int
    BY DEF State, NoCursor
  <2>2. \A i \in DOMAIN channel : channel[i].kind = "state" => channel[i].state \in State
    <3>1. \A i \in DOMAIN channel : channel[i] \in Records \cup StateMsgs
      BY DEF TypeInv, TypeOK, SourceTypeOK
    <3>2. \A m \in StateMsgs : m.state \in State
      BY DEF StateMsgs
    <3>3. QED
      BY <3>1, <3>2, RecordKinds
  <2>3. QED
    BY <1>1, <2>1, <2>2 DEF TypeInv, TypeOK, FolderTypeOK, SourceTypeOK, CursorTypeOK, NoCursor
<1>4. /\ pos' = pos /\ pageEnd' = pageEnd /\ pc' = pc /\ todo' = todo /\ inventory' = inventory
      /\ files' = files /\ cursor' = cursor /\ channel' = channel /\ durable' = durable
  BY <1>2 DEF sourceVars, cursorVars, listVars, planVars
<1>5. QED
  BY <1>1, <1>3, <1>4 DEF TypeInv, InHistory, CursorsSent, InListing, Tracked

LEMMA TypeInvInductive == TypeInv /\ [Next]_vars => TypeInv'
<1> SUFFICES ASSUME TypeInv, [Next]_vars PROVE TypeInv'
  OBVIOUS
<1>1. CASE Change
  BY <1>1, ChangeType, ChangeHistory DEF TypeInv
<1>2. ASSUME SourceTypeOK', InListing', (cursor' <= Len(journal')), CursorsSent',
             UNCHANGED <<folderVars, destinationVars, durable>>, budget' \in Budgets
      PROVE  TypeInv'
  <2>1. TypeOK'
    BY <1>2, SourceFrame DEF destinationVars
  <2>2. InHistory'
    BY <1>2 DEF TypeInv, InHistory, CursorsSent, folderVars
  <2>3. QED
    BY <2>1, <2>2 DEF TypeInv
<1>3. budget \in Budgets /\ (\A f \in {"aborts", "skips", "resets"} : budget[f] > 0 =>
         [budget EXCEPT ![f] = @ - 1] \in Budgets)
  BY BoundsAssumption DEF TypeInv, TypeOK, Budgets
<1>4. CASE Start
  <2>1. SourceTypeOK' /\ InHistory'
    BY <1>4, StartType
  <2>2. QED
    BY <1>3, <1>4, <2>1, SourceFrame DEF Start, TypeInv, destinationVars
<1>5. CASE Source
  <2>1. UNCHANGED <<folderVars, destinationVars, durable, budget>> /\ SourceStep
    BY <1>5 DEF Source
  <2>2. SourceTypeOK' /\ InListing' /\ (cursor' <= Len(journal')) /\ CursorsSent'
    <3>1. CASE DeltaEntry
      BY <2>1, <3>1, DeltaEntryType, QuietStep DEF DeltaEntry
    <3>2. CASE \/ \E last \in 0 .. MaxEvents : DeltaPage(last)
               \/ DeltaListed \/ ListFolder \/ SnapshotPage \/ SnapshotListed
      BY <2>1, <3>2, ListingType, QuietStep
      DEF DeltaPage, DeltaListed, ListFolder, SnapshotPage, SnapshotListed
    <3>3. CASE \/ \E p \in Paths : PlanTombstone(p)
               \/ TombstonesPlanned
               \/ \E id \in Ids : PlanInventory(id)
               \/ InventoryPlanned
               \/ \E id \in Ids : PlanRemoval(id)
               \/ RemovalsPlanned
      BY <2>1, <3>3, PlanningType, QuietStep
      DEF PlanTombstone, TombstonesPlanned, PlanInventory, InventoryPlanned, PlanRemoval,
          RemovalsPlanned
    <3>4. CASE EmitOperation \/ OperationsEmitted \/ TransferFile \/ Finish
      BY <2>1, <3>4, SendingType
    <3>5. QED
      BY <2>1, <3>1, <3>2, <3>3, <3>4 DEF SourceStep
  <2>3. QED
    BY <1>2, <1>3, <2>1, <2>2
<1>6. CASE Skip
  <2>1. UNCHANGED <<folderVars, destinationVars, durable>> /\ SkipFile
        /\ budget' \in {budget, [budget EXCEPT !["skips"] = @ - 1]}
        /\ (budget' = budget \/ budget.skips > 0)
    BY <1>6 DEF Skip
  <2>2. SourceTypeOK' /\ InListing' /\ (cursor' <= Len(journal')) /\ CursorsSent'
    BY <2>1, SendingType
  <2>3. budget' \in Budgets
    BY <1>3, <2>1
  <2>4. QED
    BY <1>2, <2>1, <2>2, <2>3
<1>7. CASE Reset
  <2>1. UNCHANGED <<folderVars, destinationVars, durable>> /\ CursorReset
        /\ budget.resets > 0 /\ budget' = [budget EXCEPT !["resets"] = @ - 1]
    BY <1>7 DEF Reset
  <2>2. SourceTypeOK' /\ InListing' /\ (cursor' <= Len(journal')) /\ CursorsSent'
    BY <2>1, ListingType, QuietStep DEF CursorReset
  <2>3. budget' \in Budgets
    BY <1>3, <2>1
  <2>4. QED
    BY <1>2, <2>1, <2>2, <2>3
<1>8. CASE Deliver
  BY <1>8, DeliverType
<1>9. CASE Refuse \/ Checkpoint \/ SourceFailed \/ Abort
  BY <1>9, EndedType
<1>10. CASE UNCHANGED vars
  BY <1>10 DEF vars, folderVars, sourceVars, destinationVars, TypeInv, TypeOK, FolderTypeOK,
     SourceTypeOK, CursorTypeOK, InHistory, CursorsSent, InListing, cursorVars, listVars, planVars, Tracked
<1>11. QED
  BY <1>1, <1>4, <1>5, <1>6, <1>7, <1>8, <1>9, <1>10 DEF Next

LEMMA InitTypeInv == Init => TypeInv
<1>1. Init => InHistory
  BY DEF Init, InHistory, CursorsSent, InListing, FolderInit, NoAttempt, NoState, NoCursor
<1>2. QED
  BY <1>1, InitType DEF TypeInv

\* Every reachable state is well typed, and no cursor is ahead of the history.
THEOREM TypeCorrect == Spec => []TypeOK
<1>1. TypeInv => TypeOK
  BY DEF TypeInv
<1>2. QED
  BY <1>1, InitTypeInv, TypeInvInductive, PTL DEF Spec

-----------------------------------------------------------------------------
(* The state gate.  StateGate is not inductive: a state message on the     *)
(* channel is durable later.  GateInv says of every map on its way to the  *)
(* durable state that the records which vouch for it are applied or travel *)
(* ahead of it.                                                            *)

\* A map stays vouched for when more records are counted.
LEMMA VouchedMonotone ==
  ASSUME NEW id, NEW entry, NEW few, NEW many, few \subseteq many, Vouched(id, entry, few)
  PROVE  Vouched(id, entry, many)
BY DEF Vouched

\* A step of the source that touches neither the map, the durable state nor the
\* channel has only the planned moves to answer for.
LEMMA QuietGate ==
  ASSUME GateInv, UNCHANGED <<files, channel, applied, durable>>, pc # "idle", MovesMatch'
  PROVE  GateInv'
<1>1. StateGate'
  BY DEF GateInv, StateGate
<1>2. ASSUME NEW n PROVE Sent(n)' = Sent(n)
  BY DEF Sent
<1>3. ASSUME NEW id, NEW entry, NEW R, Vouched(id, entry, R)
      PROVE  \/ entry = durable'.files[id]
             \/ entry # Absent /\ \E r \in R : Gate!Covers(r, id, entry)
             \/ entry = Absent /\ \E r \in R : Gate!Deletes(r, id)
  BY <1>3 DEF Vouched
<1>4. MapVouched'
  BY <1>2, <1>3 DEF GateInv, MapVouched, Vouched
<1>5. StatesVouched'
  BY <1>2, <1>3 DEF GateInv, StatesVouched, Vouched
<1>6. QED
  BY <1>1, <1>4, <1>5 DEF GateInv

\* When the attempt is over nothing is on its way.
LEMMA EndedGate ==
  ASSUME StateGate', EndAttempt
  PROVE  GateInv'
<1>1. pc' = "idle" /\ channel' = <<>> /\ ops' = <<>>
  BY DEF EndAttempt
<1>2. MapVouched' /\ StatesVouched' /\ MovesMatch'
  BY <1>1 DEF MapVouched, StatesVouched, MovesMatch
<1>3. QED
  BY <1>2 DEF GateInv

\* Sending: the map may change as long as the message sent vouches for the change.
LEMMA SendingGate ==
  ASSUME TypeInv, GateInv, pc # "idle", UNCHANGED <<applied, durable>>, MovesMatch',
         NEW m \in Records \cup StateMsgs, channel' = Append(channel, m),
         \A id \in Ids : \/ files'[id] = files[id]
                         \/ files'[id] # Absent /\ Gate!Covers(m, id, files'[id])
                         \/ files'[id] = Absent /\ Gate!Deletes(m, id),
         m.kind = "state" => m.state.files = files
  PROVE  GateInv'
<1>0. PICK L \in Nat : L = Len(channel)
  BY DEF TypeInv, TypeOK, SourceTypeOK
<1>1. /\ channel \in Seq(Records \cup StateMsgs)
      /\ L = Len(channel) /\ DOMAIN channel = 1 .. L
      /\ DOMAIN channel' = 1 .. (L + 1) /\ Len(channel') = L + 1
      /\ channel'[L + 1] = m
      /\ \A i \in 1 .. L : channel'[i] = channel[i]
  BY <1>0 DEF TypeInv, TypeOK, SourceTypeOK
<1>2. StateGate'
  BY DEF GateInv, StateGate
<1>3. ASSUME NEW n \in 0 .. L PROVE Sent(n)' = Sent(n)
  BY <1>1, <1>3 DEF Sent
<1>4. Sent(L) \subseteq Sent(L + 1)' /\ m \in Sent(L + 1)'
  BY <1>1 DEF Sent
<1>5. MapVouched'
  <2>1. ASSUME NEW id \in Ids PROVE Vouched(id, files[id], Sent(L + 1)')
    <3>1. Vouched(id, files[id], Sent(L))
      BY <1>0 DEF GateInv, MapVouched
    <3>2. QED
      BY <1>4, <3>1, VouchedMonotone
  <2>2. ASSUME NEW id \in Ids PROVE Vouched(id, files[id], Sent(L + 1))'
    <3>1. CASE files'[id] = files[id]
      BY <2>1, <3>1 DEF Vouched
    <3>2. CASE files'[id] # Absent /\ Gate!Covers(m, id, files'[id])
      BY <1>4, <3>2 DEF Vouched, Gate!Covers
    <3>3. CASE files'[id] = Absent /\ Gate!Deletes(m, id)
      BY <1>4, <3>3 DEF Vouched, Gate!Deletes
    <3>4. QED
      BY <3>1, <3>2, <3>3
  <2>3. QED
    BY <1>1, <2>2 DEF MapVouched
<1>6. StatesVouched'
  <2>1. ASSUME NEW i \in 1 .. L, channel[i].kind = "state", NEW id \in Ids
        PROVE  Vouched(id, channel[i].state.files[id], Sent(i - 1))'
    <3>1. i - 1 \in 0 .. L
      BY <1>1
    <3>2. Vouched(id, channel[i].state.files[id], Sent(i - 1))
      BY <1>1, <2>1 DEF GateInv, StatesVouched
    <3>3. Sent(i - 1)' = Sent(i - 1)
      BY <1>3, <3>1
    <3>4. QED
      BY <1>1, <3>2, <3>3 DEF Vouched
  <2>2. ASSUME m.kind = "state", NEW id \in Ids
        PROVE  Vouched(id, channel[L + 1].state.files[id], Sent(L))'
    <3>1. Vouched(id, files[id], Sent(L))
      BY <1>0 DEF GateInv, MapVouched
    <3>2. Sent(L)' = Sent(L)
      BY <1>1, <1>3
    <3>3. channel'[L + 1].state.files[id] = files[id]
      BY <1>1, <2>2
    <3>4. QED
      BY <3>1, <3>2, <3>3 DEF Vouched
  <2>3. QED
    BY <1>1, <2>1, <2>2 DEF StatesVouched
<1>7. QED
  BY <1>2, <1>5, <1>6 DEF GateInv

-----------------------------------------------------------------------------
\* Listing and planning: what is planned is planned from the map as it is.

Plans ==
    \/ \E last \in 0 .. MaxEvents : DeltaPage(last)
    \/ CursorReset \/ DeltaEntry \/ DeltaListed
    \/ \E p \in Paths : PlanTombstone(p)
    \/ TombstonesPlanned
    \/ ListFolder \/ SnapshotPage \/ SnapshotListed
    \/ \E id \in Ids : PlanInventory(id)
    \/ InventoryPlanned
    \/ \E id \in Ids : PlanRemoval(id)
    \/ RemovalsPlanned

\* What each of these steps can do to the operations.
LEMMA PlansOperations ==
  ASSUME Plans
  PROVE  /\ UNCHANGED <<files, channel>> /\ pc # "idle" /\ pc' \notin {"idle", "transfer", "done"}
         /\ \/ ops' = ops
            \/ ops' = <<>>
            \/ \E id, e : ops' = ops \o PlannedOps(id, e)
            \/ \E id : ops' = Append(ops, DeleteOp(id, files[id]))
<1> DEFINE Goal == /\ UNCHANGED <<files, channel>> /\ pc # "idle"
                   /\ pc' \notin {"idle", "transfer", "done"}
                   /\ \/ ops' = ops
                      \/ ops' = <<>>
                      \/ \E id, e : ops' = ops \o PlannedOps(id, e)
                      \/ \E id : ops' = Append(ops, DeleteOp(id, files[id]))
<1> USE DEF cursorVars
<1>1. CASE \E last \in 0 .. MaxEvents : DeltaPage(last)
  BY <1>1 DEF DeltaPage
<1>2. CASE CursorReset \/ DeltaListed \/ TombstonesPlanned
  BY <1>2 DEF CursorReset, DeltaListed, TombstonesPlanned
<1>3. CASE DeltaEntry
  BY <1>3 DEF DeltaEntry, PlanChangedFile
<1>4. CASE \E p \in Paths : PlanTombstone(p)
  BY <1>4 DEF PlanTombstone
<1>5. CASE ListFolder \/ SnapshotPage \/ SnapshotListed
  BY <1>5 DEF ListFolder, SnapshotPage, SnapshotListed
<1>6. CASE \E id \in Ids : PlanInventory(id)
  BY <1>6 DEF PlanInventory
<1>7. CASE InventoryPlanned \/ RemovalsPlanned
  BY <1>7 DEF InventoryPlanned, RemovalsPlanned
<1>8. CASE \E id \in Ids : PlanRemoval(id)
  BY <1>8 DEF PlanRemoval
<1>9. QED
  BY <1>1, <1>2, <1>3, <1>4, <1>5, <1>6, <1>7, <1>8 DEF Plans

\* A planned operation matches the map it was planned from.
LEMMA PlansGate ==
  ASSUME TypeInv, GateInv, Plans, UNCHANGED <<applied, durable>>
  PROVE  GateInv'
<1>1. /\ UNCHANGED <<files, channel>> /\ pc # "idle" /\ pc' \notin {"idle", "transfer", "done"}
      /\ \/ ops' = ops
         \/ ops' = <<>>
         \/ \E id, e : ops' = ops \o PlannedOps(id, e)
         \/ \E id : ops' = Append(ops, DeleteOp(id, files[id]))
  BY PlansOperations
<1>2. ops \in Seq(MoveOps \cup DeleteOps)
  BY DEF TypeInv, TypeOK, SourceTypeOK
<1> DEFINE Match(q) == \A i \in DOMAIN q : q[i].kind = "move" /\ Tracked(q[i].id) =>
                          q[i].oldHash = Hash[files[q[i].id].rev]
<1>3. Match(ops)
  BY DEF GateInv, MovesMatch
<1>4. ASSUME NEW o, o.kind = "move" /\ Tracked(o.id) => o.oldHash = Hash[files[o.id].rev]
      PROVE  Match(Append(ops, o))
  BY <1>2, <1>3, <1>4
<1>5. Match(ops')
  <2>1. ASSUME NEW id, NEW e, ops' = ops \o PlannedOps(id, e)
        PROVE  Match(ops')
    <3>1. CASE PlannedOps(id, e) = <<>>
      BY <1>2, <1>3, <2>1, <3>1
    <3>2. CASE PlannedOps(id, e) = <<MoveOp(id, files[id], e)>>
      <4>1. ops' = ops \o <<MoveOp(id, files[id], e)>>
        BY <2>1, <3>2
      <4>2. ops' = Append(ops, MoveOp(id, files[id], e))
        BY <1>2, <4>1
      <4>3. MoveOp(id, files[id], e).oldHash = Hash[files[id].rev]
            /\ MoveOp(id, files[id], e).id = id
        BY DEF MoveOp
      <4>4. QED
        BY <1>4, <4>2, <4>3
    <3>3. QED
      BY <3>1, <3>2 DEF PlannedOps
  <2>2. ASSUME NEW id, ops' = Append(ops, DeleteOp(id, files[id]))
        PROVE  Match(ops')
    <3>1. DeleteOp(id, files[id]).kind = "delete"
      BY DEF DeleteOp
    <3>2. QED
      BY <1>4, <2>2, <3>1
  <2>3. QED
    BY <1>1, <1>3, <2>1, <2>2
<1>6. MovesMatch'
  BY <1>1, <1>5 DEF MovesMatch, Tracked
<1>7. QED
  BY <1>1, <1>6, QuietGate

-----------------------------------------------------------------------------
\* Emitting and transferring: the message sent is what the map says.

LEMMA EmitGate ==
  ASSUME TypeInv, GateInv, EmitOperation, UNCHANGED <<applied, durable>>
  PROVE  GateInv'
<1> DEFINE op == Head(ops)
<1>1. /\ files \in FileMap /\ ops \in Seq(MoveOps \cup DeleteOps) /\ ops # <<>>
      /\ pc = "emit" /\ pc' \in {"emit", "failed"}
      /\ channel' = Append(channel, op)
      /\ op \in MoveOps \cup DeleteOps
  BY DEF TypeInv, TypeOK, SourceTypeOK, CursorTypeOK, EmitOperation
<1>2. op.id \in Ids /\ op \in Records /\ op.kind # "state"
  BY <1>1 DEF MoveOps, DeleteOps, Records
<1>3. op.kind = "move" /\ Tracked(op.id) => op.oldHash = Hash[files[op.id].rev]
  BY <1>1 DEF GateInv, MovesMatch
<1>4. \/ op.kind = "move" /\ MarkMove(op) /\ ops' = Tail(ops)
      \/ op.kind # "move" /\ MarkDelete(op) /\ ops' = Tail(ops)
      \/ UNCHANGED <<files, ops>>
  BY DEF EmitOperation
<1>5. ASSUME NEW id \in Ids
      PROVE  \/ files'[id] = files[id]
             \/ files'[id] # Absent /\ Gate!Covers(op, id, files'[id])
             \/ files'[id] = Absent /\ Gate!Deletes(op, id)
  <2>1. CASE op.kind = "move" /\ MarkMove(op)
    <3>1. files[op.id] \in Version
      BY <1>1, <1>2, <2>1, TrackedIsVersion DEF MarkMove
    <3>2. op.new \in Paths
      BY <1>1, <2>1 DEF MoveOps, DeleteOps
    <3>3. files'[op.id] \in Version /\ files'[op.id].path = op.new
          /\ files'[op.id].rev = files[op.id].rev
      BY <1>1, <1>2, <2>1, <3>1, <3>2 DEF MarkMove, FileMap, Version
    <3>4. Gate!Covers(op, op.id, files'[op.id])
      BY <1>3, <2>1, <3>3 DEF Gate!Covers, MarkMove
    <3>5. files'[op.id] # Absent
      BY <3>3, AbsentIsNoVersion
    <3>6. id # op.id => files'[id] = files[id]
      BY <1>1, <2>1 DEF MarkMove, FileMap
    <3>7. QED
      BY <3>3, <3>4, <3>5, <3>6 DEF Gate!Covers
  <2>2. CASE op.kind # "move" /\ MarkDelete(op)
    <3>1. op.kind = "delete"
      BY <1>1, <2>2 DEF MoveOps, DeleteOps
    <3>2. files'[id] = IF id = op.id THEN Absent ELSE files[id]
      BY <1>1, <2>2 DEF MarkDelete, FileMap
    <3>3. QED
      BY <3>1, <3>2 DEF Gate!Deletes
  <2>3. QED
    BY <1>4, <2>1, <2>2
<1>6. MovesMatch'
  <2>1. \A i \in DOMAIN Tail(ops) : i + 1 \in DOMAIN ops /\ Tail(ops)[i] = ops[i + 1]
    BY <1>1
  <2>2. \A i \in DOMAIN ops' : \E j \in DOMAIN ops : ops'[i] = ops[j]
    BY <1>1, <1>4, <2>1
  <2>3. \A id \in Ids : files'[id] # Absent => files[id] # Absent /\ files'[id].rev = files[id].rev
    <3>1. CASE MarkMove(op)
      BY <1>1, <1>2, <3>1, TrackedIsVersion DEF MarkMove, FileMap, Version, Tracked
    <3>2. CASE MarkDelete(op)
      BY <1>1, <3>2 DEF MarkDelete, FileMap
    <3>3. QED
      BY <1>4, <3>1, <3>2
  <2>4. \A j \in DOMAIN ops : ops[j].id \in Ids
    BY <1>1 DEF MoveOps, DeleteOps
  <2>5. QED
    BY <1>1, <2>2, <2>3, <2>4 DEF GateInv, MovesMatch, Tracked
<1>7. QED
  BY <1>1, <1>2, <1>5, <1>6, SendingGate

LEMMA TransferGate ==
  ASSUME TypeInv, GateInv, UNCHANGED <<applied, durable>>,
         OperationsEmitted \/ TransferFile \/ SkipFile \/ Finish
  PROVE  GateInv'
<1>1. CASE OperationsEmitted
  <2>1. MovesMatch'
    BY <1>1 DEF OperationsEmitted, MovesMatch
  <2>2. QED
    BY <1>1, <2>1, QuietGate DEF OperationsEmitted, cursorVars
<1>2. CASE SkipFile
  <2>1. MovesMatch'
    BY <1>2 DEF SkipFile, GateInv, MovesMatch, Tracked, cursorVars
  <2>2. QED
    BY <1>2, <2>1, QuietGate DEF SkipFile, cursorVars
<1>3. CASE TransferFile
  <2>1. PICK t : t = Head(transfers)
    OBVIOUS
  <2>2. /\ t \in Transfers /\ files \in FileMap /\ pc = "transfer" /\ ops = <<>>
        /\ channel' = Append(channel, FileMsg(t)) /\ AddFile(t)
        /\ UNCHANGED <<pc, ops>>
    BY <1>3, <2>1 DEF TransferFile, TypeInv, TypeOK, SourceTypeOK, CursorTypeOK, GateInv, MovesMatch
  <2>3. FileMsg(t) \in Records /\ FileMsg(t).kind = "file"
    BY <2>2 DEF FileMsg, FileMsgs, Records, Transfers
  <2>4. ASSUME NEW id \in Ids
        PROVE  \/ files'[id] = files[id]
               \/ files'[id] # Absent /\ Gate!Covers(FileMsg(t), id, files'[id])
               \/ files'[id] = Absent /\ Gate!Deletes(FileMsg(t), id)
    <3>1. CASE id = t.id
      <4>1. files'[id] = [path |-> t.path, rev |-> t.rev]
        BY <2>2, <3>1 DEF AddFile, FileMap
      <4>2. files'[id] \in Version
        BY <2>2, <4>1 DEF Transfers, Version
      <4>3. Gate!Covers(FileMsg(t), id, files'[id])
        BY <3>1, <4>1 DEF Gate!Covers, FileMsg
      <4>4. QED
        BY <4>2, <4>3, AbsentIsNoVersion
    <3>2. CASE id # t.id
      BY <2>2, <3>2 DEF AddFile, FileMap
    <3>3. QED
      BY <3>1, <3>2
  <2>5. MovesMatch'
    BY <2>2 DEF MovesMatch
  <2>6. QED
    BY <2>2, <2>3, <2>4, <2>5, SendingGate
<1>4. CASE Finish
  <2>1. PICK m : m = StateMsg([files |-> files, cursor |-> cursor'])
    OBVIOUS
  <2>2. m \in StateMsgs
    BY <1>4, <2>1 DEF StateMsg, StateMsgs, State, Finish, TypeInv, TypeOK, SourceTypeOK, CursorTypeOK
  <2>3. m.state.files = files
    BY <2>1 DEF StateMsg
  <2>4. /\ channel' = Append(channel, m) /\ pc = "transfer" /\ UNCHANGED <<files, ops>>
        /\ ops = <<>>
    BY <1>4, <2>1 DEF Finish, GateInv, MovesMatch
  <2>5. MovesMatch'
    BY <2>4 DEF MovesMatch
  <2>6. QED
    BY <2>2, <2>3, <2>4, <2>5, SendingGate
<1>5. QED
  BY <1>1, <1>2, <1>3, <1>4

-----------------------------------------------------------------------------
\* Delivery: the head of the channel moves from the travelling to the applied.
LEMMA DeliverGate ==
  ASSUME TypeInv, GateInv, Deliver
  PROVE  GateInv'
<1>0. PICK L \in Nat : L = Len(channel)
  BY DEF TypeInv, TypeOK, SourceTypeOK
<1>1. /\ channel \in Seq(Records \cup StateMsgs) /\ channel # <<>> /\ channel' = Tail(channel)
      /\ applied' = applied \cup {Head(channel)}
      /\ UNCHANGED <<files, pc, ops, durable>>
  BY DEF Deliver, ApplyRecord, Upload, Move, AcceptMoved, Delete, Applied, cursorVars, TypeInv,
         TypeOK, SourceTypeOK
<1>2. /\ DOMAIN channel = 1 .. L /\ DOMAIN channel' = 1 .. (L - 1) /\ Len(channel') = L - 1
      /\ L > 0 /\ Head(channel) = channel[1]
      /\ \A i \in 1 .. (L - 1) : channel'[i] = channel[i + 1]
  BY <1>0, <1>1
<1>3. ASSUME NEW n \in 1 .. L PROVE Sent(n) \subseteq Sent(n - 1)'
  <2>1. ASSUME NEW i \in 1 .. n PROVE channel[i] \in Sent(n - 1)'
    <3>1. CASE i = 1
      BY <1>1, <1>2, <3>1 DEF Sent
    <3>2. CASE i # 1
      <4>1. i - 1 \in 1 .. (n - 1) /\ i - 1 \in 1 .. (L - 1)
        BY <1>3, <2>1, <3>2
      <4>2. channel'[i - 1] = channel[i]
        BY <1>2, <4>1
      <4>3. QED
        BY <4>1, <4>2 DEF Sent
    <3>3. QED
      BY <3>1, <3>2
  <2>2. applied \subseteq Sent(n - 1)'
    BY <1>1 DEF Sent
  <2>3. QED
    BY <2>1, <2>2 DEF Sent
<1>4. ASSUME NEW id, NEW entry, NEW R, Vouched(id, entry, R)
      PROVE  \/ entry = durable'.files[id]
             \/ entry # Absent /\ \E r \in R : Gate!Covers(r, id, entry)
             \/ entry = Absent /\ \E r \in R : Gate!Deletes(r, id)
  BY <1>1, <1>4 DEF Vouched
<1>5. StateGate'
  BY <1>1 DEF GateInv, StateGate
<1>6. MapVouched'
  <2>1. ASSUME pc # "idle", NEW id \in Ids PROVE Vouched(id, files[id], Sent(L - 1))'
    <3>1. Vouched(id, files[id], Sent(L - 1)')
      BY <1>0, <1>2, <1>3, <2>1, VouchedMonotone DEF GateInv, MapVouched
    <3>2. QED
      BY <1>1, <1>4, <3>1 DEF Vouched
  <2>2. QED
    BY <1>1, <1>2, <2>1 DEF MapVouched
<1>7. StatesVouched'
  <2>1. ASSUME NEW i \in 1 .. (L - 1), channel'[i].kind = "state", NEW id \in Ids
        PROVE  Vouched(id, channel[i].state.files[id], Sent(i - 1))'
    <3>1. i + 1 \in 1 .. L /\ channel'[i] = channel[i + 1] /\ i \in 1 .. L
          /\ (i + 1) - 1 = i
      BY <1>2
    <3>2. Vouched(id, channel[i + 1].state.files[id], Sent(i))
      BY <1>2, <2>1, <3>1 DEF GateInv, StatesVouched
    <3>3. Vouched(id, channel[i + 1].state.files[id], Sent(i - 1)')
      BY <1>3, <3>1, <3>2, VouchedMonotone
    <3>4. QED
      BY <1>1, <1>4, <3>1, <3>3 DEF Vouched
  <2>2. QED
    BY <1>2, <2>1 DEF StatesVouched
<1>8. MovesMatch'
  BY <1>1 DEF GateInv, MovesMatch, Tracked
<1>9. QED
  BY <1>5, <1>6, <1>7, <1>8 DEF GateInv

\* A state message that reaches the platform says only what applied records say.
LEMMA CheckpointJustified ==
  ASSUME TypeInv, GateInv, Checkpoint
  PROVE  \A id \in Ids : Gate!Justified(id, durable'.files[id])
<1>1. 1 \in DOMAIN channel /\ Head(channel) = channel[1] /\ channel[1].kind = "state"
  BY DEF Checkpoint, TypeInv, TypeOK, SourceTypeOK
<1>2. durable' = channel[1].state
  BY <1>1 DEF Checkpoint
<1>3. Sent(0) = applied
  BY DEF Sent
<1>4. ASSUME NEW id \in Ids PROVE Gate!Justified(id, durable'.files[id])
  <2>1. Vouched(id, channel[1].state.files[id], Sent(1 - 1))
    BY <1>1 DEF GateInv, StatesVouched
  <2>2. Vouched(id, durable'.files[id], applied)
    BY <1>2, <1>3, <2>1
  <2>3. QED
    BY <2>2 DEF Vouched, Gate!Justified
<1>5. QED
  BY <1>4

LEMMA EndGate ==
  ASSUME TypeInv, GateInv, Refuse \/ Checkpoint \/ SourceFailed \/ Abort
  PROVE  GateInv'
<1>1. EndAttempt /\ UNCHANGED applied
  BY DEF Refuse, Checkpoint, SourceFailed, Abort, destinationVars
<1>2. StateGate'
  <2>1. CASE UNCHANGED durable
    BY <1>1, <2>1 DEF GateInv, StateGate
  <2>2. CASE Checkpoint
    <3>1. \A id \in Ids : Gate!Justified(id, durable'.files[id])
      BY <2>2, CheckpointJustified
    <3>2. QED
      BY <1>1, <3>1 DEF Gate!Justified, GateInv, StateGate
  <2>3. QED
    BY <2>1, <2>2 DEF Refuse, SourceFailed, Abort
<1>3. QED
  BY <1>1, <1>2, EndedGate

LEMMA StartGate ==
  ASSUME TypeInv, GateInv, Start
  PROVE  GateInv'
<1>1. /\ files' = durable.files /\ pc' \in {"delta", "snapshot"}
      /\ UNCHANGED <<channel, applied, durable, ops>> /\ pc = "idle"
  BY DEF Start, StartAttempt, SetInitialState, destinationVars
<1>2. StateGate'
  BY <1>1 DEF GateInv, StateGate
<1>3. ASSUME NEW n PROVE Sent(n)' = Sent(n)
  BY <1>1 DEF Sent
<1>4. MapVouched'
  BY <1>1 DEF MapVouched, Vouched
<1>5. StatesVouched'
  BY <1>1, <1>3 DEF GateInv, StatesVouched, Vouched
<1>6. MovesMatch'
  BY <1>1 DEF GateInv, MovesMatch
<1>7. QED
  BY <1>2, <1>4, <1>5, <1>6 DEF GateInv

-----------------------------------------------------------------------------
LEMMA GateInvInductive == TypeInv /\ GateInv /\ [Next]_vars => GateInv'
<1> SUFFICES ASSUME TypeInv, GateInv, [Next]_vars PROVE GateInv'
  OBVIOUS
<1>1. CASE Change \/ UNCHANGED vars
  <2>1. UNCHANGED <<sourceVars, destinationVars, durable>>
    BY <1>1 DEF Change, vars
  <2>2. UNCHANGED <<files, pc, ops, channel, applied, durable>>
    BY <2>1 DEF sourceVars, cursorVars, destinationVars
  <2>3. GateInv'
    BY <2>2 DEF GateInv, StateGate, MapVouched, StatesVouched, MovesMatch, Vouched, Sent, Tracked
  <2>4. QED
    BY <2>3
<1>2. CASE Start
  BY <1>2, StartGate
<1>3. CASE Source
  <2>1. SourceStep /\ UNCHANGED <<applied, durable>>
    BY <1>3 DEF Source, destinationVars
  <2>2. CASE EmitOperation
    BY <2>1, <2>2, EmitGate
  <2>3. CASE OperationsEmitted \/ TransferFile \/ Finish
    BY <2>1, <2>3, TransferGate
  <2>4. CASE Plans
    BY <2>1, <2>4, PlansGate
  <2>5. QED
    BY <2>1, <2>2, <2>3, <2>4 DEF SourceStep, Plans
<1>4. CASE Skip
  BY <1>4, TransferGate DEF Skip, destinationVars
<1>5. CASE Reset
  BY <1>5, PlansGate DEF Reset, Plans, destinationVars
<1>6. CASE Deliver
  BY <1>6, DeliverGate
<1>7. CASE Refuse \/ Checkpoint \/ SourceFailed \/ Abort
  BY <1>7, EndGate
<1>8. QED
  BY <1>1, <1>2, <1>3, <1>4, <1>5, <1>6, <1>7 DEF Next

LEMMA GateInit == Init => TypeInv /\ GateInv
<1> SUFFICES ASSUME Init PROVE TypeInv /\ GateInv
  OBVIOUS
<1>1. TypeInv
  BY InitTypeInv
<1>2. \A id \in Ids : durable.files[id] = Absent
  BY DEF Init, NoState, NoFiles
<1>3. pc = "idle" /\ channel = <<>> /\ ops = <<>>
  BY DEF Init, NoAttempt
<1>4. GateInv
  BY <1>2, <1>3 DEF GateInv, StateGate, MapVouched, StatesVouched, MovesMatch
<1>5. QED
  BY <1>1, <1>4

\* Both invariants, of every behaviour.
LEMMA GateInvariant == Spec => [](TypeInv /\ GateInv)
<1>1. TypeInv /\ GateInv /\ [Next]_vars => (TypeInv /\ GateInv)'
  BY TypeInvInductive, GateInvInductive
<1>2. QED
  BY <1>1, GateInit, PTL DEF Spec

\* Whatever is planned, sent, skipped, refused or aborted, each entry of the map and of every
\* state message is that of the durable state, or there is a record of its file, applied or
\* ahead on the channel, that makes it true (reader.py, where the map changes as records are
\* sent, and cursor.py, where operations are planned from it).
THEOREM MapsVouchedFor == Spec => []GateInv
BY GateInvariant, PTL

\* The state gate: in every state a next attempt could start from, what the state
\* says of a file was put there by a record the destination has applied
\* (FileTransfer's Checkpoint, Abort and the whole source attempt).
THEOREM StateGateHolds == Spec => []StateGate
<1>1. GateInv => StateGate
  BY DEF GateInv
<1>2. QED
  BY <1>1, GateInvariant, PTL

\* Native file transfer implements the gate: a step of it is a record taking
\* effect, a checkpoint justified by applied records, or nothing to the gate.
THEOREM GateRefined == Spec => ImplementsGate
<1>1. Init => Gate!Init
  BY DEF Init, DestinationInit, NoState, NoFiles, Gate!Init
<1>2. TypeInv /\ GateInv /\ [Next]_vars => [Gate!Next]_(Gate!vars)
  <2> SUFFICES ASSUME TypeInv, GateInv, [Next]_vars PROVE [Gate!Next]_(Gate!vars)
    OBVIOUS
  <2>1. CASE Deliver
    <3>1. applied' = applied \cup {Head(channel)} /\ durable' = durable
      BY <2>1 DEF Deliver, ApplyRecord, Upload, Move, AcceptMoved, Delete, Applied
    <3>2. Head(channel) \in Records
      BY <2>1, RecordKinds DEF Deliver, TypeInv, TypeOK, SourceTypeOK
    <3>3. Gate!Apply
      BY <3>1, <3>2 DEF Gate!Apply
    <3>4. QED
      BY <3>3 DEF Gate!Next
  <2>2. CASE Checkpoint
    <3>1. UNCHANGED applied
      BY <2>2 DEF Checkpoint, destinationVars
    <3>2. Gate!Pass
      BY <2>2, <3>1, CheckpointJustified DEF Gate!Pass
    <3>3. QED
      BY <3>2 DEF Gate!Next
  <2>3. CASE UNCHANGED <<applied, durable>>
    BY <2>3 DEF Gate!vars
  <2>4. QED
    BY <2>1, <2>2, <2>3
    DEF Next, vars, Change, Start, Source, Skip, Reset, Refuse, SourceFailed, Abort,
        destinationVars
<1>3. QED
  BY <1>1, <1>2, GateInvariant, PTL DEF Spec, ImplementsGate, Gate!Spec
=============================================================================
