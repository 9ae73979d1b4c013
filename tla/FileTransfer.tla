---------------------------- MODULE FileTransfer ----------------------------
(***************************************************************************)
(* Native file transfer end to end: the changing source folder, the source *)
(* attempt, the channel, the destination and the platform, which keeps the *)
(* last state message the destination let through and starts the next      *)
(* attempt from it.  A crash of either connector or of the platform, an    *)
(* exhausted retry budget, a rejected credential and a lost response that  *)
(* is answered by an error are all an Abort: the attempt is over and what  *)
(* is on the channel is lost; a crash after a mutation of the destination  *)
(* is an Abort after the step that made it.                                *)
(***************************************************************************)
EXTENDS NativeSource, NativeDestination

CONSTANTS
    MaxAborts,  \* bound: attempts that are aborted
    MaxSkips,   \* bound: downloads of an unchanged file that fail
    MaxResets   \* bound: list_folder cursors Dropbox resets

ASSUME BoundsAssumption == MaxAborts \in Nat /\ MaxSkips \in Nat /\ MaxResets \in Nat

VARIABLES
    durable,    \* the state the platform would start the next attempt from
    budget      \* aborts, skips and resets left

vars == <<folderVars, sourceVars, destinationVars, durable, budget>>

Budgets == [aborts : 0 .. MaxAborts, skips : 0 .. MaxSkips, resets : 0 .. MaxResets]

TypeOK ==
    /\ FolderTypeOK
    /\ SourceTypeOK
    /\ dest \in [Keys -> Hashes \cup {NoFile}]
    /\ applied \in SUBSET Records
    /\ durable \in State
    /\ budget \in Budgets

Init ==
    /\ FolderInit
    /\ NoAttempt
    /\ DestinationInit
    /\ durable = NoState
    /\ budget = [aborts |-> MaxAborts, skips |-> MaxSkips, resets |-> MaxResets]

-----------------------------------------------------------------------------
Change ==
    /\ pc = "idle" \/ AwaitsDropbox
    /\ FolderChange
    /\ UNCHANGED <<sourceVars, destinationVars, durable, budget>>

Start ==
    /\ StartAttempt(durable)
    /\ UNCHANGED <<folderVars, destinationVars, durable, budget>>

Source ==
    /\ SourceStep
    /\ UNCHANGED <<folderVars, destinationVars, durable, budget>>

Skip ==
    /\ SkipFile
    /\ LET t == Head(transfers) IN
         \/ live[t.id].rev # t.rev /\ UNCHANGED budget
         \/ /\ budget.skips > 0
            /\ budget' = [budget EXCEPT !.skips = @ - 1]
    /\ UNCHANGED <<folderVars, destinationVars, durable>>

Reset ==
    /\ CursorReset
    /\ budget.resets > 0
    /\ budget' = [budget EXCEPT !.resets = @ - 1]
    /\ UNCHANGED <<folderVars, destinationVars, durable>>

\* The destination handles the next record.
Deliver ==
    /\ channel # <<>>
    /\ Head(channel).kind # "state"
    /\ ApplyRecord(Head(channel))
    /\ channel' = Tail(channel)
    /\ UNCHANGED <<folderVars, cursorVars, pc, listVars, planVars, ops, transfers, sawError,
                   durable, budget>>

Refuse ==
    /\ channel # <<>>
    /\ Head(channel).kind # "state"
    /\ Raises(Head(channel))
    /\ EndAttempt
    /\ UNCHANGED <<folderVars, destinationVars, durable, budget>>

\* The state message passes through and the platform keeps it: the attempt ends.
Checkpoint ==
    /\ channel # <<>>
    /\ Head(channel).kind = "state"
    /\ durable' = Head(channel).state
    /\ EndAttempt
    /\ UNCHANGED <<folderVars, destinationVars, budget>>

\* The source raised; what it had written may or may not have been handled.
SourceFailed ==
    /\ pc = "failed"
    /\ EndAttempt
    /\ UNCHANGED <<folderVars, destinationVars, durable, budget>>

Abort ==
    /\ pc # "idle"
    /\ budget.aborts > 0
    /\ budget' = [budget EXCEPT !.aborts = @ - 1]
    /\ EndAttempt
    /\ UNCHANGED <<folderVars, destinationVars, durable>>

Next ==
    \/ Change
    \/ Start
    \/ Source
    \/ Skip
    \/ Reset
    \/ Deliver
    \/ Refuse
    \/ Checkpoint
    \/ SourceFailed
    \/ Abort

Spec == Init /\ [][Next]_vars

\* The two connectors and the scheduler run on; nothing obliges the folder to
\* change, a download to fail, a cursor to be reset or an attempt to be aborted.
SourceProcess == Source \/ Skip \/ SourceFailed
DestinationProcess == Deliver \/ Refuse \/ Checkpoint

FairSpec ==
    /\ Spec
    /\ WF_vars(Start)
    /\ WF_vars(SourceProcess)
    /\ WF_vars(DestinationProcess)
=============================================================================
