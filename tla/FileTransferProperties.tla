----------------------- MODULE FileTransferProperties -----------------------
(***************************************************************************)
(* What native file transfer promises, and the conditions it promises it   *)
(* under.  The conditions are constants of the runs: which policies are    *)
(* set, whether a path is reused by another file, whether the folder       *)
(* changes while it is listed, whether an attempt can be aborted.          *)
(***************************************************************************)
EXTENDS FileTransfer

\* The changes of the folder the platform may rely on having been handled.
Handled(id) == \A k \in DOMAIN journal : journal[k].id = id => k <= durable.cursor

Eligible(id) == Exists(id) /\ Selected(live[id].path) /\ ~TooLarge(live[id].rev)

-----------------------------------------------------------------------------
Gate == INSTANCE CheckpointGate WITH checkpoint <- durable.files

\* The state gate (source README.md:27-29): the state a next attempt starts from
\* claims no path and no byte version of a file unless the destination has
\* committed the record that put it there.
StateGate ==
    \A id \in Ids :
        durable.files[id] # Absent => \E r \in applied : Gate!Covers(r, id, durable.files[id])

\* The pair implements the gate: also what the state forgets, it forgets only
\* after the destination has applied a deletion of that file.
ImplementsGate == Gate!Spec

\* Why the gate holds, inductively.  Whatever the map, or a state message on the
\* channel, says of a file is what the durable state says or what a record says
\* that was applied or travels ahead of it; and a planned move carries the hash
\* of the revision the map holds, until the operations are emitted.
Sent(n) == applied \cup {channel[i] : i \in 1 .. n}

Vouched(id, entry, records) ==
    \/ entry = durable.files[id]
    \/ entry # Absent /\ \E r \in records : Gate!Covers(r, id, entry)
    \/ entry = Absent /\ \E r \in records : Gate!Deletes(r, id)

MapVouched == pc # "idle" => \A id \in Ids : Vouched(id, files[id], Sent(Len(channel)))

StatesVouched ==
    \A i \in DOMAIN channel : channel[i].kind = "state" =>
        \A id \in Ids : Vouched(id, channel[i].state.files[id], Sent(i - 1))

MovesMatch ==
    /\ \A i \in DOMAIN ops : ops[i].kind = "move" /\ Tracked(ops[i].id) =>
          ops[i].oldHash = Hash[files[ops[i].id].rev]
    /\ pc \in {"idle", "transfer", "done"} => ops = <<>>

GateInv == StateGate /\ MapVouched /\ StatesVouched /\ MovesMatch

\* No change is lost: a file whose every change lies behind the durable cursor
\* is in the durable state with the revision the folder holds, whatever was
\* skipped, aborted, reset or changed while it was listed.
NothingMissed ==
    \A id \in Ids :
        Eligible(id) /\ Handled(id) => durable.files[id].rev = live[id].rev

-----------------------------------------------------------------------------
CaughtUp == pc = "idle" /\ durable.cursor = Len(journal)

Selection(k) == {id \in Ids : Exists(id) /\ Selected(live[id].path) /\ Fold[live[id].path] = k}

Copied ==
    \A k \in Keys :
        dest[k] = IF Selection(k) = {} THEN NoFile
                  ELSE Hash[live[CHOOSE id \in Selection(k) : TRUE].rev]

\* Once the durable cursor has reached the end of the history, the destination
\* holds exactly the selected files, each at its path with its bytes.
Mirrored == CaughtUp => Copied

\* A planned or travelling deletion is of a file that the folder does not hold
\* any more as far as it was listed (test_cursor.py:358, :473).
Deletions ==
    {ops[i] : i \in {j \in DOMAIN ops : ops[j].kind = "delete"}}
      \cup {channel[i] : i \in {j \in DOMAIN channel : channel[j].kind = "delete"}}

GoneAsListed(id) ==
    LET seen == {k \in 1 .. pageEnd : journal[k].id = id}
    IN  seen # {} => \E m \in 1 .. pageEnd :
            /\ journal[m].id = 0
            /\ \A k \in seen : k < m
            /\ \E k \in seen : /\ \A j \in seen : j <= k
                               /\ SamePath(journal[k].path, journal[m].path)

DeletesOnlyWhatIsGone == \A r \in Deletions : GoneAsListed(r.id)

\* With renames ignored a file stays at the path it was first written to.
PinnedPathIsKept ==
    [][\A id \in Ids :
          durable.files[id] # Absent /\ durable'.files[id] # Absent
            => durable'.files[id].path = durable.files[id].path]_vars

\* With both policies ignored, no path shared and no attempt aborted, the
\* destination holds the last staged bytes of every file at its pinned path, also
\* of the files that were renamed or deleted since.
PinnedCopies ==
    pc = "idle" => \A id \in Ids :
        durable.files[id] # Absent
          => dest[Fold[durable.files[id].path]] = Hash[durable.files[id].rev]

\* With no path shared and no attempt aborted the destination accepts every record.
NothingRefused ==
    channel # <<>> /\ Head(channel).kind # "state" => ~Raises(Head(channel))

\* A move that is replayed after it was applied is accepted while the moved
\* content is where it was moved to (destination test_client.py,
\* test_propagated_move_replay_accepts_already_moved_expected_content).
ReplayedMoveAccepted ==
    \A i \in DOMAIN channel :
        LET r == channel[i] IN
          i = 1 /\ r.kind = "move" /\ r \in applied
            /\ dest[Fold[r.new]] \in {r.oldHash, r.newHash}
          => ~Raises(r)

\* Propagation never takes away the copy of a file the folder still holds
\* (source README.md:49-52).
LiveFilesAreKept ==
    CaughtUp => \A id \in Ids :
        Eligible(id) => dest[Fold[live[id].path]] # NoFile

\* With a folder that stops changing, downloads that fail a bounded number of
\* times and no attempt aborted, the state reaches the end of the history and
\* the destination stays an exact copy.
EventuallyMirrored == <>[](durable.cursor = Len(journal) /\ Copied)
=============================================================================
