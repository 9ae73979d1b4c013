---------------------------- MODULE UploadSession ----------------------------
(***************************************************************************)
(* destination-dropbox-files, DropboxFilesClient.upload_staged_file: one   *)
(* staged file through a Dropbox upload session.  The session is started   *)
(* with the first chunk, chunks are appended at an offset, and the last    *)
(* one is sent with the finish that commits the file.                      *)
(*                                                                         *)
(* Every call goes through _call, which repeats it when the answer is a    *)
(* rate limit or a server error.  Such an answer says nothing of the       *)
(* effect: the server may have handled the request.  A repeated append     *)
(* then meets a session that is ahead of it, and the client takes over the *)
(* offset the server names; a repeated finish meets a closed session.      *)
(*                                                                         *)
(* A staged file of size n is the sequence of the positions 1 .. n, so     *)
(* that bytes that are missing, doubled or out of order would show.        *)
(***************************************************************************)
EXTENDS Integers, Sequences

CONSTANTS
    Sizes,              \* sizes of the staged file
    ChunkSize,          \* upload_chunk_size_mb
    MaxAttempts,        \* range(4) in _call
    MaxRecoveries,      \* offset recoveries per file: 2
    ConflictPolicy,     \* "overwrite" or "fail"
    NoFile,             \* nothing at the destination path
    Foreign             \* what another writer puts there

ASSUME UploadAssumption ==
    /\ Sizes \subseteq Nat
    /\ ChunkSize \in Nat \ {0}
    /\ MaxAttempts \in Nat \ {0}
    /\ MaxRecoveries \in Nat
    /\ ConflictPolicy \in {"overwrite", "fail"}
    /\ NoFile # Foreign

VARIABLES
    size,           \* file.size
    pc,             \* "start", "sending", or how the upload ended
    attempt,        \* answers of the current call that made _call repeat it
    offset,         \* the client's offset
    recoveries,     \* offset recoveries so far
    session,        \* the bytes the server's session holds
    open,           \* is there a session that is not finished?
    dest,           \* what is at the destination path
    committed,      \* history: the file has been committed
    lost            \* history: appends that were handled and their answer lost

clientVars == <<size, pc, attempt, offset, recoveries>>
serverVars == <<session, open, dest, committed, lost>>
vars == <<clientVars, serverVars>>

Failures == {"exhausted", "unusable", "conflict", "rejected"}
Running == pc \in {"start", "sending"}

\* The n bytes of the staged file that follow the first from: what a read after a
\* seek returns.
Part(from, n) == [i \in 1 .. n |-> from + i]
\* Mutant: the staged file is read from one byte too early after a seek.
ReadEarly(from) ==
    LET n == IF size - from <= ChunkSize THEN size - from ELSE ChunkSize
    IN  Part(IF from = 0 THEN 0 ELSE from - 1, n)

Read(from) == Part(from, IF size - from <= ChunkSize THEN size - from ELSE ChunkSize)
File == Part(0, size)

TypeOK ==
    /\ size \in Sizes
    /\ pc \in {"start", "sending", "done"} \cup Failures
    /\ attempt \in 0 .. (MaxAttempts - 1)
    /\ offset \in 0 .. size
    /\ recoveries \in 0 .. MaxRecoveries
    /\ session \in Seq(1 .. size)
    /\ open \in BOOLEAN /\ committed \in BOOLEAN
    /\ dest \in {NoFile, Foreign} \cup Seq(1 .. size)
    /\ lost \in 0 .. (MaxRecoveries + 1)

Init ==
    /\ size \in Sizes
    /\ pc = "start"
    /\ attempt = 0 /\ offset = 0 /\ recoveries = 0
    /\ session = <<>> /\ open = FALSE
    /\ dest = NoFile
    /\ committed = FALSE /\ lost = 0

-----------------------------------------------------------------------------
(* _call                                                                   *)

Answered == attempt' = 0

\* Mutant: the attempts start again instead of giving up.
UnansweredForEver ==
    /\ attempt' = (attempt + 1) % MaxAttempts
    /\ UNCHANGED pc

\* A rate limit or a server error: the call is repeated while the budget lasts.
Unanswered ==
    IF attempt = MaxAttempts - 1
      THEN pc' = "exhausted" /\ UNCHANGED attempt
      ELSE attempt' = attempt + 1 /\ UNCHANGED pc

\* ... and the server did nothing, or it started a session that nobody will use.
Transient ==
    /\ Running
    /\ Unanswered
    /\ UNCHANGED <<size, offset, recoveries, serverVars>>

\* A rejected credential, or any other error that _call or its caller raises on.
Reject ==
    /\ Running
    /\ pc' = "rejected"
    /\ UNCHANGED <<size, attempt, offset, recoveries, serverVars>>

-----------------------------------------------------------------------------
(* upload_staged_file                                                      *)

StartSession ==
    /\ pc = "start"
    /\ pc' = "sending"
    /\ session' = Read(0)
    /\ open' = TRUE
    /\ offset' = Len(Read(0))
    /\ Answered
    /\ UNCHANGED <<size, recoveries, dest, committed, lost>>

Finishing == size - offset <= ChunkSize
InPlace == open /\ Len(session) = offset

AppendChunk ==
    /\ pc = "sending" /\ ~Finishing /\ InPlace
    /\ session' = session \o Read(offset)
    /\ \/ /\ offset' = offset + Len(Read(offset))
          /\ Answered
          /\ UNCHANGED <<pc, lost>>
       \/ /\ Unanswered
          /\ lost' = lost + 1
          /\ UNCHANGED offset
    /\ UNCHANGED <<size, recoveries, open, dest, committed>>

\* Mutant: "fail" is sent as "overwrite".
MayCommitAlways == TRUE

\* _finish: overwrite replaces what is there; fail commits with WriteMode.add and
\* strict_conflict.
MayCommit == ConflictPolicy = "overwrite" \/ dest = NoFile

Finish ==
    /\ pc = "sending" /\ Finishing /\ InPlace /\ MayCommit
    /\ session' = session \o Read(offset)
    /\ open' = FALSE
    /\ dest' = session'
    /\ committed' = TRUE
    /\ \/ pc' = "done" /\ Answered
       \/ Unanswered
    /\ UNCHANGED <<size, offset, recoveries, lost>>

Conflict ==
    /\ pc = "sending" /\ Finishing /\ InPlace /\ ~MayCommit
    /\ pc' = "conflict"
    /\ UNCHANGED <<size, attempt, offset, recoveries, serverVars>>

\* Mutant: recoveries are not limited.
RecoverWithoutLimit ==
    /\ pc = "sending" /\ open /\ ~InPlace
    /\ offset' = Len(session)
    /\ recoveries' = recoveries + 1
    /\ Answered
    /\ UNCHANGED <<pc, size, serverVars>>

\* Mutant: recoveries are not counted.
RecoverUncounted ==
    /\ pc = "sending" /\ open /\ ~InPlace
    /\ offset' = Len(session)
    /\ Answered
    /\ UNCHANGED <<pc, size, recoveries, serverVars>>

\* Mutant: one recovery less than MaxRecoveries.
RecoverOnceLess ==
    /\ pc = "sending" /\ open /\ ~InPlace
    /\ LET corrected == Len(session) IN
         IF recoveries + 1 >= MaxRecoveries \/ corrected > size \/ corrected = offset
           THEN /\ pc' = "unusable"
                /\ UNCHANGED <<attempt, offset, recoveries>>
           ELSE /\ offset' = corrected
                /\ recoveries' = recoveries + 1
                /\ Answered
                /\ UNCHANGED pc
    /\ UNCHANGED <<size, serverVars>>

\* incorrect_offset: the server names the offset it is at.
Recover ==
    /\ pc = "sending" /\ open /\ ~InPlace
    /\ LET corrected == Len(session) IN
         IF recoveries >= MaxRecoveries \/ corrected > size \/ corrected = offset
           THEN /\ pc' = "unusable"
                /\ UNCHANGED <<attempt, offset, recoveries>>
           ELSE /\ offset' = corrected
                /\ recoveries' = recoveries + 1
                /\ Answered
                /\ UNCHANGED pc
    /\ UNCHANGED <<size, serverVars>>

\* The finish was handled before: the session is closed and names no offset.
SessionClosed ==
    /\ pc = "sending" /\ ~open
    /\ pc' = "unusable"
    /\ UNCHANGED <<size, attempt, offset, recoveries, serverVars>>

-----------------------------------------------------------------------------
ForeignWrite ==
    /\ dest # Foreign
    /\ dest' = Foreign
    /\ UNCHANGED <<clientVars, session, open, committed, lost>>

Client ==
    \/ Transient
    \/ Reject
    \/ StartSession
    \/ AppendChunk
    \/ Finish
    \/ Conflict
    \/ Recover
    \/ SessionClosed

Next == Client \/ ForeignWrite

Spec == Init /\ [][Next]_vars

\* The client runs on, and each of its calls is answered.
FairSpec == Spec /\ WF_vars(Client)

-----------------------------------------------------------------------------
\* The session holds the first bytes of the file, in order and none of them twice,
\* and the client is never ahead of it.
SessionIsPrefix ==
    /\ session = Part(0, Len(session))
    /\ open => offset <= Len(session) /\ Len(session) <= size

\* The upload implements the atomic one: the staged file appears whole, at most
\* once, success means it did, and a path that is taken is kept under "fail".
Atomic == INSTANCE AtomicUpload
            WITH file <- File,
                 result <- IF pc = "done" THEN "done"
                           ELSE IF pc \in Failures THEN "failed" ELSE "none"

ImplementsAtomicUpload == Atomic!Spec

\* The offset recovery serves its purpose: the upload gives a session up only when
\* more answers to appends were lost than it may recover from, or when the answer
\* to the finish was lost and the file is in fact committed (README.md:403).
GivesUpForCause == pc = "unusable" => committed \/ lost > MaxRecoveries

\* What is lost is recovered, one by one.
LostIsRecovered ==
    pc = "sending" /\ open =>
        lost = recoveries + (IF Len(session) = offset THEN 0 ELSE 1)

\* The retry and recovery budgets make every upload end.
Ends == <>(~Running)
=============================================================================
