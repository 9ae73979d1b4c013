---------------------------- MODULE UploadProofs ----------------------------
(***************************************************************************)
(* Proofs about UploadSession, for every size, chunk size and budget.      *)
(*                                                                         *)
(* UploadTypeCorrect   Spec => []TypeOK                                    *)
(* PrefixKept          Spec => []SessionIsPrefix                           *)
(* EachLossRecovered   Spec => []LostIsRecovered                           *)
(* NothingLostForGood  Spec => []GivesUpForCause                           *)
(* AtomicRefined       Spec => ImplementsAtomicUpload                      *)
(***************************************************************************)
EXTENDS UploadSession, SequenceTheorems, TLAPS

-----------------------------------------------------------------------------
(* Parts of the staged file.                                               *)

LEMMA PartLength ==
  ASSUME NEW from \in Nat, NEW n \in Nat
  PROVE  /\ Part(from, n) \in Seq(Nat) /\ Len(Part(from, n)) = n
         /\ \A i \in 1 .. n : Part(from, n)[i] = from + i
<1>1. Part(from, n) \in [1 .. n -> Nat] /\ \A i \in 1 .. n : Part(from, n)[i] = from + i
  BY DEF Part
<1> HIDE DEF Part
<1>2. QED
  BY <1>1

LEMMA PartBytes ==
  ASSUME NEW from \in Nat, NEW n \in Nat, NEW total \in Nat, from + n <= total
  PROVE  Part(from, n) \in Seq(1 .. total)
<1>1. Part(from, n) \in [1 .. n -> 1 .. total]
  BY DEF Part
<1>2. QED
  BY <1>1

\* Two parts that meet are one.
LEMMA PartsMeet ==
  ASSUME NEW n \in Nat, NEW k \in Nat
  PROVE  Part(0, n) \o Part(n, k) = Part(0, n + k)
<1> DEFINE a == Part(0, n)
           b == Part(n, k)
           c == Part(0, n + k)
<1>1. a \in Seq(Nat) /\ Len(a) = n /\ \A i \in 1 .. n : a[i] = 0 + i
  BY PartLength
<1>2. b \in Seq(Nat) /\ Len(b) = k /\ \A i \in 1 .. k : b[i] = n + i
  BY PartLength
<1>3. c \in Seq(Nat) /\ Len(c) = n + k /\ \A i \in 1 .. n + k : c[i] = 0 + i
  <2>1. n + k \in Nat
    OBVIOUS
  <2>2. QED
    BY <2>1, PartLength
<1> HIDE DEF a, b, c
<1>4. /\ a \o b \in Seq(Nat) /\ Len(a \o b) = n + k
      /\ \A i \in 1 .. n + k : (a \o b)[i] = IF i <= n THEN a[i] ELSE b[i - n]
  BY <1>1, <1>2, ConcatProperties
<1>5. ASSUME NEW i \in 1 .. n + k PROVE (a \o b)[i] = c[i]
  <2>1. CASE i <= n
    BY <1>1, <1>3, <1>4, <1>5, <2>1
  <2>2. CASE i > n
    <3>1. i - n \in 1 .. k /\ n + (i - n) = i
      BY <1>5, <2>2
    <3>2. (a \o b)[i] = b[i - n]
      BY <1>4, <1>5, <2>2
    <3>3. b[i - n] = i
      BY <1>2, <3>1
    <3>4. c[i] = i
      BY <1>3, <1>5
    <3>5. QED
      BY <3>2, <3>3, <3>4
  <2>3. i <= n \/ i > n
    BY <1>5
  <2>4. QED
    BY <2>1, <2>2, <2>3
<1>6. a \o b = c
  BY <1>3, <1>4, <1>5, SeqEqual
<1>7. QED
  BY <1>6 DEF a, b, c

\* A read stays within the file, and it is the last one when Finishing.
LEMMA ReadWithin ==
  ASSUME size \in Nat, NEW from \in 0 .. size
  PROVE  \E k \in Nat : /\ Read(from) = Part(from, k) /\ Len(Read(from)) = k
                        /\ from + k <= size
                        /\ k = size - from \/ (k = ChunkSize /\ size - from > ChunkSize)
<1> DEFINE k == IF size - from <= ChunkSize THEN size - from ELSE ChunkSize
<1>1. k \in Nat /\ from + k <= size
      /\ (k = size - from \/ (k = ChunkSize /\ size - from > ChunkSize))
  BY UploadAssumption
<1>2. Read(from) = Part(from, k)
  BY DEF Read
<1> HIDE DEF k
<1>3. Len(Part(from, k)) = k
  BY <1>1, PartLength
<1>4. QED
  BY <1>1, <1>2, <1>3

-----------------------------------------------------------------------------
(* The inductive invariant.  What the session holds is the prefix of the   *)
(* file of length Len(session); the last conjuncts tie how far the client  *)
(* is to what the server did.                                              *)

Stage ==
    /\ pc = "start" => /\ ~open /\ ~committed /\ session = <<>>
                       /\ lost = 0 /\ recoveries = 0 /\ offset = 0
    /\ open => ~committed /\ pc # "done"
    /\ pc = "sending" /\ ~open => committed
    /\ pc = "done" => committed
    /\ lost <= MaxRecoveries + 1
    /\ committed => session = File

UploadInv ==
    TypeOK /\ SessionIsPrefix /\ LostIsRecovered /\ GivesUpForCause /\ Stage

\* The next bytes of the file extend the prefix the session holds.
LEMMA ReadExtends ==
  ASSUME UploadInv, pc = "sending", InPlace
  PROVE  \E k \in Nat : /\ Len(Read(offset)) = k /\ offset + k <= size
                        /\ session \o Read(offset) = Part(0, offset + k)
                        /\ Finishing => offset + k = size
<1>1. size \in Nat /\ offset \in 0 .. size /\ offset \in Nat /\ session = Part(0, offset)
  BY UploadAssumption DEF UploadInv, TypeOK, SessionIsPrefix, InPlace
<1>2. PICK k \in Nat : /\ Read(offset) = Part(offset, k) /\ Len(Read(offset)) = k
                       /\ offset + k <= size
                       /\ k = size - offset \/ (k = ChunkSize /\ size - offset > ChunkSize)
  BY <1>1, ReadWithin
<1>3. session \o Read(offset) = Part(0, offset + k)
  <2>1. session \o Read(offset) = Part(0, offset) \o Part(offset, k)
    BY <1>1, <1>2
  <2>2. QED
    BY <1>1, <2>1, PartsMeet
<1>4. Finishing => offset + k = size
  BY <1>1, <1>2, UploadAssumption DEF Finishing
<1>5. QED
  <2> WITNESS k \in Nat
  <2> QED BY <1>2, <1>3, <1>4

LEMMA UploadInit == Init => UploadInv
<1> SUFFICES ASSUME Init PROVE UploadInv
  OBVIOUS
<1>1. TypeOK
  <2>1. /\ size \in Sizes /\ attempt \in 0 .. (MaxAttempts - 1) /\ offset \in 0 .. size
        /\ recoveries \in 0 .. MaxRecoveries /\ lost \in 0 .. (MaxRecoveries + 1)
    BY UploadAssumption DEF Init
  <2>2. session \in Seq(1 .. size) /\ dest \in {NoFile, Foreign} \cup Seq(1 .. size)
    BY DEF Init
  <2>3. pc \in {"start", "sending", "done"} \cup Failures
    BY Zenon DEF Init
  <2>4. open \in BOOLEAN /\ committed \in BOOLEAN
    BY Zenon DEF Init
  <2>5. QED
    BY <2>1, <2>2, <2>3, <2>4 DEF TypeOK
<1>2. SessionIsPrefix
  BY DEF Init, SessionIsPrefix, Part
<1>3. LostIsRecovered /\ GivesUpForCause /\ Stage
  BY UploadAssumption DEF Init, LostIsRecovered, GivesUpForCause, Stage
<1>4. QED
  BY <1>1, <1>2, <1>3 DEF UploadInv

\* Repeating a call stays within the budget.
LEMMA UnansweredType ==
  ASSUME TypeOK, Running, Unanswered
  PROVE  /\ attempt' \in 0 .. (MaxAttempts - 1)
         /\ pc' \in {pc, "exhausted"}
         /\ pc' \in {"start", "sending", "done"} \cup Failures
<1>1. attempt' \in 0 .. (MaxAttempts - 1)
  BY UploadAssumption DEF TypeOK, Unanswered
<1>2. pc' \in {pc, "exhausted"}
  BY DEF Unanswered
<1>3. QED
  BY <1>1, <1>2 DEF Running, Failures

\* Steps that only end the upload or count an answer.
LEMMA ClientOnly ==
  ASSUME UploadInv, Transient \/ Reject \/ Conflict \/ SessionClosed
  PROVE  UploadInv'
<1>1. UNCHANGED <<size, offset, recoveries, session, open, dest, committed, lost>>
  BY DEF Transient, Reject, Conflict, SessionClosed, serverVars
<1>2. /\ attempt' \in 0 .. (MaxAttempts - 1)
      /\ pc' \in {pc, "exhausted", "rejected", "conflict"} \/ (pc' = "unusable" /\ committed)
      /\ pc \in {"start", "sending"}
  <2>1. CASE Transient
    BY <2>1, UnansweredType DEF Transient, UploadInv, Running
  <2>2. CASE Reject
    BY <2>2 DEF Reject, Running, UploadInv, TypeOK
  <2>3. CASE Conflict
    BY <2>3 DEF Conflict, UploadInv, TypeOK
  <2>4. CASE SessionClosed
    BY <2>4 DEF SessionClosed, UploadInv, TypeOK, Stage
  <2>5. QED
    BY <2>1, <2>2, <2>3, <2>4
<1>3. TypeOK'
  BY <1>1, <1>2 DEF UploadInv, TypeOK, Failures
<1>4. SessionIsPrefix'
  BY <1>1 DEF UploadInv, SessionIsPrefix, Part
<1>5. Stage'
  BY <1>1, <1>2 DEF UploadInv, Stage, File, Part
<1>6. LostIsRecovered' /\ GivesUpForCause'
  BY <1>1, <1>2 DEF UploadInv, LostIsRecovered, GivesUpForCause, Stage
<1>7. QED
  BY <1>3, <1>4, <1>5, <1>6 DEF UploadInv

LEMMA StartKeeps ==
  ASSUME UploadInv, StartSession
  PROVE  UploadInv'
<1>1. size \in Nat
  BY UploadAssumption DEF UploadInv, TypeOK
<1>2. PICK k \in Nat : Read(0) = Part(0, k) /\ Len(Read(0)) = k /\ 0 + k <= size
  BY <1>1, ReadWithin
<1>3. /\ pc' = "sending" /\ session' = Part(0, k) /\ open' = TRUE /\ offset' = k /\ attempt' = 0
      /\ UNCHANGED <<size, recoveries, dest, committed, lost>>
      /\ ~committed /\ lost = 0 /\ recoveries = 0
  BY <1>2 DEF StartSession, Answered, UploadInv, Stage
<1>4. Len(session') = k /\ session' \in Seq(1 .. size)
  BY <1>1, <1>2, <1>3, PartLength, PartBytes
<1>5. TypeOK'
  <2>1. (open \in BOOLEAN)' /\ (pc \in {"start", "sending", "done"} \cup Failures)'
    BY <1>3, Zenon
  <2>2. attempt' \in 0 .. (MaxAttempts - 1) /\ offset' \in 0 .. size
    BY <1>1, <1>2, <1>3, UploadAssumption
  <2>3. QED
    BY <1>3, <1>4, <2>1, <2>2 DEF UploadInv, TypeOK
<1>6. SessionIsPrefix'
  BY <1>1, <1>2, <1>3, <1>4 DEF SessionIsPrefix, Part
<1>7. Stage' /\ LostIsRecovered' /\ GivesUpForCause'
  BY <1>3, <1>4, UploadAssumption DEF Stage, LostIsRecovered, GivesUpForCause
<1>8. QED
  BY <1>5, <1>6, <1>7 DEF UploadInv

LEMMA AppendKeeps ==
  ASSUME UploadInv, AppendChunk
  PROVE  UploadInv'
<1>0. /\ size \in Nat /\ offset \in Nat /\ offset <= size /\ pc = "sending" /\ open /\ ~committed
      /\ Len(session) = offset /\ lost = recoveries /\ recoveries \in 0 .. MaxRecoveries
  BY UploadAssumption DEF UploadInv, TypeOK, AppendChunk, InPlace, LostIsRecovered, Stage
<1>1. PICK k \in Nat : /\ Len(Read(offset)) = k /\ offset + k <= size
                       /\ session \o Read(offset) = Part(0, offset + k)
  BY ReadExtends DEF AppendChunk
<1>2. k > 0
  BY <1>0, <1>1, ReadWithin, UploadAssumption DEF AppendChunk, Finishing
<1>3. /\ session' = Part(0, offset + k) /\ UNCHANGED <<size, recoveries, open, dest, committed>>
      /\ \/ offset' = offset + k /\ attempt' = 0 /\ UNCHANGED <<pc, lost>>
         \/ Unanswered /\ lost' = lost + 1 /\ UNCHANGED offset
  BY <1>1 DEF AppendChunk, Answered
<1>4. Len(session') = offset + k /\ session' \in Seq(1 .. size)
  BY <1>0, <1>1, <1>3, PartLength, PartBytes
<1>5. /\ attempt' \in 0 .. (MaxAttempts - 1) /\ pc' \in {"sending", "exhausted"}
      /\ offset' \in 0 .. size /\ lost' \in 0 .. (MaxRecoveries + 1)
  <2>1. CASE offset' = offset + k /\ attempt' = 0 /\ UNCHANGED <<pc, lost>>
    BY <1>0, <1>1, <2>1, UploadAssumption
  <2>2. CASE Unanswered /\ lost' = lost + 1 /\ UNCHANGED offset
    BY <1>0, <2>2, UnansweredType, UploadAssumption DEF UploadInv, Running
  <2>3. QED
    BY <1>3, <2>1, <2>2
<1>6. TypeOK'
  <2>1. (pc \in {"start", "sending", "done"} \cup Failures)'
    BY <1>5 DEF Failures
  <2>2. QED
    BY <1>3, <1>4, <1>5, <2>1 DEF UploadInv, TypeOK
<1>7. SessionIsPrefix'
  BY <1>0, <1>1, <1>3, <1>4 DEF SessionIsPrefix, Part
<1>8. Stage' /\ GivesUpForCause'
  BY <1>0, <1>3, <1>5, UploadAssumption DEF UploadInv, Stage, GivesUpForCause
<1>9. LostIsRecovered'
  BY <1>0, <1>1, <1>2, <1>3, <1>4 DEF LostIsRecovered
<1>10. QED
  BY <1>6, <1>7, <1>8, <1>9 DEF UploadInv

\* What is committed is the whole file.
LEMMA FinishCommits ==
  ASSUME UploadInv, Finish
  PROVE  session' = File /\ dest' = File /\ Len(session') = size
<1>1. size \in Nat /\ pc = "sending" /\ InPlace /\ Finishing
  BY UploadAssumption DEF UploadInv, TypeOK, Finish
<1>2. session \o Read(offset) = File
  BY <1>1, ReadExtends DEF File
<1>3. QED
  BY <1>1, <1>2, PartLength DEF Finish, File

LEMMA FinishKeeps ==
  ASSUME UploadInv, Finish
  PROVE  UploadInv'
<1>0. /\ size \in Nat /\ pc = "sending" /\ lost \in Nat /\ lost <= MaxRecoveries + 1
      /\ open /\ ~committed
  BY UploadAssumption DEF UploadInv, TypeOK, Stage, Finish, InPlace
<1>1. /\ open' = FALSE /\ committed' = TRUE /\ UNCHANGED <<size, offset, recoveries, lost>>
      /\ \/ pc' = "done" /\ attempt' = 0
         \/ Unanswered
  BY DEF Finish, Answered
<1>2. session' = File /\ dest' = File /\ Len(session') = size
  BY FinishCommits
<1>3. File \in Seq(1 .. size) /\ File' = File
  BY <1>0, <1>1, PartBytes DEF File, Part
<1>4. attempt' \in 0 .. (MaxAttempts - 1) /\ pc' \in {"sending", "exhausted", "done"}
  <2>1. CASE pc' = "done" /\ attempt' = 0
    BY <2>1, UploadAssumption
  <2>2. CASE Unanswered
    BY <1>0, <2>2, UnansweredType DEF UploadInv, Running
  <2>3. QED
    BY <1>1, <2>1, <2>2
<1>5. TypeOK'
  <2>1. (pc \in {"start", "sending", "done"} \cup Failures)'
    BY <1>4 DEF Failures
  <2>2. (open \in BOOLEAN)' /\ (committed \in BOOLEAN)'
    BY <1>1, Zenon
  <2>3. (session \in Seq(1 .. size))' /\ (dest \in {NoFile, Foreign} \cup Seq(1 .. size))'
    BY <1>1, <1>2, <1>3
  <2>4. QED
    BY <1>1, <1>4, <2>1, <2>2, <2>3 DEF UploadInv, TypeOK
<1>6. SessionIsPrefix'
  BY <1>1, <1>2 DEF SessionIsPrefix, File, Part
<1>7. Stage' /\ LostIsRecovered' /\ GivesUpForCause'
  BY <1>0, <1>1, <1>2, <1>3, <1>4 DEF Stage, LostIsRecovered, GivesUpForCause
<1>8. QED
  BY <1>5, <1>6, <1>7 DEF UploadInv

LEMMA RecoverKeeps ==
  ASSUME UploadInv, Recover
  PROVE  UploadInv'
<1>0. /\ size \in Nat /\ pc = "sending" /\ open /\ Len(session) # offset /\ ~committed
      /\ lost = recoveries + 1 /\ recoveries \in 0 .. MaxRecoveries
      /\ offset <= Len(session) /\ Len(session) <= size
      /\ session \in Seq(1 .. size)
  BY UploadAssumption DEF UploadInv, TypeOK, Recover, InPlace, LostIsRecovered, SessionIsPrefix, Stage
<1>1. /\ UNCHANGED <<size, session, open, dest, committed, lost>>
      /\ \/ recoveries >= MaxRecoveries /\ pc' = "unusable" /\ UNCHANGED <<attempt, offset, recoveries>>
         \/ /\ recoveries < MaxRecoveries /\ recoveries' = recoveries + 1
            /\ offset' = Len(session) /\ attempt' = 0 /\ pc' = pc
  BY <1>0, UploadAssumption DEF Recover, serverVars, Answered
<1>2. /\ attempt' \in 0 .. (MaxAttempts - 1) /\ offset' \in 0 .. size
      /\ recoveries' \in 0 .. MaxRecoveries /\ pc' \in {"sending", "unusable"}
  BY <1>0, <1>1, UploadAssumption DEF UploadInv, TypeOK
<1>3. TypeOK'
  <2>1. (pc \in {"start", "sending", "done"} \cup Failures)'
    BY <1>2 DEF Failures
  <2>2. QED
    BY <1>1, <1>2, <2>1 DEF UploadInv, TypeOK
<1>4. SessionIsPrefix'
  BY <1>0, <1>1 DEF UploadInv, SessionIsPrefix, Part
<1>5. Stage'
  BY <1>0, <1>1, <1>2 DEF UploadInv, Stage, File, Part
<1>6. LostIsRecovered' /\ GivesUpForCause'
  BY <1>0, <1>1, UploadAssumption DEF LostIsRecovered, GivesUpForCause
<1>7. QED
  BY <1>3, <1>4, <1>5, <1>6 DEF UploadInv

LEMMA UploadInvInductive == UploadInv /\ [Next]_vars => UploadInv'
<1> SUFFICES ASSUME UploadInv, [Next]_vars PROVE UploadInv'
  OBVIOUS
<1>1. CASE ForeignWrite \/ UNCHANGED vars
  <2>1. UNCHANGED <<size, pc, attempt, offset, recoveries, session, open, committed, lost>>
        /\ dest' \in {dest, Foreign}
    BY <1>1 DEF ForeignWrite, vars, clientVars, serverVars
  <2>2. TypeOK'
    BY <2>1 DEF UploadInv, TypeOK
  <2>3. QED
    BY <2>1, <2>2 DEF UploadInv, SessionIsPrefix, LostIsRecovered, GivesUpForCause, Stage, File, Part
<1>2. CASE Transient \/ Reject \/ Conflict \/ SessionClosed
  BY <1>2, ClientOnly
<1>3. QED
  BY <1>1, <1>2, StartKeeps, AppendKeeps, FinishKeeps, RecoverKeeps DEF Next, Client

LEMMA UploadInvariant == Spec => []UploadInv
  BY UploadInit, UploadInvInductive, PTL DEF Spec

\* Every reachable state of upload_staged_file is well typed: the budgets are never
\* exceeded and the offset stays within the file.
THEOREM UploadTypeCorrect == Spec => []TypeOK
<1>1. UploadInv => TypeOK
  BY DEF UploadInv
<1>2. QED
  BY <1>1, UploadInvariant, PTL

\* As long as the upload goes on, it has recovered from every answer to an append that was
\* lost but at most one, the last: the offset is not corrected twice for one loss, nor left
\* uncorrected (_correct_offset and the recoveries counted beside it).
THEOREM EachLossRecovered == Spec => []LostIsRecovered
<1>1. UploadInv => LostIsRecovered
  BY DEF UploadInv
<1>2. QED
  BY <1>1, UploadInvariant, PTL

\* Whatever is lost and repeated, the session never holds a byte out of its place
\* (the offsets of _call's repetitions and of _correct_offset).
THEOREM PrefixKept == Spec => []SessionIsPrefix
<1>1. UploadInv => SessionIsPrefix
  BY DEF UploadInv
<1>2. QED
  BY <1>1, UploadInvariant, PTL

\* The upload gives a session up only for more lost answers than the recovery
\* budget, or when the file is already committed.
THEOREM NothingLostForGood == Spec => []GivesUpForCause
<1>1. UploadInv => GivesUpForCause
  BY DEF UploadInv
<1>2. QED
  BY <1>1, UploadInvariant, PTL

\* upload_staged_file implements AtomicUpload: the finish is the instant at which
\* the file appears.
THEOREM AtomicRefined == Spec => ImplementsAtomicUpload
<1> DEFINE result == IF pc = "done" THEN "done" ELSE IF pc \in Failures THEN "failed" ELSE "none"
<1>1. Init => Atomic!Init
  BY DEF Init, Atomic!Init, Failures
<1>2. UploadInv /\ [Next]_vars => [Atomic!Next]_(Atomic!vars)
  <2> SUFFICES ASSUME UploadInv, [Next]_vars PROVE [Atomic!Next]_(Atomic!vars)
    OBVIOUS
  <2>0. size' = size => File' = File
    BY DEF File, Part
  <2>1. CASE Finish
    <3>1. /\ pc = "sending" /\ ~committed /\ committed' = TRUE /\ size' = size /\ dest' = File
          /\ pc' \in {"done", "sending", "exhausted"} /\ MayCommit
      BY <2>1, FinishCommits DEF Finish, InPlace, UploadInv, Stage, Unanswered
    <3>2. result = "none" /\ result' \in {"none", "done", "failed"}
      BY <3>1 DEF Failures
    <3>3. QED
      BY <2>0, <3>1, <3>2 DEF Atomic!Commit, Atomic!Next, MayCommit
  <2>2. CASE ForeignWrite
    BY <2>0, <2>2 DEF ForeignWrite, clientVars, Atomic!ForeignWrite, Atomic!Next
  <2>3. CASE /\ UNCHANGED <<size, dest, committed>>
             /\ pc' = pc \/ (Running /\ pc' \in Failures \cup {"sending"})
    <3>1. CASE pc' \in Failures /\ Running
      BY <2>0, <2>3, <3>1 DEF Running, Failures, Atomic!Fail, Atomic!Next
    <3>2. CASE pc' = pc \/ (Running /\ pc' = "sending")
      BY <2>0, <2>3, <3>2 DEF Running, Failures, Atomic!vars
    <3>3. QED
      BY <2>3, <3>1, <3>2
  <2>4. CASE Transient \/ Reject \/ Conflict \/ SessionClosed
    BY <2>3, <2>4 DEF Transient, Unanswered, Reject, Conflict, SessionClosed, Running, Failures,
                      serverVars
  <2>5. CASE StartSession \/ AppendChunk \/ Recover
    BY <2>3, <2>5 DEF StartSession, AppendChunk, Recover, Unanswered, Running, Failures, serverVars
  <2>6. CASE UNCHANGED vars
    BY <2>3, <2>6 DEF vars, clientVars, serverVars
  <2>7. QED
    BY <2>1, <2>2, <2>4, <2>5, <2>6 DEF Next, Client
<1>3. QED
  BY <1>1, <1>2, UploadInvariant, PTL DEF Spec, ImplementsAtomicUpload, Atomic!Spec
=============================================================================
