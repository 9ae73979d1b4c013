----------------------------- MODULE RepairProofs -----------------------------
(***************************************************************************)
(* Proofs about a compare and the repair that follows it, as a part of     *)
(* Programs, for any paths, contents, page size and number of changes.     *)
(*                                                                         *)
(* ReportsTruly        Spec => []UnchangedReported                         *)
(* LinesTellTruly      Spec => []LinesAreTrue                              *)
(* RepairsConverge     Spec => []RepairConverges                           *)
(* WritesAsReported    Spec => WritesWhatIsReported                        *)
(***************************************************************************)
EXTENDS Programs, WellFoundedInduction, TLAPS

\* Every set of naturals has a least element.
LEMMA LeastExists ==
  ASSUME NEW T, T \subseteq Nat, T # {}
  PROVE  \E x \in T : \A y \in T : x <= y
<1>1. PICK x \in T : \A y \in T : ~ (<<y, x>> \in OpToRel(<, Nat))
  BY NatLessThanWellFounded, WFMin
<1>2. ASSUME NEW y \in T PROVE x <= y
  <2>1. x \in Nat /\ y \in Nat /\ <<y, x>> \in Nat \X Nat
    OBVIOUS
  <2>2. ~ (y < x)
    BY <1>1, <2>1 DEF OpToRel
  <2>3. QED
    BY <2>1, <2>2
<1>3. QED
  BY <1>2

-----------------------------------------------------------------------------
(* The invariant.                                                          *)

\* Before there is a run, and once a run is over.
Before == P!Sides \cup {"reported", "refused", "ambiguous"}

Listed(item) == IF item = P!None THEN <<>> ELSE <<item>>

\* A path that did not change is listed once, when the cursor has told of it, which it
\* has when there are no more pages.
ListedOnce ==
    \A p \in Paths \ changed :
        /\ step \in P!Sides =>
              /\ known[p] \in {P!None, folder[step][p]}
              /\ entries[step][p] = Listed(known[p])
              /\ ~more => known[p] = folder[step][p]
        /\ step = "source" => entries["destination"][p] = <<>>
        /\ step = "destination" => entries["source"][p] = Listed(folder["source"][p])

\* A path that the run left out: it says so, and there is a cause.
LeftOut(p) == outcome[p] = "error" /\ (p \in unread \/ Fold[p] # p)

\* What the report says of such a path stays true of the source, and of a destination
\* that matches.
ReportHolds ==
    step \in {"applying", "repaired"} =>
        \A p \in Paths \ (changed \cup Odd) :
            LET s == folder["source"][p]  d == folder["destination"][p] IN
            s # P!None =>
                /\ report[p].source = s
                /\ report[p].status \in {"matched", "missing", "mismatched"}
                /\ report[p].status = "matched" => d.content = s.content
                /\ p \in todo \/ d.content = s.content \/ LeftOut(p)

\* A path still to be applied has no line and is not written, and what is staged is the
\* revision that the report calls missing or mismatched.
AppliedOnce ==
    /\ step \in Before =>
          todo = {} /\ stored = {} /\ staged = P!Nothing /\ \A p \in Paths : outcome[p] = "none"
    /\ step = "repaired" => todo = {}
    /\ step = "applying" => \A p \in todo : outcome[p] = "none" /\ p \notin stored
    /\ staged # P!Nothing =>
          /\ staged.path \in todo
          /\ report[staged.path].status \in P!ACTIONABLE
          /\ staged.content = report[staged.path].source.content

RepairInv ==
    program = REPAIR =>
        /\ P!RepairTypeOK
        /\ ListedOnce /\ P!UnchangedReported /\ P!DuplicateForCause
        /\ AppliedOnce /\ P!LinesAreTrue /\ ReportHolds

-----------------------------------------------------------------------------
(* Types.                                                                  *)

LEMMA HeldType ==
  ASSUME NEW rev \in Nat \ {0}, NEW c \in Contents \cup {0}
  PROVE  /\ P!Held(rev, c) \in {P!None} \cup P!Revision
         /\ P!Held(rev, c).content = c
BY DEF P!Held, P!None, P!Revision

LEMMA ItemType ==
  ASSUME P!ReconcileTypeOK, NEW s \in P!Sides, NEW p \in Paths
  PROVE  P!Item(s, p) \in {P!None} \cup P!Revision
<1>1. entries[s][p] \in Seq(P!Revision)
  BY DEF P!ReconcileTypeOK
<1>2. QED
  BY <1>1 DEF P!Item

LEMMA NoneIsNoRevision == P!None \notin P!Revision
BY DEF P!None, P!Revision

LEMMA ListingType ==
  ASSUME P!ReconcileTypeOK, P!Comparing
  PROVE  P!ReconcileTypeOK'
<1>1. CASE P!ListPage
  <2>1. PICK T \in SUBSET P!News(step) :
            /\ P!Take(step, T)
            /\ known' = [p \in Paths |-> IF p \in T THEN folder[step][p] ELSE known[p]]
            /\ more' = (T # P!News(step))
    BY <1>1 DEF P!ListPage
  <2>2. step \in P!Sides /\ UNCHANGED <<folder, step, report, changed>>
    BY <1>1 DEF P!ListPage
  <2>3. known' \in [Paths -> {P!None} \cup P!Revision]
    BY <2>1, <2>2 DEF P!ReconcileTypeOK
  <2>4. \A p \in Paths : folder[step][p] \in {P!None} \cup P!Revision
    BY <2>2 DEF P!ReconcileTypeOK
  <2>5. [p \in Paths |-> IF p \in T /\ folder[step][p] # P!None
                           THEN Append(entries[step][p], folder[step][p]) ELSE entries[step][p]]
          \in [Paths -> Seq(P!Revision)]
    BY <2>2, <2>4 DEF P!ReconcileTypeOK
  <2>6. entries' \in [P!Sides -> [Paths -> Seq(P!Revision)]]
    BY <2>1, <2>2, <2>5 DEF P!Take, P!ReconcileTypeOK
  <2>7. QED
    BY <2>1, <2>2, <2>3, <2>6 DEF P!ReconcileTypeOK
<1>2. CASE P!DuplicateFails
  BY <1>2 DEF P!DuplicateFails, P!ReconcileTypeOK
<1>3. CASE P!ListDestination
  BY <1>3 DEF P!ListDestination, P!ReconcileTypeOK, P!Empty
<1>4. CASE P!WriteReport
  <2>1. ASSUME NEW p \in Paths
        PROVE  P!Verdict(p) \in P!Reports
    <3>1. "source" \in P!Sides /\ "destination" \in P!Sides
      BY DEF P!Sides
    <3>2. /\ P!Item("source", p) \in {P!None} \cup P!Revision
          /\ P!Item("destination", p) \in {P!None} \cup P!Revision
      BY <3>1, ItemType
    <3>3. P!Compare(P!Item("source", p), P!Item("destination", p))
             \in {"matched", "missing", "mismatched", "extra_destination"}
          \/ (P!Item("source", p) = P!None /\ P!Item("destination", p) = P!None)
      BY <3>2, NoneIsNoRevision DEF P!Compare
    <3>4. QED
      BY <3>2, <3>3 DEF P!Verdict, P!Reports
  <2>2. report' \in [Paths -> P!Reports]
    BY <1>4, <2>1 DEF P!WriteReport
  <2>3. QED
    BY <1>4, <2>2 DEF P!WriteReport, P!ReconcileTypeOK, P!Empty, P!NoEntries
<1>5. QED
  BY <1>1, <1>2, <1>3, <1>4 DEF P!Comparing

\* The record at hand, as long as there is one.
LEMMA RecordIsLeast ==
  ASSUME program = REPAIR, RepairInv, todo # {}
  PROVE  P!Record \in todo /\ P!Record \in Paths
<1>1. todo \subseteq Paths /\ Paths \subseteq Nat
  BY ProgramsAssumption DEF RepairInv, P!RepairTypeOK, P!Listed, P!ReconcileAssumption
<1>2. \E p \in todo : \A q \in todo : p <= q
  BY <1>1, LeastExists
<1>3. QED
  BY <1>1, <1>2 DEF P!Record

LEMMA CompareType ==
  ASSUME program = REPAIR, RepairInv, P!Compares
  PROVE  P!RepairTypeOK'
<1>1. P!ReconcileTypeOK' /\ P!RepairTypeOK /\ UNCHANGED <<todo, staged, outcome, stored, unread, spent>>
  BY ListingType DEF P!Compares, P!applyVars, RepairInv, P!RepairTypeOK
<1>2. step' \in P!Sides \cup {"reported", "ambiguous"} /\ step \in P!Sides /\ changed' = changed
  BY DEF P!Compares, P!Comparing, P!ListPage, P!DuplicateFails, P!ListDestination, P!WriteReport,
         P!Sides
<1>3. todo = {} /\ staged = P!Nothing
  BY <1>2 DEF RepairInv, AppliedOnce, Before
<1>4. QED
  BY <1>1, <1>2, <1>3 DEF P!RepairTypeOK

LEMMA ApplyType ==
  ASSUME program = REPAIR, RepairInv,
         P!Applying \/ P!CallFails \/ P!Disturbance
  PROVE  P!RepairTypeOK'
<1> USE DEF P!RepairTypeOK
<1>1. P!RepairTypeOK /\ P!ReconcileTypeOK
  BY DEF RepairInv
<1>2. ASSUME UNCHANGED <<known, entries, more, report, changed, folder>>
      PROVE  P!ReconcileTypeOK' /\ P!Listed' = P!Listed
  BY <1>1, <1>2 DEF P!ReconcileTypeOK, P!Listed
<1>3. CASE P!LoadReport
  BY <1>1, <1>2, <1>3 DEF P!LoadReport, RepairInv, AppliedOnce, Before
<1>4. CASE P!SkipRecord
  BY <1>1, <1>2, <1>4, RecordIsLeast DEF P!SkipRecord, P!Emit, P!compared
<1>5. CASE P!StageSource
  <2>1. P!Record \in todo /\ P!Record \in Paths
    BY <1>5, RecordIsLeast DEF P!StageSource
  <2>2. P!ReconcileTypeOK' /\ P!Listed' = P!Listed /\ staged = P!Nothing
    BY <1>2, <1>5 DEF P!StageSource, P!compared
  <2>3. /\ step = "applying" /\ step' = step /\ stored' = stored
        /\ unread' \subseteq Paths /\ spent' \in 0 .. Budget
    BY <1>1, <1>5, <2>1, ProgramsAssumption DEF P!StageSource, P!Disturb, P!RepairAssumption
  <2>4. CASE /\ P!Unchanged(P!Record)
             /\ staged' = [path |-> P!Record, content |-> folder["source"][P!Record].content]
             /\ UNCHANGED <<todo, outcome>>
    <3>1. folder["source"][P!Record] \in {P!None} \cup P!Revision
      BY <1>1, <2>1 DEF P!ReconcileTypeOK, P!Sides
    <3>2. staged' \in [path : Paths \cup {NoPath}, content : Contents \cup {0}]
      BY <2>1, <2>4, <3>1 DEF P!None, P!Revision
    <3>3. P!Record' = P!Record
      BY <2>4 DEF P!Record
    <3>4. QED
      BY <1>1, <2>2, <2>3, <2>4, <3>2, <3>3
  <2>5. CASE P!PassOver
    BY <1>1, <2>1, <2>2, <2>3, <2>5 DEF P!PassOver, P!Emit
  <2>6. QED
    BY <1>5, <2>4, <2>5 DEF P!StageSource
<1>6. CASE P!UploadStaged
  <2>1. staged.path \in todo /\ staged.path \in Paths /\ staged.content \in Contents \cup {0}
    BY <1>1, <1>6 DEF P!UploadStaged, RepairInv, AppliedOnce, P!Listed
  <2>2. P!ReconcileTypeOK' /\ P!Listed' = P!Listed
    <3>1. folder' = [folder EXCEPT !["destination"][staged.path] = P!Held(1, staged.content)]
          /\ UNCHANGED <<known, entries, more, report, changed>>
      BY <1>6 DEF P!UploadStaged, P!Overwrite, P!compared
    <3>2. P!Held(1, staged.content) \in {P!None} \cup P!Revision
      BY <2>1, HeldType
    <3>3. folder' \in [P!Sides -> [Paths -> {P!None} \cup P!Revision]]
      BY <1>1, <2>1, <3>1, <3>2 DEF P!ReconcileTypeOK, P!Sides
    <3>4. QED
      BY <1>1, <3>1, <3>3 DEF P!ReconcileTypeOK, P!Listed
  <2>3. P!Nothing \in [path : Paths \cup {NoPath}, content : Contents \cup {0}]
    BY DEF P!Nothing
  <2>4. QED
    BY <1>1, <1>6, <2>1, <2>2, <2>3, ProgramsAssumption
       DEF P!UploadStaged, P!compared, P!Emit, P!FailRun, P!Disturb, P!RepairAssumption
<1>7. CASE P!RunEnds
  <2>1. /\ step' = "repaired" /\ todo = {} /\ staged = P!Nothing
        /\ UNCHANGED <<known, entries, more, report, changed, folder>>
        /\ UNCHANGED <<todo, staged, outcome, stored, unread, spent>>
    BY <1>7 DEF P!RunEnds, P!compared, P!applyVars, RepairInv, AppliedOnce
  <2>2. QED
    BY <1>1, <1>2, <2>1
<1>8. CASE P!CallFails
  <2>1. P!Nothing \in [path : Paths \cup {NoPath}, content : Contents \cup {0}]
    BY DEF P!Nothing
  <2>2. QED
    BY <1>1, <1>2, <1>8, <2>1, ProgramsAssumption
       DEF P!CallFails, P!compared, P!FailRun, P!Disturb, P!RepairAssumption
<1>9. CASE P!Disturbance
  <2>1. PICK s \in P!Sides, p \in Paths : P!Change(s, p, spent + 2)
    BY <1>9 DEF P!Disturbance
  <2>2. spent \in Nat /\ spent + 2 \in Nat \ {0}
    BY <1>1, ProgramsAssumption DEF P!RepairAssumption
  <2>3. P!ReconcileTypeOK'
    <3>1. PICK c \in Contents \cup {0} :
              folder' = [folder EXCEPT ![s][p] = P!Held(spent + 2, c)]
      BY <2>1 DEF P!Change
    <3>2. P!Held(spent + 2, c) \in {P!None} \cup P!Revision
      BY <2>2, HeldType
    <3>3. folder' \in [P!Sides -> [Paths -> {P!None} \cup P!Revision]]
      BY <1>1, <3>1, <3>2 DEF P!ReconcileTypeOK
    <3>4. changed' \subseteq Paths
      BY <1>1, <2>1 DEF P!Change, P!ReconcileTypeOK
    <3>5. UNCHANGED <<known, entries, more, report>>
      BY <1>9 DEF P!Disturbance
    <3>6. QED
      BY <1>1, <3>3, <3>4, <3>5 DEF P!ReconcileTypeOK
  <2>4. UNCHANGED <<step, report, todo, staged, outcome, stored, unread>> /\ spent' \in 0 .. Budget
    BY <1>1, <1>9, ProgramsAssumption DEF P!Disturbance, P!Disturb, P!RepairAssumption, P!applyVars
  <2>5. P!Listed' = P!Listed /\ P!Record' = P!Record
    BY <2>4 DEF P!Listed, P!Record
  <2>6. QED
    BY <1>1, <2>3, <2>4, <2>5
<1>10. QED
  BY <1>3, <1>4, <1>5, <1>6, <1>7, <1>8, <1>9 DEF P!Applying

-----------------------------------------------------------------------------
(* The compare.                                                            *)

LEMMA PageListsOnce ==
  ASSUME RepairInv, program = REPAIR, P!ListPage
  PROVE  ListedOnce'
<1>1. PICK T \in SUBSET P!News(step) :
          /\ P!Take(step, T)
          /\ known' = [p \in Paths |-> IF p \in T THEN folder[step][p] ELSE known[p]]
          /\ more' = (T # P!News(step))
  BY DEF P!ListPage
<1>2. step \in P!Sides /\ UNCHANGED <<folder, step, report, changed>>
  BY DEF P!ListPage
<1>3. P!ReconcileTypeOK /\ ListedOnce
  BY DEF RepairInv, P!RepairTypeOK
<1>4. ASSUME NEW p \in Paths \ changed
      PROVE  /\ entries'[step][p] = IF p \in T /\ folder[step][p] # P!None
                                      THEN Append(entries[step][p], folder[step][p])
                                      ELSE entries[step][p]
             /\ \A s \in P!Sides : s # step => entries'[s][p] = entries[s][p]
  BY <1>1, <1>2, <1>3 DEF P!Take, P!ReconcileTypeOK
<1>5. ASSUME NEW p \in Paths \ changed
      PROVE  /\ known'[p] \in {P!None, folder[step][p]}
             /\ entries'[step][p] = Listed(known'[p])
             /\ ~more' => known'[p] = folder[step][p]
  <2>1. /\ known[p] \in {P!None, folder[step][p]}
        /\ entries[step][p] = Listed(known[p])
    BY <1>2, <1>3 DEF ListedOnce
  <2>2. CASE p \in T
    <3>1. known[p] = P!None /\ folder[step][p] # P!None /\ known'[p] = folder[step][p]
      BY <1>1, <2>1, <2>2 DEF P!News
    <3>2. entries[step][p] = <<>> /\ entries'[step][p] = Append(<<>>, folder[step][p])
      BY <1>4, <2>1, <2>2, <3>1 DEF Listed
    <3>3. Append(<<>>, folder[step][p]) = <<folder[step][p]>>
      OBVIOUS
    <3>4. QED
      BY <3>1, <3>2, <3>3 DEF Listed
  <2>3. CASE p \notin T
    <3>1. known'[p] = known[p] /\ entries'[step][p] = entries[step][p]
      BY <1>1, <1>4, <2>3
    <3>2. ~more' => known[p] = folder[step][p]
      BY <1>1, <2>3 DEF P!News
    <3>3. QED
      BY <2>1, <3>1, <3>2
  <2>4. QED
    BY <2>2, <2>3
<1>6. "source" \in P!Sides /\ "destination" \in P!Sides /\ "source" # "destination"
  BY DEF P!Sides
<1>7. ASSUME NEW p \in Paths \ changed
      PROVE  /\ step = "source" => entries'["destination"][p] = <<>>
             /\ step = "destination" => entries'["source"][p] = Listed(folder["source"][p])
  BY <1>3, <1>4, <1>6 DEF ListedOnce
<1>8. QED
  BY <1>2, <1>5, <1>7 DEF ListedOnce

\* What two entries under one path show.
LEMMA DuplicateChanged ==
  ASSUME RepairInv, program = REPAIR, P!DuplicateFails
  PROVE  P!DuplicateForCause'
<1>1. PICK p \in Paths : P!Relative(p) /\ Len(entries[step][p]) > 1
  BY DEF P!DuplicateFails, P!Duplicate
<1>2. step \in P!Sides /\ UNCHANGED <<folder, known, entries, more, report, changed>>
  BY DEF P!DuplicateFails
<1>3. P!ReconcileTypeOK /\ ListedOnce
  BY DEF RepairInv, P!RepairTypeOK
<1>4. p \in changed \ Odd
  <2>1. CASE p \notin changed
    <3>1. entries[step][p] = <<>> \/ entries[step][p] = <<known[p]>>
      BY <1>2, <1>3, <2>1 DEF ListedOnce, Listed
    <3>2. ~ (Len(<<>>) > 1) /\ ~ (Len(<<known[p]>>) > 1)
      OBVIOUS
    <3>3. QED
      BY <1>1, <3>1, <3>2, Zenon
  <2>2. QED
    BY <1>1, <2>1 DEF P!Relative
<1>5. \A i \in DOMAIN entries[step][p] : entries[step][p][i] # P!None
  <2>1. entries[step][p] \in Seq(P!Revision)
    BY <1>2, <1>3 DEF P!ReconcileTypeOK
  <2>2. QED
    BY <2>1, NoneIsNoRevision
<1>6. QED
  BY <1>1, <1>2, <1>4, <1>5 DEF P!DuplicateForCause

LEMMA ReportTells ==
  ASSUME RepairInv, program = REPAIR, P!WriteReport
  PROVE  P!UnchangedReported'
<1>1. /\ step = "destination" /\ ~more
      /\ report' = [p \in Paths |-> P!Verdict(p)] /\ UNCHANGED <<folder, changed>>
  BY DEF P!WriteReport
<1>2. "source" \in P!Sides /\ "destination" \in P!Sides
  BY DEF P!Sides
<1>3. ListedOnce
  BY DEF RepairInv
<1>4. ASSUME NEW p \in Paths \ (changed \cup Odd)
      PROVE  LET s == folder["source"][p]  d == folder["destination"][p] IN
             IF s = P!None /\ d = P!None THEN report'[p].status = "none"
             ELSE report'[p] = [status |-> IF s = P!None THEN "extra_destination"
                                           ELSE IF d = P!None THEN "missing"
                                           ELSE IF s.content = d.content THEN "matched"
                                           ELSE "mismatched",
                                source |-> s]
  <2>1. entries["source"][p] = Listed(folder["source"][p])
        /\ entries["destination"][p] = Listed(folder["destination"][p])
    BY <1>1, <1>2, <1>3 DEF ListedOnce
  <2>2. ASSUME NEW x PROVE (IF Listed(x) = <<>> THEN P!None ELSE Head(Listed(x))) = x
    <3>1. <<x>> # <<>> /\ Head(<<x>>) = x
      OBVIOUS
    <3>2. QED
      BY <3>1 DEF Listed
  <2>3. P!Item("source", p) = folder["source"][p]
        /\ P!Item("destination", p) = folder["destination"][p]
    BY <2>1, <2>2 DEF P!Item
  <2>4. report'[p] = P!Verdict(p) /\ P!Relative(p)
    BY <1>1 DEF P!Relative
  <2>5. QED
    BY <2>3, <2>4 DEF P!Verdict, P!Compare
<1>5. QED
  BY <1>1, <1>4 DEF P!UnchangedReported

LEMMA CompareKept ==
  ASSUME program = REPAIR, program' = REPAIR, RepairInv, P!Compares
  PROVE  RepairInv'
<1>1. P!RepairTypeOK'
  BY CompareType
<1>2. /\ step' \in P!Sides \cup {"reported", "ambiguous"} /\ step \in P!Sides
      /\ UNCHANGED <<todo, staged, outcome, stored, changed>>
  BY DEF P!Compares, P!applyVars, P!Comparing, P!ListPage, P!DuplicateFails, P!ListDestination,
         P!WriteReport, P!Sides
<1>3. AppliedOnce' /\ P!LinesAreTrue' /\ ReportHolds'
  BY <1>2 DEF RepairInv, AppliedOnce, P!LinesAreTrue, ReportHolds, Before, P!Sides
<1>4. CASE P!ListPage
  <2>1. step' \in P!Sides
    BY <1>2, <1>4 DEF P!ListPage
  <2>2. QED
    BY <1>1, <1>3, <1>4, <2>1, PageListsOnce
       DEF RepairInv, P!UnchangedReported, P!DuplicateForCause, P!Sides
<1>5. CASE P!DuplicateFails
  BY <1>1, <1>3, <1>5, DuplicateChanged
     DEF P!DuplicateFails, RepairInv, ListedOnce, P!UnchangedReported, P!Sides
<1>6. CASE P!ListDestination
  <2>1. /\ step = "source" /\ ~more /\ step' = "destination" /\ more' = TRUE
        /\ known' = P!Empty /\ UNCHANGED <<folder, entries, changed>>
    BY <1>6 DEF P!ListDestination
  <2>2. ASSUME NEW p \in Paths \ changed
        PROVE  /\ known'[p] = P!None /\ entries["destination"][p] = <<>>
               /\ entries["source"][p] = Listed(folder["source"][p])
    BY <2>1, <1>2 DEF RepairInv, ListedOnce, P!Empty
  <2>3. ListedOnce'
    BY <2>1, <2>2 DEF ListedOnce, Listed
  <2>4. QED
    BY <1>1, <1>3, <2>1, <2>3 DEF RepairInv, P!UnchangedReported, P!DuplicateForCause
<1>7. CASE P!WriteReport
  BY <1>1, <1>3, <1>7, ReportTells
     DEF P!WriteReport, RepairInv, ListedOnce, P!DuplicateForCause, P!Sides
<1>8. QED
  BY <1>4, <1>5, <1>6, <1>7 DEF P!Compares, P!Comparing

-----------------------------------------------------------------------------
(* The run.                                                                *)

LEMMA LoadKept ==
  ASSUME RepairInv, program = REPAIR, P!LoadReport
  PROVE  AppliedOnce' /\ P!LinesAreTrue' /\ ReportHolds'
<1>1. /\ step = "reported" /\ UNCHANGED <<folder, report, changed, staged, outcome, stored>>
      /\ \/ step' = "applying" /\ todo' = P!Listed
         \/ step' = "refused" /\ todo' = todo
  BY DEF P!LoadReport
<1>2. todo = {} /\ stored = {} /\ staged = P!Nothing /\ \A p \in Paths : outcome[p] = "none"
  BY <1>1 DEF RepairInv, AppliedOnce, Before
<1>3. AppliedOnce' /\ P!LinesAreTrue'
  BY <1>1, <1>2 DEF AppliedOnce, P!LinesAreTrue, Before, P!Listed, P!Sides
<1>4. ASSUME step' = "applying", NEW p \in Paths \ (changed \cup Odd), folder["source"][p] # P!None
      PROVE  /\ report[p].source = folder["source"][p]
             /\ report[p].status \in {"matched", "missing", "mismatched"}
             /\ report[p].status = "matched" =>
                   folder["destination"][p].content = folder["source"][p].content
             /\ p \in todo'
  <2>1. report[p] = [status |-> IF folder["destination"][p] = P!None THEN "missing"
                                ELSE IF folder["source"][p].content = folder["destination"][p].content
                                     THEN "matched" ELSE "mismatched",
                     source |-> folder["source"][p]]
    BY <1>1, <1>4 DEF RepairInv, P!UnchangedReported
  <2>2. QED
    BY <1>1, <1>4, <2>1 DEF P!Listed
<1>5. ReportHolds'
  BY <1>1, <1>4 DEF ReportHolds
<1>6. QED
  BY <1>3, <1>5

LEMMA SkipKept ==
  ASSUME RepairInv, program = REPAIR, P!SkipRecord
  PROVE  AppliedOnce' /\ P!LinesAreTrue' /\ ReportHolds'
<1>1. P!Record \in todo /\ P!Record \in Paths
  BY RecordIsLeast DEF P!SkipRecord
<1>2. /\ step = "applying" /\ step' = step /\ staged = P!Nothing
      /\ report[P!Record].status \notin P!ACTIONABLE
      /\ outcome' = [outcome EXCEPT ![P!Record] = "skipped"] /\ todo' = todo \ {P!Record}
      /\ UNCHANGED <<folder, report, changed, staged, stored>>
  BY DEF P!SkipRecord, P!Emit, P!compared
<1>3. outcome \in [Paths -> {"none", "skipped", "error", "uploaded", "overwritten"}]
  BY DEF RepairInv, P!RepairTypeOK
<1>4. AppliedOnce' /\ P!LinesAreTrue'
  BY <1>1, <1>2, <1>3 DEF RepairInv, AppliedOnce, P!LinesAreTrue, Before, P!Sides
<1>5. ReportHolds'
  <2>1. unread' = unread
    BY DEF P!SkipRecord
  <2>2. \A p \in Paths : p # P!Record => outcome'[p] = outcome[p]
    BY <1>2, <1>3
  <2>3. QED
    BY <1>1, <1>2, <2>1, <2>2 DEF RepairInv, ReportHolds, LeftOut, P!ACTIONABLE
<1>6. QED
  BY <1>4, <1>5

LEMMA StageKept ==
  ASSUME RepairInv, program = REPAIR, P!StageSource
  PROVE  AppliedOnce' /\ P!LinesAreTrue' /\ ReportHolds'
<1>1. P!Record \in todo /\ P!Record \in Paths
  BY RecordIsLeast DEF P!StageSource
<1>2. /\ step = "applying" /\ step' = step /\ staged = P!Nothing
      /\ report[P!Record].status \in P!ACTIONABLE
      /\ UNCHANGED <<folder, report, changed, stored>>
  BY DEF P!StageSource, P!compared
<1>3. outcome \in [Paths -> {"none", "skipped", "error", "uploaded", "overwritten"}]
  BY DEF RepairInv, P!RepairTypeOK
<1>4. CASE /\ P!Unchanged(P!Record)
           /\ staged' = [path |-> P!Record, content |-> folder["source"][P!Record].content]
           /\ UNCHANGED <<todo, outcome, unread>>
  <2>1. folder["source"][P!Record] = report[P!Record].source
    BY <1>4 DEF P!Unchanged
  <2>2. AppliedOnce'
    BY <1>1, <1>2, <1>4, <2>1 DEF RepairInv, AppliedOnce, Before, P!Sides
  <2>3. QED
    BY <1>2, <1>4, <2>2 DEF RepairInv, P!LinesAreTrue, ReportHolds, LeftOut
<1>5. CASE /\ P!PassOver
           /\ \/ unread' = unread /\ ~P!Unchanged(P!Record)
              \/ unread' = unread \cup {P!Record}
  <2>1. outcome' = [outcome EXCEPT ![P!Record] = "error"] /\ todo' = todo \ {P!Record}
        /\ staged' = staged
    BY <1>5 DEF P!PassOver, P!Emit
  <2>2. AppliedOnce' /\ P!LinesAreTrue'
    BY <1>1, <1>2, <1>3, <2>1 DEF RepairInv, AppliedOnce, P!LinesAreTrue, Before, P!Sides
  <2>3. ASSUME NEW p \in Paths \ (changed \cup Odd), folder["source"][p] # P!None
        PROVE  p \in todo' \/ folder["destination"][p].content = folder["source"][p].content
                 \/ LeftOut(p)'
    <3>1. /\ report[p].source = folder["source"][p]
          /\ p \in todo \/ folder["destination"][p].content = folder["source"][p].content
               \/ LeftOut(p)
      BY <1>2, <2>3 DEF RepairInv, ReportHolds
    <3>2. CASE p = P!Record
      BY <1>1, <1>3, <1>5, <2>1, <3>1, <3>2 DEF P!Unchanged, LeftOut
    <3>3. CASE p # P!Record
      BY <1>3, <1>5, <2>1, <3>1, <3>3 DEF LeftOut
    <3>4. QED
      BY <3>2, <3>3
  <2>4. ReportHolds'
    BY <1>2, <2>3 DEF RepairInv, ReportHolds
  <2>5. QED
    BY <2>2, <2>4
<1>6. QED
  BY <1>4, <1>5 DEF P!StageSource

LEMMA UploadKept ==
  ASSUME RepairInv, program = REPAIR, P!UploadStaged
  PROVE  AppliedOnce' /\ P!LinesAreTrue' /\ ReportHolds'
<1> DEFINE p == staged.path
<1>1. /\ step = "applying"
      /\ p \in todo /\ p \in Paths
      /\ report[p].status \in P!ACTIONABLE /\ staged.content = report[p].source.content
      /\ staged.content \in Contents \cup {0}
  BY DEF P!UploadStaged, RepairInv, AppliedOnce, P!RepairTypeOK, P!Listed
<1>2. /\ folder' = [folder EXCEPT !["destination"][p] = P!Held(1, staged.content)]
      /\ stored' = stored \cup {p} /\ staged' = P!Nothing
      /\ UNCHANGED <<report, changed>>
      /\ \/ /\ step' = "applying" /\ todo' = todo \ {p}
            /\ \E line \in {"uploaded", "overwritten"} : outcome' = [outcome EXCEPT ![p] = line]
         \/ step' = "failed" /\ UNCHANGED <<todo, outcome>>
  BY <1>1 DEF P!UploadStaged, P!Overwrite, P!Emit, P!FailRun, P!compared
<1>3. outcome \in [Paths -> {"none", "skipped", "error", "uploaded", "overwritten"}]
  BY DEF RepairInv, P!RepairTypeOK
<1>4. \A q \in todo : q \in Paths /\ outcome[q] = "none" /\ q \notin stored
  BY <1>1 DEF RepairInv, AppliedOnce, P!RepairTypeOK, P!Listed
<1>5. AppliedOnce'
  BY <1>1, <1>2, <1>3, <1>4 DEF AppliedOnce, Before, P!Sides
<1>6. P!LinesAreTrue'
  BY <1>1, <1>2, <1>3, <1>4 DEF RepairInv, P!LinesAreTrue
<1>7. /\ folder'["source"] = folder["source"]
      /\ folder'["destination"][p].content = report[p].source.content
      /\ \A q \in Paths : q # p => folder'["destination"][q] = folder["destination"][q]
  <2>1. folder \in [P!Sides -> [Paths -> {P!None} \cup P!Revision]]
        /\ "source" \in P!Sides /\ "destination" \in P!Sides
    BY DEF RepairInv, P!RepairTypeOK, P!ReconcileTypeOK, P!Sides
  <2>2. P!Held(1, staged.content).content = staged.content
    BY <1>1, HeldType
  <2>3. QED
    BY <1>1, <1>2, <2>1, <2>2
<1>8. ReportHolds'
  <2>1. CASE step' = "failed"
    BY <2>1 DEF ReportHolds
  <2>2. CASE step' = "applying"
    <3>1. todo' = todo \ {p}
      BY <1>2, <2>2
    <3>2. ASSUME NEW q \in Paths \ (changed \cup Odd), folder["source"][q] # P!None
          PROVE  /\ report[q].source = folder["source"][q]
                 /\ report[q].status \in {"matched", "missing", "mismatched"}
                 /\ report[q].status = "matched" =>
                      folder["destination"][q].content = folder["source"][q].content
                 /\ q \in todo \/ LeftOut(q)
                      \/ folder["destination"][q].content = folder["source"][q].content
      BY <1>1, <3>2 DEF RepairInv, ReportHolds
    <3>3. ASSUME NEW q \in Paths \ (changed \cup Odd), folder["source"][q] # P!None
          PROVE  /\ report[q].status = "matched" =>
                      folder'["destination"][q].content = folder["source"][q].content
                 /\ q \in todo' \/ LeftOut(q)'
                      \/ folder'["destination"][q].content = folder["source"][q].content
      <4>1. CASE q = p
        BY <1>7, <3>2, <3>3, <4>1
      <4>2. CASE q # p
        <5>1. outcome'[q] = outcome[q] /\ unread' = unread
          BY <1>2, <1>3, <2>2, <4>2 DEF P!UploadStaged
        <5>2. QED
          BY <1>7, <3>1, <3>2, <3>3, <4>2, <5>1 DEF LeftOut
      <4>3. QED
        BY <4>1, <4>2
    <3>4. QED
      BY <1>2, <1>7, <3>2, <3>3 DEF ReportHolds
  <2>3. QED
    BY <1>2, <2>1, <2>2
<1>9. QED
  BY <1>5, <1>6, <1>8

LEMMA ApplyKept ==
  ASSUME program = REPAIR, program' = REPAIR, RepairInv, P!Applying \/ P!CallFails
  PROVE  RepairInv'
<1>1. P!RepairTypeOK'
  BY ApplyType
<1>2. step' \in {"refused", "applying", "repaired", "failed"}
  BY DEF P!Applying, P!CallFails, P!LoadReport, P!SkipRecord, P!StageSource, P!UploadStaged,
         P!RunEnds, P!FailRun
<1>3. ListedOnce' /\ P!UnchangedReported' /\ P!DuplicateForCause'
  BY <1>2 DEF ListedOnce, P!UnchangedReported, P!DuplicateForCause, P!Sides
<1>4. CASE P!RunEnds
  <2>1. /\ step = "applying" /\ step' = "repaired" /\ todo = {}
        /\ UNCHANGED <<folder, report, changed, todo, staged, outcome, stored, unread>>
    BY <1>4 DEF P!RunEnds, P!compared, P!applyVars
  <2>2. AppliedOnce' /\ P!LinesAreTrue' /\ ReportHolds'
    BY <2>1 DEF RepairInv, AppliedOnce, P!LinesAreTrue, ReportHolds, LeftOut, Before, P!Sides
  <2>3. QED
    BY <1>1, <1>3, <2>2 DEF RepairInv
<1>5. CASE P!CallFails
  <2>1. /\ step' = "failed" /\ staged' = P!Nothing
        /\ UNCHANGED <<report, todo, outcome, stored>>
    BY <1>5 DEF P!CallFails, P!FailRun, P!compared
  <2>2. AppliedOnce' /\ P!LinesAreTrue' /\ ReportHolds'
    BY <2>1 DEF RepairInv, AppliedOnce, P!LinesAreTrue, ReportHolds, Before, P!Sides
  <2>3. QED
    BY <1>1, <1>3, <2>2 DEF RepairInv
<1>6. CASE P!Applying /\ ~P!RunEnds
  BY <1>1, <1>3, <1>6, LoadKept, SkipKept, StageKept, UploadKept DEF P!Applying, RepairInv
<1>7. QED
  BY <1>4, <1>5, <1>6

\* What changes is counted as changed, and nothing else does.
LEMMA DisturbanceKept ==
  ASSUME program = REPAIR, program' = REPAIR, RepairInv, P!Disturbance
  PROVE  RepairInv'
<1>1. P!RepairTypeOK'
  BY ApplyType
<1>2. PICK s \in P!Sides, p \in Paths : P!Change(s, p, spent + 2)
  BY DEF P!Disturbance
<1>3. /\ step \in P!Sides \cup {"reported", "applying"}
      /\ UNCHANGED <<step, known, entries, more, report, todo, staged, outcome, stored,
                     unread>>
      /\ changed' = changed \cup {p}
  BY <1>2 DEF P!Disturbance, P!Change, P!applyVars
<1>4. ASSUME NEW t \in P!Sides, NEW q \in Paths, q # p
      PROVE  folder'[t][q] = folder[t][q]
  <2>1. folder \in [P!Sides -> [Paths -> {P!None} \cup P!Revision]]
    BY DEF RepairInv, P!RepairTypeOK, P!ReconcileTypeOK
  <2>2. QED
    BY <1>2, <1>4, <2>1 DEF P!Change
<1>5. "source" \in P!Sides /\ "destination" \in P!Sides
  BY DEF P!Sides
<1>6. ListedOnce'
  BY <1>3, <1>4, <1>5 DEF RepairInv, ListedOnce
<1>7. P!UnchangedReported'
  BY <1>3, <1>4, <1>5 DEF RepairInv, P!UnchangedReported
<1>8. ReportHolds'
  BY <1>3, <1>4, <1>5 DEF RepairInv, ReportHolds, LeftOut
<1>9. P!DuplicateForCause' /\ AppliedOnce' /\ P!LinesAreTrue'
  BY <1>3 DEF RepairInv, P!DuplicateForCause, AppliedOnce, P!LinesAreTrue, P!Sides
<1>10. QED
  BY <1>1, <1>6, <1>7, <1>8, <1>9 DEF RepairInv

-----------------------------------------------------------------------------
(* The theorems.                                                           *)

LEMMA RepairBegins ==
  ProgramsInit => RepairInv
<1> SUFFICES ASSUME ProgramsInit, program = REPAIR
             PROVE  RepairInv
  BY DEF RepairInv
<1>1. P!RepairInit
  BY DEF ProgramsInit, FULL_REFRESH, SHARING_ACL, FILE_CONTENTS, DESTINATION, REPAIR, CURSOR_SCOPE
<1>2. PICK start \in Starts :
          folder = [s \in P!Sides |-> [p \in Paths |-> P!Held(1, start[s][p])]]
  BY <1>1 DEF P!RepairInit, P!ReconcileInit
<1>3. \A s \in P!Sides, p \in Paths : P!Held(1, start[s][p]) \in {P!None} \cup P!Revision
  <2>1. \A s \in P!Sides, p \in Paths : start[s][p] \in Contents \cup {0}
    BY ProgramsAssumption DEF P!ReconcileAssumption
  <2>2. 1 \in Nat \ {0}
    OBVIOUS
  <2>3. QED
    BY <2>1, <2>2, HeldType
<1>4. folder \in [P!Sides -> [Paths -> {P!None} \cup P!Revision]]
  BY <1>2, <1>3
<1>5. /\ step = "source" /\ known = P!Empty /\ entries = P!NoEntries /\ more = TRUE
      /\ report = P!NoReport /\ changed = {} /\ todo = {} /\ staged = P!Nothing
      /\ outcome = [p \in Paths |-> "none"] /\ stored = {} /\ unread = {} /\ spent = 0
  BY <1>1 DEF P!RepairInit, P!ReconcileInit
<1>6. P!ReconcileTypeOK
  <2>1. P!NoEntries \in [P!Sides -> [Paths -> Seq(P!Revision)]]
    BY DEF P!NoEntries
  <2>2. P!NoReport \in [Paths -> P!Reports] /\ P!Empty \in [Paths -> {P!None} \cup P!Revision]
    BY DEF P!NoReport, P!Reports, P!Empty
  <2>3. QED
    BY <1>4, <1>5, <2>1, <2>2 DEF P!ReconcileTypeOK
<1>7. P!RepairTypeOK
  <2>1. P!Nothing \in [path : Paths \cup {NoPath}, content : Contents \cup {0}]
    BY DEF P!Nothing
  <2>2. 0 \in 0 .. Budget
    BY ProgramsAssumption DEF P!RepairAssumption
  <2>3. QED
    BY <1>5, <1>6, <2>1, <2>2 DEF P!RepairTypeOK, P!Sides
<1>8. ListedOnce
  BY <1>5 DEF ListedOnce, P!Sides, P!Empty, P!NoEntries, Listed
<1>9. AppliedOnce /\ P!LinesAreTrue
  BY <1>5 DEF AppliedOnce, P!LinesAreTrue
<1>10. QED
  BY <1>5, <1>7, <1>8, <1>9
     DEF RepairInv, P!UnchangedReported, P!DuplicateForCause, ReportHolds

LEMMA RepairStep ==
  ASSUME RepairInv, [ProgramsNext]_programVars
  PROVE  RepairInv'
<1>1. CASE RunRepair
  <2>1. program = REPAIR /\ program' = REPAIR
    BY <1>1 DEF RunRepair
  <2>2. QED
    BY <1>1, <2>1, CompareKept, ApplyKept, DisturbanceKept DEF RunRepair, P!RepairNext
<1>2. CASE ~RunRepair /\ ProgramsNext
  BY <1>2 DEF ProgramsNext, RepairInv, RunFullRefresh, RunSharingAcl, RunFileContents,
              NotFileContents, RunDestination, RunCursorScope, FULL_REFRESH, SHARING_ACL,
              FILE_CONTENTS, DESTINATION, REPAIR, CURSOR_SCOPE
<1>3. CASE UNCHANGED programVars
  <2>1. UNCHANGED <<program, folder, step, known, entries, more, report, changed, todo, staged,
                    outcome, stored, unread, spent>>
    BY <1>3 DEF programVars, ofRepair
  <2>2. P!RepairTypeOK => P!RepairTypeOK'
    BY <2>1 DEF P!RepairTypeOK, P!ReconcileTypeOK, P!Listed, P!Record
  <2>3. (ListedOnce => ListedOnce') /\ (P!UnchangedReported => P!UnchangedReported')
    BY <2>1 DEF ListedOnce, P!UnchangedReported
  <2>4. (P!DuplicateForCause => P!DuplicateForCause') /\ (P!LinesAreTrue => P!LinesAreTrue')
    BY <2>1 DEF P!DuplicateForCause, P!LinesAreTrue
  <2>5. (AppliedOnce => AppliedOnce') /\ (ReportHolds => ReportHolds')
    BY <2>1 DEF AppliedOnce, ReportHolds, LeftOut
  <2>6. QED
    BY <2>1, <2>2, <2>3, <2>4, <2>5 DEF RepairInv
<1>4. QED
  BY <1>1, <1>2, <1>3

\* Every path that did not change while the two folders were listed is in the report of
\* compare (dropbox_reconciliation, reconcile) with its true status, whatever happened to
\* the others between two pages.
THEOREM ReportsTruly == Spec => []UnchangedReported
<1>1. RepairInv => UnchangedReported
  BY DEF RepairInv, UnchangedReported
<1>2. QED
  BY <1>1, RepairBegins, RepairStep, PTL DEF Spec

\* The lines dropbox-repair prints (apply) tell what became of each path, also when the
\* answer to an upload was lost.
THEOREM LinesTellTruly == Spec => []LinesAreTrue
<1>1. RepairInv => LinesAreTrue
  BY DEF RepairInv, LinesAreTrue
<1>2. QED
  BY <1>1, RepairBegins, RepairStep, PTL DEF Spec

\* After a repair that ran to its end (dropbox-repair, _apply), every source file that did not
\* change since the compare began is at the destination with its content, or it was passed
\* over with the line "error", because its download was refused or cut short or because its
\* name does not fold to itself.
THEOREM RepairsConverge == Spec => []RepairConverges
<1>1. ASSUME RepairInv, program = REPAIR, step = "repaired",
             NEW p \in Paths \ (changed \cup Odd), folder["source"][p] # P!None
      PROVE  folder["destination"][p].content = folder["source"][p].content \/ LeftOut(p)
  <2>1. p \in todo \/ folder["destination"][p].content = folder["source"][p].content \/ LeftOut(p)
    BY <1>1 DEF RepairInv, ReportHolds
  <2>2. todo = {}
    BY <1>1 DEF RepairInv, AppliedOnce
  <2>3. QED
    BY <2>1, <2>2
<1>2. RepairInv => RepairConverges
  BY <1>1 DEF RepairConverges, P!RepairConverges, LeftOut
<1>3. QED
  BY <1>2, RepairBegins, RepairStep, PTL DEF Spec

\* A step of dropbox-repair (apply) writes only what the report calls missing or mismatched,
\* with the content it reports, whatever has happened to the source since.
THEOREM WritesAsReported == Spec => WritesWhatIsReported
<1>1. ASSUME RepairInv, program = REPAIR, P!RepairNext
      PROVE  P!WritesReported
  <2>1. CASE P!UploadStaged
    <3>1. /\ staged.path \in Paths /\ report[staged.path].status \in P!ACTIONABLE
          /\ staged.content = report[staged.path].source.content
          /\ staged.content \in Contents \cup {0}
      BY <1>1, <2>1 DEF P!UploadStaged, RepairInv, AppliedOnce, P!RepairTypeOK, P!Listed
    <3>2. folder' = [folder EXCEPT !["destination"][staged.path] = P!Held(1, staged.content)]
      BY <2>1 DEF P!UploadStaged, P!Overwrite
    <3>3. folder \in [P!Sides -> [Paths -> {P!None} \cup P!Revision]]
          /\ "destination" \in P!Sides
      BY <1>1 DEF RepairInv, P!RepairTypeOK, P!ReconcileTypeOK, P!Sides
    <3>4. P!Held(1, staged.content).content = staged.content
      BY <3>1, HeldType
    <3>5. QED
      BY <3>1, <3>2, <3>3, <3>4 DEF P!WritesReported
  <2>2. CASE P!Disturbance
    BY <2>2 DEF P!Disturbance, P!applyVars, P!WritesReported
  <2>3. CASE P!Compares \/ P!CallFails \/ (P!Applying /\ ~P!UploadStaged)
    <3>1. folder' = folder
      BY <2>3 DEF P!Compares, P!Comparing, P!ListPage, P!DuplicateFails, P!ListDestination,
                  P!WriteReport, P!CallFails, P!Applying, P!LoadReport, P!SkipRecord,
                  P!StageSource, P!RunEnds
    <3>2. QED
      BY <3>1 DEF P!WritesReported
  <2>4. QED
    BY <1>1, <2>1, <2>2, <2>3 DEF P!RepairNext
<1>2. ASSUME RepairInv, [ProgramsNext]_programVars, program = REPAIR
      PROVE  P!WritesReported
  <2>1. CASE UNCHANGED programVars
    BY <2>1 DEF programVars, ofRepair, P!WritesReported
  <2>2. QED
    BY <1>1, <1>2, <2>1 DEF ProgramsNext, RunRepair, RunFullRefresh, RunSharingAcl,
       RunFileContents, RunDestination, RunCursorScope, FULL_REFRESH, SHARING_ACL,
       FILE_CONTENTS, DESTINATION, REPAIR, CURSOR_SCOPE
<1>3. RepairInv /\ [ProgramsNext]_programVars
          => [program = REPAIR => P!WritesReported]_programVars
  BY <1>2
<1>4. QED
  BY <1>3, RepairBegins, RepairStep, PTL DEF Spec, WritesWhatIsReported
=============================================================================
