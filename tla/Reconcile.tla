------------------------------ MODULE Reconcile ------------------------------
(***************************************************************************)
(* dropbox_reconciliation, compare: the files below two Dropbox roots are  *)
(* listed, the source's first, and compared path by path.  A listing is    *)
(* read page by page while others go on changing the folder: a path that   *)
(* changes after it was listed is listed again.  Paths are relative and    *)
(* lower-case; Dropbox is external, and gives every file a content hash.    *)
(***************************************************************************)
EXTENDS Integers, Sequences, FiniteSets

CONSTANTS
    Paths,          \* relative paths, numbered in their sort order
    Odd,            \* those that cannot be made relative to the root
    Contents,       \* what a file can hold; each has its content hash
    Size,           \* ... and its size
    Starts,         \* bound: what the two sides hold at first
    PageSize        \* bound: entries of a page

Sides == {"source", "destination"}

\* Assumed by Programs.
ReconcileAssumption ==
    /\ Odd \subseteq Paths /\ Paths \subseteq Nat /\ Contents \subseteq Nat \ {0}
    /\ Size \in [Contents -> Nat]
    /\ PageSize \in Nat \ {0}
    /\ Starts \subseteq [Sides -> [Paths -> Contents \cup {0}]]
None == [rev |-> 0, content |-> 0]
Revision == [rev : Nat \ {0}, content : Contents]
Held(rev, c) == IF c = 0 THEN None ELSE [rev |-> rev, content |-> c]

VARIABLES
    folder,     \* Dropbox: what is at each path of each side, and which revision of it
    step,       \* "source", "destination": the side being listed; "reported", ...
    known,      \* Dropbox: what the listing's cursor has told of each path
    entries,    \* the file entries listed so far, of each side and path, in order
    more,       \* page.has_more
    report,     \* the report: what it says of each path
    changed     \* history: the paths that changed since the compare began

compareVars == <<folder, step, known, entries, more, report, changed>>

Empty == [p \in Paths |-> None]
NoEntries == [s \in Sides |-> [p \in Paths |-> <<>>]]
NoReport == [p \in Paths |-> [status |-> "none", source |-> None]]

\* What the cursor still has to tell, deletions included.
News(s) == {p \in Paths : known[p] # folder[s][p]}

ReconcileInit ==
    /\ \E start \in Starts :
          folder = [s \in Sides |-> [p \in Paths |-> Held(1, start[s][p])]]
    /\ step = "source" /\ known = Empty /\ entries = NoEntries /\ more = TRUE
    /\ report = NoReport /\ changed = {}

-----------------------------------------------------------------------------
(* DropboxReconciliationClient.inventory                                   *)

\* A path that can be reported relative to the root.
Relative(p) == p \notin Odd

\* Mutant: the entries of a page replace those of the pages before.
TakePageOnly(s, P) ==
    entries' = [entries EXCEPT ![s] =
                   [p \in Paths |-> IF p \in P /\ folder[s][p] # None THEN <<folder[s][p]>> ELSE <<>>]]

\* Mutant: deletions are taken, too.
TakeAll(s, P) ==
    entries' = [entries EXCEPT ![s] =
                   [p \in Paths |-> IF p \in P THEN Append(@[p], folder[s][p]) ELSE @[p]]]

\* The files of a page are added to the entries; a deletion is not a file.
Take(s, P) ==
    entries' = [entries EXCEPT ![s] =
                   [p \in Paths |-> IF p \in P /\ folder[s][p] # None
                                      THEN Append(@[p], folder[s][p]) ELSE @[p]]]

ListPage ==
    /\ step \in Sides /\ more
    /\ \E P \in SUBSET News(step) :
          /\ Cardinality(P) = IF Cardinality(News(step)) < PageSize
                                THEN Cardinality(News(step)) ELSE PageSize
          /\ Take(step, P)
          /\ known' = [p \in Paths |-> IF p \in P THEN folder[step][p] ELSE known[p]]
          /\ more' = (P # News(step))
    /\ UNCHANGED <<folder, step, report, changed>>

\* An odd path is an issue however often it is listed.
Duplicate(s) == \E p \in Paths : Relative(p) /\ Len(entries[s][p]) > 1

\* One file listed twice under a path: the report would be ambiguous.
DuplicateFails ==
    /\ step \in Sides /\ ~more /\ Duplicate(step)
    /\ step' = "ambiguous"
    /\ UNCHANGED <<folder, known, entries, more, report, changed>>

-----------------------------------------------------------------------------
(* reconcile                                                               *)

\* Mutant: files of the same size match.
CompareSizes(s, d) ==
    CASE s = None -> "extra_destination"
      [] d = None -> "missing"
      [] s # None /\ d # None /\ Size[s.content] # Size[d.content] -> "mismatched"
      [] OTHER -> "matched"

\* _compare_path
Compare(s, d) ==
    CASE s = None -> "extra_destination"
      [] s # None /\ d = None -> "missing"
      [] s # None /\ d # None /\ s.content # d.content -> "mismatched"
      [] OTHER -> "matched"

Item(s, p) == IF entries[s][p] = <<>> THEN None ELSE Head(entries[s][p])

Verdict(p) ==
    LET s == Item("source", p)  d == Item("destination", p) IN
        CASE s = None /\ d = None -> [status |-> "none", source |-> None]
          [] ~Relative(p) /\ (s # None \/ d # None) -> [status |-> "issue", source |-> None]
          [] OTHER -> [status |-> Compare(s, d), source |-> s]

ListDestination ==
    /\ step = "source" /\ ~more /\ ~Duplicate("source")
    /\ step' = "destination"
    /\ known' = Empty /\ more' = TRUE
    /\ UNCHANGED <<folder, entries, report, changed>>

WriteReport ==
    /\ step = "destination" /\ ~more /\ ~Duplicate("destination")
    /\ step' = "reported"
    /\ report' = [p \in Paths |-> Verdict(p)]
    /\ known' = Empty /\ entries' = NoEntries
    /\ UNCHANGED <<folder, more, changed>>

-----------------------------------------------------------------------------
\* A file is created, edited or deleted on a side; a new one has a new revision.
Change(s, p, rev) ==
    /\ \E c \in Contents \cup {0} :
          /\ c # folder[s][p].content
          /\ folder' = [folder EXCEPT ![s][p] = Held(rev, c)]
    /\ changed' = changed \cup {p}

Comparing == ListPage \/ DuplicateFails \/ ListDestination \/ WriteReport

-----------------------------------------------------------------------------
Reports == [status : {"none", "issue", "matched", "missing", "mismatched", "extra_destination"},
            source : {None} \cup Revision]

ReconcileTypeOK ==
    /\ folder \in [Sides -> [Paths -> {None} \cup Revision]]
    /\ known \in [Paths -> {None} \cup Revision]
    /\ entries \in [Sides -> [Paths -> Seq(Revision)]]
    /\ more \in BOOLEAN
    /\ report \in [Paths -> Reports]
    /\ changed \subseteq Paths

\* Whatever happens to other paths between two pages, a path that did not change while
\* the folders were listed is reported, once and with its true status, and one that is on
\* neither side is not.
UnchangedReported ==
    step = "reported" =>
        \A p \in Paths \ (changed \cup Odd) :
            LET s == folder["source"][p]  d == folder["destination"][p] IN
            IF s = None /\ d = None THEN report[p].status = "none"
            ELSE report[p] = [status |-> IF s = None THEN "extra_destination"
                                         ELSE IF d = None THEN "missing"
                                         ELSE IF s.content = d.content THEN "matched" ELSE "mismatched",
                              source |-> s]

\* A compare fails on a duplicate only when a file was written again while it was listed.
DuplicateForCause ==
    step = "ambiguous" => \E s \in Sides, p \in changed \ Odd :
        Len(entries[s][p]) > 1 /\ \A i \in DOMAIN entries[s][p] : entries[s][p][i] # None
=============================================================================
