-------------------------------- MODULE Repair --------------------------------
(***************************************************************************)
(* dropbox-repair, apply, after a compare: the report is loaded, and each  *)
(* path it lists as missing or mismatched is downloaded from the source by *)
(* file id and written over what the destination holds.  A file that is    *)
(* not the reported revision at the reported path any more, or that cannot *)
(* be read, is passed over as an error; any other failure ends the run.    *)
(*                                                                         *)
(* The upload is the session of the native destination, always with        *)
(* overwrite; here it takes effect at one instant, and its answer may be   *)
(* an error all the same.                                                  *)
(***************************************************************************)
EXTENDS Reconcile

CONSTANTS
    Fold,           \* path.casefold(), as the path of that name or none of Paths
    NoPath,         \* nothing at hand
    Budget          \* bound: changes and failures in a behaviour

\* Assumed by Programs.
RepairAssumption ==
    /\ Fold \in [Paths -> Nat] /\ NoPath \notin Paths /\ Budget \in Nat

VARIABLES
    todo,       \* records not yet applied
    staged,     \* the path whose file is staged, and the content of the file
    outcome,    \* the line printed for each path
    stored,     \* history: paths the run has written
    unread,     \* history: paths whose download was refused, or cut short
    spent       \* of the budget

applyVars == <<todo, staged, outcome, stored, unread>>
repairVars == <<compareVars, applyVars, spent>>

Nothing == [path |-> NoPath, content |-> 0]
ACTIONABLE == {"missing", "mismatched"}
Listed == {p \in Paths : report[p].status # "none"}
Record == CHOOSE p \in todo : \A q \in todo : p <= q
Disturb == spent < Budget /\ spent' = spent + 1

RepairInit ==
    /\ ReconcileInit
    /\ todo = {} /\ staged = Nothing
    /\ outcome = [p \in Paths |-> "none"] /\ stored = {} /\ unread = {} /\ spent = 0

-----------------------------------------------------------------------------
\* load_report: an issue's path is absolute, and two paths may not fold to one.
Loadable ==
    /\ \A p \in Listed : report[p].status # "issue"
    /\ \A p, q \in Listed : Fold[p] = Fold[q] => p = q

LoadReport ==
    /\ step = "reported"
    /\ IF Loadable THEN step' = "applying" /\ todo' = Listed
                   ELSE step' = "refused" /\ UNCHANGED todo
    /\ UNCHANGED <<folder, known, entries, more, report, changed, staged, outcome, stored, unread, spent>>

Emit(p, line) == outcome' = [outcome EXCEPT ![p] = line] /\ todo' = todo \ {p}
compared == <<known, entries, more, report, changed>>

SkipRecord ==
    /\ step = "applying" /\ todo # {} /\ staged = Nothing
    /\ report[Record].status \notin ACTIONABLE
    /\ Emit(Record, "skipped")
    /\ UNCHANGED <<compared, folder, step, staged, stored, unread, spent>>

\* Mutant: only the revision's size is compared.
SameSize(p) ==
    LET now == folder["source"][p] IN
        now # None /\ Size[now.content] = Size[report[p].source.content]

\* _metadata_matches and _is_under_root: Dropbox's lower-case path against casefold().
Unchanged(p) == folder["source"][p] = report[p].source /\ Fold[p] = p

\* stage_source_file raises SourceDriftError: the record is passed over.
PassOver == Emit(Record, "error") /\ UNCHANGED staged

\* The file is downloaded, and its metadata compared.  Whether it changed or not, Dropbox may
\* refuse the download (any ApiError), or the bytes may end short of the reported size.
StageSource ==
    /\ step = "applying" /\ todo # {} /\ staged = Nothing
    /\ report[Record].status \in ACTIONABLE
    /\ \/ /\ Unchanged(Record)
          /\ staged' = [path |-> Record, content |-> folder["source"][Record].content]
          /\ UNCHANGED <<todo, outcome, unread, spent>>
       \/ ~Unchanged(Record) /\ PassOver /\ UNCHANGED <<unread, spent>>
       \/ Disturb /\ PassOver /\ unread' = unread \cup {Record}
    /\ UNCHANGED <<compared, folder, step, stored>>

\* Mutant: a failed upload is passed over like a file that drifted.
FailPassesOver == step' = step /\ staged' = Nothing /\ Emit(Record, "error")

\* A RepairError ends the run.
FailRun == step' = "failed" /\ staged' = Nothing /\ UNCHANGED <<todo, outcome>>

Overwrite(p, c) ==
    folder' = [folder EXCEPT !["destination"][p] = Held(1, c)]

\* The file is committed, and then the answer comes, or it does not.
UploadStaged ==
    /\ step = "applying" /\ staged # Nothing
    /\ Overwrite(staged.path, staged.content)
    /\ stored' = stored \cup {staged.path}
    /\ \/ /\ Emit(staged.path,
                   IF report[staged.path].status = "missing" THEN "uploaded" ELSE "overwritten")
          /\ staged' = Nothing
          /\ UNCHANGED <<step, spent>>
       \/ Disturb /\ FailRun
    /\ UNCHANGED <<compared, unread>>

\* A call fails for good before the commit, in the upload, or in the download otherwise than
\* by an ApiError: credentials, the retry budget, the connection, the disk.
CallFails ==
    /\ step = "applying" /\ todo # {}
    /\ report[Record].status \in ACTIONABLE
    /\ Disturb
    /\ FailRun
    /\ UNCHANGED <<compared, folder, stored, unread>>

RunEnds ==
    /\ step = "applying" /\ todo = {}
    /\ step' = "repaired"
    /\ UNCHANGED <<compared, folder, applyVars, spent>>

Compares == Comparing /\ UNCHANGED <<applyVars, spent>>
Applying ==
    \/ LoadReport \/ SkipRecord \/ StageSource \/ UploadStaged \/ RunEnds

Disturbance ==
    /\ step \in Sides \cup {"reported", "applying"}
    /\ Disturb
    /\ \E s \in Sides, p \in Paths : Change(s, p, spent + 2)
    /\ UNCHANGED <<step, known, entries, more, report, applyVars>>

RepairNext == Compares \/ Applying \/ CallFails \/ Disturbance

-----------------------------------------------------------------------------
RepairTypeOK ==
    /\ ReconcileTypeOK
    /\ step \in Sides \cup {"reported", "refused", "applying", "repaired", "ambiguous", "failed"}
    /\ todo \subseteq Listed
    /\ staged \in [path : Paths \cup {NoPath}, content : Contents \cup {0}]
    /\ staged # Nothing => staged.path = Record /\ step = "applying"
    /\ outcome \in [Paths -> {"none", "skipped", "error", "uploaded", "overwritten"}]
    /\ stored \subseteq Paths /\ unread \subseteq Paths
    /\ spent \in 0 .. Budget

\* A step of the run writes only paths the report calls missing or mismatched, and only
\* the revision it reports, whatever has happened to the source since; it never deletes.
WritesReported ==
    <<step, todo, staged>>' # <<step, todo, staged>> =>
        \A p \in Paths : folder'["destination"][p] # folder["destination"][p] =>
            /\ report[p].status \in ACTIONABLE
            /\ folder'["destination"][p].content = report[p].source.content

\* A line says what became of the path: "uploaded" and "overwritten" that it was written,
\* the others that it was not, also when the answer to an upload was an error.
LinesAreTrue ==
    \A p \in Paths :
        /\ outcome[p] \in {"uploaded", "overwritten"} => p \in stored
        /\ outcome[p] \in {"skipped", "error"} => p \notin stored

\* After a run to the end, every source file that did not change is at the destination as it
\* is at the source, or it has the line "error" and a cause: its download was refused or cut
\* short, or its name does not fold to itself.
RepairConverges ==
    step = "repaired" =>
        \A p \in Paths \ (changed \cup Odd) : folder["source"][p] # None =>
            \/ folder["destination"][p].content = folder["source"][p].content
            \/ outcome[p] = "error" /\ (p \in unread \/ Fold[p] # p)
=============================================================================
