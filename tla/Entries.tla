------------------------------- MODULE Entries -------------------------------
(***************************************************************************)
(* The entries stream of the structured source (streams/entries.py over    *)
(* client.py iter_entries): incremental syncs of one configured root, or   *)
(* of the selected Business namespaces one after the other, page by page,  *)
(* with a checkpoint per page.                                             *)
(*                                                                         *)
(* Dropbox is external.  folder[r][p] counts the changes of path p under   *)
(* root r; a list_folder cursor is what it has shown of each path; a page  *)
(* shows some of the paths on which the folder has moved on since, as they *)
(* are now (a deletion is a change like any other: include_deleted is at   *)
(* its default, true).  Dropbox may invalidate the cursors of a root:      *)
(* those of an earlier epoch are answered with ListFolderContinueError.    *)
(*                                                                         *)
(* The platform is external, too: it applies what the stream emits in      *)
(* order, keeps the last state message that got through, and starts the    *)
(* next sync from it when the previous one has ended.  The destination is  *)
(* taken as the last record on each path.                                  *)
(***************************************************************************)
EXTENDS Integers, Sequences, FiniteSets

CONSTANTS
    Current,        \* the configured root, when namespaces are not selected
    Namespaces,     \* namespace ids, numbered in their sort order
    Paths,          \* paths, numbered in the order a page lists them
    NoCursor,
    PageSize,       \* bound: entries of a page
    Budget          \* bound: how many of each event there are in a behaviour

Roots == {Current} \cup Namespaces
Cursor == [epoch : Nat, shown : [Paths -> Nat]]

\* What namespace_selection resolves to: nothing to select from, or one or more ids.
Selections == {{Current}} \cup {S \in SUBSET Namespaces : S # {}}

\* What happens to the syncs from outside.
Events == {"change", "reset", "interrupt", "select"}

ASSUME EntriesAssumption ==
    /\ Roots \subseteq Nat
    /\ Current \notin Namespaces
    /\ Paths \subseteq Nat
    /\ NoCursor \notin Cursor
    /\ PageSize \in Nat
    /\ Budget \in [Events -> Nat]

VARIABLES
    folder,     \* Dropbox: the version of each path under each root
    epoch,      \* Dropbox: cursors of this epoch are valid
    selection,  \* namespace_selection: {Current}, or the namespaces to traverse
    saved,      \* the platform: cursors of the last state message
    dest,       \* the destination: the version of the last record on a path
    channel,    \* records and states on their way to the destination
    phase,      \* "idle", "list" before a page, "read" within one
    state,      \* Entries.state: the cursor of each root
    left,       \* the roots not yet traversed, the one at hand included
    at,         \* the cursor to continue from; NoCursor to list the root
    recovered,  \* reset_recovered
    page,       \* the page at hand
    spent       \* of the budget of events

dropboxVars == <<folder, epoch>>
platformVars == <<selection, saved>>
syncVars == <<phase, state, left, at, recovered, page>>
vars == <<folder, epoch, selection, saved, dest, channel, phase, state, left,
          at, recovered, page, spent>>

-----------------------------------------------------------------------------
Spend(e) == spent[e] < Budget[e] /\ spent' = [spent EXCEPT ![e] = @ + 1]

First(S) == CHOOSE x \in S : \A y \in S : x <= y
Root == First(left)

NoCursors == [r \in Roots |-> NoCursor]
NoPage == [cursor |-> NoCursor, paths |-> {}, unread |-> {}, more |-> FALSE]

RecordMsg(r, p, v) == [kind |-> "record", root |-> r, path |-> p, version |-> v]
StateMsg(s) == [kind |-> "state", state |-> s]

IsMultiNamespace == selection # {Current}

\* What Entries.state refuses: a cursor of the single root, for namespaces.
Refused == IsMultiNamespace /\ saved[Current] # NoCursor

\* Mutant: the single root's cursor is put beside the namespaces.
CheckpointPageMixed(r, cursor) == [state EXCEPT ![r] = cursor]

\* Mutant: the state of a namespace takes the place of the others'.
CheckpointPageAlone(r, cursor) == [NoCursors EXCEPT ![r] = cursor]

\* The state after a page: of the single root it has one cursor and no
\* namespaces; of namespaces it has theirs and no cursor.
CheckpointPage(r, cursor) ==
    IF IsMultiNamespace
    THEN [state EXCEPT ![r] = cursor, ![Current] = NoCursor]
    ELSE [NoCursors EXCEPT ![r] = cursor]

PageWasCheckpointed == state[Root] = page.cursor

\* A listing has shown nothing, a cursor what it was issued for.
Shown == IF at = NoCursor THEN [p \in Paths |-> 0] ELSE at.shown
Pending == {p \in Paths : Shown[p] # folder[Root][p]}
CursorIsValid == at # NoCursor => at.epoch = epoch[Root]

-----------------------------------------------------------------------------
Init ==
    /\ folder = [r \in Roots |-> [p \in Paths |-> 0]]
    /\ epoch = [r \in Roots |-> 0]
    /\ selection \in Selections
    /\ saved = NoCursors
    /\ dest = [r \in Roots |-> [p \in Paths |-> 0]]
    /\ channel = <<>>
    /\ phase = "idle"
    /\ state = NoCursors
    /\ left = {}
    /\ at = NoCursor
    /\ recovered = FALSE
    /\ page = NoPage
    /\ spent = [e \in Events |-> 0]

\* The stream object goes with the process.
EndSync ==
    /\ phase' = "idle"
    /\ state' = NoCursors
    /\ left' = {}
    /\ at' = NoCursor
    /\ recovered' = FALSE
    /\ page' = NoPage

Start ==
    /\ phase = "idle"
    /\ channel = <<>>
    /\ ~Refused
    /\ phase' = "list"
    /\ state' = saved
    /\ left' = selection
    /\ at' = saved[First(selection)]
    /\ recovered' = FALSE
    /\ page' = NoPage
    /\ UNCHANGED <<dropboxVars, platformVars, dest, channel, spent>>

\* list_folder or list_folder_continue.
FetchPage ==
    /\ phase = "list"
    /\ CursorIsValid
    /\ \E S \in SUBSET Pending :
          /\ S = {} => Pending = {}
          /\ Cardinality(S) <= PageSize
          /\ page' = [cursor |-> [epoch |-> epoch[Root],
                                  shown |-> [p \in Paths |-> IF p \in S THEN folder[Root][p]
                                                             ELSE Shown[p]]],
                      paths |-> S,
                      unread |-> S,
                      more |-> S # Pending]
    /\ phase' = "read"
    /\ UNCHANGED <<dropboxVars, platformVars, dest, channel, spent,
                   state, left, at, recovered>>

\* Mutant: only a listing begun in this sync is restarted, not a saved cursor.
RestartListingBegun ==
    /\ phase = "list"
    /\ ~CursorIsValid
    /\ ~recovered
    /\ at # state[Root]
    /\ at' = NoCursor
    /\ recovered' = TRUE
    /\ UNCHANGED <<dropboxVars, platformVars, dest, channel, spent,
                   phase, state, left, page>>

\* The cursor was reset: the first time, the root is listed afresh.
RestartListing ==
    /\ phase = "list"
    /\ ~CursorIsValid
    /\ ~recovered
    /\ at' = NoCursor
    /\ recovered' = TRUE
    /\ UNCHANGED <<dropboxVars, platformVars, dest, channel, spent,
                   phase, state, left, page>>

\* The second time, the sync fails.
RefuseSecondReset ==
    /\ phase = "list"
    /\ ~CursorIsValid
    /\ recovered
    /\ EndSync
    /\ UNCHANGED <<dropboxVars, platformVars, dest, channel, spent>>

ReadRecord ==
    /\ phase = "read"
    /\ page.unread # {}
    /\ LET p == First(page.unread)
       IN  /\ channel' = Append(channel, RecordMsg(Root, p, page.cursor.shown[p]))
           /\ page' = [page EXCEPT !.unread = @ \ {p}]
    /\ UNCHANGED <<dropboxVars, platformVars, dest, spent,
                   phase, state, left, at, recovered>>

\* Mutant: the cursors of the later namespaces are not looked up.
NextPageForgetful(s) ==
    IF page.more THEN
        /\ phase' = "list"
        /\ at' = page.cursor
        /\ state' = s
        /\ page' = NoPage
        /\ UNCHANGED <<left, recovered>>
    ELSE IF left # {Root} THEN
        /\ phase' = "list"
        /\ left' = left \ {Root}
        /\ at' = NoCursor
        /\ recovered' = FALSE
        /\ state' = s
        /\ page' = NoPage
    ELSE EndSync

\* iter_entries goes on to the next page, or the next namespace from its cursor,
\* or the stream ends; s is the state by then.
NextPage(s) ==
    IF page.more THEN
        /\ phase' = "list"
        /\ at' = page.cursor
        /\ state' = s
        /\ page' = NoPage
        /\ UNCHANGED <<left, recovered>>
    ELSE IF left # {Root} THEN
        /\ phase' = "list"
        /\ left' = left \ {Root}
        /\ at' = s[First(left \ {Root})]
        /\ recovered' = FALSE
        /\ state' = s
        /\ page' = NoPage
    ELSE EndSync

\* Mutant: the state is set before the records of the page are read.
CheckpointEarly ==
    /\ phase = "read"
    /\ LET s == CheckpointPage(Root, page.cursor)
       IN  /\ channel' = Append(channel, StateMsg(s))
           /\ NextPage(s)
    /\ UNCHANGED <<dropboxVars, platformVars, dest, spent>>

\* The page is read: its cursor becomes state, and the state is emitted.
Checkpoint ==
    /\ phase = "read"
    /\ page.unread = {}
    /\ LET s == CheckpointPage(Root, page.cursor)
       IN  /\ channel' = Append(channel, StateMsg(s))
           /\ NextPage(s)
    /\ UNCHANGED <<dropboxVars, platformVars, dest, spent>>

\* The CDK stops reading at its record limit, maybe on the last record of the
\* page, and emits the state; the stream goes on only past a checkpointed page.
StopMidPage ==
    /\ phase = "read"
    /\ page.unread # page.paths
    /\ Spend("interrupt")
    /\ channel' = Append(channel, StateMsg(state))
    /\ IF PageWasCheckpointed THEN NextPage(state) ELSE EndSync
    /\ UNCHANGED <<dropboxVars, platformVars, dest>>

\* A call raises, or a record cannot be normalized: what was emitted arrives.
Fail ==
    /\ phase # "idle"
    /\ Spend("interrupt")
    /\ EndSync
    /\ UNCHANGED <<dropboxVars, platformVars, dest, channel>>

\* The sync is killed: what has not arrived is lost.
Kill ==
    /\ phase # "idle" \/ channel # <<>>
    /\ Spend("interrupt")
    /\ channel' = <<>>
    /\ EndSync
    /\ UNCHANGED <<dropboxVars, platformVars, dest>>

-----------------------------------------------------------------------------
Change(r, p) ==
    /\ Spend("change")
    /\ folder' = [folder EXCEPT ![r][p] = @ + 1]
    /\ UNCHANGED <<epoch, platformVars, dest, channel, syncVars>>

Invalidate(r) ==
    /\ Spend("reset")
    /\ epoch' = [epoch EXCEPT ![r] = @ + 1]
    /\ UNCHANGED <<folder, platformVars, dest, channel, syncVars>>

DeliverRecord ==
    /\ channel # <<>> /\ Head(channel).kind = "record"
    /\ LET m == Head(channel) IN dest' = [dest EXCEPT ![m.root][m.path] = m.version]
    /\ channel' = Tail(channel)
    /\ UNCHANGED <<dropboxVars, platformVars, syncVars, spent>>

DeliverState ==
    /\ channel # <<>> /\ Head(channel).kind = "state"
    /\ saved' = Head(channel).state
    /\ channel' = Tail(channel)
    /\ UNCHANGED <<dropboxVars, selection, dest, syncVars, spent>>

Select ==
    /\ phase = "idle" /\ channel = <<>>
    /\ Spend("select")
    /\ selection' \in Selections
    /\ UNCHANGED <<dropboxVars, saved, dest, channel, syncVars>>

\* The operator resets a state the stream refuses, as the error asks for.
ResetState ==
    /\ phase = "idle" /\ channel = <<>>
    /\ Refused
    /\ saved' = NoCursors
    /\ UNCHANGED <<dropboxVars, selection, dest, channel, syncVars, spent>>

-----------------------------------------------------------------------------
Sync ==
    \/ Start \/ FetchPage \/ RestartListing \/ RefuseSecondReset
    \/ ReadRecord \/ Checkpoint

Deliver == DeliverRecord \/ DeliverState

Next ==
    \/ Sync \/ Deliver
    \/ StopMidPage \/ Fail \/ Kill
    \/ Select \/ ResetState
    \/ \E r \in Roots :
          \/ \E p \in Paths : Change(r, p)
          \/ Invalidate(r)

Spec == Init /\ [][Next]_vars

\* Syncs are scheduled and run, messages arrive, and the operator answers an
\* error; nothing obliges a folder to change, a cursor to be reset, a sync to be
\* interrupted or the selection to change.
FairSpec == Spec /\ WF_vars(Sync) /\ WF_vars(Deliver) /\ WF_vars(ResetState)

-----------------------------------------------------------------------------
\* A state has the cursor of the single root or those of namespaces.
States ==
    {s \in [Roots -> Cursor \cup {NoCursor}] :
        s[Current] # NoCursor => \A n \in Namespaces : s[n] = NoCursor}
Messages ==
    [kind : {"record"}, root : Roots, path : Paths, version : Nat]
    \cup [kind : {"state"}, state : States]
Pages ==
    [cursor : Cursor \cup {NoCursor}, paths : SUBSET Paths, unread : SUBSET Paths, more : BOOLEAN]

OutsideTypeOK ==
    /\ folder \in [Roots -> [Paths -> Nat]]
    /\ epoch \in [Roots -> Nat]
    /\ selection \in Selections
    /\ saved \in States
    /\ dest \in [Roots -> [Paths -> Nat]]
    /\ channel \in Seq(Messages)
    /\ spent \in [Events -> Nat]

SyncTypeOK ==
    /\ phase \in {"idle", "list", "read"}
    /\ state \in States
    /\ left \subseteq selection
    /\ at \in Cursor \cup {NoCursor}
    /\ recovered \in BOOLEAN
    /\ page \in Pages
    /\ phase = "idle" <=> left = {}
    /\ phase = "idle" => at = NoCursor
    /\ phase = "read" <=> page.cursor # NoCursor
    /\ page.unread \subseteq page.paths

\* Types, among them that no state mixes the two modes, that a sync at work has a
\* root of the selection at hand, and that a page is at hand only while it is read.
TypeOK == OutsideTypeOK /\ SyncTypeOK

\* What the platform keeps never runs ahead of the destination: a path is shown
\* to a saved cursor only when its record has arrived (entries.py: a Dropbox
\* cursor never advances until every record in its page has been yielded).
CheckpointCovers ==
    \A r \in Roots, p \in Paths :
        saved[r] # NoCursor => saved[r].shown[p] <= dest[r][p]

\* A sync emits changes only: a record the destination has already is on its way
\* again only when Dropbox has reset that very root, a sync was cut short, or the
\* selection has changed (test_namespaces.py: a reset restarts only the namespace
\* that was reset).
OnlyNews ==
    \A i \in DOMAIN channel :
        LET m == channel[i]
        IN  m.kind = "record" =>
                \/ m.version > dest[m.root][m.path]
                \/ epoch[m.root] # 0 \/ spent.interrupt # 0 \/ spent.select # 0

\* A namespace's cursor is lost only to a sync of the single root, and moves back
\* only after Dropbox has reset that very namespace, whatever happens to the
\* others, selected or not.
CursorsAreKept ==
    [][\A n \in Namespaces :
          saved[n] # NoCursor =>
            \/ saved'[Current] # NoCursor
            \/ /\ saved'[n] # NoCursor
               /\ \/ epoch[n] # 0
                  \/ \A p \in Paths : saved[n].shown[p] <= saved'[n].shown[p]]_vars

\* When changes, resets and interruptions are over, syncs bring the destination
\* up to date with every root selected, and keep it so: no saved state is stuck.
EventuallyRead == <>[](\A r \in selection : dest[r] = folder[r])
=============================================================================
