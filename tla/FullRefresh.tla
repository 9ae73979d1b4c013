----------------------------- MODULE FullRefresh -----------------------------
(***************************************************************************)
(* The streams of the structured source that keep no state: files and      *)
(* folders (streams/snapshot.py), file_properties, shared_links and        *)
(* shared_folders.  A sync lists one root, or namespace after namespace,   *)
(* page by page, and emits what it keeps of each page.                     *)
(*                                                                         *)
(* Things are what a listing shows: files, folders, property fields,       *)
(* links, shared folders.  Dropbox is external.  A folder listing shows    *)
(* again what changed since it was shown, a sharing listing shows each     *)
(* thing once; what a page shows is the thing as it is then.  A cursor may *)
(* become invalid between two pages.                                       *)
(***************************************************************************)
EXTENDS Integers, FiniteSets

CONSTANTS
    Current,        \* the configured root, when namespaces are not selected
    Namespaces,     \* namespace ids, numbered in their sort order
    Things,
    Folders,        \* the things that are folders
    Syncs,          \* bound: the streams and namespace modes that are synced
    PageSize,       \* bound: entries of a page
    Budget          \* bound: how many disturbances there are in a behaviour

Streams == {"files", "folders", "file_properties", "shared_links", "shared_folders"}
Modes == {"current", "selected", "all_accessible"}
Roots == {Current} \cup Namespaces

\* Assumed by Programs.
FullRefreshAssumption ==
    /\ Roots \subseteq Nat /\ Current \notin Namespaces
    /\ Folders \subseteq Things
    /\ Syncs \subseteq Streams \X Modes
    /\ PageSize \in Nat
    /\ Budget \in Nat

VARIABLES
    thing,      \* Dropbox: each thing under each root
    valid,      \* Dropbox: is the cursor at hand valid?
    stream, mode,
    phase,      \* "idle", "resolve", "list", "read", "done", "failed"
    roots,      \* the roots of this sync: configured, or resolved so far
    left,       \* roots not yet listed, the one at hand included
    shown,      \* the cursor: the version of each thing it has shown; none at first
    recovered,  \* reset_recovered
    page, more, \* what is left of the page, and whether another follows
    emitted,    \* the records of this sync; for file_properties, seen
    resets,     \* history: the cursors reset under each root
    touched,    \* history: what changed since the sync began
    faulted,    \* history: a call raised
    spent       \* of the budget

fullVars == <<thing, valid, stream, mode, phase, roots, left, shown, recovered, page, more,
              emitted, resets, touched, faulted, spent>>
given == <<stream, mode, roots>>
walk == <<left, shown, recovered, page, more>>
history == <<resets, touched, faulted>>

\* Bound: so many disturbances, of any kind, there are in a behaviour.
Disturb == spent < Budget /\ spent' = spent + 1

First(S) == CHOOSE x \in S : \A y \in S : x <= y
Root == First(left)
Unshown == [t \in Things |-> 0]

FolderListing == stream \in {"files", "folders", "file_properties"}

Absent == [version |-> 0, live |-> FALSE, inside |-> TRUE]
Fresh == [version |-> 1, live |-> TRUE, inside |-> TRUE]
\* The same thing under another path: a root shows it where it is mounted there.
\* Bound: such a thing has its own path under the first namespace.
Elsewhere == [version |-> 2, live |-> TRUE, inside |-> FALSE]

\* A folder listing shows what moved on since, a sharing listing what it has not shown.
Pending ==
    {t \in Things :
        IF FolderListing THEN shown[t] # thing[Root][t].version
        ELSE shown[t] = 0 /\ thing[Root][t].live}

\* What a stream keeps of a page: its kind of live metadata, and of the links those
\* whose target is inside the configured path.
Kept(t, e) ==
    CASE stream = "files" -> e.live /\ t \notin Folders
      [] stream = "folders" -> e.live /\ t \in Folders
      [] stream = "file_properties" -> e.live
      [] stream = "shared_links" -> e.live /\ e.inside
      [] stream = "shared_folders" -> e.live

-----------------------------------------------------------------------------
FullRefreshInit ==
    /\ \E sync \in Syncs : stream = sync[1] /\ mode = sync[2]
    /\ thing \in [Roots -> [Things -> {Absent, Fresh, Elsewhere}]]
    /\ roots \in CASE mode = "current" -> {{Current}}
                  [] mode = "selected" -> (SUBSET Namespaces) \ {{}}
                  [] mode = "all_accessible" -> {{}}
    /\ \A r \in Roots \ (IF mode = "all_accessible" THEN Namespaces ELSE roots) :
          thing[r] = [t \in Things |-> Absent]
    /\ \A r \in Roots, t \in Things :
          thing[r][t] = Elsewhere => stream = "file_properties" /\ r # First(Namespaces)
    /\ valid = TRUE
    /\ phase = "idle"
    /\ left = {} /\ shown = Unshown /\ recovered = FALSE
    /\ page = {} /\ more = FALSE
    /\ emitted = {}
    /\ resets = [r \in Roots |-> 0] /\ touched = {}
    /\ faulted = FALSE /\ spent = 0

\* The client resolves the namespaces when it is made.
Start ==
    /\ phase = "idle"
    /\ phase' = IF mode = "all_accessible" THEN "resolve" ELSE "list"
    /\ left' = roots
    /\ UNCHANGED <<thing, valid, given, shown, recovered, page, more, emitted, history, spent>>

\* team_namespaces_list and its continuations: as many as there are, maybe none.
ResolvePage ==
    /\ phase = "resolve"
    /\ \E S \in SUBSET (Namespaces \ roots), hasMore \in BOOLEAN :
          /\ hasMore => S # {} /\ S # Namespaces \ roots
          /\ roots' = roots \cup S
          /\ left' = roots'
          /\ phase' = IF hasMore THEN "resolve" ELSE IF roots' = {} THEN "done" ELSE "list"
    /\ UNCHANGED <<thing, valid, stream, mode, shown, recovered, page, more, emitted, history, spent>>

\* A page of the listing, from its start or continued from the cursor.
FetchPage ==
    /\ phase = "list" /\ valid
    /\ \E S \in SUBSET Pending :
          /\ S = {} => Pending = {}
          /\ Cardinality(S) <= PageSize
          /\ page' = {[thing |-> t, entry |-> thing[Root][t]] : t \in S}
          /\ shown' = [t \in Things |-> IF t \in S THEN thing[Root][t].version ELSE shown[t]]
          /\ more' = (S # Pending)
    /\ phase' = "read"
    /\ UNCHANGED <<thing, valid, given, left, recovered, emitted, history, spent>>

\* file_properties recognises a field it has emitted, and one it has emitted otherwise.
Known(t, e) ==
    stream = "file_properties" /\ \E x \in emitted : x.thing = t /\ x.version = e.version
Conflicts(t, e) ==
    stream = "file_properties" /\ \E x \in emitted : x.thing = t /\ x.version # e.version

\* A normalized record says of a thing all that the listing showed of it ...
Facts(t, e) == [thing |-> t, version |-> e.version]
\* ... and in which namespace.
WithNamespace(record) == [root |-> Root, thing |-> record.thing, version |-> record.version]

ReadEntry ==
    /\ phase = "read"
    /\ \E x \in page :
          LET t == x.thing  e == x.entry
          IN  /\ page' = page \ {x}
              /\ \/ /\ ~Kept(t, e) \/ Known(t, e)
                    /\ UNCHANGED <<phase, emitted>>
                 \/ /\ Kept(t, e) /\ Conflicts(t, e)
                    /\ phase' = "failed"
                    /\ UNCHANGED emitted
                 \/ /\ Kept(t, e) /\ ~Known(t, e) /\ ~Conflicts(t, e)
                    /\ emitted' = emitted \cup {WithNamespace(Facts(t, e))}
                    /\ UNCHANGED phase
    /\ UNCHANGED <<thing, valid, given, left, shown, recovered, more, history, spent>>

\* Mutant: the recovery of one namespace counts for the next.
PageReadOnce ==
    /\ phase = "read" /\ page = {}
    /\ IF more THEN
           /\ phase' = "list"
           /\ UNCHANGED <<left, shown, recovered>>
       ELSE
           /\ left' = left \ {Root}
           /\ phase' = IF left' = {} THEN "done" ELSE "list"
           /\ shown' = Unshown
           /\ UNCHANGED recovered
    /\ UNCHANGED <<thing, valid, given, page, more, emitted, history, spent>>

\* The page is read: the next one, the next namespace, or the end.
PageRead ==
    /\ phase = "read" /\ page = {}
    /\ IF more THEN
           /\ phase' = "list"
           /\ UNCHANGED <<left, shown, recovered>>
       ELSE
           /\ left' = left \ {Root}
           /\ phase' = IF left' = {} THEN "done" ELSE "list"
           /\ shown' = Unshown
           /\ recovered' = FALSE
    /\ UNCHANGED <<thing, valid, given, page, more, emitted, history, spent>>

\* Mutant: the listing goes on where it was, under a new cursor.
ContinueListing ==
    /\ phase = "list" /\ ~valid
    /\ ~recovered /\ stream # "file_properties"
    /\ recovered' = TRUE
    /\ valid' = TRUE
    /\ shown' = [t \in Things |-> thing[Root][t].version]
    /\ UNCHANGED <<thing, given, phase, left, page, more, emitted, history, spent>>

\* An invalid cursor: the listing of this root starts afresh, once; that of
\* properties has no such recovery.
RestartListing ==
    /\ phase = "list" /\ ~valid
    /\ ~recovered /\ stream # "file_properties"
    /\ recovered' = TRUE
    /\ valid' = TRUE
    /\ shown' = Unshown
    /\ UNCHANGED <<thing, given, phase, left, page, more, emitted, history, spent>>

RefuseReset ==
    /\ phase = "list" /\ ~valid
    /\ recovered \/ stream = "file_properties"
    /\ phase' = "failed"
    /\ UNCHANGED <<thing, valid, given, walk, emitted, history, spent>>

\* Credentials, rate limits, malformed answers: a call raises, and the stream is gone.
Fault ==
    /\ phase \in {"resolve", "list", "read"}
    /\ Disturb
    /\ phase' = "failed" /\ faulted' = TRUE
    /\ left' = {} /\ shown' = Unshown /\ recovered' = FALSE /\ page' = {} /\ more' = FALSE
    /\ UNCHANGED <<thing, valid, given, emitted, resets, touched>>

Sync ==
    \/ Start \/ ResolvePage \/ FetchPage \/ ReadEntry \/ PageRead
    \/ RestartListing \/ RefuseReset

-----------------------------------------------------------------------------
\* A thing is made, edited, moved into or out of the path, or removed, under a root
\* still to be listed: elsewhere this sync would not notice. Only of links does the
\* listing itself look at the path.
Change(r, t) ==
    /\ phase \in {"list", "read"} /\ r \in left
    /\ Disturb
    /\ \E live \in BOOLEAN, inside \in IF stream = "shared_links" THEN BOOLEAN ELSE {TRUE} :
          thing' = [thing EXCEPT ![r][t] = [version |-> @.version + 1,
                                            live |-> live, inside |-> inside]]
    /\ touched' = touched \cup {<<r, t>>}
    /\ UNCHANGED <<valid, given, phase, walk, emitted, resets, faulted>>

\* The cursor at hand expires: there is one once a page has been fetched.
Invalidate ==
    /\ phase = "read" /\ more /\ valid
    /\ Disturb
    /\ valid' = FALSE
    /\ resets' = [resets EXCEPT ![Root] = @ + 1]
    /\ UNCHANGED <<thing, given, phase, walk, emitted, touched, faulted>>

FullRefreshNext ==
    \/ Sync \/ Fault \/ Invalidate
    \/ \E r \in Roots, t \in Things : Change(r, t)

-----------------------------------------------------------------------------
ThingStates == [version : Nat, live : BOOLEAN, inside : BOOLEAN]

FullRefreshTypeOK ==
    /\ thing \in [Roots -> [Things -> ThingStates]]
    /\ valid \in BOOLEAN /\ stream \in Streams /\ mode \in Modes
    /\ phase \in {"idle", "resolve", "list", "read", "done", "failed"}
    /\ roots \subseteq Roots /\ left \subseteq roots
    /\ phase \in {"list", "read"} => left # {}
    /\ shown \in [Things -> Nat] /\ recovered \in BOOLEAN
    /\ page \subseteq [thing : Things, entry : ThingStates] /\ more \in BOOLEAN
    /\ emitted \subseteq [root : Roots, thing : Things, version : Nat]
    /\ resets \in [Roots -> Nat] /\ touched \subseteq Roots \X Things
    /\ faulted \in BOOLEAN /\ spent \in 0 .. Budget

\* A sync that ends well has emitted everything that was there, and was not changed,
\* throughout, as it is: whatever else changed and however often the listing had to
\* start afresh (client.py: "may replay records, but cannot skip records").
NothingSkipped ==
    \A r \in Roots, t \in Things :
        phase = "done" /\ r \in roots /\ Kept(t, thing[r][t]) /\ <<r, t>> \notin touched =>
            \E x \in emitted :
                /\ x.thing = t /\ x.version = thing[r][t].version
                /\ x.root = r \/ stream = "file_properties"

\* A field that is not the same under all roots that show it.
Differs ==
    \E t \in Things, r, s \in Roots :
        /\ thing[r][t].version # thing[s][t].version
        /\ thing[r][t].version # 0 /\ thing[s][t].version # 0

\* A sync fails only when a call raised, when the cursor of one and the same root was
\* reset once too often, or when a property was changed while it was listed, or is
\* shown under two roots with two paths (its record is compared without the namespace).
FailsForCause ==
    phase = "failed" =>
        \/ faulted
        \/ resets[Root] >= IF stream = "file_properties" THEN 1 ELSE 2
        \/ stream = "file_properties" /\ (touched # {} \/ Differs)
=============================================================================
