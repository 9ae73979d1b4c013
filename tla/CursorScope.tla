----------------------------- MODULE CursorScope -----------------------------
(***************************************************************************)
(* The traversal scope in the native source's state (cursor.py): the root  *)
(* path, recursion and Dropbox context that the file map and the cursor    *)
(* belong to.  The operator may change the scope and the policies between  *)
(* syncs, and an upgrade brings states of version 1, which has no scope,   *)
(* and of version 2, which has no cursor.                                  *)
(*                                                                         *)
(* Files are created and deleted, never edited or renamed: NativeSource    *)
(* has the rest of the planning, with one scope.                           *)
(***************************************************************************)
EXTENDS FiniteSets, Naturals

CONSTANTS
    Scopes,
    Files,      \* stable file ids; one is never used again
    Shows,      \* the files each scope shows, while they exist
    NoScope,    \* state of version 1, or none yet
    NoCursor,
    Budget      \* bound: changes, failures and stops in a behaviour

Cursors == [scope : Scopes, told : SUBSET Files, live : BOOLEAN] \cup {NoCursor}
NoState == [version |-> 0, scope |-> NoScope, files |-> {}, cursor |-> NoCursor]

\* Assumed by Programs.
ScopeAssumption ==
    /\ NoScope \notin Scopes /\ NoCursor \notin [scope : Scopes, told : SUBSET Files, live : BOOLEAN]
    /\ Shows \in [Scopes -> SUBSET Files] /\ Budget \in Nat

VARIABLES
    existing,       \* Dropbox: files that exist
    deleted,        \* history: files that existed
    config,         \* the scope, and whether renames or deletes are propagated
    saved,          \* the platform: the last state
    dest,           \* the destination: files it holds
    phase,          \* "idle", "plan", "work"
    scope, files, cursor, legacy,   \* of DropboxFileVersionCursor
    operations, transfers,          \* what the plan leaves to do
    last,           \* reader.last_cursor
    sawError,
    spent           \* of the budget

scopeVars == <<existing, deleted, config, saved, dest, phase, scope, files, cursor, legacy,
               operations, transfers, last, sawError, spent>>
environment == <<existing, deleted, config>>
state == <<scope, files, cursor, legacy>>
plan == <<operations, transfers, last, sawError>>

Disturb == spent < Budget /\ spent' = spent + 1
Shown(s) == Shows[s] \cap existing
\* The path, the recursion and the effective Dropbox context of the configuration.
CurrentScope == config.scope
CursorAt(s) == [scope |-> s, told |-> Shown(s), live |-> TRUE]

\* A state of an older version, or none; what it tracks is at the destination.
ScopeInit ==
    /\ existing \in SUBSET Files
    /\ deleted \in SUBSET (Files \ existing)
    /\ config \in [scope : Scopes, propagate : BOOLEAN]
    /\ dest \in SUBSET (existing \cup deleted)
    /\ saved \in {NoState}
           \cup [version : {1}, scope : {NoScope}, files : {dest}, cursor : {NoCursor}]
           \cup [version : {2}, scope : {s \in Scopes : dest \subseteq Shows[s]}, files : {dest},
                 cursor : {NoCursor}]
    /\ phase = "idle"
    /\ scope = NoScope /\ files = {} /\ cursor = NoCursor /\ legacy = FALSE
    /\ operations = {} /\ transfers = {} /\ last = NoCursor /\ sawError = FALSE
    /\ spent = 0

EndSync ==
    /\ phase' = "idle"
    /\ scope' = NoScope /\ files' = {} /\ cursor' = NoCursor /\ legacy' = FALSE
    /\ operations' = {} /\ transfers' = {} /\ last' = NoCursor /\ sawError' = FALSE

-----------------------------------------------------------------------------
\* set_initial_state
SetInitialState ==
    /\ phase = "idle"
    /\ phase' = "plan"
    /\ scope' = saved.scope /\ files' = saved.files /\ legacy' = (saved.version = 1)
    /\ cursor' = IF saved.version = 3 THEN saved.cursor ELSE NoCursor
    /\ UNCHANGED <<environment, saved, dest, plan, spent>>

\* A cursor that was reset is as good as none.
HasCursor == cursor # NoCursor /\ cursor.live /\ ~legacy

\* What a listing of scope s leaves to do: the files it lists and those it says are gone,
\* against the map.
Plan(map, listed, gone, s) ==
    /\ operations' = IF config.propagate THEN map \cap gone ELSE {}
    /\ transfers' = listed \ map
    /\ last' = CursorAt(s)
    /\ phase' = "work"

\* Mutant: the delta is taken for one of the scope that is configured.
DeltaFits == TRUE
\* plan_delta's scope check, whatever the policies.
DeltaInScope == scope = CurrentScope

PlanDelta ==
    /\ phase = "plan" /\ HasCursor /\ DeltaInScope
    /\ Plan(files, Shown(cursor.scope) \ cursor.told, cursor.told \ existing, cursor.scope)
    /\ scope' = CurrentScope
    /\ UNCHANGED <<environment, saved, dest, files, cursor, legacy, sawError, spent>>

DeltaRefused ==
    /\ phase = "plan" /\ HasCursor /\ ~DeltaInScope
    /\ EndSync
    /\ UNCHANGED <<environment, saved, dest, spent>>

InScope == ~legacy /\ scope \in {NoScope, CurrentScope}

\* Mutant: a map of another scope is kept when something is propagated.
SnapshotMapsKept ==
    CASE legacy -> IF config.propagate THEN {} ELSE {{}}
      [] ~legacy /\ ~InScope /\ ~config.propagate -> {{}}
      [] OTHER -> {files}

\* The map a snapshot is compared with: of another scope, or of none that is known, it is
\* dropped, and refused if anything were propagated from it.
SnapshotMaps == IF InScope THEN {files} ELSE IF config.propagate THEN {} ELSE {{}}

PlanSnapshot ==
    /\ phase = "plan" /\ ~HasCursor
    /\ files' \in SnapshotMaps
    /\ Plan(files', Shown(CurrentScope), Files \ Shown(CurrentScope), CurrentScope)
    /\ scope' = CurrentScope /\ legacy' = FALSE
    /\ UNCHANGED <<environment, saved, dest, cursor, sawError, spent>>

SnapshotRefused ==
    /\ phase = "plan" /\ ~HasCursor /\ SnapshotMaps = {}
    /\ EndSync
    /\ UNCHANGED <<environment, saved, dest, spent>>

DeleteFile(f) ==
    /\ phase = "work" /\ f \in operations
    /\ operations' = operations \ {f}
    /\ files' = files \ {f}
    /\ dest' = dest \ {f}
    /\ UNCHANGED <<environment, saved, phase, scope, cursor, legacy, transfers, last, sawError, spent>>

TransferFile(f) ==
    /\ phase = "work" /\ operations = {} /\ f \in transfers
    /\ transfers' = transfers \ {f}
    /\ \/ /\ f \in existing
          /\ files' = files \cup {f} /\ dest' = dest \cup {f}
          /\ UNCHANGED <<sawError, spent>>
       \/ /\ Disturb \/ (f \notin existing /\ UNCHANGED spent)
          /\ sawError' = TRUE
          /\ UNCHANGED <<files, dest>>
    /\ UNCHANGED <<environment, saved, phase, scope, cursor, legacy, operations, last>>

\* Mutant: the cursor moves although a file was skipped.
NextCursorAlways == last
\* The old cursor stays when a file was skipped, even if it was the one that was reset.
NextCursor == IF sawError THEN cursor ELSE last

\* get_state, after the only slice.
Finish ==
    /\ phase = "work" /\ operations = {} /\ transfers = {}
    /\ saved' = [version |-> 3, scope |-> scope, files |-> files, cursor |-> NextCursor]
    /\ EndSync
    /\ UNCHANGED <<environment, dest, spent>>

Stop ==
    /\ phase # "idle"
    /\ Disturb
    /\ EndSync
    /\ UNCHANGED <<environment, saved, dest>>

-----------------------------------------------------------------------------
Reconfigure ==
    /\ phase = "idle"
    /\ Disturb
    /\ config' \in [scope : Scopes, propagate : BOOLEAN]
    /\ UNCHANGED <<existing, deleted, saved, dest, phase, state, plan>>

ChangeFolder(f) ==
    /\ Disturb
    /\ f \notin deleted
    /\ existing' = IF f \in existing THEN existing \ {f} ELSE existing \cup {f}
    /\ deleted' = IF f \in existing THEN deleted \cup {f} ELSE deleted
    /\ UNCHANGED <<config, saved, dest, phase, state, plan>>

Dead(c) == IF c = NoCursor THEN c ELSE [c EXCEPT !.live = FALSE]

\* Dropbox resets the cursors it has given out.
ResetCursor ==
    /\ Disturb
    /\ saved' = [saved EXCEPT !.cursor = Dead(@)]
    /\ cursor' = Dead(cursor)
    /\ saved.cursor # NoCursor /\ saved.cursor.live
    /\ UNCHANGED <<environment, dest, phase, scope, files, legacy, operations, transfers, last, sawError>>

\* The operator resets the state.
ResetState ==
    /\ phase = "idle" /\ saved # NoState
    /\ Disturb
    /\ saved' = NoState
    /\ UNCHANGED <<environment, dest, phase, state, plan>>

Planning == SetInitialState \/ PlanDelta \/ DeltaRefused \/ PlanSnapshot \/ SnapshotRefused
Working == Finish \/ \E f \in Files : DeleteFile(f) \/ TransferFile(f)

ScopeNext ==
    \/ Planning \/ Working \/ Stop \/ Reconfigure \/ ResetCursor \/ ResetState
    \/ \E f \in Files : ChangeFolder(f)

-----------------------------------------------------------------------------
ScopeTypeOK ==
    /\ existing \subseteq Files /\ deleted \subseteq Files \ existing
    /\ config \in [scope : Scopes, propagate : BOOLEAN]
    /\ saved \in [version : 0 .. 3, scope : Scopes \cup {NoScope}, files : SUBSET Files,
                  cursor : Cursors]
    /\ dest \subseteq Files
    /\ phase \in {"idle", "plan", "work"}
    /\ scope \in Scopes \cup {NoScope} /\ files \subseteq Files /\ cursor \in Cursors
    /\ legacy \in BOOLEAN /\ sawError \in BOOLEAN
    /\ operations \subseteq Files /\ transfers \subseteq Files /\ last \in Cursors
    /\ spent \in 0 .. Budget

\* A cursor that is saved and can be used is one of the saved scope, and every file that it
\* has told of is in the map or gone: a delta from it misses nothing.  A snapshot that was
\* taken for a new scope may leave the old scope's cursor in the state, but only one that
\* Dropbox has reset.
CursorFitsState ==
    saved.cursor # NoCursor =>
        \/ ~saved.cursor.live
        \/ /\ saved.cursor.scope = saved.scope
           /\ saved.cursor.told \cap existing \subseteq saved.files

\* What a step removes from the destination has gone from Dropbox; it is not merely
\* outside the scope, or tracked under a scope that nobody knows.
DeletesGone == dest \ dest' \subseteq deleted

\* When a sync ends and no file was skipped, the destination has what the scope shows, or
\* showed when it was listed, whichever scope the state was of before.
ScopeIsCovered ==
    phase = "work" /\ transfers = {} /\ ~sawError =>
        last.told \cap existing \subseteq dest
=============================================================================
