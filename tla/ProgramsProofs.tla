--------------------------- MODULE ProgramsProofs ---------------------------
(***************************************************************************)
(* Proofs about Programs, for all values of the constants.                 *)
(*                                                                         *)
(* The scope in the native source's state:                                 *)
(*   CursorsFit          Spec => []CursorFitsState                         *)
(*   OnlyGoneFiles       Spec => DeletesWhatIsGone                         *)
(* The base64 destination:                                                 *)
(*   StatesCovered       Spec => []StateCoversUploads                      *)
(*   RecordsStay         Spec => []LastRecordStays                         *)
(*   ItemsStay           Spec => KeepsWhatIsThere                          *)
(* file_contents:                                                          *)
(*   DeadlinesKept       Spec => []AnswersInTime                           *)
(*   NotedHasItsRecord   Spec => []NotedIsExtracted                        *)
(*   ExtractedOnce       Spec => NothingExtractedTwice                     *)
(*   ModesStayApart      Spec => ModesNeverMix                             *)
(* Every program:                                                          *)
(*   TypesKept           Spec => []ProgramsTypeOK                          *)
(*   ListingsComplete    Spec => []NothingSkipped                          *)
(*   FailuresHaveCause   Spec => []FailsForCause                           *)
(***************************************************************************)
EXTENDS ListingProofs, SequenceTheorems

-----------------------------------------------------------------------------
(* The scope in the native source's state.                                 *)

Known == existing \cup deleted

\* A file map of a scope holds files of that scope that exist or existed; one of no scope,
\* unless it is a version 1 map, holds nothing.
MapFits(s, map, unscoped) ==
    /\ map \subseteq Known
    /\ s \in Scopes => map \subseteq Shows[s]
    /\ s = NoScope /\ ~unscoped => map = {}

\* What CursorFitsState says, of any cursor; and it has told of no file yet to come.
Fits(c, s, map) ==
    c # NoCursor =>
        /\ c.told \subseteq Known
        /\ c.live => c.scope = s /\ c.told \cap existing \subseteq map

\* A plan deletes what is gone and transfers files of its scope; its cursor fits the map
\* once they are all transferred, unless one is skipped.
PlanFits ==
    /\ scope \in Scopes
    /\ operations \subseteq deleted
    /\ transfers \subseteq Shows[scope] \cap Known
    /\ ~sawError => last # NoCursor /\ Fits(last, scope, files \cup transfers)

ScopeInv ==
    program = CURSOR_SCOPE =>
        /\ existing \cap deleted = {}
        /\ config.scope \in Scopes
        /\ saved = [version |-> saved.version, scope |-> saved.scope, files |-> saved.files,
                     cursor |-> saved.cursor]
        /\ saved.scope \in Scopes \cup {NoScope}
        /\ MapFits(saved.scope, saved.files, saved.version = 1)
        /\ saved.cursor \in S!Cursors /\ Fits(saved.cursor, saved.scope, saved.files)
        /\ saved.version = 1 => saved.cursor = NoCursor
        /\ phase \in {"idle", "plan", "work"}
        /\ scope \in Scopes \cup {NoScope}
        /\ last \in S!Cursors
        /\ phase # "idle" =>
              /\ MapFits(scope, files, legacy)
              /\ Fits(cursor, scope, files)
        /\ cursor \in S!Cursors
        /\ legacy => cursor = NoCursor
        /\ phase = "work" => PlanFits

LEMMA SetUp ==
  ASSUME program = CURSOR_SCOPE, ScopeInv, S!SetInitialState
  PROVE  ScopeInv'
BY ProgramsAssumption DEF ScopeInv, S!SetInitialState, S!environment, S!plan, MapFits, Fits, Known,
   S!Cursors, S!ScopeAssumption

\* A new cursor is of its scope and has told of what the scope shows.
LEMMA NewCursor ==
  ASSUME NEW s \in Scopes
  PROVE  /\ S!CursorAt(s) \in S!Cursors /\ S!CursorAt(s) # NoCursor
         /\ S!CursorAt(s).scope = s /\ S!CursorAt(s).told = Shows[s] \cap existing
<1>1. /\ Shows[s] \subseteq Files
      /\ NoCursor \notin [scope : Scopes, told : SUBSET Files, live : BOOLEAN]
  BY ProgramsAssumption DEF S!ScopeAssumption
<1>2. S!CursorAt(s) = [scope |-> s, told |-> Shows[s] \cap existing, live |-> TRUE]
  BY DEF S!CursorAt, S!Shown
<1>3. S!CursorAt(s) \in [scope : Scopes, told : SUBSET Files, live : BOOLEAN]
  BY <1>1, <1>2
<1>4. S!CursorAt(s) \in S!Cursors /\ S!CursorAt(s) # NoCursor
  BY <1>1, <1>3 DEF S!Cursors
<1>5. QED
  BY <1>2, <1>4

LEMMA DeltaFits ==
  ASSUME program = CURSOR_SCOPE, ScopeInv, S!PlanDelta
  PROVE  ScopeInv'
<1>1. scope \in Scopes /\ cursor # NoCursor /\ cursor.live /\ cursor.scope = scope /\ ~legacy
  BY DEF ScopeInv, Fits, S!PlanDelta, S!HasCursor, S!DeltaInScope, S!CurrentScope
<1>2. /\ operations' \subseteq cursor.told \ existing
      /\ transfers' = ((Shows[scope] \cap existing) \ cursor.told) \ files
      /\ last' = S!CursorAt(scope) /\ phase' = "work"
  BY <1>1 DEF S!PlanDelta, S!Plan, S!Shown
<1>3. UNCHANGED <<existing, deleted, config, saved, files, cursor, legacy, sawError, scope>>
  BY DEF S!PlanDelta, S!environment, S!DeltaInScope, S!CurrentScope
<1>4. MapFits(scope, files, legacy) /\ Fits(cursor, scope, files)
  BY DEF ScopeInv, S!PlanDelta
<1>5. PlanFits'
  <2>1. operations' \subseteq deleted'
    BY <1>1, <1>2, <1>3, <1>4 DEF Fits, Known
  <2>2. transfers' \subseteq (Shows[scope] \cap Known)'
    BY <1>2, <1>3 DEF Known
  <2>3. last' # NoCursor /\ Fits(last, scope, files \cup transfers)'
    BY <1>1, <1>2, <1>3, <1>4, NewCursor DEF Fits, Known
  <2>4. QED
    BY <1>1, <1>3, <2>1, <2>2, <2>3 DEF PlanFits
<1>6. last' \in S!Cursors
  BY <1>1, <1>2, NewCursor
<1>7. Known' = Known
  BY <1>3 DEF Known
<1>8. QED
  BY <1>1, <1>2, <1>3, <1>4, <1>5, <1>6, <1>7 DEF ScopeInv, MapFits, Fits

LEMMA SnapshotFits ==
  ASSUME program = CURSOR_SCOPE, ScopeInv, S!PlanSnapshot
  PROVE  ScopeInv'
<1>1. config.scope \in Scopes /\ Shows[config.scope] \subseteq Files /\ config.scope # NoScope
  BY ProgramsAssumption DEF ScopeInv, S!ScopeAssumption
<1>2. files' \subseteq Shows[config.scope] \cap Known
  BY <1>1 DEF ScopeInv, MapFits, S!PlanSnapshot, S!SnapshotMaps, S!InScope, S!CurrentScope
<1>3. /\ operations' \subseteq files' \ (Shows[config.scope] \cap existing)
      /\ transfers' = (Shows[config.scope] \cap existing) \ files'
      /\ last' = S!CursorAt(config.scope) /\ phase' = "work"
      /\ scope' = config.scope /\ legacy' = FALSE
  BY DEF S!PlanSnapshot, S!Plan, S!CurrentScope, S!Shown
<1>4. UNCHANGED <<existing, deleted, config, saved, cursor, sawError>>
  BY DEF S!PlanSnapshot, S!environment
<1>5. Known' = Known
  BY <1>4 DEF Known
<1>6. PlanFits'
  <2>1. operations' \subseteq deleted'
    BY <1>2, <1>3, <1>4 DEF Known
  <2>2. transfers' \subseteq (Shows[scope] \cap Known)'
    BY <1>3, <1>4 DEF Known
  <2>3. last' # NoCursor /\ Fits(last, scope, files \cup transfers)'
    BY <1>1, <1>3, <1>4, NewCursor DEF Fits, Known
  <2>4. QED
    BY <1>1, <1>3, <2>1, <2>2, <2>3 DEF PlanFits
<1>7. MapFits(scope, files, legacy)'
  BY <1>1, <1>2, <1>3, <1>5 DEF MapFits
<1>8. Fits(cursor, scope, files)'
  <2>1. cursor # NoCursor => cursor.told \subseteq Known /\ ~cursor.live
    BY DEF ScopeInv, Fits, S!PlanSnapshot, S!HasCursor
  <2>2. QED
    BY <1>4, <1>5, <2>1 DEF Fits
<1>9. last' \in S!Cursors
  BY <1>1, <1>3, NewCursor
<1>10. QED
  BY <1>1, <1>3, <1>4, <1>5, <1>6, <1>7, <1>8, <1>9 DEF ScopeInv, MapFits, Fits

\* A step of the work keeps what it has for the next cursor, or skips a file.
LEMMA WorkFits ==
  ASSUME program = CURSOR_SCOPE, ScopeInv, S!Working
  PROVE  ScopeInv'
<1>1. ASSUME NEW f \in Files, S!DeleteFile(f)
      PROVE  ScopeInv'
  <2>1. f \in deleted /\ f \notin existing /\ PlanFits
    BY <1>1 DEF S!DeleteFile, ScopeInv, PlanFits
  <2>2. /\ files' = files \ {f} /\ operations' \subseteq operations
        /\ UNCHANGED <<existing, deleted, config, saved, phase, scope, cursor, legacy, transfers,
                       last, sawError>>
    BY <1>1 DEF S!DeleteFile, S!environment
  <2>3. Known' = Known
    BY <2>2 DEF Known
  <2>4. PlanFits'
    BY <2>1, <2>2, <2>3 DEF PlanFits, Fits
  <2>5. /\ MapFits(scope, files, legacy) => MapFits(scope, files, legacy)'
        /\ Fits(cursor, scope, files) => Fits(cursor, scope, files)'
    BY <2>1, <2>2, <2>3 DEF MapFits, Fits
  <2>6. QED
    BY <2>2, <2>3, <2>4, <2>5 DEF ScopeInv, MapFits, Fits
<1>2. ASSUME NEW f \in Files, S!TransferFile(f)
      PROVE  ScopeInv'
  <2>1. phase = "work" /\ f \in transfers /\ PlanFits
    BY <1>2 DEF S!TransferFile, ScopeInv
  <2>2. /\ transfers' = transfers \ {f}
        /\ \/ files' = files \cup {f} /\ sawError' = sawError
           \/ files' = files /\ sawError' = TRUE
        /\ UNCHANGED <<existing, deleted, config, saved, phase, scope, cursor, legacy, operations,
                       last>>
    BY <1>2 DEF S!TransferFile, S!environment
  <2>3. Known' = Known
    BY <2>2 DEF Known
  <2>4. PlanFits'
    BY <2>1, <2>2, <2>3 DEF PlanFits, Fits
  <2>5. MapFits(scope, files, legacy)' /\ Fits(cursor, scope, files)'
    <3>1. MapFits(scope, files, legacy) /\ Fits(cursor, scope, files) /\ scope # NoScope
      BY <2>1, ProgramsAssumption DEF ScopeInv, PlanFits, S!ScopeAssumption
    <3>2. QED
      BY <3>1, <2>1, <2>2, <2>3 DEF MapFits, Fits, PlanFits
  <2>6. QED
    BY <2>2, <2>3, <2>4, <2>5 DEF ScopeInv, MapFits, Fits
<1>3. CASE S!Finish
  <2>1. S!NextCursor \in S!Cursors /\ Fits(S!NextCursor, scope, files)
    BY <1>3 DEF S!Finish, S!NextCursor, ScopeInv, PlanFits, Fits
  <2>2. scope \in Scopes /\ scope # NoScope /\ MapFits(scope, files, legacy)
    BY <1>3, ProgramsAssumption DEF S!Finish, ScopeInv, PlanFits, S!ScopeAssumption
  <2>3. /\ saved' = [version |-> 3, scope |-> scope, files |-> files, cursor |-> S!NextCursor]
        /\ UNCHANGED <<existing, deleted, config>>
        /\ phase' = "idle" /\ scope' = NoScope /\ cursor' = NoCursor /\ last' = NoCursor
        /\ legacy' = FALSE
    BY <1>3 DEF S!Finish, S!EndSync, S!environment
  <2>4. Known' = Known
    BY <2>3 DEF Known
  <2>5. NoCursor \in S!Cursors
    BY DEF S!Cursors
  <2>6. MapFits(saved.scope, saved.files, FALSE)' /\ Fits(saved.cursor, saved.scope, saved.files)'
    BY <2>1, <2>2, <2>3, <2>4 DEF MapFits, Fits
  <2>7. /\ saved'.version = 3 /\ saved'.scope = scope /\ saved'.files = files
        /\ saved'.cursor = S!NextCursor
    BY <2>3
  <2>8. saved' = [version |-> saved'.version, scope |-> saved'.scope, files |-> saved'.files,
                  cursor |-> saved'.cursor]
    BY <2>3, <2>7, Zenon
  <2>9. MapFits(saved.scope, saved.files, saved.version = 1)'
    BY <2>6, <2>7 DEF MapFits
  <2>10. QED
    BY <2>1, <2>2, <2>3, <2>5, <2>6, <2>7, <2>8, <2>9 DEF ScopeInv
<1>4. QED
  BY <1>1, <1>2, <1>3 DEF S!Working

\* A sync that ends before its work is done leaves the saved state as it was.
LEMMA EndFits ==
  ASSUME program = CURSOR_SCOPE, ScopeInv, S!EndSync, UNCHANGED <<existing, deleted, config, saved>>
  PROVE  ScopeInv'
<1>1. NoCursor \in S!Cursors /\ Known' = Known
  BY DEF S!Cursors, Known
<1>2. /\ phase' = "idle" /\ scope' = NoScope /\ cursor' = NoCursor /\ last' = NoCursor
      /\ legacy' = FALSE
  BY DEF S!EndSync
<1>3. QED
  BY <1>1, <1>2 DEF ScopeInv, MapFits, Fits

\* What Dropbox and the operator do keeps it too: a file that is created is new, and a cursor
\* that is reset says nothing.
LEMMA OthersFit ==
  ASSUME program = CURSOR_SCOPE, ScopeInv,
         S!Reconfigure \/ S!ResetCursor \/ S!ResetState \/ \E f \in Files : S!ChangeFolder(f)
  PROVE  ScopeInv'
<1>1. CASE S!Reconfigure
  <2>1. /\ config'.scope \in Scopes /\ phase = "idle" /\ Known' = Known
        /\ UNCHANGED <<existing, deleted, saved, phase, scope, cursor, legacy, last>>
    BY <1>1 DEF S!Reconfigure, S!state, S!plan, Known
  <2>2. QED
    BY <2>1 DEF ScopeInv, MapFits, Fits
<1>2. CASE S!ResetState
  <2>1. /\ phase = "idle" /\ Known' = Known /\ saved' = S!NoState
        /\ UNCHANGED <<existing, deleted, config, phase, scope, cursor, legacy, last>>
    BY <1>2 DEF S!ResetState, S!environment, S!state, S!plan, Known
  <2>2. NoCursor \in S!Cursors
    BY DEF S!Cursors
  <2>3. /\ saved'.version = 0 /\ saved'.scope = NoScope /\ saved'.files = {}
        /\ saved'.cursor = NoCursor
    BY <2>1 DEF S!NoState
  <2>4. saved' = [version |-> saved'.version, scope |-> saved'.scope, files |-> saved'.files,
                  cursor |-> saved'.cursor]
    BY <2>1, <2>3, Zenon DEF S!NoState
  <2>5. QED
    BY <2>1, <2>2, <2>3, <2>4 DEF ScopeInv, MapFits, Fits
<1>3. ASSUME NEW f \in Files, S!ChangeFolder(f)
      PROVE  ScopeInv'
  <2>1. /\ f \notin deleted
        /\ \/ f \in existing /\ existing' = existing \ {f} /\ deleted' = deleted \cup {f}
           \/ f \notin existing /\ existing' = existing \cup {f} /\ deleted' = deleted
        /\ UNCHANGED <<config, saved, phase, scope, files, cursor, legacy, operations, transfers,
                       last, sawError>>
    BY <1>3 DEF S!ChangeFolder, S!state, S!plan
  <2>2. existing \cap deleted = {}
    BY DEF ScopeInv
  <2>3. (existing \cap deleted)' = {} /\ Known \subseteq Known' /\ deleted \subseteq deleted'
    BY <2>1, <2>2 DEF Known
  <2>4. \A g \in Known : g \in existing' => g \in existing
    BY <2>1, <2>2 DEF Known
  <2>5. PlanFits => PlanFits'
    BY <2>1, <2>3, <2>4 DEF PlanFits, Fits
  <2>6. Fits(saved.cursor, saved.scope, saved.files)'
        /\ MapFits(saved.scope, saved.files, saved.version = 1)'
    BY <2>1, <2>3, <2>4 DEF ScopeInv, Fits, MapFits
  <2>7. phase # "idle" => MapFits(scope, files, legacy)' /\ Fits(cursor, scope, files)'
    BY <2>1, <2>3, <2>4 DEF ScopeInv, Fits, MapFits
  <2>8. QED
    BY <2>1, <2>3, <2>5, <2>6, <2>7 DEF ScopeInv
<1>4. CASE S!ResetCursor
  <2>1. /\ saved' = [saved EXCEPT !.cursor = S!Dead(saved.cursor)] /\ cursor' = S!Dead(cursor)
        /\ saved.cursor # NoCursor
        /\ UNCHANGED <<existing, deleted, config, phase, scope, files, legacy, operations,
                       transfers, last, sawError>>
    BY <1>4 DEF S!ResetCursor, S!environment
  <2>2. saved' = [version |-> saved.version, scope |-> saved.scope, files |-> saved.files,
                  cursor |-> S!Dead(saved.cursor)]
    <3>1. saved = [version |-> saved.version, scope |-> saved.scope, files |-> saved.files,
                   cursor |-> saved.cursor]
      BY DEF ScopeInv
    <3>2. QED
      BY <2>1, <3>1, Zenon
  <2>3. Known' = Known
    BY <2>1 DEF Known
  <2>4. ASSUME NEW c \in S!Cursors
        PROVE  /\ S!Dead(c) \in S!Cursors
               /\ c = NoCursor => S!Dead(c) = NoCursor
               /\ \A s, map : Fits(c, s, map) => Fits(S!Dead(c), s, map)
    <3>1. CASE c = NoCursor
      BY <2>4, <3>1 DEF S!Dead
    <3>2. CASE c \in [scope : Scopes, told : SUBSET Files, live : BOOLEAN] /\ c # NoCursor
      <4>1. S!Dead(c) \in [scope : Scopes, told : SUBSET Files, live : BOOLEAN]
            /\ S!Dead(c).told = c.told /\ ~S!Dead(c).live
        BY <3>2 DEF S!Dead
      <4>2. QED
        BY <2>4, <3>2, <4>1 DEF S!Cursors, Fits
    <3>3. QED
      BY <3>1, <3>2 DEF S!Cursors
  <2>5. Fits(S!Dead(saved.cursor), saved.scope, saved.files)
        /\ S!Dead(saved.cursor) \in S!Cursors
    BY <2>4 DEF ScopeInv
  <2>6. S!Dead(cursor) \in S!Cursors /\ (cursor = NoCursor => S!Dead(cursor) = NoCursor)
        /\ (Fits(cursor, scope, files) => Fits(S!Dead(cursor), scope, files))
    BY <2>4 DEF ScopeInv
  <2>7. /\ saved'.version = saved.version /\ saved'.scope = saved.scope
        /\ saved'.files = saved.files /\ saved'.cursor = S!Dead(saved.cursor)
    BY <2>2
  <2>8. PlanFits => PlanFits'
    BY <2>1, <2>3 DEF PlanFits, Fits
  <2>9. saved.version = 1 => S!Dead(saved.cursor) = NoCursor
    BY DEF ScopeInv, S!Dead
  <2>10. /\ MapFits(saved.scope, saved.files, saved.version = 1)'
         /\ Fits(saved.cursor, saved.scope, saved.files)'
    BY <2>1, <2>3, <2>5, <2>7 DEF ScopeInv, Fits, MapFits
  <2>11. phase # "idle" => MapFits(scope, files, legacy)' /\ Fits(cursor, scope, files)'
    BY <2>1, <2>3, <2>6 DEF ScopeInv, Fits, MapFits
  <2>12. QED
    BY <2>1, <2>2, <2>5, <2>6, <2>7, <2>8, <2>9, <2>10, <2>11 DEF ScopeInv
<1>5. QED
  BY <1>1, <1>2, <1>3, <1>4

LEMMA ScopeStep ==
  ASSUME ScopeInv, [ProgramsNext]_programVars
  PROVE  ScopeInv'
<1>1. CASE RunCursorScope
  <2>1. program = CURSOR_SCOPE /\ S!ScopeNext
    BY <1>1 DEF RunCursorScope
  <2>2. CASE S!Planning
    <3>1. CASE S!DeltaRefused \/ S!SnapshotRefused
      BY <2>1, <3>1, EndFits DEF S!DeltaRefused, S!SnapshotRefused, S!environment
    <3>2. QED
      BY <2>1, <2>2, <3>1, SetUp, DeltaFits, SnapshotFits DEF S!Planning
  <2>3. CASE S!Stop
    BY <2>1, <2>3, EndFits DEF S!Stop, S!environment
  <2>4. QED
    BY <2>1, <2>2, <2>3, WorkFits, OthersFit DEF S!ScopeNext
<1>2. CASE ~RunCursorScope /\ ProgramsNext
  BY <1>2 DEF ProgramsNext, ScopeInv, RunFullRefresh, RunSharingAcl, RunFileContents,
              NotFileContents, RunDestination, RunRepair, FULL_REFRESH, SHARING_ACL,
              FILE_CONTENTS, DESTINATION, REPAIR, CURSOR_SCOPE
<1>3. CASE UNCHANGED programVars
  BY <1>3 DEF programVars, ofCursorScope, ScopeInv, MapFits, Fits, PlanFits, Known
<1>4. QED
  BY <1>1, <1>2, <1>3

LEMMA ScopeBegins ==
  ProgramsInit => ScopeInv
<1> SUFFICES ASSUME ProgramsInit, program = CURSOR_SCOPE
             PROVE  ScopeInv
  BY DEF ScopeInv
<1>1. S!ScopeInit
  BY DEF ProgramsInit, FULL_REFRESH, SHARING_ACL, FILE_CONTENTS, DESTINATION, REPAIR, CURSOR_SCOPE
<1>2. existing \cap deleted = {} /\ config.scope \in Scopes /\ dest \subseteq Known
  BY <1>1 DEF S!ScopeInit, Known
<1>3. /\ saved = [version |-> saved.version, scope |-> saved.scope, files |-> saved.files,
                  cursor |-> saved.cursor]
      /\ saved.cursor = NoCursor
      /\ \/ saved.version = 0 /\ saved.scope = NoScope /\ saved.files = {}
         \/ saved.version = 1 /\ saved.scope = NoScope /\ saved.files = dest
         \/ saved.version = 2 /\ saved.scope \in Scopes /\ saved.files = dest
            /\ dest \subseteq Shows[saved.scope]
  <2>1. CASE saved = S!NoState
    BY <2>1 DEF S!NoState
  <2>2. CASE saved \in [version : {1}, scope : {NoScope}, files : {dest}, cursor : {NoCursor}]
    BY <2>2
  <2>3. CASE saved \in [version : {2}, scope : {s \in Scopes : dest \subseteq Shows[s]},
                        files : {dest}, cursor : {NoCursor}]
    BY <2>3
  <2>4. QED
    BY <1>1, <2>1, <2>2, <2>3 DEF S!ScopeInit
<1>4. /\ phase = "idle" /\ scope = NoScope /\ cursor = NoCursor /\ last = NoCursor
      /\ legacy = FALSE /\ NoCursor \in S!Cursors
  BY <1>1 DEF S!ScopeInit, S!Cursors
<1>5. NoScope \notin Scopes
  BY ProgramsAssumption DEF S!ScopeAssumption
<1>6. MapFits(saved.scope, saved.files, saved.version = 1)
  BY <1>2, <1>3, <1>5 DEF MapFits
<1>7. QED
  BY <1>2, <1>3, <1>4, <1>6 DEF ScopeInv, Fits

\* A cursor in the native source's state (cursor.py, get_state) that Dropbox has not reset is
\* one of the scope in that state, and every file it has told of and that still exists is in
\* that state's file map, whatever scopes and policies the operator went through.
THEOREM CursorsFit == Spec => []CursorFitsState
<1>1. ScopeInv => CursorFitsState
  BY DEF ScopeInv, Fits, CursorFitsState, S!CursorFitsState
<1>2. QED
  BY <1>1, ScopeBegins, ScopeStep, PTL DEF Spec

\* What plan_delta and plan_snapshot (cursor.py) have the destination delete is gone from
\* Dropbox: no change of the scope, and no state of an older version, deletes what is there.
THEOREM OnlyGoneFiles == Spec => DeletesWhatIsGone
<1>1. ASSUME ScopeInv, [ProgramsNext]_programVars, program = CURSOR_SCOPE
      PROVE  S!DeletesGone
  <2>1. CASE S!Working
    <3>1. ASSUME NEW f \in Files, S!DeleteFile(f)
          PROVE  S!DeletesGone
      BY <1>1, <3>1 DEF S!DeleteFile, S!DeletesGone, ScopeInv, PlanFits
    <3>2. ASSUME NEW f \in Files, S!TransferFile(f)
          PROVE  dest \subseteq dest'
      BY <3>2 DEF S!TransferFile
    <3>3. CASE S!Finish
      BY <3>3 DEF S!Finish, S!DeletesGone
    <3>4. QED
      BY <2>1, <3>1, <3>2, <3>3 DEF S!Working, S!DeletesGone
  <2>2. CASE dest' = dest
    BY <2>2 DEF S!DeletesGone
  <2>3. CASE S!ScopeNext /\ ~S!Working
    <3>1. dest' = dest
      BY <2>3 DEF S!ScopeNext, S!Planning, S!SetInitialState, S!PlanDelta, S!DeltaRefused,
                  S!PlanSnapshot, S!SnapshotRefused, S!Stop, S!Reconfigure, S!ResetCursor,
                  S!ResetState, S!ChangeFolder
    <3>2. QED
      BY <2>2, <3>1
  <2>4. CASE UNCHANGED programVars
    BY <2>2, <2>4 DEF programVars
  <2>5. QED
    BY <1>1, <2>1, <2>3, <2>4 DEF ProgramsNext, RunCursorScope, RunFullRefresh, RunSharingAcl,
       RunFileContents, RunDestination, RunRepair, FULL_REFRESH, SHARING_ACL, FILE_CONTENTS,
       DESTINATION, REPAIR, CURSOR_SCOPE
<1>2. ScopeInv /\ [ProgramsNext]_programVars
          => [program = CURSOR_SCOPE => S!DeletesGone]_programVars
  BY <1>1
<1>3. QED
  BY <1>2, ScopeBegins, ScopeStep, PTL DEF Spec, DeletesWhatIsGone

-----------------------------------------------------------------------------
(* What the destination has.                                               *)

\* What a map has and Dropbox too, the destination has; a plan's cursor is not reset.
CoverInv ==
    program = CURSOR_SCOPE =>
        /\ S!ScopeTypeOK
        /\ saved.files \cap existing \subseteq dest
        /\ phase # "idle" => files \cap existing \subseteq dest
        /\ phase = "work" => last # NoCursor /\ last.live

LEMMA StateFields ==
  ASSUME S!ScopeTypeOK
  PROVE  /\ saved.version \in 0 .. 3 /\ saved.scope \in Scopes \cup {NoScope}
         /\ saved.files \subseteq Files /\ saved.cursor \in S!Cursors
         /\ config.scope \in Scopes
BY DEF S!ScopeTypeOK

LEMMA EndCovers ==
  ASSUME program = CURSOR_SCOPE, CoverInv, S!EndSync,
         UNCHANGED <<program, existing, deleted, config, dest>>,
         saved'.files \cap existing \subseteq dest,
         saved' \in [version : 0 .. 3, scope : Scopes \cup {NoScope}, files : SUBSET Files,
                    cursor : S!Cursors],
         spent' \in 0 .. Budget
  PROVE  CoverInv'
<1>1. NoCursor \in S!Cursors
  BY DEF S!Cursors
<1>2. S!ScopeTypeOK'
  BY <1>1 DEF CoverInv, S!ScopeTypeOK, S!EndSync
<1>3. QED
  BY <1>2 DEF CoverInv, S!EndSync

LEMMA PlanningCovers ==
  ASSUME program = CURSOR_SCOPE, program' = program, ScopeInv, CoverInv, S!Planning
  PROVE  CoverInv'
<1> USE DEF S!environment, S!state, S!plan
<1>1. S!ScopeTypeOK
  BY DEF CoverInv
<1>2. CASE S!SetInitialState
  <2>1. /\ phase' = "plan" /\ scope' = saved.scope /\ files' = saved.files
        /\ legacy' = (saved.version = 1) /\ cursor' \in {saved.cursor, NoCursor}
        /\ UNCHANGED <<existing, deleted, config, saved, dest, operations, transfers, last,
                       sawError, spent>>
    BY <1>2 DEF S!SetInitialState
  <2>2. NoCursor \in S!Cursors
    BY DEF S!Cursors
  <2>3. S!ScopeTypeOK'
    BY <1>1, <2>1, <2>2, StateFields DEF S!ScopeTypeOK
  <2>4. QED
    BY <2>1, <2>3 DEF CoverInv
<1>3. CASE S!PlanDelta
  <2>1. scope \in Scopes /\ cursor.scope = scope
    BY <1>3 DEF ScopeInv, Fits, S!PlanDelta, S!HasCursor, S!DeltaInScope, S!CurrentScope
  <2>2. /\ operations' \subseteq files /\ transfers' \subseteq Shows[scope]
        /\ last' = S!CursorAt(scope) /\ phase' = "work" /\ phase = "plan"
        /\ UNCHANGED <<existing, deleted, config, saved, dest, scope, files, cursor, legacy,
                       sawError, spent>>
    BY <1>3, <2>1 DEF S!PlanDelta, S!Plan, S!Shown, S!DeltaInScope, S!CurrentScope
  <2>3. last' \in S!Cursors /\ last' # NoCursor /\ last'.live
    BY <2>1, <2>2, NewCursor DEF S!CursorAt
  <2>4. Shows[scope] \subseteq Files
    BY <2>1, ProgramsAssumption DEF S!ScopeAssumption
  <2>5. S!ScopeTypeOK'
    BY <1>1, <2>2, <2>3, <2>4 DEF S!ScopeTypeOK
  <2>6. QED
    BY <2>2, <2>3, <2>5 DEF CoverInv
<1>4. CASE S!PlanSnapshot
  <2>1. /\ files' \in {files, {}} /\ operations' \subseteq files'
        /\ transfers' \subseteq Shows[config.scope]
        /\ last' = S!CursorAt(config.scope) /\ phase' = "work" /\ phase = "plan"
        /\ scope' = config.scope /\ legacy' = FALSE
        /\ UNCHANGED <<existing, deleted, config, saved, dest, cursor, sawError, spent>>
    BY <1>4 DEF S!PlanSnapshot, S!SnapshotMaps, S!Plan, S!Shown, S!CurrentScope
  <2>2. config.scope \in Scopes
    BY <1>1, StateFields
  <2>3. last' \in S!Cursors /\ last' # NoCursor /\ last'.live
    BY <2>1, <2>2, NewCursor DEF S!CursorAt
  <2>4. Shows[config.scope] \subseteq Files
    BY <2>2, ProgramsAssumption DEF S!ScopeAssumption
  <2>5. S!ScopeTypeOK'
    BY <1>1, <2>1, <2>2, <2>3, <2>4 DEF S!ScopeTypeOK
  <2>6. QED
    BY <2>1, <2>3, <2>5 DEF CoverInv
<1>5. CASE S!DeltaRefused \/ S!SnapshotRefused
  <2>1. S!EndSync /\ UNCHANGED <<existing, deleted, config, saved, dest, spent>>
    BY <1>5 DEF S!DeltaRefused, S!SnapshotRefused
  <2>2. QED
    BY <1>1, <2>1, EndCovers DEF CoverInv, S!ScopeTypeOK
<1>6. QED
  BY <1>2, <1>3, <1>4, <1>5 DEF S!Planning

LEMMA WorkCovers ==
  ASSUME program = CURSOR_SCOPE, program' = program, ScopeInv, CoverInv, S!Working
  PROVE  CoverInv'
<1> USE DEF S!environment, S!state, S!plan
<1>1. S!ScopeTypeOK
  BY DEF CoverInv
<1>2. ASSUME NEW f \in Files, S!DeleteFile(f)
      PROVE  CoverInv'
  <2>1. f \notin existing
    BY <1>2 DEF S!DeleteFile, ScopeInv, PlanFits
  <2>2. /\ operations' = operations \ {f} /\ files' = files \ {f} /\ dest' = dest \ {f}
        /\ UNCHANGED <<existing, deleted, config, saved, phase, scope, cursor, legacy, transfers,
                       last, sawError, spent>>
    BY <1>2 DEF S!DeleteFile
  <2>3. S!ScopeTypeOK'
    BY <1>1, <2>2 DEF S!ScopeTypeOK
  <2>4. QED
    BY <2>1, <2>2, <2>3 DEF CoverInv
<1>3. ASSUME NEW f \in Files, S!TransferFile(f)
      PROVE  CoverInv'
  <2>1. /\ transfers' = transfers \ {f}
        /\ \/ files' = files \cup {f} /\ dest' = dest \cup {f} /\ UNCHANGED <<sawError, spent>>
           \/ files' = files /\ dest' = dest /\ sawError' = TRUE /\ (S!Disturb \/ UNCHANGED spent)
        /\ UNCHANGED <<existing, deleted, config, saved, phase, scope, cursor, legacy, operations,
                       last>>
    BY <1>3 DEF S!TransferFile
  <2>2. spent' \in 0 .. Budget
    BY <1>1, <2>1, ProgramsAssumption DEF S!Disturb, S!ScopeTypeOK, S!ScopeAssumption
  <2>3. S!ScopeTypeOK'
    BY <1>1, <2>1, <2>2 DEF S!ScopeTypeOK
  <2>4. QED
    BY <2>1, <2>3 DEF CoverInv
<1>4. CASE S!Finish
  <2>1. /\ saved' = [version |-> 3, scope |-> scope, files |-> files, cursor |-> S!NextCursor]
        /\ S!EndSync /\ UNCHANGED <<existing, deleted, config, dest, spent>> /\ phase = "work"
    BY <1>4 DEF S!Finish
  <2>2. S!NextCursor \in S!Cursors
    BY <1>1 DEF S!NextCursor, S!ScopeTypeOK
  <2>3. saved' \in [version : 0 .. 3, scope : Scopes \cup {NoScope}, files : SUBSET Files,
                    cursor : S!Cursors]
    BY <1>1, <2>1, <2>2 DEF S!ScopeTypeOK
  <2>4. saved'.files \cap existing \subseteq dest
    BY <2>1 DEF CoverInv
  <2>5. QED
    BY <1>1, <2>1, <2>3, <2>4, EndCovers DEF S!ScopeTypeOK
<1>5. QED
  BY <1>2, <1>3, <1>4 DEF S!Working

LEMMA OthersCover ==
  ASSUME program = CURSOR_SCOPE, program' = program, ScopeInv, CoverInv,
         \/ S!Stop \/ S!Reconfigure \/ S!ResetCursor \/ S!ResetState
         \/ \E f \in Files : S!ChangeFolder(f)
  PROVE  CoverInv'
<1> USE DEF S!environment, S!state, S!plan
<1>1. S!ScopeTypeOK
  BY DEF CoverInv
<1>2. ASSUME S!Disturb PROVE spent' \in 0 .. Budget
  BY <1>1, <1>2, ProgramsAssumption DEF S!Disturb, S!ScopeTypeOK, S!ScopeAssumption
<1>3. CASE S!Stop
  BY <1>1, <1>2, <1>3, EndCovers DEF S!Stop, CoverInv, S!ScopeTypeOK
<1>4. CASE S!Reconfigure
  <2>1. S!ScopeTypeOK'
    BY <1>1, <1>2, <1>4 DEF S!Reconfigure, S!ScopeTypeOK
  <2>2. QED
    BY <1>4, <2>1 DEF S!Reconfigure, CoverInv
<1>5. CASE S!ResetState
  <2>1. S!NoState \in [version : 0 .. 3, scope : Scopes \cup {NoScope}, files : SUBSET Files,
                       cursor : S!Cursors] /\ S!NoState.files = {}
    BY DEF S!NoState, S!Cursors
  <2>2. S!ScopeTypeOK'
    BY <1>1, <1>2, <1>5, <2>1 DEF S!ResetState, S!ScopeTypeOK
  <2>3. QED
    BY <1>5, <2>1, <2>2 DEF S!ResetState, CoverInv
<1>6. ASSUME NEW f \in Files, S!ChangeFolder(f)
      PROVE  CoverInv'
  <2>1. /\ f \notin deleted
        /\ \/ f \in existing /\ existing' = existing \ {f} /\ deleted' = deleted \cup {f}
           \/ f \notin existing /\ existing' = existing \cup {f} /\ deleted' = deleted
        /\ UNCHANGED <<config, saved, dest, phase, scope, files, cursor, legacy, operations,
                       transfers, last, sawError>>
    BY <1>6 DEF S!ChangeFolder
  <2>2. S!ScopeTypeOK'
    BY <1>1, <1>2, <1>6, <2>1 DEF S!ChangeFolder, S!ScopeTypeOK
  <2>3. saved.files \subseteq Known /\ (phase # "idle" => files \subseteq Known)
    BY DEF ScopeInv, MapFits
  <2>4. \A g \in Known : g \in existing' => g \in existing
    BY <2>1 DEF Known
  <2>5. QED
    BY <2>1, <2>2, <2>3, <2>4 DEF CoverInv
<1>7. CASE S!ResetCursor
  <2>1. /\ saved' = [saved EXCEPT !.cursor = S!Dead(saved.cursor)] /\ cursor' = S!Dead(cursor)
        /\ UNCHANGED <<existing, deleted, config, dest, phase, scope, files, legacy, operations,
                       transfers, last, sawError>>
    BY <1>7 DEF S!ResetCursor
  <2>2. ASSUME NEW c \in S!Cursors PROVE S!Dead(c) \in S!Cursors
    BY <2>2 DEF S!Dead, S!Cursors
  <2>3. saved' = [version |-> saved.version, scope |-> saved.scope, files |-> saved.files,
                  cursor |-> S!Dead(saved.cursor)]
    <3>1. saved = [version |-> saved.version, scope |-> saved.scope, files |-> saved.files,
                   cursor |-> saved.cursor]
      BY DEF ScopeInv
    <3>2. QED
      BY <2>1, <3>1, Zenon
  <2>4. S!Dead(saved.cursor) \in S!Cursors /\ S!Dead(cursor) \in S!Cursors
    BY <1>1, <2>2, StateFields DEF S!ScopeTypeOK
  <2>5. saved' \in [version : 0 .. 3, scope : Scopes \cup {NoScope}, files : SUBSET Files,
                    cursor : S!Cursors]
    BY <1>1, <2>3, <2>4, StateFields
  <2>6. spent' \in 0 .. Budget
    BY <1>2, <1>7 DEF S!ResetCursor
  <2>7. S!ScopeTypeOK'
    BY <1>1, <2>1, <2>4, <2>5, <2>6 DEF S!ScopeTypeOK
  <2>8. saved'.files = saved.files
    BY <2>3
  <2>9. QED
    BY <2>1, <2>7, <2>8 DEF CoverInv
<1>8. QED
  BY <1>3, <1>4, <1>5, <1>6, <1>7

LEMMA CoverStep ==
  ASSUME ScopeInv, CoverInv, [ProgramsNext]_programVars
  PROVE  CoverInv'
<1>1. CASE RunCursorScope
  BY <1>1, PlanningCovers, WorkCovers, OthersCover DEF RunCursorScope, S!ScopeNext
<1>2. CASE ~RunCursorScope /\ ProgramsNext
  BY <1>2 DEF ProgramsNext, CoverInv, RunFullRefresh, RunSharingAcl, RunFileContents,
              NotFileContents, RunDestination, RunRepair, FULL_REFRESH, SHARING_ACL,
              FILE_CONTENTS, DESTINATION, REPAIR, CURSOR_SCOPE
<1>3. CASE UNCHANGED programVars
  <2>1. UNCHANGED <<program, existing, deleted, config, saved, dest, phase, scope, files, cursor,
                    legacy, operations, transfers, last, sawError, spent>>
    BY <1>3 DEF programVars, ofCursorScope
  <2>2. S!ScopeTypeOK => S!ScopeTypeOK'
    BY <2>1 DEF S!ScopeTypeOK
  <2>3. QED
    BY <2>1, <2>2 DEF CoverInv
<1>4. QED
  BY <1>1, <1>2, <1>3

LEMMA CoverBegins == ProgramsInit => CoverInv
<1>1. SUFFICES ASSUME ProgramsInit, program = CURSOR_SCOPE PROVE CoverInv
  BY DEF CoverInv
<1>2. S!ScopeInit
  BY <1>1 DEF ProgramsInit, FULL_REFRESH, SHARING_ACL, FILE_CONTENTS, DESTINATION, REPAIR,
              CURSOR_SCOPE
<1>3. NoCursor \in S!Cursors
  BY DEF S!Cursors
<1>4. /\ saved \in [version : 0 .. 3, scope : Scopes \cup {NoScope}, files : SUBSET Files,
                    cursor : S!Cursors]
      /\ saved.files \subseteq dest
  <2>1. dest \subseteq Files
    BY <1>2 DEF S!ScopeInit
  <2>2. CASE saved = S!NoState
    BY <1>3, <2>2 DEF S!NoState
  <2>3. CASE saved \in [version : {1}, scope : {NoScope}, files : {dest}, cursor : {NoCursor}]
    BY <1>3, <2>1, <2>3
  <2>4. CASE saved \in [version : {2}, scope : {s \in Scopes : dest \subseteq Shows[s]},
                        files : {dest}, cursor : {NoCursor}]
    BY <1>3, <2>1, <2>4
  <2>5. QED
    BY <1>2, <2>2, <2>3, <2>4 DEF S!ScopeInit
<1>5. spent \in 0 .. Budget
  BY <1>2, ProgramsAssumption DEF S!ScopeInit, S!ScopeAssumption
<1>6. S!ScopeTypeOK
  BY <1>2, <1>3, <1>4, <1>5 DEF S!ScopeInit, S!ScopeTypeOK
<1>7. QED
  BY <1>2, <1>4, <1>6 DEF CoverInv, S!ScopeInit

\* When a sync of the native source has done its work and no file was skipped, the destination
\* has what its scope showed when it was listed and still exists: also when the state was of
\* another scope, of none, or of an older version.
LEMMA ScopeIsMet ==
  ASSUME ScopeInv, CoverInv, program = CURSOR_SCOPE
  PROVE  S!ScopeIsCovered
<1>1. ASSUME phase = "work", transfers = {}, ~sawError
      PROVE  last.told \cap existing \subseteq dest
  <2>1. last # NoCursor /\ last.live /\ files \cap existing \subseteq dest
    BY <1>1 DEF CoverInv
  <2>2. last.told \cap existing \subseteq files
    BY <1>1, <2>1 DEF ScopeInv, PlanFits, Fits
  <2>3. QED
    BY <2>1, <2>2
<1>2. QED
  BY <1>1 DEF S!ScopeIsCovered

-----------------------------------------------------------------------------
(* The base64 destination.                                                 *)

\* Every record before the message at hand is committed: what StateCoversUploads says
\* once the message at hand is a STATE and is passed on.
CoveredTo(n) == \A i \in 1 .. n : input[i] \in RecordPaths => i \in written

DestinationInv ==
    program = DESTINATION =>
        /\ saved \in Nat /\ at \in Nat
        /\ CoveredTo(saved)
        /\ CoveredTo(at - 1)

LEMMA CoverGrows ==
  ASSUME program = DESTINATION, DestinationInv, R!RecordNext
  PROVE  DestinationInv'
<1> USE DEF DestinationInv, CoveredTo, R!source
<1>1. CASE R!WriteStart
  BY <1>1 DEF R!WriteStart
<1>2. CASE R!EmitState
  BY <1>2, ProgramsAssumption DEF R!EmitState, R!Path, R!RecordAssumption
<1>3. CASE \/ R!TakeRecord \/ R!InputEnds \/ R!FolderRefused \/ R!FoldersEnsured
           \/ R!RefuseRecord \/ R!UploadConflict \/ R!FinishConflict \/ R!RecoverOffset
           \/ R!SessionUnusable \/ R!Stop
  BY <1>3 DEF R!TakeRecord, R!InputEnds, R!FolderRefused, R!FoldersEnsured, R!RefuseRecord,
              R!UploadConflict, R!FinishConflict, R!RecoverOffset, R!SessionUnusable, R!Stop
<1>4. CASE R!Transient \/ R!CreateFolder \/ R!StartSession \/ R!AppendSession
  BY <1>4 DEF R!Transient, R!CreateFolder, R!StartSession, R!AppendSession, R!Unanswered,
              R!GiveUp
<1>5. CASE R!UploadSmall \/ R!FinishSession
  <2>1. written' = written \cup {at} /\ UNCHANGED <<input, saved>>
    BY <1>5 DEF R!UploadSmall, R!FinishSession
  <2>2. at' \in {at, at + 1}
    BY <1>5 DEF R!UploadSmall, R!FinishSession, R!Uploaded, R!Unanswered, R!GiveUp
  <2>3. QED
    BY <2>1, <2>2
<1>6. CASE \E x \in RecordPaths \cup ParentFolders : R!ForeignRemove(x) \/ R!ForeignWrite(x)
  BY <1>6 DEF R!ForeignRemove, R!ForeignWrite
<1>7. QED
  BY <1>1, <1>2, <1>3, <1>4, <1>5, <1>6 DEF R!RecordNext, R!Writer

LEMMA DestinationStep ==
  ASSUME DestinationInv, [ProgramsNext]_programVars
  PROVE  DestinationInv'
<1>1. CASE RunDestination
  BY <1>1, CoverGrows DEF RunDestination
<1>2. CASE ~RunDestination /\ ProgramsNext
  BY <1>2 DEF ProgramsNext, DestinationInv, RunFullRefresh, RunSharingAcl, RunFileContents,
              NotFileContents, RunRepair, RunCursorScope, FULL_REFRESH, SHARING_ACL,
              FILE_CONTENTS, DESTINATION, REPAIR, CURSOR_SCOPE
<1>3. CASE UNCHANGED programVars
  BY <1>3 DEF programVars, ofDestination, DestinationInv, CoveredTo
<1>4. QED
  BY <1>1, <1>2, <1>3

LEMMA DestinationBegins ==
  ProgramsInit => DestinationInv
<1> SUFFICES ASSUME ProgramsInit, program = DESTINATION
             PROVE  saved \in Nat /\ at \in Nat /\ CoveredTo(saved) /\ CoveredTo(at - 1)
  BY DEF DestinationInv
<1>1. R!RecordInit
  BY DEF ProgramsInit, FULL_REFRESH, SHARING_ACL, FILE_CONTENTS, DESTINATION, REPAIR, CURSOR_SCOPE
<1>2. QED
  BY <1>1 DEF R!RecordInit, CoveredTo

\* The base64 destination passes a STATE on (destination.py, write) only when every record
\* before it has been committed, for any paths, folders, sizes, lengths of the input and
\* limits of retries, and however often it is stopped and its records replayed.
THEOREM StatesCovered == Spec => []StateCoversUploads
<1>1. DestinationInv => StateCoversUploads
  BY DEF DestinationInv, CoveredTo, StateCoversUploads, R!StateCoversUploads
<1>2. QED
  BY <1>1, DestinationBegins, DestinationStep, PTL DEF Spec

-----------------------------------------------------------------------------
(* The base64 destination's records: the invariant.                        *)

\* What a phase works on; an error is only kept until the next write starts, and every
\* attempt in vain is a disturbance.
PhasesFit ==
    /\ saved < at
    /\ phase \in {"folders", "upload", "session"} => at <= Length /\ R!Path \in RecordPaths
    /\ phase \notin {"folders", "upload", "session"} => attempt = 0
    /\ phase = "done" => at > Length
    /\ phase # "idle" => ended = "none"
    /\ attempt <= spent

\* The files there are whole and of committed records; the file of a path nobody touched is
\* of no earlier record than those before the message at hand, however often replayed.
ItemsFit ==
    /\ \A x \in DOMAIN items : items[x] = R!Foreign => x \in touched
    /\ \A p \in RecordPaths :
           items[p].kind = "file" => items[p].parts = R!Whole(p) /\ items[p].record \in written
    /\ \A i \in written :
           input[i] \in RecordPaths \ touched =>
               /\ items[input[i]].kind = "file"
               /\ i < at => i <= items[input[i]].record

\* An open session has what the client sent, and at most one part more, whose answer was
\* lost; one that is closed but begun was committed.
SessionFits ==
    /\ phase = "session" =>
          /\ Parts[R!Path] > 1 /\ offset < Parts[R!Path]
          /\ session = R!Send(0, Len(session)) /\ Len(session) < Parts[R!Path]
          /\ open => 0 < offset /\ offset <= Len(session)
          /\ ~open => session = <<>> /\ (offset > 0 => at \in written)
          /\ recoveries <= lost
          /\ open /\ Len(session) # offset => recoveries < lost
    /\ phase # "session" => session = <<>> /\ ~open /\ offset = 0 /\ recoveries = 0

RecordInv ==
    program = DESTINATION =>
        R!RecordTypeOK /\ PhasesFit /\ ItemsFit /\ SessionFits /\ R!RaisesForCause

\* Dropbox puts one item somewhere: above it there are folders then, the rest stays.
LEMMA ItemPut ==
  ASSUME R!RecordTypeOK, NEW x \in RecordPaths \cup ParentFolders, NEW item, R!Put(x, item)
  PROVE  /\ DOMAIN items' = RecordPaths \cup ParentFolders
         /\ items'[x] = item
         /\ \A y \in RecordPaths \cup ParentFolders :
               y # x => \/ items'[y] = items[y]
                        \/ y \in R!Above(x) /\ y \in ParentFolders /\ items'[y] = R!Folder
         /\ \A p \in RecordPaths : p # x => items'[p] = items[p]
<1>1. R!Above(x) \subseteq ParentFolders /\ RecordPaths \cap ParentFolders = {}
  BY ProgramsAssumption DEF R!Above, R!RecordAssumption
<1>2. DOMAIN items = RecordPaths \cup ParentFolders
  BY DEF R!RecordTypeOK
<1>3. items' = [y \in DOMAIN items |->
                   IF y = x THEN item ELSE IF y \in R!Above(x) THEN R!Folder ELSE items[y]]
  BY DEF R!Put
<1>4. QED
  BY <1>1, <1>2, <1>3

\* The folder to be created next is one.
LEMMA NextFolderIsFolder ==
  ASSUME R!Path \in RecordPaths, R!Missing # {}
  PROVE  R!NextFolder \in ParentFolders
<1>1. FoldersTo[R!Path] \in Seq(ParentFolders)
  BY ProgramsAssumption DEF R!RecordAssumption
<1>2. R!Missing \subseteq Nat /\ R!Missing \subseteq DOMAIN FoldersTo[R!Path]
  BY <1>1 DEF R!Missing
<1>3. \E i \in R!Missing : \A j \in R!Missing : i <= j
  BY <1>2, LeastExists
<1> DEFINE k == CHOOSE i \in R!Missing : \A j \in R!Missing : i <= j
<1>4. k \in R!Missing
  BY <1>3
<1> HIDE DEF k
<1>5. \A s \in Seq(ParentFolders) : \A j \in DOMAIN s : s[j] \in ParentFolders
  OBVIOUS
<1>6. FoldersTo[R!Path][k] \in ParentFolders
  BY <1>1, <1>2, <1>4, <1>5
<1>7. QED
  BY <1>6 DEF R!NextFolder, k

\* A part of the content, and the parts that follow it.
LEMMA PartsSent ==
  ASSUME R!Path \in RecordPaths
  PROVE  /\ Parts[R!Path] \in Nat /\ Parts[R!Path] > 0
         /\ R!Send(0, Parts[R!Path]) = R!Whole(R!Path)
         /\ R!Send(0, 0) = <<>>
         /\ \A n \in 0 .. Parts[R!Path] : R!Send(0, n) \in Seq(Nat) /\ Len(R!Send(0, n)) = n
         /\ \A n \in 0 .. Parts[R!Path], k \in 0 .. Parts[R!Path] :
               n <= k => R!Send(0, n) \o R!Send(n, k) = R!Send(0, k)
<1> DEFINE w == R!Whole(R!Path)  n == Parts[R!Path]
<1>1. n \in Nat /\ n > 0
  BY ProgramsAssumption DEF R!RecordAssumption
<1>2. w \in Seq(Nat) /\ Len(w) = n /\ \A i \in 1 .. n : w[i] = i
  BY <1>1 DEF R!Whole
<1> HIDE DEF w
<1>3. \A a, b : R!Send(a, b) = SubSeq(w, a + 1, b)
  BY DEF R!Send, w
<1>4. SubSeq(w, 1, n) = w
  BY <1>2, SubSeqFull
<1>5. SubSeq(w, 1, 0) = <<>>
  BY SubSeqEmpty
<1>6. ASSUME NEW k \in 0 .. n
      PROVE  SubSeq(w, 1, k) \in Seq(Nat) /\ Len(SubSeq(w, 1, k)) = k
  <2>1. \A i \in 1 .. k : w[i] \in Nat
    BY <1>1, <1>2
  <2>2. QED
    BY <1>1, <2>1, SubSeqProperties, k \in Int, 1 \in Int
<1>7. ASSUME NEW j \in 0 .. n, NEW k \in 0 .. n, j <= k
      PROVE  SubSeq(w, 1, j) \o SubSeq(w, j + 1, k) = SubSeq(w, 1, k)
  <2>1. 1 \in 1 .. Len(w) + 1 /\ j \in 1 - 1 .. Len(w) /\ k \in j .. Len(w)
    BY <1>1, <1>2, <1>7
  <2>2. QED
    BY <1>2, <2>1, ConcatAdjacentSubSeq
<1>8. 0 + 1 = 1
  OBVIOUS
<1>9. QED
  BY <1>1, <1>3, <1>4, <1>5, <1>6, <1>7, <1>8 DEF w

\* The steps that put something into Dropbox, and those that leave it as it is.
LEMMA ItemsMove ==
  ASSUME R!RecordTypeOK, PhasesFit, SessionFits, R!RecordNext
  PROVE  /\ input' = input /\ policy' = policy
         /\ \/ R!CreateFolder /\ R!NextFolder \in ParentFolders /\ R!Put(R!NextFolder, R!Folder)
               /\ UNCHANGED <<written, touched>>
            \/ /\ R!UploadSmall \/ R!FinishSession
               /\ R!MayCommit /\ at \in 1 .. Length /\ R!Path \in RecordPaths
               /\ R!Put(R!Path, R!File(at, R!Whole(R!Path)))
               /\ written' = written \cup {at} /\ UNCHANGED touched
            \/ \E x \in RecordPaths \cup ParentFolders :
                  \/ R!ForeignRemove(x) /\ UNCHANGED <<phase, saved, at, written>>
                  \/ /\ R!ForeignWrite(x) /\ R!Put(x, R!Foreign)
                     /\ touched' = touched \cup {x} /\ UNCHANGED <<phase, saved, at, written>>
            \/ /\ ~R!UploadSmall /\ ~R!FinishSession
               /\ UNCHANGED <<items, written, touched>>
<1> USE DEF R!source, R!past
<1>1. CASE R!CreateFolder
  BY <1>1, NextFolderIsFolder DEF R!CreateFolder, PhasesFit
<1>2. CASE R!UploadSmall
  <2>1. R!Path \in RecordPaths /\ at \in 1 .. Length
    BY <1>2 DEF R!UploadSmall, PhasesFit, R!RecordTypeOK
  <2>2. QED
    BY <1>2, <2>1 DEF R!UploadSmall
<1>3. CASE R!FinishSession
  <2>1. R!Path \in RecordPaths /\ at \in 1 .. Length /\ phase = "session" /\ open
        /\ Len(session) = offset
    BY <1>3 DEF R!FinishSession, PhasesFit, R!RecordTypeOK, R!InPlace
  <2>2. session = R!Send(0, offset) /\ offset \in 0 .. Parts[R!Path]
    BY <2>1, PartsSent DEF SessionFits, R!RecordTypeOK
  <2>3. session \o R!Send(offset, Parts[R!Path]) = R!Whole(R!Path)
    <3>1. Parts[R!Path] \in 0 .. Parts[R!Path] /\ offset <= Parts[R!Path]
      BY <2>1, <2>2, PartsSent
    <3>2. R!Send(0, offset) \o R!Send(offset, Parts[R!Path]) = R!Send(0, Parts[R!Path])
      BY <2>1, <2>2, <3>1, PartsSent
    <3>3. QED
      BY <2>1, <2>2, <3>2, PartsSent
  <2>4. QED
    BY <1>3, <2>1, <2>3 DEF R!FinishSession
<1>4. CASE \E x \in RecordPaths \cup ParentFolders : R!ForeignRemove(x) \/ R!ForeignWrite(x)
  BY <1>4 DEF R!ForeignRemove, R!ForeignWrite
<1>5. CASE /\ ~R!UploadSmall /\ ~R!FinishSession
           /\ \/ R!EmitState \/ R!TakeRecord \/ R!InputEnds \/ R!RefuseRecord \/ R!FolderRefused
              \/ R!FoldersEnsured \/ R!UploadConflict \/ R!StartSession \/ R!AppendSession
              \/ R!FinishConflict \/ R!RecoverOffset \/ R!SessionUnusable \/ R!WriteStart
              \/ R!Transient \/ R!Stop
  BY <1>5 DEF R!EmitState, R!TakeRecord, R!InputEnds, R!RefuseRecord, R!FolderRefused,
              R!FoldersEnsured, R!UploadConflict, R!StartSession, R!AppendSession,
              R!FinishConflict, R!RecoverOffset, R!SessionUnusable, R!WriteStart, R!Transient,
              R!Stop
<1>6. QED
  BY <1>1, <1>2, <1>3, <1>4, <1>5 DEF R!RecordNext, R!Writer

\* What others do to an item is noted, and is done below it too.
LEMMA OthersMove ==
  ASSUME R!RecordTypeOK, NEW x \in RecordPaths \cup ParentFolders,
         R!ForeignRemove(x) \/ (R!ForeignWrite(x) /\ R!Put(x, R!Foreign))
  PROVE  /\ DOMAIN items' = RecordPaths \cup ParentFolders
         /\ touched \subseteq touched' /\ touched' \subseteq DOMAIN items'
         /\ \A y \in RecordPaths \cup ParentFolders :
               \/ items'[y] = items[y]
               \/ y \in touched' /\ items'[y] \in {R!None, R!Foreign}
               \/ y \in ParentFolders /\ items'[y] = R!Folder
<1>1. DOMAIN items = RecordPaths \cup ParentFolders /\ touched \subseteq DOMAIN items
  BY DEF R!RecordTypeOK
<1>2. CASE R!ForeignRemove(x)
  <2>1. R!Below(x) \subseteq RecordPaths \cup ParentFolders
    BY DEF R!Below
  <2>2. /\ items' = [y \in DOMAIN items |->
                        IF y \in {x} \cup R!Below(x) THEN R!None ELSE items[y]]
        /\ touched' = touched \cup {x} \cup R!Below(x)
    BY <1>2 DEF R!ForeignRemove
  <2>3. QED
    BY <1>1, <2>1, <2>2
<1>3. CASE R!ForeignWrite(x) /\ R!Put(x, R!Foreign)
  <2>1. touched' = touched \cup {x}
    BY <1>3 DEF R!ForeignWrite
  <2>2. QED
    BY <1>1, <1>3, <2>1, ItemPut
<1>4. QED
  BY <1>2, <1>3

LEMMA ItemsTypeKept ==
  ASSUME R!RecordTypeOK, PhasesFit, SessionFits, R!RecordNext
  PROVE  /\ input' \in [1 .. Length -> R!Messages] /\ policy' \in R!Policies
         /\ DOMAIN items' = RecordPaths \cup ParentFolders
         /\ \A x \in ParentFolders : items'[x] \in {R!None, R!Folder, R!Foreign}
         /\ \A p \in RecordPaths : \/ items'[p] \in {R!None, R!Foreign}
                                   \/ items'[p].kind = "file" /\ input'[items'[p].record] = p
         /\ written' \subseteq 1 .. Length /\ touched' \subseteq DOMAIN items'
<1>1. RecordPaths \cap ParentFolders = {}
  BY ProgramsAssumption DEF R!RecordAssumption
<1>2. input' = input /\ policy' = policy
  BY ItemsMove
<1>3. /\ DOMAIN items = RecordPaths \cup ParentFolders
      /\ \A x \in ParentFolders : items[x] \in {R!None, R!Folder, R!Foreign}
      /\ \A p \in RecordPaths : \/ items[p] \in {R!None, R!Foreign}
                                \/ items[p].kind = "file" /\ input[items[p].record] = p
      /\ written \subseteq 1 .. Length /\ touched \subseteq DOMAIN items
      /\ input \in [1 .. Length -> R!Messages] /\ policy \in R!Policies
  BY DEF R!RecordTypeOK
<1>4. CASE /\ R!NextFolder \in ParentFolders /\ R!Put(R!NextFolder, R!Folder)
           /\ UNCHANGED <<written, touched>>
  <2>1. R!NextFolder \in RecordPaths \cup ParentFolders
    BY <1>4
  <2>2. /\ DOMAIN items' = RecordPaths \cup ParentFolders
        /\ \A y \in ParentFolders : items'[y] \in {items[y], R!Folder}
        /\ \A p \in RecordPaths : items'[p] = items[p]
    BY <1>1, <1>4, <2>1, ItemPut
  <2>3. QED
    BY <1>2, <1>3, <1>4, <2>2
<1>5. CASE /\ at \in 1 .. Length /\ R!Path \in RecordPaths
           /\ R!Put(R!Path, R!File(at, R!Whole(R!Path)))
           /\ written' = written \cup {at} /\ UNCHANGED touched
  <2> DEFINE f == R!File(at, R!Whole(R!Path))
  <2>1. f.kind = "file" /\ input[f.record] = R!Path
    BY DEF R!File, R!Path
  <2> HIDE DEF f
  <2>2. R!Put(R!Path, f)
    BY <1>5 DEF f
  <2>3. /\ DOMAIN items' = RecordPaths \cup ParentFolders
        /\ items'[R!Path] = f
        /\ \A y \in ParentFolders : items'[y] \in {items[y], R!Folder}
        /\ \A p \in RecordPaths : p # R!Path => items'[p] = items[p]
    BY <1>1, <1>5, <2>2, ItemPut
  <2>4. QED
    BY <1>2, <1>3, <1>5, <2>1, <2>3
<1>6. ASSUME NEW x \in RecordPaths \cup ParentFolders,
             R!ForeignRemove(x) \/ (R!ForeignWrite(x) /\ R!Put(x, R!Foreign)), written' = written
      PROVE  /\ DOMAIN items' = RecordPaths \cup ParentFolders
             /\ \A y \in ParentFolders : items'[y] \in {R!None, R!Folder, R!Foreign}
             /\ \A p \in RecordPaths : \/ items'[p] \in {R!None, R!Foreign}
                                       \/ items'[p].kind = "file" /\ input'[items'[p].record] = p
             /\ written' \subseteq 1 .. Length /\ touched' \subseteq DOMAIN items'
  BY <1>1, <1>2, <1>3, <1>6, OthersMove
<1>7. CASE UNCHANGED <<items, written, touched>>
  BY <1>2, <1>3, <1>7
<1>8. QED
  BY <1>2, <1>3, <1>4, <1>5, <1>6, <1>7, ItemsMove

\* What there is of the write besides Dropbox's items has its type.
WriteTypeOK ==
    /\ saved \in 0 .. Length /\ at \in 1 .. (Length + 1)
    /\ phase \in {"idle", "next", "folders", "upload", "session", "done"}
    /\ open \in BOOLEAN /\ ensured \subseteq ParentFolders
    /\ attempt \in 0 .. MaxRequestRetries /\ recoveries \in 0 .. MaxOffsetRecoveries
    /\ offset \in Nat /\ session \in Seq(Nat) /\ Len(session) <= offset + 1
    /\ ended \in {"none", "invalid", "folder", "conflict", "exhausted", "unusable", "stopped"}
    /\ lost \in Nat /\ spent \in 0 .. Budget

WriteFits == WriteTypeOK /\ PhasesFit /\ SessionFits

LEMMA LimitsAreNumbers ==
  /\ Length \in Nat /\ MaxRequestRetries \in Nat /\ MaxOffsetRecoveries \in Nat /\ Budget \in Nat
  /\ RecordPaths \cap {"state", "invalid"} = {}
BY ProgramsAssumption DEF R!RecordAssumption

\* An error leaves nothing behind but its cause.
LEMMA RaiseFits ==
  ASSUME WriteFits, NEW why \in {"invalid", "folder", "conflict", "exhausted", "unusable", "stopped"},
         R!Raise(why), UNCHANGED <<saved, at, lost>>, spent' \in {spent, spent + 1}, spent' <= Budget
  PROVE  WriteFits'
<1>1. WriteTypeOK'
  <2>1. session' \in Seq(Nat) /\ Len(session') <= offset' + 1 /\ offset' \in Nat
    BY DEF R!Raise
  <2>2. open' \in BOOLEAN
    BY DEF R!Raise
  <2>3. attempt' \in 0 .. MaxRequestRetries /\ recoveries' \in 0 .. MaxOffsetRecoveries
        /\ spent' \in 0 .. Budget
    BY LimitsAreNumbers DEF WriteFits, WriteTypeOK, R!Raise
  <2>4. QED
    BY <2>1, <2>2, <2>3 DEF WriteFits, WriteTypeOK, R!Raise
<1>2. PhasesFit' /\ SessionFits'
  BY LimitsAreNumbers DEF WriteFits, WriteTypeOK, PhasesFit, SessionFits, R!Raise
<1>3. QED
  BY <1>1, <1>2 DEF WriteFits

\* Neither does a record that is uploaded.
LEMMA UploadedFits ==
  ASSUME WriteFits, phase \in {"upload", "session"}, R!Uploaded, UNCHANGED <<saved, lost>>
  PROVE  WriteFits'
<1>1. at <= Length
  BY DEF WriteFits, PhasesFit
<1>2. WriteTypeOK'
  <2>1. session' \in Seq(Nat) /\ Len(session') <= offset' + 1 /\ offset' \in Nat
    BY DEF R!Uploaded
  <2>2. open' \in BOOLEAN
    BY DEF R!Uploaded
  <2>3. attempt' \in 0 .. MaxRequestRetries /\ recoveries' \in 0 .. MaxOffsetRecoveries
        /\ at' \in 1 .. (Length + 1)
    BY <1>1, LimitsAreNumbers DEF WriteFits, WriteTypeOK, R!Uploaded
  <2>4. QED
    BY <2>1, <2>2, <2>3 DEF WriteFits, WriteTypeOK, R!Uploaded
<1>3. PhasesFit' /\ SessionFits'
  BY <1>1, LimitsAreNumbers DEF WriteFits, WriteTypeOK, PhasesFit, SessionFits, R!Uploaded
<1>4. QED
  BY <1>2, <1>3 DEF WriteFits

\* The session may stay while the client is at the same record.
LEMMA SessionStays ==
  ASSUME SessionFits, UNCHANGED <<input, at, phase, session, open, offset, recoveries, lost>>,
         written \subseteq written'
  PROVE  SessionFits'
BY DEF SessionFits, R!Send, R!Whole, R!Path

\* An answer in vain: one attempt more, or the write ends.
LEMMA UnansweredFits ==
  ASSUME WriteFits, phase \in {"folders", "upload", "session"}, R!Disturb, R!Unanswered,
         UNCHANGED <<input, saved, lost>>, written \subseteq written'
  PROVE  WriteFits'
<1>1. spent' = spent + 1 /\ spent' <= Budget
  BY LimitsAreNumbers DEF R!Disturb, WriteFits, WriteTypeOK
<1>2. CASE attempt = MaxRequestRetries
  BY <1>1, <1>2, RaiseFits DEF R!Unanswered, R!GiveUp
<1>3. CASE attempt # MaxRequestRetries
  <2>1. /\ attempt' = attempt + 1
        /\ UNCHANGED <<phase, at, session, open, offset, recoveries, ended, ensured>>
    BY <1>3 DEF R!Unanswered, R!server
  <2>2. WriteTypeOK'
    BY <1>1, <1>3, <2>1, LimitsAreNumbers DEF WriteFits, WriteTypeOK
  <2>3. PhasesFit'
    BY <1>1, <2>1, LimitsAreNumbers DEF WriteFits, WriteTypeOK, PhasesFit, R!Path
  <2>4. QED
    BY <2>1, <2>2, <2>3, SessionStays DEF WriteFits
<1>4. QED
  BY <1>2, <1>3

\* A session is begun, goes on or is caught up with: the parts it has are the content's.
LEMMA SessionMoves ==
  ASSUME R!RecordTypeOK, WriteFits,
         R!StartSession \/ R!AppendSession \/ R!RecoverOffset
  PROVE  WriteFits'
<1> USE DEF R!source, R!past, R!server, R!call
<1>1. /\ phase = "session" /\ R!Path \in RecordPaths /\ at <= Length
      /\ Parts[R!Path] \in Nat /\ Parts[R!Path] > 1 /\ offset < Parts[R!Path] /\ offset \in Nat
      /\ session = R!Send(0, Len(session)) /\ Len(session) \in 0 .. Parts[R!Path]
      /\ Len(session) < Parts[R!Path]
  <2>1. phase = "session"
    BY DEF R!StartSession, R!AppendSession, R!RecoverOffset
  <2>2. R!Path \in RecordPaths /\ at <= Length
    BY <2>1 DEF WriteFits, PhasesFit
  <2>3. /\ Parts[R!Path] > 1 /\ offset < Parts[R!Path]
        /\ session = R!Send(0, Len(session)) /\ Len(session) < Parts[R!Path]
    BY <2>1 DEF WriteFits, SessionFits
  <2>4. offset \in Nat /\ Len(session) \in Nat
    BY DEF WriteFits, WriteTypeOK
  <2>5. Parts[R!Path] \in Nat
    BY <2>2, PartsSent
  <2>6. QED
    BY <2>1, <2>2, <2>3, <2>4, <2>5
<1>2. CASE R!StartSession
  <2>1. CASE R!Disturb /\ R!Unanswered
    BY <1>1, <1>2, <2>1, UnansweredFits DEF R!StartSession
  <2>2. CASE /\ session' = R!Send(0, 1) /\ open' = TRUE /\ offset' = 1 /\ attempt' = 0
             /\ UNCHANGED <<phase, at, ensured, recoveries, ended, spent>>
    <3>1. session' \in Seq(Nat) /\ Len(session') = 1
      <4>1. 1 \in 0 .. Parts[R!Path]
        BY <1>1
      <4>2. QED
        BY <1>1, <2>2, <4>1, PartsSent
    <3>2. UNCHANGED <<input, policy, saved, written, lost>>
      BY <1>2 DEF R!StartSession
    <3>3. offset' = 1 /\ attempt' = 0 /\ phase' = phase
      BY <2>2
    <3>4. open' \in BOOLEAN /\ open'
      BY <2>2
    <3>5. WriteTypeOK'
      <4>1. offset' \in Nat /\ Len(session') <= offset' + 1 /\ attempt' \in 0 .. MaxRequestRetries
        BY <3>1, <3>3, LimitsAreNumbers
      <4>2. QED
        BY <2>2, <3>1, <3>2, <3>4, <4>1 DEF WriteFits, WriteTypeOK
    <3>6. R!Path' = R!Path
      BY <2>2, <3>2 DEF R!Path
    <3>7. PhasesFit'
      BY <1>1, <2>2, <3>2, <3>6, LimitsAreNumbers DEF WriteFits, WriteTypeOK, PhasesFit
    <3>8. session' = R!Send(0, Len(session))'
      BY <2>2, <3>1, <3>6 DEF R!Send, R!Whole
    <3>9. recoveries' <= lost'
      BY <1>1, <2>2, <3>2 DEF WriteFits, SessionFits
    <3>10. SessionFits'
      BY <1>1, <3>1, <3>3, <3>4, <3>6, <3>8, <3>9 DEF SessionFits
    <3>11. QED
      BY <3>5, <3>7, <3>10 DEF WriteFits
  <2>3. QED
    BY <1>2, <2>1, <2>2 DEF R!StartSession
<1>3. CASE R!AppendSession
  <2>1. /\ open /\ Len(session) = offset /\ offset > 0 /\ offset + 1 < Parts[R!Path]
        /\ session' = session \o R!Send(offset, offset + 1)
        /\ UNCHANGED <<input, saved, open, ensured, written, phase, at, recoveries, ended>>
    BY <1>1, <1>3 DEF R!AppendSession, R!InPlace, R!Started, R!Finishing
  <2>2. session' = R!Send(0, offset + 1)
    <3>1. /\ offset \in 0 .. Parts[R!Path] /\ offset + 1 \in 0 .. Parts[R!Path]
          /\ offset <= offset + 1 /\ session = R!Send(0, offset)
      BY <1>1, <2>1
    <3>2. QED
      BY <1>1, <2>1, <3>1, PartsSent
  <2>3. session' \in Seq(Nat) /\ Len(session') = offset + 1
    <3>1. offset + 1 \in 0 .. Parts[R!Path]
      BY <1>1, <2>1
    <3>2. QED
      BY <1>1, <2>2, <3>1, PartsSent
  <2>4. R!Path' = R!Path
    BY <2>1 DEF R!Path
  <2>5. session' = R!Send(0, Len(session))'
    BY <2>2, <2>3, <2>4 DEF R!Send, R!Whole
  <2>6. \/ offset' = offset + 1 /\ attempt' = 0 /\ UNCHANGED <<lost, spent>>
        \/ /\ spent < Budget /\ spent' = spent + 1 /\ attempt < MaxRequestRetries
           /\ attempt' = attempt + 1 /\ lost' = lost + 1 /\ offset' = offset
    BY <1>3 DEF R!AppendSession, R!Disturb
  <2>7. open' \in BOOLEAN /\ (open' <=> open)
    BY <2>1 DEF WriteFits, WriteTypeOK
  <2>8. /\ offset' \in Nat /\ Len(session') <= offset' + 1
        /\ attempt' \in 0 .. MaxRequestRetries /\ lost' \in Nat /\ spent' \in 0 .. Budget
    BY <2>1, <2>3, <2>6, LimitsAreNumbers DEF WriteFits, WriteTypeOK
  <2>9. WriteTypeOK'
    BY <2>1, <2>3, <2>7, <2>8 DEF WriteFits, WriteTypeOK
  <2>10. PhasesFit'
    <3>1. attempt' <= spent'
      BY <2>6, LimitsAreNumbers DEF WriteFits, WriteTypeOK, PhasesFit
    <3>2. QED
      BY <1>1, <2>1, <2>4, <3>1 DEF WriteFits, PhasesFit
  <2>11. /\ 0 < offset' /\ offset' <= Len(session') /\ offset' < Parts[R!Path]
         /\ recoveries' <= lost' /\ (Len(session') # offset' => recoveries' < lost')
    <3>1. recoveries \in Nat /\ lost \in Nat /\ recoveries <= lost
      BY <1>1, LimitsAreNumbers DEF WriteFits, WriteTypeOK, SessionFits
    <3>2. QED
      BY <1>1, <2>1, <2>3, <2>6, <3>1
  <2>12. SessionFits'
    BY <1>1, <2>1, <2>3, <2>4, <2>5, <2>7, <2>11 DEF SessionFits
  <2>13. QED
    BY <2>9, <2>10, <2>12 DEF WriteFits
<1>4. CASE R!RecoverOffset
  <2>1. /\ open /\ Len(session) # offset /\ offset > 0 /\ recoveries < MaxOffsetRecoveries
        /\ offset' = Len(session) /\ recoveries' = recoveries + 1 /\ attempt' = 0
        /\ UNCHANGED <<input, saved, open, session, ensured, written, phase, at, ended, lost, spent>>
    BY <1>4 DEF R!RecoverOffset, R!InPlace, R!Started
  <2>2. R!Path' = R!Path
    BY <2>1 DEF R!Path
  <2>3. session' = R!Send(0, Len(session))'
    BY <1>1, <2>1, <2>2 DEF R!Send, R!Whole
  <2>4. open' \in BOOLEAN /\ (open' <=> open)
    BY <2>1 DEF WriteFits, WriteTypeOK
  <2>5. /\ offset' \in Nat /\ Len(session') <= offset' + 1 /\ recoveries' \in 0 .. MaxOffsetRecoveries
        /\ attempt' \in 0 .. MaxRequestRetries
    BY <1>1, <2>1, LimitsAreNumbers DEF WriteFits, WriteTypeOK
  <2>6. WriteTypeOK'
    BY <2>1, <2>4, <2>5 DEF WriteFits, WriteTypeOK
  <2>7. PhasesFit'
    BY <2>1, <2>2, LimitsAreNumbers DEF WriteFits, WriteTypeOK, PhasesFit
  <2>8. 0 < offset' /\ offset' = Len(session') /\ offset' < Parts[R!Path] /\ recoveries' <= lost'
    BY <1>1, <2>1 DEF WriteFits, WriteTypeOK, SessionFits
  <2>9. SessionFits'
    BY <1>1, <2>1, <2>2, <2>3, <2>4, <2>8 DEF SessionFits
  <2>10. QED
    BY <2>6, <2>7, <2>9 DEF WriteFits
<1>5. QED
  BY <1>2, <1>3, <1>4

\* Reading on, or going on with a record, without a request.
LEMMA ReadFits ==
  ASSUME R!RecordTypeOK, WriteFits,
         R!WriteStart \/ R!EmitState \/ R!TakeRecord \/ R!InputEnds \/ R!FoldersEnsured
  PROVE  WriteFits'
<1> USE DEF R!source, R!past, R!server, R!call
<1>1. /\ UNCHANGED <<input, session, open, attempt, offset, recoveries, lost, spent>>
      /\ session = <<>> /\ ~open /\ offset = 0 /\ recoveries = 0 /\ phase # "session"
  BY DEF WriteFits, SessionFits, R!WriteStart, R!EmitState, R!TakeRecord, R!InputEnds,
         R!FoldersEnsured
<1>2. open' \in BOOLEAN /\ ~open'
  BY <1>1 DEF WriteFits, WriteTypeOK
<1>3. /\ saved \in Nat /\ at \in Nat /\ saved < at /\ saved <= Length /\ at <= Length + 1
      /\ attempt \in Nat /\ recoveries \in Nat /\ lost \in Nat
  BY LimitsAreNumbers DEF WriteFits, WriteTypeOK, PhasesFit
<1>4. CASE R!WriteStart
  <2>1. /\ phase = "idle" /\ phase' = "next" /\ at' = saved + 1 /\ ensured' = {}
        /\ ended' = "none" /\ saved' = saved
    BY <1>4 DEF R!WriteStart
  <2>2. at' \in 1 .. (Length + 1) /\ saved' < at'
    BY <1>3, <2>1, LimitsAreNumbers
  <2>3. WriteTypeOK'
    BY <1>1, <1>2, <2>1, <2>2 DEF WriteFits, WriteTypeOK
  <2>4. PhasesFit' /\ SessionFits'
    BY <1>1, <1>2, <2>1, <2>2 DEF WriteFits, PhasesFit, SessionFits
  <2>5. QED
    BY <2>3, <2>4 DEF WriteFits
<1>5. CASE R!EmitState
  <2>1. phase = "next" /\ at <= Length /\ saved' = at /\ at' = at + 1
        /\ UNCHANGED <<phase, ensured, ended>>
    BY <1>5 DEF R!EmitState
  <2>2. at' \in 1 .. (Length + 1) /\ saved' < at' /\ saved' \in 0 .. Length
    BY <1>3, <2>1, LimitsAreNumbers
  <2>3. WriteTypeOK'
    BY <1>1, <1>2, <2>1, <2>2 DEF WriteFits, WriteTypeOK
  <2>4. PhasesFit' /\ SessionFits'
    BY <1>1, <1>2, <2>1, <2>2 DEF WriteFits, PhasesFit, SessionFits
  <2>5. QED
    BY <2>3, <2>4 DEF WriteFits
<1>6. CASE R!TakeRecord \/ R!InputEnds
  <2>1. /\ phase = "next" /\ UNCHANGED <<saved, at, ensured, ended>>
        /\ \/ phase' = "folders" /\ at <= Length /\ R!Path \in RecordPaths
           \/ phase' = "done" /\ at > Length
    BY <1>6 DEF R!TakeRecord, R!InputEnds
  <2>2. R!Path' = R!Path
    BY <1>1, <2>1 DEF R!Path
  <2>3. WriteTypeOK'
    BY <1>1, <1>2, <2>1 DEF WriteFits, WriteTypeOK
  <2>4. PhasesFit' /\ SessionFits'
    BY <1>1, <1>2, <2>1, <2>2 DEF WriteFits, PhasesFit, SessionFits
  <2>5. QED
    BY <2>3, <2>4 DEF WriteFits
<1>7. CASE R!FoldersEnsured
  <2>1. /\ phase = "folders" /\ UNCHANGED <<saved, at, ensured, ended>>
        /\ phase' = IF R!InChunks(R!Path) THEN "session" ELSE "upload"
    BY <1>7 DEF R!FoldersEnsured
  <2>2. R!Path' = R!Path /\ R!Path \in RecordPaths
    BY <1>1, <2>1 DEF R!Path, WriteFits, PhasesFit
  <2>3. WriteTypeOK'
    BY <1>1, <1>2, <2>1 DEF WriteFits, WriteTypeOK
  <2>4. PhasesFit'
    BY <1>1, <2>1, <2>2 DEF WriteFits, PhasesFit
  <2>5. /\ Parts[R!Path] \in Nat /\ (phase' = "session" => Parts[R!Path] > 1)
        /\ R!Send(0, 0) = <<>> /\ Len(session) = 0
    BY <1>1, <2>1, <2>2, PartsSent DEF R!InChunks
  <2>6. session' = R!Send(0, Len(session))'
    BY <1>1, <2>2, <2>5 DEF R!Send, R!Whole
  <2>7. SessionFits'
    BY <1>1, <1>2, <1>3, <2>2, <2>5, <2>6 DEF SessionFits
  <2>8. QED
    BY <2>3, <2>4, <2>7 DEF WriteFits
<1>8. QED
  BY <1>4, <1>5, <1>6, <1>7

\* A commit whose answer is lost leaves a session that is closed, and its record committed.
LEMMA FinishLostFits ==
  ASSUME R!RecordTypeOK, WriteFits, R!FinishSession, R!Disturb, attempt # MaxRequestRetries,
         attempt' = attempt + 1, session' = <<>>, open' = FALSE,
         UNCHANGED <<phase, at, offset, recoveries, ended, ensured>>
  PROVE  WriteFits'
<1>1. /\ phase = "session" /\ UNCHANGED <<input, saved, lost>> /\ at \in written'
  BY DEF R!FinishSession, R!source, R!past
<1>2. spent' = spent + 1 /\ spent' <= Budget
  BY LimitsAreNumbers DEF R!Disturb, WriteFits, WriteTypeOK
<1>3. open' \in BOOLEAN /\ ~open'
  OBVIOUS
<1>4. /\ session' \in Seq(Nat) /\ Len(session') = 0 /\ Len(session') <= offset' + 1
      /\ attempt' \in 0 .. MaxRequestRetries /\ attempt' <= spent' /\ spent' \in 0 .. Budget
  BY <1>2, LimitsAreNumbers DEF WriteFits, WriteTypeOK, PhasesFit
<1>5. WriteTypeOK'
  BY <1>1, <1>3, <1>4 DEF WriteFits, WriteTypeOK
<1>6. R!Path' = R!Path /\ R!Path \in RecordPaths
  BY <1>1 DEF R!Path, WriteFits, PhasesFit
<1>7. PhasesFit'
  BY <1>1, <1>4, <1>6 DEF WriteFits, PhasesFit
<1>8. R!Send(0, 0) = <<>> /\ Parts[R!Path] \in Nat /\ Parts[R!Path] > 1
  BY <1>1, <1>6, PartsSent DEF WriteFits, SessionFits
<1>9. session' = R!Send(0, Len(session))'
  BY <1>4, <1>6, <1>8 DEF R!Send, R!Whole
<1>10. offset' < Parts[R!Path] /\ recoveries' <= lost'
  BY <1>1 DEF WriteFits, SessionFits
<1>11. SessionFits'
  BY <1>1, <1>3, <1>4, <1>6, <1>8, <1>9, <1>10 DEF SessionFits
<1>12. QED
  BY <1>5, <1>7, <1>11 DEF WriteFits

LEMMA WriteKept ==
  ASSUME R!RecordTypeOK, WriteFits, R!RecordNext
  PROVE  WriteFits'
<1> USE DEF R!source, R!past, R!server, R!call
<1>1. spent \in Nat /\ spent <= Budget /\ (R!Disturb => spent' = spent + 1 /\ spent' <= Budget)
  BY LimitsAreNumbers DEF R!Disturb, WriteFits, WriteTypeOK
<1>2. CASE R!WriteStart \/ R!EmitState \/ R!TakeRecord \/ R!InputEnds \/ R!FoldersEnsured
  BY <1>2, ReadFits
<1>3. CASE R!StartSession \/ R!AppendSession \/ R!RecoverOffset
  BY <1>3, SessionMoves
<1>4. CASE \/ R!RefuseRecord \/ R!FolderRefused \/ R!UploadConflict \/ R!FinishConflict
           \/ R!SessionUnusable \/ R!Stop
  <2>1. PICK why \in {"invalid", "folder", "conflict", "unusable", "stopped"} : R!Raise(why)
    BY <1>4 DEF R!RefuseRecord, R!FolderRefused, R!UploadConflict, R!FinishConflict,
                R!SessionUnusable, R!Stop
  <2>2. UNCHANGED <<saved, at, lost>> /\ (R!Disturb \/ spent' = spent)
    BY <1>4 DEF R!RefuseRecord, R!FolderRefused, R!UploadConflict, R!FinishConflict,
                R!SessionUnusable, R!Stop
  <2>3. QED
    BY <1>1, <2>1, <2>2, RaiseFits
<1>5. CASE R!Transient
  BY <1>5, UnansweredFits DEF R!Transient
<1>6. CASE R!CreateFolder
  <2>1. UNCHANGED <<input, saved, lost, written>> /\ phase = "folders" /\ R!NextFolder \in ParentFolders
    BY <1>6, NextFolderIsFolder DEF R!CreateFolder, WriteFits, PhasesFit
  <2>2. CASE R!Disturb /\ R!Unanswered
    BY <2>1, <2>2, UnansweredFits
  <2>3. CASE /\ ensured' = ensured \cup {R!NextFolder} /\ attempt' = 0
             /\ UNCHANGED <<phase, at, session, open, offset, recoveries, ended, spent>>
    <3>1. attempt' \in 0 .. MaxRequestRetries /\ attempt' <= spent' /\ ensured' \subseteq ParentFolders
      BY <1>1, <2>1, <2>3, LimitsAreNumbers DEF WriteFits, WriteTypeOK
    <3>2. WriteTypeOK'
      BY <2>1, <2>3, <3>1 DEF WriteFits, WriteTypeOK
    <3>3. PhasesFit'
      BY <2>1, <2>3, <3>1 DEF WriteFits, PhasesFit, R!Path
    <3>4. QED
      BY <2>1, <2>3, <3>2, <3>3, SessionStays DEF WriteFits
  <2>4. QED
    BY <1>6, <2>2, <2>3 DEF R!CreateFolder
<1>7. CASE R!UploadSmall
  BY <1>7, UploadedFits, UnansweredFits DEF R!UploadSmall
<1>8. CASE R!FinishSession
  <2>1. UNCHANGED <<input, saved, lost>> /\ phase = "session" /\ written \subseteq written'
    BY <1>8 DEF R!FinishSession
  <2>2. CASE R!Uploaded
    BY <2>1, <2>2, UploadedFits
  <2>3. CASE R!Disturb /\ attempt = MaxRequestRetries /\ R!GiveUp
    BY <1>1, <2>1, <2>3, RaiseFits DEF R!GiveUp
  <2>4. CASE /\ R!Disturb /\ attempt # MaxRequestRetries /\ attempt' = attempt + 1
             /\ session' = <<>> /\ open' = FALSE
             /\ UNCHANGED <<phase, at, offset, recoveries, ended, ensured>>
    BY <1>8, <2>4, FinishLostFits
  <2>5. QED
    BY <1>8, <2>2, <2>3, <2>4 DEF R!FinishSession
<1>9. CASE \E x \in RecordPaths \cup ParentFolders : R!ForeignRemove(x) \/ R!ForeignWrite(x)
  <2>1. /\ UNCHANGED <<input, policy, saved, session, open, phase, at, ensured, attempt, offset,
                       recoveries, ended, written, lost>>
        /\ R!Disturb
    BY <1>9 DEF R!ForeignRemove, R!ForeignWrite
  <2>2. spent' \in 0 .. Budget /\ spent' >= spent
    BY <1>1, <2>1, LimitsAreNumbers
  <2>3. WriteTypeOK'
    BY <2>1, <2>2 DEF WriteFits, WriteTypeOK
  <2>4. attempt' <= spent'
    BY <1>1, <2>1, LimitsAreNumbers DEF WriteFits, WriteTypeOK, PhasesFit
  <2>5. PhasesFit'
    BY <2>1, <2>4 DEF WriteFits, PhasesFit, R!Path
  <2>6. QED
    BY <2>1, <2>3, <2>5, SessionStays DEF WriteFits
<1>10. QED
  BY <1>2, <1>3, <1>4, <1>5, <1>6, <1>7, <1>8, <1>9 DEF R!RecordNext, R!Writer

\* The message at hand only moves back to what follows the last STATE, and on past one that
\* is no record or was uploaded.
LEMMA MessageMoves ==
  ASSUME R!RecordTypeOK, PhasesFit, R!RecordNext
  PROVE  \/ at' <= at
         \/ at' = at + 1 /\ input[at] \notin RecordPaths /\ written' = written
         \/ at' = at + 1 /\ (R!UploadSmall \/ R!FinishSession)
<1> USE DEF R!source, R!past, R!server, R!call
<1>1. at \in Nat /\ saved \in Nat /\ saved < at
  BY LimitsAreNumbers DEF R!RecordTypeOK, PhasesFit
<1>2. CASE R!WriteStart
  BY <1>1, <1>2 DEF R!WriteStart
<1>3. CASE R!EmitState
  BY <1>3, LimitsAreNumbers DEF R!EmitState, R!Path
<1>4. CASE R!UploadSmall \/ R!FinishSession
  BY <1>1, <1>4 DEF R!UploadSmall, R!FinishSession, R!Uploaded, R!Unanswered, R!GiveUp
<1>5. CASE R!Transient \/ R!CreateFolder \/ R!StartSession \/ R!AppendSession
  BY <1>1, <1>5 DEF R!Transient, R!CreateFolder, R!StartSession, R!AppendSession, R!Unanswered,
                    R!GiveUp
<1>6. CASE \/ R!TakeRecord \/ R!InputEnds \/ R!FolderRefused \/ R!FoldersEnsured
           \/ R!RefuseRecord \/ R!UploadConflict \/ R!FinishConflict \/ R!RecoverOffset
           \/ R!SessionUnusable \/ R!Stop
  BY <1>1, <1>6 DEF R!TakeRecord, R!InputEnds, R!FolderRefused, R!FoldersEnsured, R!RefuseRecord,
                    R!UploadConflict, R!FinishConflict, R!RecoverOffset, R!SessionUnusable, R!Stop
<1>7. CASE \E x \in RecordPaths \cup ParentFolders : R!ForeignRemove(x) \/ R!ForeignWrite(x)
  BY <1>1, <1>7 DEF R!ForeignRemove, R!ForeignWrite
<1>8. QED
  BY <1>2, <1>3, <1>4, <1>5, <1>6, <1>7 DEF R!RecordNext, R!Writer

LEMMA ItemsFitKept ==
  ASSUME R!RecordTypeOK, PhasesFit, SessionFits, ItemsFit, R!RecordNext
  PROVE  ItemsFit'
<1>1. RecordPaths \cap ParentFolders = {}
  BY ProgramsAssumption DEF R!RecordAssumption
<1>2. DOMAIN items = RecordPaths \cup ParentFolders /\ at \in Nat /\ written \subseteq Nat
      /\ \A i \in written : i \in 1 .. Length
  BY LimitsAreNumbers DEF R!RecordTypeOK
<1>3. input' = input
  BY ItemsMove
<1>4. \/ at' <= at
      \/ at' = at + 1 /\ input[at] \notin RecordPaths /\ written' = written
      \/ at' = at + 1 /\ (R!UploadSmall \/ R!FinishSession)
  BY MessageMoves
<1>5. at' \in Nat
  <2>1. WriteFits
    BY DEF WriteFits, WriteTypeOK, R!RecordTypeOK
  <2>2. QED
    BY <2>1, WriteKept, LimitsAreNumbers DEF WriteFits, WriteTypeOK
<1>6. CASE /\ R!UploadSmall \/ R!FinishSession
           /\ at \in 1 .. Length /\ R!Path \in RecordPaths
           /\ R!Put(R!Path, R!File(at, R!Whole(R!Path)))
           /\ written' = written \cup {at} /\ UNCHANGED touched
  <2> DEFINE f == R!File(at, R!Whole(R!Path))
  <2>1. /\ f.kind = "file" /\ f.record = at /\ f.parts = R!Whole(R!Path)
        /\ f # R!Foreign /\ R!Folder # R!Foreign
    BY DEF R!File, R!Foreign, R!Folder
  <2> HIDE DEF f
  <2>2. R!Put(R!Path, f)
    BY <1>6 DEF f
  <2>3. /\ DOMAIN items' = RecordPaths \cup ParentFolders
        /\ items'[R!Path] = f
        /\ \A y \in ParentFolders : items'[y] \in {items[y], R!Folder}
        /\ \A p \in RecordPaths : p # R!Path => items'[p] = items[p]
    BY <1>1, <1>6, <2>2, ItemPut
  <2>4. \A x \in DOMAIN items' : items'[x] = R!Foreign => x \in touched'
    BY <1>2, <1>6, <2>1, <2>3 DEF ItemsFit
  <2>5. \A p \in RecordPaths :
            items'[p].kind = "file" => items'[p].parts = R!Whole(p) /\ items'[p].record \in written'
    BY <1>6, <2>1, <2>3 DEF ItemsFit
  <2>6. ASSUME NEW i \in written', input[i] \in RecordPaths \ touched
        PROVE  /\ items'[input[i]].kind = "file"
               /\ i < at' => i <= items'[input[i]].record
    <3>1. CASE input[i] = R!Path
      <4>1. i < at' => i <= at
        BY <1>2, <1>4, <1>5, <1>6, <2>6
      <4>2. QED
        BY <2>1, <2>3, <3>1, <4>1
    <3>2. CASE input[i] # R!Path
      <4>1. i \in written /\ i # at
        BY <1>6, <2>6, <3>2 DEF R!Path
      <4>2. i < at' => i < at
        BY <1>2, <1>4, <1>5, <4>1
      <4>3. QED
        BY <2>3, <2>6, <3>2, <4>1, <4>2 DEF ItemsFit
    <3>3. QED
      BY <3>1, <3>2
  <2>7. QED
    BY <1>3, <1>6, <2>4, <2>5, <2>6 DEF ItemsFit, R!Whole, R!Foreign
<1>7. CASE /\ R!CreateFolder /\ R!NextFolder \in ParentFolders /\ R!Put(R!NextFolder, R!Folder)
           /\ UNCHANGED <<written, touched>>
  <2>1. R!NextFolder \in RecordPaths \cup ParentFolders
    BY <1>7
  <2>2. /\ DOMAIN items' = RecordPaths \cup ParentFolders
        /\ \A y \in ParentFolders : items'[y] \in {items[y], R!Folder}
        /\ \A p \in RecordPaths : items'[p] = items[p]
    BY <1>1, <1>7, <2>1, ItemPut
  <2>3. R!Folder # R!Foreign
    BY DEF R!Folder, R!Foreign
  <2>4. \A x \in DOMAIN items' : items'[x] = R!Foreign => x \in touched'
    BY <1>2, <1>7, <2>2, <2>3 DEF ItemsFit
  <2>5. at' <= at
    BY <1>2, <1>7 DEF R!CreateFolder, R!Unanswered, R!GiveUp, R!Raise
  <2>6. QED
    BY <1>2, <1>3, <1>5, <1>7, <2>2, <2>4, <2>5 DEF ItemsFit, R!Whole, R!Foreign
<1>8. ASSUME NEW x \in RecordPaths \cup ParentFolders,
             R!ForeignRemove(x) \/ (R!ForeignWrite(x) /\ R!Put(x, R!Foreign)),
             UNCHANGED <<at, written>>
      PROVE  ItemsFit'
  <2>1. R!None.kind # "file" /\ R!Foreign.kind # "file" /\ R!Folder # R!Foreign
    BY DEF R!None, R!Foreign, R!Folder
  <2>2. /\ DOMAIN items' = RecordPaths \cup ParentFolders
        /\ touched \subseteq touched'
        /\ \A y \in RecordPaths \cup ParentFolders :
               \/ items'[y] = items[y]
               \/ y \in touched' /\ items'[y] \in {R!None, R!Foreign}
               \/ y \in ParentFolders /\ items'[y] = R!Folder
    BY <1>8, OthersMove
  <2>3. \A y \in DOMAIN items' : items'[y] = R!Foreign => y \in touched'
    BY <1>2, <2>1, <2>2 DEF ItemsFit
  <2>4. \A p \in RecordPaths :
            items'[p].kind = "file" => items'[p].parts = R!Whole(p) /\ items'[p].record \in written'
    BY <1>1, <1>8, <2>1, <2>2 DEF ItemsFit
  <2>5. \A i \in written' :
            input[i] \in RecordPaths \ touched' =>
                /\ items'[input[i]].kind = "file"
                /\ i < at' => i <= items'[input[i]].record
    BY <1>1, <1>8, <2>2 DEF ItemsFit
  <2>6. QED
    BY <1>3, <2>3, <2>4, <2>5 DEF ItemsFit, R!Whole, R!Foreign
<1>9. CASE ~R!UploadSmall /\ ~R!FinishSession /\ UNCHANGED <<items, written, touched>>
  <2>1. \A i \in written : input[i] \in RecordPaths /\ i < at' => i < at
    BY <1>2, <1>4, <1>5, <1>9
  <2>2. QED
    BY <1>3, <1>9, <2>1 DEF ItemsFit, R!Whole, R!Foreign
<1>10. QED
  BY <1>6, <1>7, <1>8, <1>9, ItemsMove

\* A file where a folder should be, or where none may be replaced, is another writer's or,
\* at the path at hand, of a committed record.
LEMMA FilesAbove ==
  ASSUME R!RecordTypeOK, ItemsFit, NEW x \in ParentFolders, R!IsFile(x)
  PROVE  touched # {}
<1>1. items[x] \in {R!None, R!Folder, R!Foreign} /\ x \in DOMAIN items
  BY DEF R!RecordTypeOK
<1>2. items[x] = R!Foreign
  BY <1>1 DEF R!IsFile, R!None, R!Folder
<1>3. QED
  BY <1>1, <1>2 DEF ItemsFit

LEMMA ConflictsHaveCause ==
  ASSUME R!RecordTypeOK, ItemsFit, R!Path \in RecordPaths, ~R!MayCommit
  PROVE  touched # {} \/ (policy = "fail" /\ \E i \in written : input[i] = R!Path)
<1>1. R!Above(R!Path) \subseteq ParentFolders
  BY DEF R!Above
<1>2. \/ items[R!Path] \in {R!None, R!Foreign}
      \/ items[R!Path].kind = "file" /\ input[items[R!Path].record] = R!Path
  BY DEF R!RecordTypeOK
<1>3. R!Path \in DOMAIN items
  BY DEF R!RecordTypeOK
<1>4. CASE \E y \in R!Above(R!Path) : R!IsFile(y)
  BY <1>1, <1>4, FilesAbove
<1>5. CASE items[R!Path] = R!Foreign
  BY <1>3, <1>5 DEF ItemsFit
<1>6. CASE items[R!Path] = R!None /\ ~ \E y \in R!Above(R!Path) : R!IsFile(y)
  BY <1>6 DEF R!MayCommit, R!None, R!Folder
<1>7. CASE /\ items[R!Path].kind = "file" /\ input[items[R!Path].record] = R!Path
           /\ ~ \E y \in R!Above(R!Path) : R!IsFile(y)
  <2>1. policy = "fail"
    BY <1>7 DEF R!MayCommit, R!Folder
  <2>2. items[R!Path].record \in written
    BY <1>7 DEF ItemsFit
  <2>3. QED
    BY <1>7, <2>1, <2>2
<1>8. QED
  BY <1>2, <1>4, <1>5, <1>6, <1>7

LEMMA FoldersHaveCause ==
  ASSUME R!RecordTypeOK, ItemsFit, R!Path \in RecordPaths, R!Missing # {}, ~R!FolderFine
  PROVE  touched # {}
<1>1. R!NextFolder \in ParentFolders /\ R!Above(R!NextFolder) \subseteq ParentFolders
  BY NextFolderIsFolder DEF R!Above
<1>2. QED
  BY <1>1, FilesAbove DEF R!FolderFine

LEMMA CausesKept ==
  ASSUME R!RecordTypeOK, PhasesFit, SessionFits, ItemsFit, R!RaisesForCause, R!RecordNext
  PROVE  R!RaisesForCause'
<1> USE DEF R!source, R!past, R!server, R!call
<1>1. /\ attempt <= spent /\ attempt \in Nat /\ spent \in Nat /\ lost \in Nat /\ recoveries \in Nat
      /\ phase # "idle" => ended = "none"
      /\ phase \in {"folders", "upload", "session"} => R!Path \in RecordPaths
  BY LimitsAreNumbers DEF PhasesFit, R!RecordTypeOK
<1>2. CASE ended' \in {"none", "stopped"}
  BY <1>2 DEF R!RaisesForCause
<1>3. CASE R!RefuseRecord
  <2>1. ended' = "invalid" /\ R!Path' = R!Path /\ R!Path = "invalid"
    BY <1>3 DEF R!RefuseRecord, R!Raise, R!Path
  <2>2. QED
    BY <2>1 DEF R!RaisesForCause
<1>4. CASE R!FolderRefused
  <2>1. ended' = "folder" /\ touched' = touched /\ touched # {}
    BY <1>1, <1>4, FoldersHaveCause DEF R!FolderRefused, R!Raise
  <2>2. QED
    BY <2>1 DEF R!RaisesForCause
<1>5. CASE R!UploadConflict \/ R!FinishConflict
  <2>1. /\ ended' = "conflict" /\ UNCHANGED <<input, policy, at, written, touched>>
        /\ phase \in {"upload", "session"} /\ ~R!MayCommit
    BY <1>5 DEF R!UploadConflict, R!FinishConflict, R!Raise
  <2>2. touched # {} \/ (policy = "fail" /\ \E i \in written : input[i] = R!Path)
    BY <1>1, <2>1, ConflictsHaveCause
  <2>3. R!Path' = R!Path
    BY <2>1 DEF R!Path
  <2>4. QED
    BY <2>1, <2>2, <2>3 DEF R!RaisesForCause
<1>6. CASE R!SessionUnusable
  <2>1. /\ ended' = "unusable" /\ UNCHANGED <<at, written, lost>> /\ phase = "session"
        /\ offset > 0 /\ (~open \/ (recoveries = MaxOffsetRecoveries /\ Len(session) # offset))
    BY <1>6 DEF R!SessionUnusable, R!Raise, R!InPlace, R!Started
  <2>2. at \in written \/ lost > MaxOffsetRecoveries
    <3>1. CASE ~open
      BY <2>1, <3>1 DEF SessionFits
    <3>2. CASE open
      BY <1>1, <2>1, <3>2 DEF SessionFits
    <3>3. QED
      BY <3>1, <3>2
  <2>3. QED
    BY <2>1, <2>2 DEF R!RaisesForCause
<1>7. CASE R!Disturb /\ attempt = MaxRequestRetries /\ R!GiveUp
  <2>1. ended' = "exhausted" /\ spent' > MaxRequestRetries
    BY <1>1, <1>7 DEF R!GiveUp, R!Raise, R!Disturb
  <2>2. QED
    BY <2>1 DEF R!RaisesForCause
<1>8. CASE phase # "idle" /\ ended' = ended
  BY <1>1, <1>2, <1>8
<1>9. CASE \E x \in RecordPaths \cup ParentFolders : R!ForeignRemove(x) \/ R!ForeignWrite(x)
  <2>1. /\ UNCHANGED <<input, policy, at, ended, written, lost>>
        /\ touched \subseteq touched' /\ spent' >= spent
    BY <1>1, <1>9 DEF R!ForeignRemove, R!ForeignWrite, R!Disturb
  <2>2. R!Path' = R!Path
    BY <2>1 DEF R!Path
  <2>3. spent > MaxRequestRetries => spent' > MaxRequestRetries
    <3>1. MaxRequestRetries \in Nat /\ spent' \in Nat
      BY <1>1, <1>9, LimitsAreNumbers DEF R!ForeignRemove, R!ForeignWrite, R!Disturb
    <3>2. QED
      BY <1>1, <2>1, <3>1
  <2>4. QED
    BY <2>1, <2>2, <2>3 DEF R!RaisesForCause
<1>10. CASE R!WriteStart \/ R!Stop
  BY <1>2, <1>10 DEF R!WriteStart, R!Stop, R!Raise
<1>11. CASE \/ R!EmitState \/ R!TakeRecord \/ R!InputEnds \/ R!FoldersEnsured \/ R!RecoverOffset
  BY <1>8, <1>11 DEF R!EmitState, R!TakeRecord, R!InputEnds, R!FoldersEnsured, R!RecoverOffset
<1>12. CASE \/ R!Transient \/ R!CreateFolder \/ R!UploadSmall \/ R!StartSession
            \/ R!AppendSession \/ R!FinishSession
  <2>1. phase # "idle"
    BY <1>12 DEF R!Transient, R!CreateFolder, R!UploadSmall, R!StartSession, R!AppendSession,
                 R!FinishSession
  <2>2. ended' = ended \/ (R!Disturb /\ attempt = MaxRequestRetries /\ R!GiveUp)
    BY <1>12 DEF R!Transient, R!CreateFolder, R!UploadSmall, R!StartSession, R!AppendSession,
                 R!FinishSession, R!Uploaded, R!Unanswered
  <2>3. QED
    BY <1>7, <1>8, <2>1, <2>2
<1>13. QED
  BY <1>3, <1>4, <1>5, <1>6, <1>9, <1>10, <1>11, <1>12 DEF R!RecordNext, R!Writer

\* Nothing is put over what may not be replaced: a commit needs the path to be free under
\* "fail", and no file above it, and a folder is made only where there is none or one.
LEMMA ItemsKept ==
  ASSUME R!RecordTypeOK, PhasesFit, SessionFits, R!RecordNext
  PROVE  R!KeepsItems
<1>1. DOMAIN items = RecordPaths \cup ParentFolders
      /\ \A x \in ParentFolders : items[x] \in {R!None, R!Folder, R!Foreign}
  BY DEF R!RecordTypeOK
<1>2. ASSUME NEW x \in RecordPaths \cup ParentFolders, NEW item, R!Put(x, item),
             items[x] # R!None /\ (policy = "fail" \/ items[x] = R!Folder) => item = items[x],
             \A y \in R!Above(x) : ~R!IsFile(y)
      PROVE  R!KeepsItems
  <2>1. ASSUME NEW y \in R!Above(x), y \in ParentFolders, items[y] # R!None
        PROVE  items[y] = R!Folder
    BY <1>1, <1>2, <2>1 DEF R!IsFile, R!Foreign
  <2>2. ASSUME NEW y \in DOMAIN items, items[y] # R!None, policy = "fail" \/ items[y] = R!Folder
        PROVE  items'[y] = items[y]
    BY <1>1, <1>2, <2>1, <2>2, ItemPut
  <2>3. QED
    BY <2>2 DEF R!KeepsItems
<1>3. CASE R!CreateFolder /\ R!NextFolder \in ParentFolders /\ R!Put(R!NextFolder, R!Folder)
  <2>1. \A y \in {R!NextFolder} \cup R!Above(R!NextFolder) : ~R!IsFile(y)
    BY <1>3 DEF R!CreateFolder, R!FolderFine
  <2>2. items[R!NextFolder] # R!None => R!Folder = items[R!NextFolder]
    BY <1>1, <1>3, <2>1 DEF R!IsFile, R!Foreign
  <2>3. QED
    BY <1>2, <1>3, <2>1, <2>2
<1>4. CASE R!MayCommit /\ R!Path \in RecordPaths /\ R!Put(R!Path, R!File(at, R!Whole(R!Path)))
  BY <1>2, <1>4 DEF R!MayCommit
<1>5. CASE \E x \in RecordPaths \cup ParentFolders : R!ForeignRemove(x) \/ R!ForeignWrite(x)
  BY <1>5 DEF R!ForeignRemove, R!ForeignWrite, R!KeepsItems, R!call
<1>6. CASE items' = items
  BY <1>6 DEF R!KeepsItems
<1>7. QED
  BY <1>3, <1>4, <1>5, <1>6, ItemsMove

LEMMA RecordStep ==
  ASSUME RecordInv, [ProgramsNext]_programVars
  PROVE  RecordInv'
<1>1. CASE RunDestination
  <2>1. /\ program = DESTINATION /\ R!RecordNext
        /\ R!RecordTypeOK /\ PhasesFit /\ ItemsFit /\ SessionFits /\ R!RaisesForCause
    BY <1>1 DEF RunDestination, RecordInv
  <2>2. WriteFits
    BY <2>1 DEF WriteFits, WriteTypeOK, R!RecordTypeOK
  <2>3. WriteTypeOK' /\ PhasesFit' /\ SessionFits'
    BY <2>1, <2>2, WriteKept DEF WriteFits
  <2>4. R!RecordTypeOK'
    BY <2>1, <2>3, ItemsTypeKept DEF WriteTypeOK, R!RecordTypeOK
  <2>5. ItemsFit' /\ R!RaisesForCause'
    BY <2>1, ItemsFitKept, CausesKept
  <2>6. QED
    BY <2>3, <2>4, <2>5 DEF RecordInv
<1>2. CASE ~RunDestination /\ ProgramsNext
  BY <1>2 DEF ProgramsNext, RecordInv, RunFullRefresh, RunSharingAcl, RunFileContents,
              NotFileContents, RunRepair, RunCursorScope, FULL_REFRESH, SHARING_ACL,
              FILE_CONTENTS, DESTINATION, REPAIR, CURSOR_SCOPE
<1>3. CASE UNCHANGED programVars
  <2>1. UNCHANGED <<program, input, policy, saved, items, session, open, phase, at, ensured, attempt,
                    offset, recoveries, ended, written, touched, lost, spent>>
    BY <1>3 DEF programVars, ofDestination
  <2>2. R!RecordTypeOK => R!RecordTypeOK'
    BY <2>1 DEF R!RecordTypeOK
  <2>3. (PhasesFit => PhasesFit') /\ (SessionFits => SessionFits')
    BY <2>1, SessionStays DEF PhasesFit, R!Path
  <2>4. ItemsFit => ItemsFit'
    BY <2>1 DEF ItemsFit, R!Whole, R!Foreign
  <2>5. R!RaisesForCause => R!RaisesForCause'
    BY <2>1 DEF R!RaisesForCause, R!Path
  <2>6. QED
    BY <2>1, <2>2, <2>3, <2>4, <2>5 DEF RecordInv
<1>4. QED
  BY <1>1, <1>2, <1>3

LEMMA RecordBegins == ProgramsInit => RecordInv
<1>1. SUFFICES ASSUME ProgramsInit, program = DESTINATION PROVE RecordInv
  BY DEF RecordInv
<1>2. R!RecordInit
  BY <1>1 DEF ProgramsInit, FULL_REFRESH, SHARING_ACL, FILE_CONTENTS, DESTINATION, REPAIR,
              CURSOR_SCOPE
<1> USE <1>2 DEF R!RecordInit
<1>3. WriteTypeOK
  <2>1. open \in BOOLEAN
    OBVIOUS
  <2>2. session \in Seq(Nat) /\ Len(session) = 0
    OBVIOUS
  <2>3. QED
    BY <2>1, <2>2, LimitsAreNumbers DEF WriteTypeOK
<1>4. items = [x \in RecordPaths \cup ParentFolders |-> R!None]
  OBVIOUS
<1>5. R!RecordTypeOK
  BY <1>3, <1>4 DEF WriteTypeOK, R!RecordTypeOK
<1>6. PhasesFit /\ SessionFits
  BY DEF PhasesFit, SessionFits
<1>7. ItemsFit
  BY <1>4 DEF ItemsFit, R!None, R!Foreign
<1>8. R!RaisesForCause
  BY DEF R!RaisesForCause
<1>9. QED
  BY <1>5, <1>6, <1>7, <1>8 DEF RecordInv

\* Whatever is lost, retried, replayed or done by other writers, no file is left with a part
\* missing, doubled or out of place (client.py, _upload_session), and a file nobody else
\* touches is that of the last record for its path when the input has been read.
THEOREM RecordsStay == Spec => []LastRecordStays
<1>1. RecordInv /\ DestinationInv => LastRecordStays
  <2>1. SUFFICES ASSUME RecordInv, DestinationInv, program = DESTINATION
                 PROVE  R!LastRecordStays
    BY DEF LastRecordStays
  <2>2. /\ R!RecordTypeOK /\ PhasesFit /\ ItemsFit
        /\ \A i \in 1 .. (at - 1) : input[i] \in RecordPaths => i \in written
    BY <2>1 DEF RecordInv, DestinationInv, CoveredTo
  <2>3. ASSUME phase = "done", NEW p \in RecordPaths, p \notin touched,
               NEW i \in 1 .. Length, input[i] = p
        PROVE  items[p].kind = "file" /\ i <= items[p].record
    <3>1. at \in Nat /\ at > Length /\ i < at /\ i \in 1 .. (at - 1)
      BY <2>2, <2>3, LimitsAreNumbers DEF PhasesFit, R!RecordTypeOK
    <3>2. i \in written
      BY <2>2, <2>3, <3>1
    <3>3. QED
      BY <2>2, <2>3, <3>1, <3>2 DEF ItemsFit
  <2>4. \A p \in RecordPaths : items[p].kind = "file" => items[p].parts = R!Whole(p)
    BY <2>2 DEF ItemsFit
  <2>5. QED
    BY <2>3, <2>4 DEF R!LastRecordStays
<1>2. QED
  BY <1>1, RecordBegins, RecordStep, DestinationBegins, DestinationStep, PTL DEF Spec

\* A write replaces nothing under conflict_policy "fail" (WriteMode.add), and no folder
\* under either, however its requests are retried and whatever others have put there.
THEOREM ItemsStay == Spec => KeepsWhatIsThere
<1>1. ASSUME RecordInv, [ProgramsNext]_programVars
      PROVE  [program = DESTINATION => R!KeepsItems]_programVars
  <2>1. CASE RunDestination
    BY <1>1, <2>1, ItemsKept DEF RecordInv, RunDestination
  <2>2. CASE ~RunDestination /\ ProgramsNext
    BY <2>2 DEF ProgramsNext, RunFullRefresh, RunSharingAcl, RunFileContents, RunRepair,
                RunCursorScope, FULL_REFRESH, SHARING_ACL, FILE_CONTENTS, DESTINATION, REPAIR,
                CURSOR_SCOPE
  <2>3. CASE UNCHANGED programVars
    BY <2>3
  <2>4. QED
    BY <1>1, <2>1, <2>2, <2>3
<1>2. QED
  BY <1>1, RecordBegins, RecordStep, PTL DEF Spec, KeepsWhatIsThere

-----------------------------------------------------------------------------
(* Riviera's deadline.                                                     *)

\* A job that is still polled was not due at the last check, which was a pause, or a call,
\* ago: so one that is given up is due no earlier than that before the deadline.
PollInv ==
    program = FILE_CONTENTS =>
        /\ polling \in {"off", "check", "sleep"}
        /\ due \in Nat /\ clock \in Nat /\ delay \in 1 .. MaxDelay
        /\ clock <= Timeout \/ clock < Timeout + CallTime
        /\ polling = "check" => clock = 0 \/ due + MaxDelay + CallTime > clock
        /\ polling = "sleep" => due + CallTime > clock
        /\ answer = "timed_out" => due + MaxDelay + CallTime > Timeout
        /\ polling # "off" => answer = "none"

LEMMA PollKept ==
  ASSUME program = FILE_CONTENTS, PollInv,
         C!Launch \/ C!Poll \/ C!Taken \/ UNCHANGED <<polling, due, clock, delay, answer>>
  PROVE  PollInv'
<1> USE ProgramsAssumption DEF PollInv, C!RivieraAssumption, C!Least
<1>1. CASE C!Launch
  BY <1>1 DEF C!Launch
<1>2. CASE C!Poll
  <2>1. CASE C!Check
    BY <1>2, <2>1 DEF C!Check, C!Normalized
  <2>2. CASE C!Pause
    BY <1>2, <2>2 DEF C!Pause
  <2>3. CASE C!Expire
    BY <1>2, <2>3 DEF C!Expire
  <2>4. QED
    BY <1>2, <2>1, <2>2, <2>3 DEF C!Poll
<1>3. CASE C!Taken
  BY <1>3 DEF C!Taken
<1>4. CASE UNCHANGED <<polling, due, clock, delay, answer>>
  BY <1>4
<1>5. QED
  BY <1>1, <1>2, <1>3, <1>4

\* What a step of file_contents does to the job at hand.
LEMMA ContentsPoll ==
  ASSUME C!FileContentsNext
  PROVE  C!Launch \/ C!Poll \/ C!Taken \/ UNCHANGED <<polling, due, clock, delay, answer>>
<1> USE DEF C!rivieraVars
<1>1. CASE C!ContentsSync
  <2>1. CASE C!SyncStart \/ C!ListRoot \/ C!PassOver \/ C!Yield
    BY <2>1 DEF C!SyncStart, C!ListRoot, C!PassOver, C!Yield
  <2>2. CASE C!Extract \/ C!Convert
    BY <2>2 DEF C!Extract, C!Convert
  <2>3. CASE C!NoteVersion \/ C!NextRoot \/ C!SyncRaises
    BY <2>3 DEF C!NoteVersion, C!NextRoot, C!SyncRaises, C!EndSync
  <2>4. QED
    BY <1>1, <2>1, <2>2, <2>3 DEF C!ContentsSync
<1>2. CASE C!Relist \/ C!SelectRoots \/ C!ResetState \/ \E f \in TextFiles : C!ChangeFile(f)
  BY <1>2 DEF C!Relist, C!SelectRoots, C!ResetState, C!ChangeFile
<1>3. CASE C!Stop
  BY <1>3 DEF C!Stop, C!EndSync
<1>4. QED
  BY <1>1, <1>2, <1>3 DEF C!FileContentsNext

LEMMA PollStep ==
  ASSUME PollInv, [ProgramsNext]_programVars
  PROVE  PollInv'
<1>1. CASE RunFileContents
  BY <1>1, ContentsPoll, PollKept DEF RunFileContents
<1>2. CASE ~RunFileContents /\ ProgramsNext
  BY <1>2 DEF ProgramsNext, PollInv, RunFullRefresh, RunSharingAcl, RunDestination, RunRepair,
              RunCursorScope, FULL_REFRESH, SHARING_ACL, FILE_CONTENTS, DESTINATION, REPAIR,
              CURSOR_SCOPE
<1>3. CASE UNCHANGED programVars
  BY <1>3 DEF programVars, ofFileContents, PollInv
<1>4. QED
  BY <1>1, <1>2, <1>3

LEMMA PollBegins ==
  ProgramsInit => PollInv
<1> SUFFICES ASSUME ProgramsInit, program = FILE_CONTENTS
             PROVE  PollInv
  BY DEF PollInv
<1>1. C!FileContentsInit
  BY DEF ProgramsInit, FULL_REFRESH, SHARING_ACL, FILE_CONTENTS, DESTINATION, REPAIR, CURSOR_SCOPE
<1>2. QED
  BY <1>1, ProgramsAssumption DEF C!FileContentsInit, C!RivieraInit, PollInv, C!RivieraAssumption

\* A conversion (riviera.py, extract_markdown) overruns its deadline by less than the call
\* under way, and gives up no job that ended a pause and a call before it, for every
\* deadline, longest pause and duration of calls.
THEOREM DeadlinesKept == Spec => []AnswersInTime
<1>1. PollInv => AnswersInTime
  BY DEF PollInv, AnswersInTime, C!AnswersInTime
<1>2. QED
  BY <1>1, PollBegins, PollStep, PTL DEF Spec

-----------------------------------------------------------------------------
(* The state of file_contents: the invariant.                              *)

\* A sync works on the versions of the saved state, of the same kind unless there are none.
KindsFit ==
    /\ saved.kind = "none" => saved.files = C!Nothing
    /\ phase # "idle" =>
          /\ state.kind # "none" /\ state.files = saved.files
          /\ \/ saved.kind \in {"none", state.kind}
             \/ saved.kind = "files" /\ saved.files = C!Nothing

\* Version v of file f is not one to come: f has it, or a later one, or is gone.
Seen(v, f) == version[f] = 0 \/ v <= version[f]

\* Records and listings are of versions seen; a file is on the page once, in a version that
\* the record it may get under this root is not later than.
ContentsFit ==
    /\ phase \in {"idle", "list"} => page = {}
    /\ \A r \in C!Roots, f \in TextFiles : Seen(dest[r][f].listed, f)
    /\ \A x \in page : Seen(x.version, x.id) /\ dest[C!Root][x.id].listed <= x.version
    /\ \A x, y \in page : x.id = y.id => x = y

\* The file being converted is off the page and its version not noted; the conversion reads
\* that version or a later one, or nothing when the file is gone.
ConversionFits ==
    phase \in {"extract", "yielded"} =>
        /\ \A x \in page : x.id # file.id
        /\ Seen(file.version, file.id)
        /\ dest[C!Root][file.id].listed <= file.version
        /\ saved.files[C!Root][file.id] # file.version
        /\ text = 0 \/ text >= file.version
        /\ answer = "succeeded" => text # 0
        /\ phase = "yielded" =>
              /\ answer \in {"succeeded", "failed", "timed_out"}
              /\ dest[C!Root][file.id].listed = file.version
              /\ dest[C!Root][file.id].status = answer
              /\ answer = "succeeded" => dest[C!Root][file.id].text = text

ContentsInv ==
    program = FILE_CONTENTS =>
        /\ C!FileContentsTypeOK /\ selection # {}
        /\ KindsFit /\ ContentsFit /\ ConversionFits /\ C!NotedIsExtracted

-----------------------------------------------------------------------------
(* The state of file_contents: the proof.                                  *)

LEMMA ContentsRootLeft ==
  ASSUME C!FileContentsTypeOK, left # {}
  PROVE  C!Root \in left /\ C!Root \in C!Roots
<1>1. left \subseteq C!Roots /\ C!Roots \subseteq Nat
  BY ProgramsAssumption DEF C!FileContentsTypeOK, C!FileContentsAssumption
<1>2. A!First(left) \in left
  BY <1>1, FirstIsIn
<1>3. QED
  BY <1>1, <1>2 DEF C!Root, C!First, A!First

LEMMA ContentsRootStays ==
  ASSUME left' = left
  PROVE  C!Root' = C!Root
BY DEF C!Root, C!First

\* The entry at hand is on the page.
LEMMA EntryOnPage ==
  ASSUME C!FileContentsTypeOK, page # {}
  PROVE  C!Entry \in page /\ C!Entry \in C!Listed
<1> DEFINE Ids == {x.id : x \in page}
<1>1. page \subseteq C!Listed /\ TextFiles \subseteq Nat
  BY ProgramsAssumption DEF C!FileContentsTypeOK, C!FileContentsAssumption
<1>2. Ids \subseteq Nat /\ Ids # {}
  BY <1>1 DEF C!Listed
<1>3. PICK n \in Ids : \A m \in Ids : n <= m
  BY <1>2, LeastExists
<1>4. \E x \in page : \A y \in page : x.id <= y.id
  BY <1>3
<1>5. C!Entry \in page
  BY <1>4 DEF C!Entry
<1>6. QED
  BY <1>1, <1>5

LEMMA NoFileNotListed == NoFile \notin C!Listed
BY ProgramsAssumption DEF C!FileContentsAssumption

\* A step that writes a record writes that of the file at hand.
LEMMA RecordWritten ==
  ASSUME C!FileContentsTypeOK, C!Yield
  PROVE  /\ C!Root \in C!Roots /\ file \in C!Listed
         /\ dest' \in [C!Roots -> [TextFiles -> [listed : Nat, status : C!Answers \cup {"none"},
                                                text : Nat]]]
         /\ dest'[C!Root][file.id].listed = file.version
         /\ dest'[C!Root][file.id].status = answer
         /\ answer = "succeeded" => dest'[C!Root][file.id].text = text
         /\ \A r \in C!Roots, f \in TextFiles :
                <<r, f>> # <<C!Root, file.id>> => dest'[r][f] = dest[r][f]
<1> DEFINE new == [listed |-> file.version, status |-> answer,
                   text |-> IF answer = "succeeded" THEN text ELSE 0]
<1> DEFINE Rows == [listed : Nat, status : C!Answers \cup {"none"}, text : Nat]
<1>1. C!Root \in C!Roots /\ file \in C!Listed /\ file.id \in TextFiles
  BY ContentsRootLeft DEF C!Yield, C!FileContentsTypeOK, C!Listed
<1>2. new \in Rows
  BY <1>1 DEF C!Yield, C!FileContentsTypeOK, C!Listed, C!RivieraTypeOK
<1>3. dest' = [dest EXCEPT ![C!Root][file.id] = new]
  BY DEF C!Yield
<1>4. dest \in [C!Roots -> [TextFiles -> Rows]]
  BY DEF C!FileContentsTypeOK
<1>5. new.listed = file.version /\ new.status = answer /\ (answer = "succeeded" => new.text = text)
  OBVIOUS
<1> HIDE DEF new, Rows
<1>6. dest' = [dest EXCEPT ![C!Root] = [dest[C!Root] EXCEPT ![file.id] = new]]
  BY <1>1, <1>3, <1>4
<1>7. /\ dest' \in [C!Roots -> [TextFiles -> Rows]]
      /\ dest'[C!Root][file.id] = new
      /\ \A r \in C!Roots, f \in TextFiles :
             <<r, f>> # <<C!Root, file.id>> => dest'[r][f] = dest[r][f]
  BY <1>1, <1>2, <1>4, <1>6
<1>8. QED
  BY <1>1, <1>5, <1>7 DEF Rows

\* The version that is noted is that of the file at hand.
LEMMA VersionWritten ==
  ASSUME C!FileContentsTypeOK, C!NoteVersion
  PROVE  /\ C!Root \in C!Roots /\ file \in C!Listed
         /\ saved' = state' /\ state'.kind = state.kind /\ state' \in C!StateDocs
         /\ \A r \in C!Roots, f \in TextFiles :
                state'.files[r][f] = IF C!Noted /\ r = C!Root /\ f = file.id
                                       THEN file.version ELSE state.files[r][f]
<1>1. C!Root \in C!Roots /\ file \in C!Listed /\ file.id \in TextFiles /\ file.version \in Nat
  BY ContentsRootLeft DEF C!NoteVersion, C!FileContentsTypeOK, C!Listed
<1>2. state \in C!StateDocs /\ saved' = state'
  BY DEF C!NoteVersion, C!FileContentsTypeOK
<1>3. CASE ~C!Noted
  BY <1>1, <1>2, <1>3 DEF C!NoteVersion
<1>4. CASE C!Noted
  <2> DEFINE noted == [state.files EXCEPT ![C!Root][file.id] = file.version]
  <2>1. state' = [kind |-> state.kind, files |-> noted]
    BY <1>4 DEF C!NoteVersion
  <2>2. state.files \in [C!Roots -> [TextFiles -> Nat]]
        /\ state.kind \in {"none", "files", "namespaces"}
    BY <1>2 DEF C!StateDocs
  <2>3. noted = [state.files EXCEPT ![C!Root] = [state.files[C!Root] EXCEPT ![file.id] = file.version]]
    BY <1>1, <2>2
  <2>4. state'.kind = state.kind /\ state'.files = noted
    BY <2>1
  <2> HIDE DEF noted
  <2>5. /\ noted \in [C!Roots -> [TextFiles -> Nat]]
        /\ \A r \in C!Roots, f \in TextFiles :
               noted[r][f] = IF r = C!Root /\ f = file.id THEN file.version ELSE state.files[r][f]
    BY <1>1, <2>2, <2>3
  <2>6. state' \in C!StateDocs
    BY <2>1, <2>2, <2>5 DEF C!StateDocs
  <2>7. QED
    BY <1>1, <1>2, <1>4, <2>4, <2>5, <2>6
<1>5. QED
  BY <1>3, <1>4

\* A file is gone for good, or moves on.
LEMMA VersionMoves ==
  ASSUME C!FileContentsTypeOK, NEW f \in TextFiles, C!ChangeFile(f)
  PROVE  /\ version' \in [TextFiles -> Nat]
         /\ \A g \in TextFiles : g # f => version'[g] = version[g]
         /\ version[f] # 0 /\ (version'[f] = 0 \/ version'[f] = version[f] + 1)
BY DEF C!FileContentsTypeOK, C!ChangeFile

LEMMA RivieraTypeKept ==
  ASSUME C!RivieraTypeOK,
         C!Launch \/ C!Poll \/ C!Taken \/ UNCHANGED <<polling, due, clock, delay, answer>>
  PROVE  C!RivieraTypeOK'
<1> USE ProgramsAssumption DEF C!RivieraTypeOK, C!RivieraAssumption, C!Answers, C!Normalized, C!Least
<1>1. CASE C!Launch
  BY <1>1 DEF C!Launch
<1>2. CASE C!Check
  BY <1>2 DEF C!Check
<1>3. CASE C!Pause
  BY <1>3 DEF C!Pause
<1>4. CASE C!Expire
  BY <1>4 DEF C!Expire
<1>5. CASE C!Taken
  BY <1>5 DEF C!Taken
<1>6. CASE UNCHANGED <<polling, due, clock, delay, answer>>
  BY <1>6
<1>7. QED
  BY <1>1, <1>2, <1>3, <1>4, <1>5, <1>6 DEF C!Poll

LEMMA ContentsEnds ==
  ASSUME C!FileContentsTypeOK, C!EndSync,
         UNCHANGED <<version, small, selection, saved, dest>>, spent' \in 0 .. Budget
  PROVE  C!FileContentsTypeOK'
<1>1. C!RivieraTypeOK'
  BY RivieraTypeKept DEF C!EndSync, C!FileContentsTypeOK
<1>2. C!NoState \in C!StateDocs
  BY DEF C!NoState, C!StateDocs, C!Nothing
<1>3. QED
  BY <1>1, <1>2 DEF C!EndSync, C!FileContentsTypeOK

LEMMA ContentsTypeKept ==
  ASSUME C!FileContentsTypeOK, selection # {}, C!FileContentsNext
  PROVE  C!FileContentsTypeOK' /\ selection' # {}
<1> USE DEF C!dropbox, C!platform
<1>1. C!RivieraTypeOK'
  BY ContentsPoll, RivieraTypeKept DEF C!FileContentsTypeOK
<1>2. ASSUME C!Disturb PROVE spent' \in 0 .. Budget
  BY <1>2, ProgramsAssumption DEF C!Disturb, C!FileContentsTypeOK, C!FileContentsAssumption
<1>3. C!NoState \in C!StateDocs
  BY DEF C!NoState, C!StateDocs, C!Nothing
<1>4. ASSUME NEW r \in C!Roots PROVE C!Listing(r) \subseteq C!Listed
  BY <1>4, ProgramsAssumption
     DEF C!Listing, C!FileVersion, C!Listed, C!FileContentsTypeOK, C!FileContentsAssumption
<1>5. CASE C!SyncStart
  <2>1. C!ValidState \in C!StateDocs
    BY DEF C!ValidState, C!Mode, C!StateDocs, C!Nothing, C!FileContentsTypeOK
  <2>2. QED
    BY <1>1, <1>5, <2>1 DEF C!SyncStart, C!FileContentsTypeOK
<1>6. CASE C!ListRoot \/ C!Relist
  <2>1. C!Root \in C!Roots
    BY <1>6, ContentsRootLeft DEF C!ListRoot, C!Relist, C!FileContentsTypeOK
  <2>2. page' \subseteq C!Listed
    BY <1>4, <1>6, <2>1 DEF C!ListRoot, C!Relist
  <2>3. spent' \in 0 .. Budget
    BY <1>2, <1>6 DEF C!ListRoot, C!Relist, C!FileContentsTypeOK
  <2>4. QED
    BY <1>1, <1>6, <2>2, <2>3 DEF C!ListRoot, C!Relist, C!FileContentsTypeOK
<1>7. CASE C!PassOver
  BY <1>1, <1>7 DEF C!PassOver, C!FileContentsTypeOK
<1>8. CASE C!Extract
  <2>1. C!Entry \in C!Listed /\ C!Entry # NoFile
    BY <1>8, EntryOnPage, NoFileNotListed DEF C!Extract
  <2>2. version[C!Entry.id] \in Nat
    BY <2>1 DEF C!Listed, C!FileContentsTypeOK
  <2>3. spent' \in 0 .. Budget
    BY <1>2, <1>8 DEF C!Extract, C!FileContentsTypeOK
  <2>4. QED
    BY <1>1, <1>8, <2>1, <2>2, <2>3 DEF C!Extract, C!FileContentsTypeOK
<1>9. CASE C!Convert
  <2>1. spent' \in 0 .. Budget
    BY <1>2, <1>9 DEF C!Convert, C!FileContentsTypeOK
  <2>2. QED
    BY <1>1, <1>9, <2>1 DEF C!Convert, C!FileContentsTypeOK
<1>10. CASE C!Yield
  <2>1. dest' \in [C!Roots -> [TextFiles -> [listed : Nat, status : C!Answers \cup {"none"},
                                           text : Nat]]]
    BY <1>10, RecordWritten
  <2>2. QED
    BY <1>1, <1>10, <2>1 DEF C!Yield, C!FileContentsTypeOK
<1>11. CASE C!NoteVersion
  <2>1. saved' \in C!StateDocs /\ state' \in C!StateDocs
    BY <1>11, VersionWritten
  <2>2. QED
    BY <1>1, <1>11, <2>1 DEF C!NoteVersion, C!FileContentsTypeOK
<1>12. CASE C!NextRoot
  <2>1. CASE left # {C!Root}
    <3>1. C!Root \in left
      BY <1>12, ContentsRootLeft DEF C!NextRoot, C!FileContentsTypeOK
    <3>2. left \ {C!Root} # {}
      BY <2>1, <3>1
    <3>3. QED
      BY <1>1, <1>12, <2>1, <3>2 DEF C!NextRoot, C!FileContentsTypeOK
  <2>2. CASE left = {C!Root}
    BY <1>12, <2>2, ContentsEnds DEF C!NextRoot, C!FileContentsTypeOK
  <2>3. QED
    BY <2>1, <2>2
<1>13. CASE C!SyncRaises
  BY <1>13, ContentsEnds DEF C!SyncRaises, C!FileContentsTypeOK
<1>14. CASE C!Stop
  BY <1>2, <1>14, ContentsEnds DEF C!Stop, C!FileContentsTypeOK
<1>15. CASE C!SelectRoots
  <2>1. selection' \subseteq C!Roots /\ selection' # {}
    BY <1>15 DEF C!SelectRoots, C!Roots
  <2>2. left' = {} /\ phase' = "idle"
    BY <1>15 DEF C!SelectRoots, C!FileContentsTypeOK
  <2>3. spent' \in 0 .. Budget
    BY <1>2, <1>15 DEF C!SelectRoots
  <2>4. QED
    BY <1>1, <1>15, <2>1, <2>2, <2>3 DEF C!SelectRoots, C!FileContentsTypeOK
<1>16. CASE C!ResetState
  BY <1>1, <1>3, <1>16 DEF C!ResetState, C!FileContentsTypeOK
<1>17. CASE \E f \in TextFiles : C!ChangeFile(f)
  <2>1. PICK f \in TextFiles : C!ChangeFile(f)
    BY <1>17
  <2>2. version' \in [TextFiles -> Nat] /\ spent' \in 0 .. Budget
    BY <1>2, <2>1, VersionMoves DEF C!ChangeFile
  <2>3. text' \in Nat /\ small' \subseteq TextFiles
    <3>1. text' \in {text, version'[f]}
      BY <2>1 DEF C!ChangeFile
    <3>2. QED
      BY <2>1, <2>2, <3>1 DEF C!ChangeFile, C!FileContentsTypeOK
  <2>4. QED
    BY <1>1, <2>1, <2>2, <2>3 DEF C!ChangeFile, C!FileContentsTypeOK
<1>18. QED
  BY <1>5, <1>6, <1>7, <1>8, <1>9, <1>10, <1>11, <1>12, <1>13, <1>14, <1>15, <1>16, <1>17
     DEF C!FileContentsNext, C!ContentsSync

LEMMA KindsFitKept ==
  ASSUME C!FileContentsTypeOK, KindsFit, C!FileContentsNext
  PROVE  KindsFit'
<1> USE DEF C!dropbox, C!platform
<1>1. CASE C!SyncStart
  <2>1. /\ state' = C!ValidState /\ saved' = saved /\ phase' = "list" /\ ~C!Refused
        /\ C!Mode \in {"files", "namespaces"}
    BY <1>1 DEF C!SyncStart, C!Mode
  <2>2. saved.kind \in {"none", "files", "namespaces"}
    BY DEF C!FileContentsTypeOK, C!StateDocs
  <2>3. CASE saved.kind \in {C!Mode, "namespaces"}
    BY <2>1, <2>3 DEF C!ValidState, KindsFit
  <2>4. CASE saved.kind \notin {C!Mode, "namespaces"}
    <3>1. state'.kind = C!Mode /\ state'.files = C!Nothing
      BY <2>1, <2>4 DEF C!ValidState
    <3>2. saved.files = C!Nothing /\ saved.kind \in {"none", "files"}
      BY <2>1, <2>2, <2>4 DEF C!Refused, C!HasVersions, KindsFit
    <3>3. C!Nothing' = C!Nothing
      BY DEF C!Nothing
    <3>4. QED
      BY <2>1, <3>1, <3>2, <3>3 DEF KindsFit
  <2>5. QED
    BY <2>3, <2>4
<1>2. CASE C!NoteVersion
  <2>1. saved' = state' /\ state'.kind = state.kind /\ phase = "yielded"
    BY <1>2, VersionWritten DEF C!NoteVersion
  <2>2. QED
    BY <2>1 DEF KindsFit
<1>3. CASE C!ResetState
  BY <1>3 DEF C!ResetState, KindsFit, C!NoState
<1>4. CASE \/ C!ListRoot \/ C!Relist \/ C!PassOver \/ C!Extract \/ C!Convert \/ C!Yield
           \/ C!SelectRoots \/ (\E f \in TextFiles : C!ChangeFile(f))
           \/ (C!NextRoot /\ left # {C!Root})
  <2>1. UNCHANGED <<saved, state>> /\ (phase = "idle" => phase' = "idle")
    BY <1>4 DEF C!ListRoot, C!Relist, C!PassOver, C!Extract, C!Convert, C!Yield, C!SelectRoots,
                C!ChangeFile, C!NextRoot
  <2>2. QED
    BY <2>1 DEF KindsFit, C!Nothing
<1>5. CASE (C!NextRoot /\ left = {C!Root}) \/ C!SyncRaises \/ C!Stop
  <2>1. saved' = saved /\ phase' = "idle"
    BY <1>5 DEF C!NextRoot, C!SyncRaises, C!Stop, C!EndSync
  <2>2. QED
    BY <2>1 DEF KindsFit, C!Nothing
<1>6. QED
  BY <1>1, <1>2, <1>3, <1>4, <1>5 DEF C!FileContentsNext, C!ContentsSync

LEMMA ContentsFitKept ==
  ASSUME C!FileContentsTypeOK, ContentsFit, ConversionFits, C!FileContentsNext
  PROVE  ContentsFit'
<1> USE DEF C!dropbox, C!platform
<1>1. CASE C!ListRoot \/ C!Relist
  <2>1. /\ page' = C!Listing(C!Root) /\ UNCHANGED <<version, dest>> /\ C!Root' = C!Root
        /\ C!Root \in C!Roots /\ phase' = "page"
    BY <1>1, ContentsRootLeft, ContentsRootStays DEF C!ListRoot, C!Relist, C!FileContentsTypeOK
  <2>2. ASSUME NEW x \in page'
        PROVE  /\ x.id \in TextFiles /\ x.version = version[x.id] /\ version[x.id] # 0
               /\ x = C!FileVersion(x.id)
    BY <2>1, ProgramsAssumption
       DEF C!Listing, C!FileVersion, C!FileContentsTypeOK, C!FileContentsAssumption
  <2>3. ASSUME NEW x \in page'
        PROVE  Seen(x.version, x.id)' /\ dest'[C!Root'][x.id].listed <= x.version
    <3>1. version[x.id] \in Nat
      BY <2>2 DEF C!FileContentsTypeOK
    <3>2. QED
      BY <2>1, <2>2, <3>1 DEF ContentsFit, Seen
  <2>4. \A x, y \in page' : x.id = y.id => x = y
    BY <2>2
  <2>5. QED
    BY <2>1, <2>3, <2>4 DEF ContentsFit, Seen
<1>2. CASE C!PassOver \/ C!Extract \/ C!Convert \/ C!NoteVersion
  <2>1. /\ page' \subseteq page /\ UNCHANGED <<version, dest>> /\ C!Root' = C!Root
        /\ phase' \notin {"idle", "list"}
    BY <1>2, ContentsRootStays DEF C!PassOver, C!Extract, C!Convert, C!NoteVersion
  <2>2. QED
    BY <2>1 DEF ContentsFit, Seen
<1>3. CASE C!Yield
  <2>1. /\ UNCHANGED <<page, version>> /\ C!Root' = C!Root /\ phase' = "yielded"
        /\ phase = "extract"
    BY <1>3, ContentsRootStays DEF C!Yield
  <2>2. /\ C!Root \in C!Roots /\ file \in C!Listed
        /\ dest'[C!Root][file.id].listed = file.version
        /\ \A r \in C!Roots, f \in TextFiles :
               <<r, f>> # <<C!Root, file.id>> => dest'[r][f] = dest[r][f]
    BY <1>3, RecordWritten
  <2>3. /\ \A x \in page : x.id # file.id /\ x.id \in TextFiles
        /\ Seen(file.version, file.id)
    BY <2>1 DEF ConversionFits, C!FileContentsTypeOK, C!Listed
  <2>4. ASSUME NEW x \in page PROVE dest'[C!Root][x.id] = dest[C!Root][x.id]
    BY <2>2, <2>3
  <2>5. ASSUME NEW r \in C!Roots, NEW f \in TextFiles PROVE Seen(dest[r][f].listed, f)'
    <3>1. CASE <<r, f>> = <<C!Root, file.id>>
      BY <2>1, <2>2, <2>3, <3>1 DEF Seen
    <3>2. CASE <<r, f>> # <<C!Root, file.id>>
      BY <2>1, <2>2, <3>2 DEF Seen, ContentsFit
    <3>3. QED
      BY <3>1, <3>2
  <2>6. QED
    BY <2>1, <2>4, <2>5 DEF ContentsFit, Seen
<1>4. CASE \/ C!SyncStart \/ C!NextRoot \/ C!SyncRaises \/ C!Stop \/ C!SelectRoots
           \/ C!ResetState
  <2>1. page' = {} /\ UNCHANGED <<version, dest>>
    BY <1>4 DEF C!SyncStart, C!NextRoot, C!SyncRaises, C!Stop, C!SelectRoots, C!ResetState,
                C!EndSync, ContentsFit
  <2>2. QED
    BY <2>1 DEF ContentsFit, Seen
<1>5. CASE \E f \in TextFiles : C!ChangeFile(f)
  <2>1. PICK f \in TextFiles : C!ChangeFile(f)
    BY <1>5
  <2>2. UNCHANGED <<page, dest, phase>> /\ C!Root' = C!Root
    BY <2>1, ContentsRootStays DEF C!ChangeFile
  <2>3. ASSUME NEW g \in TextFiles
        PROVE  \A v \in Nat : version[g] = 0 \/ v <= version[g] => version'[g] = 0 \/ v <= version'[g]
    <3>1. version[g] \in Nat
      BY DEF C!FileContentsTypeOK
    <3>2. QED
      BY <2>1, <3>1, VersionMoves
  <2>4. ASSUME NEW x \in page PROVE Seen(x.version, x.id)'
    <3>1. x.id \in TextFiles /\ x.version \in Nat
      BY DEF C!FileContentsTypeOK, C!Listed
    <3>2. QED
      BY <2>3, <3>1 DEF ContentsFit, Seen
  <2>5. ASSUME NEW r \in C!Roots, NEW g \in TextFiles PROVE Seen(dest[r][g].listed, g)'
    <3>1. dest[r][g].listed \in Nat
      BY DEF C!FileContentsTypeOK
    <3>2. QED
      BY <2>2, <2>3, <3>1 DEF ContentsFit, Seen
  <2>6. QED
    BY <2>2, <2>4, <2>5 DEF ContentsFit
<1>6. QED
  BY <1>1, <1>2, <1>3, <1>4, <1>5 DEF C!FileContentsNext, C!ContentsSync

LEMMA ConversionFitsKept ==
  ASSUME C!FileContentsTypeOK, KindsFit, ContentsFit, ConversionFits, C!FileContentsNext
  PROVE  ConversionFits'
<1> USE DEF C!dropbox, C!platform
<1>1. CASE C!Extract
  <2>1. /\ C!Entry \in page /\ C!Entry \in C!Listed /\ C!Root' = C!Root
        /\ file' = C!Entry /\ page' = page \ {C!Entry} /\ text' = version[C!Entry.id]
        /\ phase = "page" /\ phase' = "extract" /\ answer' = "none"
        /\ state.files[C!Root][C!Entry.id] # C!Entry.version
        /\ UNCHANGED <<version, dest, saved>>
    BY <1>1, EntryOnPage, ContentsRootStays DEF C!Extract, C!Unchanged, C!Launch
  <2>2. \A x \in page' : x.id # C!Entry.id
    BY <2>1 DEF ContentsFit
  <2>3. saved.files[C!Root][C!Entry.id] # C!Entry.version
    BY <2>1 DEF KindsFit
  <2>4. Seen(C!Entry.version, C!Entry.id) /\ dest[C!Root][C!Entry.id].listed <= C!Entry.version
    BY <2>1 DEF ContentsFit
  <2>5. version[C!Entry.id] = 0 \/ version[C!Entry.id] >= C!Entry.version
    <3>1. version[C!Entry.id] \in Nat /\ C!Entry.version \in Nat
      BY <2>1 DEF C!FileContentsTypeOK, C!Listed
    <3>2. QED
      BY <2>4, <3>1 DEF Seen
  <2>6. Seen(file.version, file.id)'
    BY <2>1, <2>4 DEF Seen
  <2>7. QED
    BY <2>1, <2>2, <2>3, <2>4, <2>5, <2>6 DEF ConversionFits
<1>2. CASE C!Convert
  <2>1. /\ phase = "extract" /\ phase' = "extract" /\ C!Root' = C!Root
        /\ answer' = "succeeded" => text # 0
        /\ UNCHANGED <<version, dest, saved, page, file, text>>
    BY <1>2, ContentsRootStays DEF C!Convert
  <2>2. QED
    BY <2>1 DEF ConversionFits, Seen
<1>3. CASE C!Yield
  <2>1. /\ phase = "extract" /\ phase' = "yielded" /\ C!Root' = C!Root
        /\ answer \in {"succeeded", "failed", "timed_out"}
        /\ UNCHANGED <<version, saved, page, file, text, answer>>
    BY <1>3, ContentsRootStays DEF C!Yield, C!rivieraVars
  <2>2. /\ file \in C!Listed /\ dest'[C!Root][file.id].listed = file.version
        /\ dest'[C!Root][file.id].status = answer
        /\ answer = "succeeded" => dest'[C!Root][file.id].text = text
    BY <1>3, RecordWritten
  <2>3. file.version <= file.version
    BY <2>2 DEF C!Listed
  <2>4. QED
    BY <2>1, <2>2, <2>3 DEF ConversionFits, Seen
<1>4. CASE \/ C!SyncStart \/ C!ListRoot \/ C!Relist \/ C!PassOver \/ C!NoteVersion \/ C!NextRoot
           \/ C!SyncRaises \/ C!Stop \/ C!SelectRoots \/ C!ResetState
  <2>1. phase' \notin {"extract", "yielded"}
    BY <1>4 DEF C!SyncStart, C!ListRoot, C!Relist, C!PassOver, C!NoteVersion, C!NextRoot,
                C!SyncRaises, C!Stop, C!SelectRoots, C!ResetState, C!EndSync
  <2>2. QED
    BY <2>1 DEF ConversionFits
<1>5. CASE \E f \in TextFiles : C!ChangeFile(f)
  <2>1. PICK f \in TextFiles : C!ChangeFile(f)
    BY <1>5
  <2>2. UNCHANGED <<page, dest, saved, file, phase, answer>> /\ C!Root' = C!Root
    BY <2>1, ContentsRootStays DEF C!ChangeFile, C!rivieraVars
  <2>3. SUFFICES ASSUME phase \in {"extract", "yielded"}
                 PROVE  /\ Seen(file.version, file.id)'
                        /\ text' = 0 \/ text' >= file.version
                        /\ answer = "succeeded" => text' = text
                        /\ phase = "yielded" => text' = text
    BY <2>2 DEF ConversionFits
  <2>4. /\ file.id \in TextFiles /\ file.version \in Nat
        /\ version[file.id] \in Nat /\ version'[file.id] \in Nat /\ text \in Nat
    BY <2>1, <2>3, VersionMoves DEF C!FileContentsTypeOK, C!Listed
  <2>5. /\ Seen(file.version, file.id) /\ (text = 0 \/ text >= file.version)
        /\ (answer = "succeeded" => text # 0)
    BY <2>3 DEF ConversionFits
  <2>6. Seen(file.version, file.id)'
    BY <2>1, <2>2, <2>4, <2>5, VersionMoves DEF Seen
  <2>7. \/ text' = text
        \/ /\ phase = "extract" /\ answer = "none" /\ file.id = f
           /\ text' = version'[f] /\ version'[f] # 0
    BY <2>1 DEF C!ChangeFile
  <2>8. text' = 0 \/ text' >= file.version
    BY <2>2, <2>4, <2>5, <2>6, <2>7 DEF Seen
  <2>9. QED
    BY <2>5, <2>6, <2>7, <2>8
<1>6. QED
  BY <1>1, <1>2, <1>3, <1>4, <1>5 DEF C!FileContentsNext, C!ContentsSync

LEMMA NotedKept ==
  ASSUME C!FileContentsTypeOK, KindsFit, ConversionFits, C!NotedIsExtracted, C!FileContentsNext
  PROVE  C!NotedIsExtracted'
<1> USE DEF C!dropbox, C!platform
<1>1. CASE C!Yield
  <2>1. /\ C!Root \in C!Roots /\ file \in C!Listed
        /\ dest'[C!Root][file.id].listed = file.version
        /\ \A r \in C!Roots, f \in TextFiles :
               <<r, f>> # <<C!Root, file.id>> => dest'[r][f] = dest[r][f]
    BY <1>1, RecordWritten
  <2>2. /\ saved' = saved /\ dest[C!Root][file.id].listed <= file.version
        /\ saved.files[C!Root][file.id] # file.version
    BY <1>1 DEF C!Yield, ConversionFits
  <2>3. /\ file.id \in TextFiles /\ file.version \in Nat
        /\ dest[C!Root][file.id].listed \in Nat /\ saved.files[C!Root][file.id] \in Nat
    BY <2>1 DEF C!Listed, C!FileContentsTypeOK, C!StateDocs
  <2>4. saved.files[C!Root][file.id] # 0 => dest[C!Root][file.id].listed >= saved.files[C!Root][file.id]
    BY <2>1, <2>3 DEF C!NotedIsExtracted
  <2>5. saved.files[C!Root][file.id] # 0 => file.version > saved.files[C!Root][file.id]
    BY <2>2, <2>3, <2>4
  <2>6. ASSUME NEW r \in C!Roots, NEW f \in TextFiles, saved.files[r][f] # 0
        PROVE  /\ dest'[r][f].listed >= saved.files[r][f]
               /\ dest'[r][f].listed = saved.files[r][f] =>
                     \/ dest'[r][f].status = "succeeded" /\ dest'[r][f].text >= saved.files[r][f]
                     \/ dest'[r][f].status = "failed"
    <3>1. CASE <<r, f>> = <<C!Root, file.id>>
      BY <2>1, <2>3, <2>5, <2>6, <3>1
    <3>2. CASE <<r, f>> # <<C!Root, file.id>>
      BY <2>1, <2>6, <3>2 DEF C!NotedIsExtracted
    <3>3. QED
      BY <3>1, <3>2
  <2>7. QED
    BY <2>2, <2>6 DEF C!NotedIsExtracted
<1>2. CASE C!NoteVersion
  <2>1. /\ C!Root \in C!Roots /\ file \in C!Listed /\ saved' = state'
        /\ \A r \in C!Roots, f \in TextFiles :
               state'.files[r][f] = IF C!Noted /\ r = C!Root /\ f = file.id
                                      THEN file.version ELSE state.files[r][f]
    BY <1>2, VersionWritten
  <2>2. state.files = saved.files /\ dest' = dest /\ phase = "yielded"
    BY <1>2 DEF C!NoteVersion, KindsFit
  <2>3. /\ dest[C!Root][file.id].listed = file.version
        /\ dest[C!Root][file.id].status = answer
        /\ answer = "succeeded" => dest[C!Root][file.id].text >= file.version
    <3>1. text \in Nat /\ file.version \in Nat
      BY <2>1 DEF C!FileContentsTypeOK, C!Listed
    <3>2. QED
      BY <2>2, <3>1 DEF ConversionFits
  <2>4. file.version \in Nat
    BY <2>1 DEF C!Listed
  <2>5. ASSUME NEW r \in C!Roots, NEW f \in TextFiles, saved'.files[r][f] # 0
        PROVE  /\ dest[r][f].listed >= saved'.files[r][f]
               /\ dest[r][f].listed = saved'.files[r][f] =>
                     \/ dest[r][f].status = "succeeded" /\ dest[r][f].text >= saved'.files[r][f]
                     \/ dest[r][f].status = "failed"
    <3>1. CASE C!Noted /\ r = C!Root /\ f = file.id
      <4>1. saved'.files[r][f] = file.version /\ answer \in {"succeeded", "failed"}
        BY <2>1, <3>1 DEF C!Noted
      <4>2. QED
        BY <2>3, <2>4, <3>1, <4>1
    <3>2. CASE ~(C!Noted /\ r = C!Root /\ f = file.id)
      <4>1. saved'.files[r][f] = saved.files[r][f]
        BY <2>1, <2>2, <3>2
      <4>2. QED
        BY <2>5, <4>1 DEF C!NotedIsExtracted
    <3>3. QED
      BY <3>1, <3>2
  <2>6. QED
    BY <2>2, <2>5 DEF C!NotedIsExtracted
<1>3. CASE C!ResetState
  BY <1>3 DEF C!ResetState, C!NotedIsExtracted, C!NoState, C!Nothing
<1>4. CASE \/ C!SyncStart \/ C!ListRoot \/ C!Relist \/ C!PassOver \/ C!Extract \/ C!Convert
           \/ C!NextRoot \/ C!SyncRaises \/ C!Stop \/ C!SelectRoots
           \/ \E f \in TextFiles : C!ChangeFile(f)
  <2>1. UNCHANGED <<saved, dest>>
    BY <1>4 DEF C!SyncStart, C!ListRoot, C!Relist, C!PassOver, C!Extract, C!Convert, C!NextRoot,
                C!SyncRaises, C!Stop, C!SelectRoots, C!ChangeFile
  <2>2. QED
    BY <2>1 DEF C!NotedIsExtracted
<1>5. QED
  BY <1>1, <1>2, <1>3, <1>4 DEF C!FileContentsNext, C!ContentsSync

LEMMA ContentsBegins == ProgramsInit => ContentsInv
<1>1. SUFFICES ASSUME ProgramsInit, program = FILE_CONTENTS PROVE ContentsInv
  BY DEF ContentsInv
<1>2. C!FileContentsInit
  BY <1>1 DEF ProgramsInit, FULL_REFRESH, SHARING_ACL, FILE_CONTENTS, DESTINATION, REPAIR,
              CURSOR_SCOPE
<1>3. /\ saved = C!NoState /\ state = C!NoState /\ phase = "idle" /\ left = {} /\ page = {}
      /\ recovered = FALSE /\ file = NoFile /\ text = 0 /\ small = TextFiles
      /\ version = [f \in TextFiles |-> 1]
      /\ dest = [r \in C!Roots |-> [f \in TextFiles |-> C!NoRecord]]
  BY <1>2 DEF C!FileContentsInit
<1>4. C!FileContentsTypeOK
  <2>1. C!RivieraTypeOK
    BY <1>2, ProgramsAssumption
       DEF C!FileContentsInit, C!RivieraInit, C!RivieraTypeOK, C!RivieraAssumption
  <2>2. C!NoState \in C!StateDocs
    BY DEF C!NoState, C!StateDocs, C!Nothing
  <2>3. C!NoRecord \in [listed : Nat, status : C!Answers \cup {"none"}, text : Nat]
    BY DEF C!NoRecord
  <2>4. selection \subseteq C!Roots /\ spent \in 0 .. Budget
    BY <1>2, ProgramsAssumption DEF C!FileContentsInit, C!Roots, C!FileContentsAssumption
  <2>5. QED
    BY <1>3, <2>1, <2>2, <2>3, <2>4 DEF C!FileContentsTypeOK
<1>5. selection # {}
  BY <1>2 DEF C!FileContentsInit
<1>6. KindsFit /\ ConversionFits
  BY <1>3 DEF KindsFit, ConversionFits, C!NoState
<1>7. ContentsFit
  BY <1>3 DEF ContentsFit, Seen, C!NoRecord
<1>8. C!NotedIsExtracted
  BY <1>3 DEF C!NotedIsExtracted, C!NoState, C!Nothing
<1>9. QED
  BY <1>4, <1>5, <1>6, <1>7, <1>8 DEF ContentsInv

LEMMA ContentsStep ==
  ASSUME ContentsInv, [ProgramsNext]_programVars
  PROVE  ContentsInv'
<1>1. CASE RunFileContents
  <2>1. program = FILE_CONTENTS /\ C!FileContentsNext
    BY <1>1 DEF RunFileContents
  <2>2. QED
    BY <2>1, ContentsTypeKept, KindsFitKept, ContentsFitKept, ConversionFitsKept, NotedKept
       DEF ContentsInv
<1>2. CASE ~RunFileContents /\ ProgramsNext
  BY <1>2 DEF ProgramsNext, ContentsInv, RunFullRefresh, RunSharingAcl, RunDestination, RunRepair,
              RunCursorScope, FULL_REFRESH, SHARING_ACL, FILE_CONTENTS, DESTINATION, REPAIR,
              CURSOR_SCOPE
<1>3. CASE UNCHANGED programVars
  <2>1. UNCHANGED <<program, version, small, selection, saved, dest, phase, state, left, recovered,
                    page, file, text, spent, polling, due, clock, delay, answer>>
    BY <1>3 DEF programVars, walks, ofFileContents
  <2>2. C!Root' = C!Root
    BY <2>1, ContentsRootStays
  <2>3. C!RivieraTypeOK => C!RivieraTypeOK'
    BY <2>1 DEF C!RivieraTypeOK
  <2>4. C!FileContentsTypeOK => C!FileContentsTypeOK'
    BY <2>1, <2>3 DEF C!FileContentsTypeOK
  <2>5. (KindsFit => KindsFit') /\ (C!NotedIsExtracted => C!NotedIsExtracted')
    BY <2>1 DEF KindsFit, C!Nothing, C!NotedIsExtracted
  <2>6. (ContentsFit => ContentsFit') /\ (ConversionFits => ConversionFits')
    BY <2>1, <2>2 DEF ContentsFit, ConversionFits, Seen
  <2>7. QED
    BY <2>1, <2>4, <2>5, <2>6 DEF ContentsInv
<1>4. QED
  BY <1>1, <1>2, <1>3

-----------------------------------------------------------------------------
(* The state of file_contents: the theorems.                               *)

\* Whatever was edited, deleted, given up, stopped or reset in between, a version in the
\* saved state has its record at the destination, final, or a later one there: the version
\* is noted after the record is yielded, under the root it was listed under.
THEOREM NotedHasItsRecord == Spec => []NotedIsExtracted
<1>1. ContentsInv => NotedIsExtracted
  BY DEF ContentsInv, NotedIsExtracted
<1>2. QED
  BY <1>1, ContentsBegins, ContentsStep, PTL DEF Spec

\* What a listing does not find in the state is converted, and the record it replaces is
\* of no later version.
LEMMA WritesWhatIsNotNoted ==
  ASSUME C!FileContentsTypeOK, ConversionFits, C!FileContentsNext
  PROVE  C!ExtractsOnce
<1> USE DEF C!dropbox, C!platform
<1>1. CASE C!Yield
  <2>1. /\ dest'[C!Root][file.id].listed = file.version
        /\ \A r \in C!Roots, f \in TextFiles :
               <<r, f>> # <<C!Root, file.id>> => dest'[r][f] = dest[r][f]
    BY <1>1, RecordWritten
  <2>2. /\ dest[C!Root][file.id].listed <= file.version
        /\ saved.files[C!Root][file.id] # file.version
    BY <1>1 DEF C!Yield, ConversionFits
  <2>3. ASSUME NEW r \in C!Roots, NEW f \in TextFiles, dest'[r][f] # dest[r][f]
        PROVE  /\ dest'[r][f].listed # saved.files[r][f]
               /\ dest'[r][f].listed >= dest[r][f].listed
    <3>1. r = C!Root /\ f = file.id
      BY <2>1, <2>3
    <3>2. QED
      BY <2>1, <2>2, <3>1
  <2>4. QED
    BY <2>3 DEF C!ExtractsOnce
<1>2. CASE ~C!Yield
  <2>1. dest' = dest
    BY <1>2 DEF C!FileContentsNext, C!ContentsSync, C!SyncStart, C!ListRoot, C!Relist, C!PassOver,
                C!Extract, C!Convert, C!NoteVersion, C!NextRoot, C!SyncRaises, C!Stop,
                C!SelectRoots, C!ResetState, C!ChangeFile
  <2>2. QED
    BY <2>1 DEF C!ExtractsOnce
<1>3. QED
  BY <1>1, <1>2

\* However syncs are stopped and listings begun afresh, no record is written for a version
\* that the state has under that root, and none replaces one of a later version.
THEOREM ExtractedOnce == Spec => NothingExtractedTwice
<1>1. ASSUME ContentsInv, [ProgramsNext]_programVars
      PROVE  [program = FILE_CONTENTS => C!ExtractsOnce]_programVars
  <2>1. CASE RunFileContents
    BY <1>1, <2>1, WritesWhatIsNotNoted DEF ContentsInv, RunFileContents
  <2>2. CASE ~RunFileContents /\ ProgramsNext
    BY <2>2 DEF ProgramsNext, RunFullRefresh, RunSharingAcl, RunDestination, RunRepair,
                RunCursorScope, FULL_REFRESH, SHARING_ACL, FILE_CONTENTS, DESTINATION, REPAIR,
                CURSOR_SCOPE
  <2>3. CASE UNCHANGED programVars
    BY <2>3
  <2>4. QED
    BY <1>1, <2>1, <2>2, <2>3
<1>2. QED
  BY <1>1, ContentsBegins, ContentsStep, PTL DEF Spec, NothingExtractedTwice

\* The kind of the saved versions changes by a reset, or when there are no versions.
LEMMA KindStays ==
  ASSUME C!FileContentsTypeOK, KindsFit, C!FileContentsNext
  PROVE  C!KeepsModesApart
<1> USE DEF C!dropbox, C!platform
<1>1. CASE C!NoteVersion
  <2>1. saved' = state' /\ state'.kind = state.kind
    BY <1>1, VersionWritten
  <2>2. phase # "idle"
    BY <1>1 DEF C!NoteVersion
  <2>3. QED
    BY <2>1, <2>2 DEF KindsFit, C!KeepsModesApart, C!HasVersions
<1>2. CASE C!ResetState
  BY <1>2 DEF C!ResetState, C!KeepsModesApart
<1>3. CASE ~C!NoteVersion /\ ~C!ResetState
  <2>1. saved' = saved
    BY <1>3 DEF C!FileContentsNext, C!ContentsSync, C!SyncStart, C!ListRoot, C!Relist, C!PassOver,
                C!Extract, C!Convert, C!Yield, C!NextRoot, C!SyncRaises, C!Stop,
                C!SelectRoots, C!ChangeFile
  <2>2. QED
    BY <2>1 DEF C!KeepsModesApart
<1>4. QED
  BY <1>1, <1>2, <1>3

\* Whatever is selected, and however often, a state of one root's versions is not carried on
\* as one of namespaces, nor the other way round.
THEOREM ModesStayApart == Spec => ModesNeverMix
<1>1. ASSUME ContentsInv, [ProgramsNext]_programVars
      PROVE  [program = FILE_CONTENTS => C!KeepsModesApart]_programVars
  <2>1. CASE RunFileContents
    BY <1>1, <2>1, KindStays DEF ContentsInv, RunFileContents
  <2>2. CASE ~RunFileContents /\ ProgramsNext
    BY <2>2 DEF ProgramsNext, RunFullRefresh, RunSharingAcl, RunDestination, RunRepair,
                RunCursorScope, FULL_REFRESH, SHARING_ACL, FILE_CONTENTS, DESTINATION, REPAIR,
                CURSOR_SCOPE
  <2>3. CASE UNCHANGED programVars
    BY <2>3
  <2>4. QED
    BY <1>1, <2>1, <2>2, <2>3
<1>2. QED
  BY <1>1, ContentsBegins, ContentsStep, PTL DEF Spec, ModesNeverMix

-----------------------------------------------------------------------------
(* What holds of every program.                                            *)

AllInv ==
    /\ program \in {FULL_REFRESH, SHARING_ACL, FILE_CONTENTS, DESTINATION, REPAIR, CURSOR_SCOPE}
    /\ ListingInv /\ AclInv /\ ContentsInv /\ RecordInv /\ RepairInv /\ ScopeInv /\ CoverInv

LEMMA AllBegins == ProgramsInit => AllInv
<1>1. ProgramsInit =>
          program \in {FULL_REFRESH, SHARING_ACL, FILE_CONTENTS, DESTINATION, REPAIR, CURSOR_SCOPE}
  BY DEF ProgramsInit
<1>2. QED
  BY <1>1, ListingBegins, AclBegins, ContentsBegins, RecordBegins, RepairBegins, ScopeBegins,
     CoverBegins DEF AllInv

LEMMA AllStep ==
  ASSUME AllInv, [ProgramsNext]_programVars
  PROVE  AllInv'
<1>1. program' = program
  BY DEF ProgramsNext, RunFullRefresh, RunSharingAcl, RunFileContents, NotFileContents,
         RunDestination, RunRepair, RunCursorScope, programVars
<1>2. QED
  BY <1>1, ListingStep, AclStep, ContentsStep, RecordStep, RepairStep, ScopeStep, CoverStep
     DEF AllInv, FULL_REFRESH, SHARING_ACL, FILE_CONTENTS, DESTINATION, REPAIR, CURSOR_SCOPE

\* Every variable of the program at work has its type: offsets, attempts and recoveries stay
\* within their limits, a deadline's pauses too, and what a phase works on is there.
THEOREM TypesKept == Spec => []ProgramsTypeOK
<1>1. AllInv => ProgramsTypeOK
  BY DEF AllInv, ListingInv, AclInv, ContentsInv, RecordInv, RepairInv, CoverInv, ProgramsTypeOK,
         FULL_REFRESH, SHARING_ACL, FILE_CONTENTS, DESTINATION, REPAIR, CURSOR_SCOPE
<1>2. QED
  BY <1>1, AllBegins, AllStep, PTL DEF Spec

\* A sync that ends well has delivered what was there throughout, whatever the number of
\* namespaces, entries and pages, and whichever listings were begun afresh: every entry of
\* the stateless streams (dropbox_context.py, reset_recovered), every member of a folder of
\* sharing_acl, and every file under the scope of the native source.
THEOREM ListingsComplete == Spec => []NothingSkipped
<1>1. AllInv => NothingSkipped
  <2>1. SUFFICES ASSUME AllInv PROVE NothingSkipped
    OBVIOUS
  <2>2. CASE program = FULL_REFRESH
    BY <2>1, <2>2, ListingIsComplete DEF AllInv, NothingSkipped, FULL_REFRESH, SHARING_ACL, CURSOR_SCOPE
  <2>3. CASE program = SHARING_ACL
    BY <2>1, <2>3, AclIsComplete DEF AllInv, NothingSkipped, FULL_REFRESH, SHARING_ACL, CURSOR_SCOPE
  <2>4. CASE program = CURSOR_SCOPE
    BY <2>1, <2>4, ScopeIsMet DEF AllInv, NothingSkipped, FULL_REFRESH, SHARING_ACL, CURSOR_SCOPE
  <2>5. CASE program \notin {FULL_REFRESH, SHARING_ACL, CURSOR_SCOPE}
    BY <2>5 DEF NothingSkipped
  <2>6. QED
    BY <2>2, <2>3, <2>4, <2>5
<1>2. QED
  BY <1>1, AllBegins, AllStep, PTL DEF Spec

\* No sync, write or compare fails without a cause: the first reset of a cursor is recovered
\* from, a retried request is no conflict by itself, and a session is given up only when it
\* was finished before or too many answers were lost.
THEOREM FailuresHaveCause == Spec => []FailsForCause
<1>1. AllInv => FailsForCause
  <2>1. SUFFICES ASSUME AllInv PROVE FailsForCause
    OBVIOUS
  <2>2. CASE program = FULL_REFRESH
    BY <2>1, <2>2 DEF AllInv, ListingInv, FailsForCause, FULL_REFRESH, SHARING_ACL, DESTINATION, REPAIR
  <2>3. CASE program = SHARING_ACL
    BY <2>1, <2>3 DEF AllInv, AclInv, FailsForCause, FULL_REFRESH, SHARING_ACL, DESTINATION, REPAIR
  <2>4. CASE program = DESTINATION
    BY <2>1, <2>4 DEF AllInv, RecordInv, FailsForCause, FULL_REFRESH, SHARING_ACL, DESTINATION, REPAIR
  <2>5. CASE program = REPAIR
    BY <2>1, <2>5 DEF AllInv, RepairInv, FailsForCause, FULL_REFRESH, SHARING_ACL, DESTINATION, REPAIR
  <2>6. CASE program \notin {FULL_REFRESH, SHARING_ACL, DESTINATION, REPAIR}
    BY <2>6 DEF FailsForCause
  <2>7. QED
    BY <2>2, <2>3, <2>4, <2>5, <2>6
<1>2. QED
  BY <1>1, AllBegins, AllStep, PTL DEF Spec
=============================================================================
