# A verification project for airbyte-source-dropbox

TLA+ models of the connectors in this repository, the TLC instances that check
them and the theorems TLAPS proves about them. `PROJECT.json` lists the runs, the
mutants that show each property can fail, the lines every definition models, the
findings, the hazards and the theorems.

## 1. The system

| component | state it keeps | operations | talks to |
|---|---|---|---|
| native source, file map and planner (`source_dropbox_files/cursor.py`) | `_files`: file id -> path, rev, content hash; the list_folder cursor; the traversal scope | plan a delta, plan an inventory, mark move, mark delete, add file, advance cursor | called by the attempt |
| native source, attempt (`source.py`, `reader.py`) | the slice being read; nothing outlives the process but the emitted state | list (delta, snapshot, reset), plan, emit control records, download, emit state | Dropbox (source); channel to the destination |
| native destination (`destination_dropbox_files`) | the folders it made; the destination folder itself | upload through a session, move, delete, pass state on | channel; Dropbox (destination) |
| Airbyte platform (external) | the last state message that came out of the destination | starts an attempt from it | both connectors |
| structured source, entries stream (`streams/entries.py`, `client.py`) | a cursor per namespace | list page by page, checkpoint per page, restart after a cursor reset | Dropbox |
| structured source, full-refresh streams (`streams/snapshot.py`, `file_properties.py`, `shared_links.py`, `shared_folders.py`) | none between syncs; `seen` within one | list page by page, restart once per root, keep what belongs to the stream | Dropbox |
| structured source, file contents (`file_contents.py`, `riviera.py`) | file id -> extracted version | start and poll a Markdown job against a deadline | Dropbox, Riviera |
| structured source, `sharing_acl` (`sharing.py`, `streams/sharing_acl.py`) | shared folder -> client, `seen` | list folders and, for each, its members; restart the folder listing once | Dropbox |
| base64 destination (`destination_dropbox`) | the folders it made | direct upload or session per record | Dropbox |
| reconciliation (`dropbox_reconciliation`) | none | two inventories, one comparison | Dropbox, twice |
| repair (`dropbox-repair`) | none | per reported file: download with a drift check, overwrite | Dropbox, twice |
| contribution copy (`airbyte_contribution`) | copy of the structured source | | |

What is hard in it, and what the properties are about:

* the source folder changes while it is listed and while files are downloaded;
* a listing names a rename as a deletion and a file, in either order and possibly
  on different pages, and names no deletion for a path that was taken over;
* control records, files and the state that speaks of them travel one behind the
  other, and an attempt may end between any two of them;
* one file of a slice may fail while the others succeed: state and cursor then
  move apart, and the delta is replayed against a map that has part of it;
* a request may take effect and its answer be lost.

For each component, what makes it correct: the *state gate* (state never claims
more than the destination committed), *completeness* (nothing behind the cursor
is missed), *faithful propagation* (moves and deletes hit what they were planned
for and nothing live is deleted), *pinning* (ignored renames stay ignored),
*convergence*; for an upload *atomicity* and *recovery*; for the listing streams
page-wise checkpoints; for file contents that a recorded version was extracted;
for sharing that duplicates agree; for reconciliation that every path is reported
once; for repair that a drifted source is not copied.

## 2. Modules

| module | models | proofs |
|---|---|---|
| `DropboxFolder` | the source folder and its change feed, as the connector uses them (external) | |
| `FileVersionCursor` | `cursor.py`: the map and the decision for one listed file, tombstone or removed id | |
| `NativeSource` | `source.py`, `reader.py`: one attempt, step by step | |
| `NativeDestination` | `destination.py`, and move and delete of `client.py` | |
| `FileTransfer` | the composition with channel, platform, failures; `Spec`, `FairSpec` | `FileTransferProofs`, `HistoryProofs`, `CopyProofs` |
| `FileTransferProperties` | the properties, and the refinement of `CheckpointGate` | the same |
| `CheckpointGate` | abstract: a checkpoint changes only on the word of an applied record | |
| `MCFileTransfer` | constants for TLC | |
| `UploadSession` | `upload_staged_file`, `_call`, `_finish`, offset recovery | `UploadProofs` |
| `AtomicUpload` | abstract: the file appears whole, at most once | |
| `MCUploadSession` | constants for TLC | |
| `Entries` | `streams/entries.py` over `client.py` `iter_entries` and `namespaces.py`, with Dropbox and the platform around them; `Spec`, `FairSpec`, properties | `EntriesProofs` |
| `MCEntries` | constants for TLC | |
| `FullRefresh` | files, folders, file_properties, shared_links and shared_folders: `streams/snapshot.py` and the like over `client.py`, `sharing.py`, `namespaces.py` | |
| `SharingAcl` | `streams/sharing_acl.py` over `sharing.py` | |
| `Riviera` | `riviera.py`: one job against its deadline | |
| `FileContents` | `streams/file_contents.py`; extends `Riviera` | |
| `RecordDestination` | `destination_dropbox`: `write`, parent folders, direct upload and session | |
| `Reconcile` | `dropbox_reconciliation`: two listings and the comparison | |
| `Repair` | `dropbox-repair`; extends `Reconcile`, whose report it loads | |
| `CursorScope` | the scope in `cursor.py`'s state, its versions, and the policies | |
| `Programs` | the eight above, any one at work; `Spec` and the properties | `RepairProofs`, `ListingProofs`, `ProgramsProofs` |
| `MCPrograms` | constants for TLC | |

**Correspondence.** `files` and `cursor` are `_files` and `_cursor`. A revision
stands for the pair (rev, content_hash), with `Hash` giving the hash, so two
revisions may have equal bytes. `pc` is where `compute_slices` and
`read_records_from_slice` are; `pos`, `pageEnd`, `more` are the listing, `inventory`
and `todo` the loops of `plan_inventory`, `deleted` and `consumed` those of
`plan_delta`, `ops` and `transfers` the plan, `sawError` is `saw_error`. A step of
the source is one iteration of a loop, one page or one record. `channel` is what
the source has written and the destination has not read. `journal` is the folder's
history and a list_folder cursor is a position in it: a listing from there shows,
for each path, its last change only. Steps of the folder are interleaved where
the attempt waits for Dropbox: between pages (`Paged`), before each download, and
between attempts; other interleavings cannot be told apart by the code.

In `UploadSession` a staged file of `n` bytes is the sequence `1 .. n`, so a byte
that is missing, doubled or out of place shows. A server error leaves open whether
the request was handled; `Transient` and the second disjuncts of `AppendChunk` and
`Finish` are the two cases.

In `Entries`, `state` is `Entries.state` with a cursor for every root, `NoCursor`
where there is none: the single root (`Current`) for the top-level `cursor`, a
namespace for its entry in `namespaces`. `left` is what `iter_namespace_clients`
has yet to yield, `at` and `recovered` are the cursor and `reset_recovered` of
`_iter_entries_for_client`, and `page` is the entry of `_pages`, of which `unread`
is what `read_records` has yet to yield. The generators hand over to one another
at each record and each page, and the model steps there: `FetchPage` and
`RestartListing` are the calls, `ReadRecord` the loop over a page, `Checkpoint` the
`_checkpoint_page` at its end with the state message the CDK emits, and the
`NextPage` in it what `stream_slices` and `iter_entries` do when they are resumed.
`StopMidPage` is the CDK's record limit, which closes `read_records` before its
checkpoint and then emits the state as it was; `_page_was_checkpointed` decides
whether `stream_slices` goes on. A folder is a version per path and a cursor is
what it has shown of each; a page shows any of the paths that are ahead of the
cursor, so files that change behind, at and ahead of the listing are all covered.
A deletion is a version like any other (`include_deleted` is true by default; with
it off, deletions do not reach the destination at all). The destination is taken
as the last record on a path, namespace by namespace, as `with_namespace` keys it.

The remaining programs share neither state nor messages with the native pair, with
the entries stream or with one another, so `Programs` composes them as
alternatives: a behaviour is one program's, `program` says whose, and a variable
that program does not have is `Idle`. Each is a module of its own with its
variables, `...Init`, actions, `...Next` and properties; `Programs` states one
property per question and says what it means for each program it applies to.
Dropbox, the platform and the operator are external in all of them. A history
variable (`touched`, `resets`, `faulted`, `changed`, `lost`, `written`, `ended`)
records what a property needs to know of the past and guards no action.

* `FullRefresh`: `left` is what `iter_namespace_clients` has yet to yield, `shown`
  the cursor, `recovered` is `reset_recovered`, `emitted` what has been yielded,
  which for file_properties is `seen`. A *thing* is whatever the stream's listing
  shows, with a version that grows with each change. `ResolvePage` is a call of
  `list_accessible_namespaces`. The four listing loops (`_iter_entries_for_client`,
  `iter_entries_with_property_groups`, `iter_shared_links_for_client`,
  `iter_shared_folders_for_client`) have the same control but for the restart,
  which the listing of properties lacks (`RestartListing`, `RefuseReset`).
* `SharingAcl`: the generators of folder pages and of member pages, which hand over
  to one another at every folder; `clients` is `_shared_folder_clients`, `via` the
  client a member listing has taken from it, `emitted` is `seen`.
* `Riviera` and `FileContents`: `clock` is the time since the launch in units of the
  shortest pause; `due` is when the job will have ended, chosen at the launch. The
  conversion reads the file by id at some moment of the job: `text` is the version
  it reads. `state` is `_state`, with the versions noted under each root; `Stuck` is
  a namespaces' state under a single root, which has no `files`. `Yield` is the
  record, `NoteVersion` what follows when `read_records` is resumed.
* `RecordDestination`: a record is its position in the input, its content is
  `1 .. Parts[path]`, so that a part that is missing, doubled or out of place
  shows. `ensured` is `_ensured_folders`, `attempt` the `retry` of `_with_retry`,
  `offset` and `recoveries` those of `_upload_session`. A call either takes effect
  and is answered, takes effect and is not answered, or neither (`Transient`).
* `Reconcile` and `Repair`: a path's file has a revision and a content. `known` is
  what the cursor of the listing has told, `entries` what `inventory` has collected,
  with repetitions. `todo` is the rest of the loop in `_apply`, `staged` its staged
  file, `outcome` the line printed for each path, `unread` (a history variable) the paths
  whose download was refused or ended short: `stage_source_file` makes of any `ApiError`,
  and of too few bytes, a `SourceDriftError`, which is passed over like a file that
  changed (`PassOver`), while any other failed call ends the run (`CallFails`). `Fold` is `casefold()` of a path,
  which need not be the lower-case path Dropbox gives.
* `CursorScope`: a cursor is the scope it was taken for, what it has told of and
  whether Dropbox still takes it. `SnapshotMaps` are the maps `plan_inventory` may
  go on with: none when a policy would propagate from a map of another scope.
  A delta shows the files created and deleted since the cursor was taken.

## 3. Runs

Bounds: two ids, two or three paths, three revisions of which the first and third
may have equal bytes, at most five changes of the folder, one skip of an unchanged
file, one cursor reset, one abort. Every scenario in which two changes of one file
meet one change of another fits, with an attempt between any two of them: rename,
edit and rename back; delete and replace; replace and rename. The upload runs use
sizes 0 to 11 with chunks of 2: no byte, less than a chunk, exact multiples and
remainders, and more chunks than the recoveries allow for; `MaxAttempts` and
`MaxRecoveries` are the code's 4 and 2.

`MCEntries` has the single root and two namespaces, two paths, pages of at most two
entries, which may hold one entry of the two that are pending, two changes, two
cursor resets, one interruption (record limit, failure or kill) and one change of
the selection. That is enough for a reset on the second page or of the saved
cursor and a second reset in the same listing; for a page cut short after its
first or its last record with another page, or another namespace, to follow; and
for a saved state that meets a selection it was not made for, in both directions.

`MCPrograms` gives each behaviour a budget of two disturbances of any kind: a change
in Dropbox, a reset cursor, a raised call, a lost answer, a stop, a change of the
configuration, a slow job. That is a change *and* a reset in one listing, two resets
of one cursor, two lost answers in one session (with one retry and one recovery
allowed, where the code has 3 and 2, so that both limits are reached), a late job
and an edit of its file, a drift and a failed upload. The other bounds: two
namespaces and a current root; two things, one a folder, on pages of one entry; two
shared folders with two members, shown by both namespaces or by one; a deadline of 7
with pauses of 1 and 2 and calls of up to 1, so that a pause is cut at the deadline;
two convertible files of which the second is under one root only; inputs of three
messages over two paths, one uploaded directly and one in four parts below a folder
of its own; three paths for compare and repair, of which one folds to another
spelling and one cannot be made relative; two scopes that share one of three files.

| run | question | result |
|---|---|---|
| `MCGate` | does the state gate hold with everything enabled, and is its strengthening invariant? | holds |
| `MCMirror` | is the destination an exact copy once the state has caught up, and does it catch up? | both, without aborts, page changes and shared paths |
| `MCHistory` | is a live file ever planned for deletion, is a change behind the durable cursor ever missed? | neither, while listings are of one page and no tracked file outgrows the limit |
| `MCPinned` | do ignored renames and deletions stay ignored? | they do |
| `MCOversizedRename`, `MCRenameBack` | as `MCHistory`, with a tracked file that outgrows the limit; with two pages | violated |
| `MCReplayedMove` | is an applied move accepted when it is replayed? | violated when the old path was taken again |
| `MCCaseRename` | is every record accepted? | violated by a rename of case only |
| `MCLiveFileDeleted` | does propagation keep the copies of live files? | violated after a path was taken over by equal bytes and the cursor was reset |
| `MCUpload` | is the session a prefix, is what is lost recovered, does the upload end, is it atomic under `fail` with another writer? | holds |
| `MCEntries` | is a saved cursor only ever behind what arrived, are records sent twice without cause, do namespaces keep their cursors, does every saved state lead to an up-to-date destination? | holds |

| `MCPrograms` | are full-refresh syncs complete, do they fail only for a cause, is what is recorded as converted converted, does a STATE cover its uploads, is a report true and a repair faithful to it, does a scope change lose or delete anything? | holds |

What `MCPrograms` shows that is worth knowing, and is in the properties as an
exception: the listing of properties fails on the first reset, and on a file that two
namespaces mount under different paths (`FailsForCause`, `file_properties.py:55`
compares without the namespace); `sharing_acl` fails on every sync in which two
namespaces show one shared folder (`AclFailsForCause`); under `conflict_policy`
"fail" a record that is replayed after its upload is a conflict with itself
(`RaisesForCause`); a finish whose answer was lost makes the session unusable; a
repair that runs to its end has passed over, with the line "error", unchanged files whose
download was refused or cut short, and those whose path does not fold to itself, which it
never writes (`RepairConverges`);
Riviera's deadline is reached without a last check (`AnswersInTime` allows a pause and
a call); after a snapshot for a new scope in which a file was skipped the state keeps
the old scope's cursor, which is harmless because Dropbox has reset it
(`CursorFitsState`). No document of the repository says otherwise, so they are not
findings.

Two things the model has as the code has them are said otherwise by a document, and no
run is spent on them. With both policies `ignore`, `plan_delta` refuses a cursor of
another scope (`cursor.py:236`, `DeltaRefused`), where README.md:32-35 of
`source-dropbox-files` says that a fresh inventory begins; it begins only where the state
has no usable cursor. And `load_report` refuses a report that lists a file which
compare could not place under the root (`Loadable`: its record has an absolute path, which
`_safe_relative_path` of `report.py` rejects), where
README.md:373 says that `error` records are reported as skipped.

The conditions of a passing run are the complement of a finding: `MCHistory` sets
`Paged = FALSE` because `MCRenameBack` shows what happens otherwise, and so on.
The findings are described in `PROJECT.json`, with the lines of the code and of
the doc or test they contradict.

Deadlock is checked in the file-transfer runs (an attempt can always be started).
It is not in the upload runs, where an upload ends. In `MCEntries` it is not
checked either: the budgets bound the events, and what it would say is said more
strongly by `EventuallyRead`. Nor in `MCPrograms`, where a sync, a write and a
repair end.

**Fairness.** `FairSpec` of `FileTransfer` has weak fairness of the platform
starting the next attempt, of the source process and of the destination process:
the platform runs syncs on a schedule, and the two connectors are single-threaded
loops that do not wait for one another. Nothing obliges the folder to change, an
attempt to be aborted, a cursor to be reset or a file to be skipped; skipping is
bounded. `FairSpec` of `UploadSession` has weak fairness of the client: its loop
runs on, and every call returns or raises. Without it an upload may stop where
it is, and with it the retry budget of `_call` and the recovery budget must do
the rest: `Ends`. `FairSpec` of `Entries` has weak fairness of the sync (it is
scheduled, and its loop runs on), of delivery, and of `ResetState`: a state that a
new `namespace_selection` cannot use is refused at the start of every sync, and
the error and README.md:120-123 ask the operator to reset it. `Spec` of `Programs`
has, for `EventuallyExtracted` only, weak fairness of a file_contents sync (it is
scheduled, and its loop runs on: polling ends at the deadline) and strong fairness
of `ResetState`, which is enabled only between two syncs. Nothing obliges
folders to change, cursors to be reset, syncs to be interrupted or the selection
to change.

## 4. Proofs

Constants are arbitrary: any sets of ids, paths and revisions, any hash and folding,
any bounds, any policies; the assumptions are `FolderAssumption`,
`PolicyAssumption`, `PagedAssumption`, `DestinationAssumption`, `BoundsAssumption`,
`UploadAssumption`, `EntriesAssumption` and `ProgramsAssumption`, which gathers
those of the eight programs: no two markers coincide, limits are naturals, what a
scope shows are files, and the markers for no file, no folder and no cursor are none
of the things they stand in for. The theorems of `HistoryProofs` and `CopyProofs` have
conditions besides, given with each: `Mirroring`, `Recording`, `RenamePolicy = "ignore"`,
`Undisturbed` and `Exact`.

* `FileTransferProofs!TypeCorrect`: `Spec => []TypeOK`. `TypeOK` alone is not
  inductive, because a journal entry is read at the listed position: the invariant
  proved is `TypeInv`, which adds that positions stay within the history
  (`InHistory`).
* `FileTransferProofs!StateGateHolds`: `Spec => []StateGate`. The gate speaks of the durable
  state only. A checkpoint copies a state message, a state message copies the map,
  the map is changed when a record is *sent*; so `GateInv` says of each of them
  what the gate says of the next: what the map says of a file is what the durable
  state says, or what a record says that was applied or is on the channel
  (`MapVouched`); what a state message says is covered by records ahead of it
  (`StatesVouched`); and a planned move carries the hash of the revision in the map
  (`MovesMatch`), which makes the entry a move leaves behind covered by it.
* `FileTransferProofs!GateRefined`: `Spec => ImplementsGate`, every step being an `Apply`, a
  `Pass` or a stutter of `CheckpointGate`.
* `HistoryProofs!DeletesJustified`: `Spec => []DeletesOnlyWhatIsGone`, by `HistoryInv`.
  An attempt looks only at what changed since its cursor, and plans from its map and
  from the order of tombstones, so what it does is right only if
  - the history tells the files apart (`FolderHistory`): the last event of a file that
    is there is the last of its path and says where it is and what it holds; the last
    event of one that is gone is followed by a deletion at its path; and every earlier
    event of a file is superseded, so that a listing shows a file at most once;
  - the map is right about everything before the cursor (`Maps`), in the durable state,
    in the process and in the state message on the channel; a transfer that is skipped
    leaves the cursor where it was, and the map is right up to there still;
  - whatever was listed is planned or in the map already (`ListedIsPlanned`), and what
    is planned leads to what was listed and concerns only what changed since the cursor
    (`Sound`), so that carrying it out never undoes what the map was right about;
  - the tombstone that a rename left behind is known as one (`TombstonesTold`): the old
    path of every renamed file that was listed is in `consumed`.

  The theorem assumes `Mirroring`, the conditions of run `MCHistory`: renames are
  propagated, the globs select every path, the folder does not change between two pages
  of a listing, and a file that is not too large does not become so. Without the third,
  run `MCRenameBack` violates the property; without the fourth, run `MCOversizedRename`
  (a moved file that outgrew the limit is not counted as renamed, and its tombstone
  deletes it); without the second, TLC finds the same of a file renamed out of the
  globs, which is no fault: the stream does not know it any more. With renames ignored
  TLC finds no violation within the bounds of `MCHistory`, and no proof is given: paths
  in the map are then not where files are. Either deletion policy, any folding of paths,
  reused paths, skips, aborts and resets are covered.
* `HistoryProofs!NoChangeMissed`: `Spec => []NothingMissed`, by `KeptInv`, under the weaker
  `Recording`: deletions are ignored, or renames are propagated and the folder does not
  change while it is listed; any globs, any limit, and paged listings in the first case.
  `KeptInv` says of the files a listing has to show (`Wanted`: selected, not too large,
  not changed since) what `HistoryInv` says of all, and no more. The revision in the map is
  right (`UpToDate`); the path matters only where deletions are planned from it. A wanted
  file that was listed is scheduled (`WantedIsScheduled`), also when its page was followed
  by changes: a file that changed is not wanted as of this listing, and one that did not
  is in the inventory as it is in the folder. What is planned leads to where it is, and no
  deletion takes it from the map (`Leads`), for which the tombstones must be told apart
  (`RenamesTold`) where there are deletions. Outside `Recording` TLC finds violations,
  with the bounds of `MCHistory`: with deletions and pages a tombstone of a rename comes
  without the file, and with deletions and ignored renames the deletion at a path that was
  used again takes the file pinned there out of the map.
* `HistoryProofs!PinsKept`: `Spec => PinnedPathIsKept` whenever renames are ignored,
  whatever the globs, the limit, the paging and the deletion policy. `PinInv` says that
  the map, the planned transfers and the state on the channel keep the path that the
  durable state has of a file, and that no move is planned.
* `CopyProofs!CopiesKept` and `CopyProofs!EverythingAccepted`: `Spec => []PinnedCopies` and
  `Spec => []NothingRefused`, by `CopyInv`, if nothing disturbs the pair (`Undisturbed`: no
  path is used by two files, no attempt aborts, files are overwritten, and, where renames
  are followed, listings are of one moment; a path has one spelling wherever something is
  moved or deleted). Any policies otherwise, any globs, limits, skips and resets. What the
  destination holds and what the map says differ by what is on the channel, so `CopyInv`
  names what the destination will hold after each message (`Course`): each message finds
  there what its hash says (`Handles`), the last leads to what the map says (`Holds`), and
  a state on the way finds its own map in place. For the next message to join them, what
  is planned has to match the map: a move starts at the path and the hash the map has, a
  delete too, and a file's transfer comes after its move and goes where that goes
  (`OpsMatch`, `TransfersMatch`); each is planned once (`PlannedOnce`); and paths are those
  of their file (`PathsOwned`), for the target of a move to be free. Outside `Undisturbed`
  TLC finds violations: of a second spelling run `MCCaseRename`, and a rename between two
  pages of one listing plans a second move with the first one's old path. Aborts and shared
  paths are left out of the runs `MCMirror` and `MCPinned`, too.
* `CopyProofs!ExactCopy`: `Spec => []Mirrored`, under `Exact`: `Undisturbed`, renames and
  deletions are propagated, and no file is too large. Of what the destination holds when
  the cursor has reached the end, `CopyInv` says that it is what the map says, and
  `KeptInv` that the map misses no selected file. Left is the reverse, that the map has
  nothing else. `PlaceInv` says of a file of the map that it was at its path as far as the
  cursor reaches, or came there later (`PlacedAt`). So if it is gone, or outside the selection
  now, the deletion it left at its path is still to be listed; and what is listed, or
  missing in the inventory of a folder that stands still meanwhile (`StandsStill`), has
  become an operation by the time the cursor moves (`GoneFound`). Each condition is needed:
  with pages, an abort, a path used again, or a revision that is too large, TLC finds a
  state that has caught up and is no copy, with the bounds of `MCMirror` otherwise.
* `UploadProofs`: `UploadTypeCorrect`, `PrefixKept` and `NothingLostForGood` by one
  invariant that ties the client's offset to the session and the recoveries to the
  lost answers; `AtomicRefined`, in which the commit step of `AtomicUpload` is the
  `Finish` that the server handles.
* `EntriesProofs!EntriesTypeCorrect`: `Spec => []TypeOK`, for any roots, paths and
  page size; the type of a state says that it is of a single root or of namespaces,
  never both, and `Checkpoint` needs the selection to keep it so.
* `EntriesProofs!CheckpointsCovered`: `Spec => []CheckpointCovers`. The property
  speaks of saved cursors only. `CoverInv` says the same of everything a saved
  cursor comes from: a state message on its way, the stream's own state, the cursor
  a listing continues from, and the records of the page at hand that are read
  (`StateSent`, `SyncInv`): every version they have shown has arrived or has a
  record ahead of them. That a later record may replace it on its path is no harm
  only because versions on a path never fall, on the channel and into the
  destination (`InOrder`), and never run ahead of the folder or of the page at hand
  (`ChannelInv`, `PageInv`): the half of the invariant that the property does not
  show.
* `EntriesProofs!CursorsKept`: `Spec => CursorsAreKept`. The property compares one
  saved state with the next; the next has been on the channel since its page was read.
  `KeptInv` says that the states on their way, and the sync's own behind them, follow
  the saved one and one another (`Chain`, `StateFollows`). `Follows` is the property's
  relation made transitive: once the single root has a cursor, every later state has.
  A checkpoint keeps to it because a root that was not reset is listed on from its
  cursor in the state (`ListingFits`), which needs that a cursor Dropbox refuses is of
  an earlier epoch (`Genuine`), and that pages go forward, which is `CoverInv`'s.
* `EntriesProofs!NewsOnly`: `Spec => []OnlyNews`. While a root is `Quiet`, a cursor has
  shown all that was sent: each state on its way all that is ahead of it
  (`StatesTold`), the sync's state all but the page at hand, whose unread entries are
  later than anything sent, and the saved state everything once nothing is on its way
  (`CursorsTold`). The last holds because a sync that is not cut short sends a state
  behind the records of each page (`StateIsLast`), and for roots outside the selection
  because they have no cursors yet (`OneSelection`).
* `ProgramsProofs!StatesCovered`: `Spec => []StateCoversUploads`. The property speaks
  of the last STATE passed on; `DestinationInv` says the same of the message at hand,
  which is where the next STATE stands: every record before it is committed
  (`CoveredTo`). `TakeRecord`, every retry and every recovery leave the message at
  hand alone, and only a commit and a STATE move past it.
* `ProgramsProofs!DeadlinesKept`: `Spec => []AnswersInTime`. `PollInv` keeps, of a job
  that is still polled, that it had not ended at the last check: while it is polled it
  ended no earlier than a call ago (asleep) or a pause and a call ago (about to be
  checked), so that one that is given up ended that late.
* `ProgramsProofs!CursorsFit` and `ProgramsProofs!OnlyGoneFiles`:
  `Spec => []CursorFitsState` and `Spec => DeletesWhatIsGone`, by one invariant.
  `ScopeInv` says what the saved state must satisfy of the attempt's own as well:
  a file map of a scope holds files that the scope shows, and one of no scope is
  empty unless it is a version 1 map (`MapFits`); a plan deletes what is gone and its
  cursor fits the map once its transfers are done, unless one is skipped (`PlanFits`);
  and a cursor that was reset says nothing (`Fits`), which is why the one a skipped
  file leaves in the state after a change of scope does no harm.
* `FileTransferProofs!MapsVouchedFor` and `UploadProofs!EachLossRecovered` are two more of the
  conjuncts of the invariants above that the runs check.

Every safety property of `Programs` is a theorem; only `EventuallyExtracted` is not.

* `ProgramsProofs!RecordsStay` and `ProgramsProofs!ItemsStay`: `Spec =>
  []LastRecordStays` and `Spec => KeepsWhatIsThere`. That a file is whole when it
  appears has to be known of the session while it is filled: `SessionFits` says that
  an open session has what the client sent and at most one part more, whose answer was
  lost and which the next recovery pays for, and that one which is closed but was begun
  was committed. `ItemsFit` says that every file there is whole and of a committed
  record, and that the file of a path nobody else touched is of no earlier record than
  any before the message at hand, however often the input was replayed. `PhasesFit`
  says what each phase works on.
* `ProgramsProofs!NotedHasItsRecord`, `ProgramsProofs!ExtractedOnce` and
  `ProgramsProofs!ModesStayApart`, of file_contents, by `ContentsInv`. A sync works on
  a copy of the saved versions and of their kind (`KindsFit`); the page has each file
  once, in a version that was seen and is not earlier than the record it may replace
  (`ContentsFit`); while a file is converted it is off the page and not noted, its
  text is not older than its version, and once it is yielded the record is its own
  (`ConversionFits`). Only then does `NoteVersion` write what the property needs.
* `ListingProofs`: `AclInv` and `ListingInv` say where an unchanged thing is that the
  cursor has told of: on the page, at hand, or emitted (`AclCovers`, `ListingCovers`),
  so that nothing is lost when a listing starts afresh after a reset and everything is
  told again. `FoldersFit` and `MembersFit` say the same one level down, where
  sharing_acl reads members of a folder of a page: the client that lists them is that
  of the namespace at hand, which is `MembersAskedWhereListed`. `ResetsCounted` and
  `CursorResets` tie `reset_recovered` to the resets that happened.
  With `CoverInv`, that what the map has and Dropbox too the
  destination has, they give `ProgramsProofs!ListingsComplete`
  (`Spec => []NothingSkipped`).
* `RepairProofs`: `RepairInv` follows a path that does not change from the listing to
  the report to the line. It is listed once, when the cursor has told of it
  (`ListedOnce`); what the report says of it stays true (`ReportHolds`); and a path
  still to be applied has no line and is not written, what is staged being the revision
  the report names (`AppliedOnce`). `ReportsTruly`, `LinesTellTruly`,
  `RepairsConverge` and `WritesAsReported` follow. An unchanged file is still to be
  applied, at the destination, or left out with its line and a cause (`LeftOut`).
* `ProgramsProofs!TypesKept` and `ProgramsProofs!FailuresHaveCause`:
  `Spec => []ProgramsTypeOK` and `Spec => []FailsForCause`, from `AllInv`, the
  conjunction of the programs' invariants: a type, or the cause of an error, is always
  one of the things its program's invariant has to say.

Only model-checked is liveness, which is beyond the prover: `EventuallyMirrored`, `Ends`,
`EventuallyRead`, `EventuallyExtracted`. Every invariant of a passing run is stated by a
theorem; where the theorem has conditions, the run meets them.

## 5. What is not modelled

Of the native pair: other writers at the destination and the window between lookup
and move; parent folders; validation of records and configuration; timestamps and
metadata; snapshot restarts (`reader.py` lists the root once and its continuation
cursors are not reset-recovered), which end the attempt; a snapshot of more than
a first page and one later page; and the tombstone of a folder, where Dropbox sends that
instead of those of the files in it. A scope change is modelled
in `CursorScope` with files that are created and deleted only: edits and renames
under one scope are `NativeSource`'s.

Of the entries stream: full-refresh syncs, which keep no cursor from one sync to
the next; the comparison of the state's `context` with the configured one, and the
refusal of a state without one; an `all_accessible` selection that resolves to no
namespace; `include_deleted` false; and what a destination that merges by
`entry_key` makes of a deletion, whose key is not the key of the file.

Of the other streams: what a normalized record says beyond identity and version;
template names; the context of the file_contents state; pages of a file_contents
listing (it is one step, with a restart after a reset, for its entries are
converted one by one and each looks at the state when its turn comes).

Of the base64 destination: which records are invalid and `metadata_policy`; a
session whose first chunk is the whole content. Of compare: `client_modified`, which
changes no status; files without a content hash; the validation of roots, there and in repair. Of repair:
parent folders, and the protocol of the upload session, which is `UploadSession`'s.

Not modelled at all, for want of state: configuration and its validation,
credentials, error classes, entry points. The contribution copy's normalizer,
namespaces, sharing and streams are identical to those of `src/source_dropbox`, and
its client differs in lacking Riviera; there is nothing to say of it that is not
said of the original.

## 6. Plan

Done: the native pair, its upload session, the entries stream, and every other
program as part of `Programs`. Left, in this order:

1. A second writer and parent folders at the native destination.
2. The base64 destination's session as a second implementation of `AtomicUpload`.
3. The `context` of the entries and file_contents states.
