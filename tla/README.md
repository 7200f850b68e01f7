# A verification development for MMD

MMD is a Markdown, HTML, DOCX and Excalidraw editor: a Rust core (`src-tauri/src`) that owns
every file access, and a TypeScript front end (`src`) in one main window and up to two pop-out
windows. This directory holds TLA+ models of its core logic, the TLC configurations that check
them on small instances, and TLAPS proofs for every instance.

Contents: [inventory](#inventory), [hazards](#what-is-hard-about-this-code),
[modules](#modules), [runs](#runs), [disagreements](#disagreements-between-the-code-and-its-own-statements),
[proofs](#proofs), [not modelled](#not-modelled), [plan](#plan).

## Inventory

`PROJECT.json` lists every component with its sources; these are the ones with logic of their own.

| component | state | operations | correct when |
|---|---|---|---|
| durable file primitives (`durable_write.rs`) | the names of one directory, the files behind them, what is synchronized | `durable_write`, `durable_remove_exact` | only the version the caller expected is replaced or removed; a confirmed answer survives power loss (unless the directory above is swapped in the moment before it is synchronized); a denial means nothing happened; nobody's document is lost on the way |
| file authorization session (`path_auth.rs`) | grants with their origins, workspaces, leases, reservations, a generation | open, select, save, save as, rename, move, trash, preview, watch transitions | authority follows what the user chose through renames and replacements, and ends with it |
| active document watch (`active_document_watch.rs`) | one watch entry, a reconcile lane, timers, pollers | start, activate, notification, reconcile, save, stop | every change made by another program reaches the main window once, in order, and none of the program's own |
| pane replication (`paneSync.ts`) | publisher, per-window replicas, a cache in local storage | publish, flush, answer, accept, reload | pop-outs show the main window's document, and their edits reach it |
| document session (`useDocumentSession.ts`) | the open document, its saved content, path, version and dialogs, a FIFO queue | open, type, save, save as, conflict and deletion decisions | a save replaces only a version the user was shown |
| document saves (`document_save.rs`) | overwrite tokens, reservations | save, issue, retry, cancel | a token is used once, for what it was issued for, and its reservation ends with it |
| open intents (`open_intent.rs`, `openIntentCoordinator.ts`) | a bounded queue, an active intent | enqueue, peek, resolve, settle | no request is forgotten, none is served twice or behind a modal decision |
| recent files (`recent_files.rs`) | a persisted list, receipts, terminal outcomes | issue, commit, status, discard | list and grant change together, an outcome can be asked for |
| crash drafts (`crash_drafts.rs`, `crashDrafts.ts`) | drafts on disk, the main window's scheduler | write, discard, list, evict, repair at the start | an unsaved text survives a crash; a saved one leaves no draft |
| workspace index (`workspace_index_runtime.rs`, `workspace_index.rs`, `workspace_snapshot.rs`) | the active index, operations, a watcher, the walk of a tree | rebuild, publish, query, cancel, invalidate, list | once all is quiet the index is the disk; the best hits are shown; a cancelled operation says nothing |
| entries and Trash (`commands.rs`, `workspace_trash*.rs`) | an operation and its intermediate files | create, rename, move, trash | an unknown outcome is reported as such, nothing is lost, what is in the Trash can be restored |
| resources and exports (`resource_store.rs`, `export_store.rs`, `excalidraw_scene.rs`) | staged files, an ownership record | publish an image, a pair, a bundle | images are never written over, a bundle is all or nothing |
| previews (`html_preview_server.rs`, PDF) | leases, sites, runs with deadlines and a budget | start, stop, retire, cancel | a site for every lease and none without; only pages of the current run |
| settings, theme, locale, menu, session record | small records replaced as a whole | load, update, reset, broadcast, restore | windows converge on the last update; the record is what was shown when the program closed |
| pop-out windows (`paneWindow.ts`, `usePanePopouts.ts`, `App.tsx`) | one shared open operation, a flag, a handshake, insertions | open, close, track, insert | the flag is the window; an insertion is made once, in the document it was meant for |

How they interact. Commands come from the windows over IPC and run one at a time on the main
thread; asynchronous ones (dialogs, receipts, the preview server, indexing) and the watch's threads run
beside them. `durable_write` is called under its own process-wide lock from saves, drafts,
settings and exports. A save takes the session's lock for its authority, calls `durable_write`,
settles the authority, and brackets all that with `begin_app_write` and `settle_app_write` of the
watch. The watch tells the main window through events, the main window's session publishes its
state to the pop-outs, and the editor pop-out's text comes back the same way. Other programs
change the same files at any moment, which is why nearly every component compares what it once
saw with what is there now.

## What is hard about this code

- **Interleaving with other programs**: every check of the disk may be stale when it is acted on.
- **Unknown outcomes**: renames, writes, trash and prepared opens end in committed, not committed
  or *indeterminate*, and each answer has to leave the state right.
- **Several threads and windows**: the watch's flags are set and cleared by notifications, runs,
  timers, pollers, commands and saves; windows exchange messages that overtake each other; a
  preview site and the lease it rests on live under two locks.
- **Crash and reload**: power loss inside a write, a program killed between two steps of one, a main
  window that reloads, a session that is restored while the next one is already shown.
- **Limits**: a draft that evicts another, a token that evicts a reservation, a queue of requests that
  is full, an index or a walk that stops at its limit.

`PROJECT.json` lists the hazards at the lines where they bite, with the properties that cover them
or the reason why none does yet.

## Modules

| module | models | source |
|---|---|---|
| `DurableWrite` | `durable_write`, `durable_remove_exact` | `durable_write.rs` |
| `ExactFile` | the contract callers rely on: one compare-and-set on a file with an answer | what `DurableWrite` implements (`ImplementsContract`) |
| `DurableWriteProofs` | theorems about `DurableWrite`: what a denial and a power loss leave, that no file is lost, that it implements `ExactFile` | |
| `FileAuthorization` | `FileAuthorizationSession` and everything that calls it | `path_auth.rs`, parts of `recent_files.rs`, `document_save.rs`, `commands.rs`, `active_document_watch.rs` |
| `FileAuthorizationProofs` | theorems about `FileAuthorization`'s states and about its steps | |
| `ActiveDocumentWatch` | the watch service | `active_document_watch.rs`, the save bracket of `commands.rs` |
| `ActiveDocumentWatchProofs` | theorems about `ActiveDocumentWatch` | |
| `PaneReplication` | publisher, replicas and the session steps that publish | `paneSync.ts`, `tauriPaneReplication.ts`, parts of `useDocumentSession.ts` |
| `PaneReplicationProofs` | theorems about `PaneReplication` | |
| `DocumentSave` | the backend of a save: version, token, reservation | `document_save.rs`, parts of `commands.rs`, `path_auth.rs` |
| `DocumentSession` | the main window's document over `DocumentSave` | `useDocumentSession.ts`, `documentSessionQueue.ts`, `externalDocumentChange.ts` |
| `DocumentSessionProofs` | theorems about `DocumentSession` | |
| `SavedSettings` | the settings file, its commands, the hook in every window | `settings.rs`, `useSettings.ts` |
| `NativeMenu` | the menu's state and its refreshes, theme and locale | `native_menu.rs`, `state.rs`, `themeRuntime.ts`, `localeRuntime.ts` |
| `EditorPopout` | the pop-out's window and the insertions made through it | `paneWindow.ts`, `usePanePopouts.ts`, `App.tsx` |
| `PdfPreview` | runs of the PDF preview | `PdfPreview.tsx`, `pdfPreviewRuntime.ts`, `pdfRenderScheduler.ts` |
| `MCWindows` | the five above, one at a time | |
| `CrashDrafts` | the store of drafts | `crash_drafts.rs`, `crash_draft_store.rs`, `crash_draft_commands.rs` |
| `DraftWindow` | the main window's scheduler, its flushes and discards, over `CrashDrafts` | `crashDrafts.ts`, `useCrashDraftRecovery.ts`, parts of `useDocumentSession.ts` |
| `OpenIntents` | requests to open a path, from the queue to the window | `open_intent.rs`, `open_intent_commands.rs`, `openIntentCoordinator.ts` |
| `OpenIntentsProofs` | theorems about `OpenIntents` | |
| `SavedSession` | the record of the session from one run to the next | `workspace_session.rs`, `useProgramCloseGuard.ts` |
| `SavedSessionProofs` | theorems about `SavedSession` | |
| `MCRestarts` | the three above, one at a time | |
| `RecentFiles` | list, receipts, outcomes | `recent_files.rs`, `documentSession.ts` |
| `SearchIndex` | the life of the index and of its operations | `workspace_index_runtime.rs`, `workspace_index_commands.rs` |
| `WorkspaceSearch` | building an index and querying it | `workspace_index.rs` |
| `WorkspaceListing` | the walk of a tree and the receipts it is listed in | `workspace_snapshot.rs`, `path_auth.rs` |
| `WorkspaceEntries` | create, rename, move, Trash | `commands.rs`, `path_auth.rs`, `workspace_trash.rs`, `workspace_trash_native.rs` |
| `HtmlPreviews` | sites and their leases | `html_preview_server.rs`, `path_auth.rs` |
| `HtmlPreviewsProofs` | theorems about `HtmlPreviews` | |
| `AnchoredFiles` | opening a granted file, byte ranges | `path_auth.rs`, `html_preview_server.rs`, `commands.rs` |
| `AssetResolution` | images and drawings named by a note | `image_resolver.rs`, `commands.rs` |
| `ResourceStore` | images and pairs of pictures beside a document | `resource_store.rs` |
| `ExcalidrawScene` | what is accepted as a scene | `excalidraw_scene.rs` |
| `ExportStore` | exported files and bundles | `export_store.rs` |
| `MCStores` | the eleven above, one at a time | |

Every definition of a model names in `PROJECT.json` (`map`) the lines it translates. A critical
section, or a synchronous handler, is one action; code that reads without a lock and acts later is
as many actions as it has moments at which somebody else may step in between. `Mutant`
definitions beside the model are plausible bugs; each breaks the property it is listed with.

**Sums.** `MCStores`, `MCRestarts` and `MCWindows` bring together components that share no state: each extends one of
them (`HtmlPreviews`, `SavedSession` and `DocumentSession`, so that the run checks the very properties their theorems
state) and instantiates the others. Each behaviour of a sum chooses one of them (`focus`), the variables of the others keep the value 0, and each action of a component is an
action of the sum (`SessionDoes(...)`, `PdfDoes(...)`). Its state graph is the disjoint union of
the components' graphs, so one run checks them all, each as if it were alone; a property of the
sum says of each focus what that component promises. The components that do interact are composed properly
instead: `DocumentSession` extends `DocumentSave`, `DraftWindow` extends `CrashDrafts`.

### DurableWrite

The state is a directory (`names`, one map per parent since the parent itself may be swapped), the
files (`data`: bytes and stamp by object, and the directory the file is in), the states of the directories a
power loss may bring back (`onDisk`), and per call a program counter, what it has read, and its reply. One
action stands for one system call and the decision on its result; every call may fail. The environment writes
into, replaces and removes files, swaps the parent and cuts the power.

Each directory reaches the disk by itself. A change of one adds to `onDisk` the images that have this directory as
it is now (`Journal`), and a synchronization keeps only those (`Settle`), of the directory the parent's path leads to
*at that moment*, as `sync_parent_directory_if_required` opens it by path; the others stay as uncertain as they were.
A power loss therefore chooses a state of each directory independently. The code looks at the parent's identity
before it synchronizes, not after: if another program swaps the parent in between, the call synchronizes a directory it has not
changed and confirms all the same. `strayed` remembers these synchronizations, `Adrift` the calls whose last one was missed,
and the promises about what survives a power loss except exactly them.

Abstractions: staging (create, copy permissions, write, sync a private file) is one action, since
nobody else knows the name; so is the verification of the quarantined file by handle and the
removal of its name, because the code promises no more there than against cooperating instances
(lines 353–356). Within one directory changes reach the disk in their order. Stamps are unique
per foreign step, so two versions are equal only if the file was left alone. Recovery images are not
touched by others. Not modelled: poisoned locks, half-written private files.

`NoDocumentLost` (what somebody wrote is somewhere, unless the caller had shown to have seen it),
`OnlyExpectedDestroyed`, `ConfirmedIsExact`, `DeniedIsUntouched`, `IntendedRetained`,
`ConfirmedIsDurable` are the promises, `ExactFile` their sum as a contract: a call takes
effect at one moment between call and reply, or not at all, or answers that it does not know. Four of them have
the exception above: a confirmation (`ConfirmedIsDurable`, `ConfirmedIsExact`) or a denial after something was put back
(`DeniedIsUntouched`) may be undone by a power loss if the synchronization was missed, and so may the recovery image
(`IntendedRetained`) if its own was. In the contract these are the calls in `adrift`, which other programs only bring about
before the answer.

### FileAuthorization

`auth` is the record behind the session's mutex; an `impl` operation is an operator on such records.
A grant is a ledger of origins (an opened document, a workspace, a preview asset, a save-as...)
and is dropped with its last origin. Paths are sequences of names, files and directories are
objects with an identity, and `tree` says which object is at a path. Other programs replace, move
and remove entries. A failed rename is four actions: its authority is suspended under the lock, then the old path is looked at
and then the new one, without it (`ObserveRename`, `observe_rename_after_error`), and what the two looks have found
decides under the lock (`ReconcileRename`); dialogs, receipts, the watch, previews and other programs come in between.
Recheck and follow of the watch are one step. `create_workspace_directory` changes no authority and
`suspend_write_path` is called by tests only; neither is modelled. `chosen` and `bound` are history.

### ActiveDocumentWatch

`entry` is `WatchState.current`; `run` holds the reconcile lane and walks through *captured*,
*gone*, *resolved* to its settlement, as a thread of the watch or as a command of the main thread;
`threads` wait for the lane, `timers` are the grace periods, `polls` the fallback pollers, `hints` the
notifications the operating system has not yet delivered, in any order. A hint `<<p, q>>` says that `p`
was renamed to `q`, `<<p, p>>` that `p` changed. `save` is the main thread between `begin_app_write`
and `settle_app_write`. History: `told` is what the main window was last told (by an event, an
answer, or its own save), `excuses` and `unseen` belong to the properties.

Commands come one at a time, and saves only go to the path the main window knows. A save's write is
one step here (its detail is `DurableWrite`). All paths are sibling files of one kind inside the
workspace (authority is `FileAuthorization`'s). Hard links are not modelled. The main window's own
queue is not part of this module: `told` is what leaves the watch.

`NothingUnseen` is the service's promise. It does not hold as such: the code loses changes in five
ways, which the history variable `excuses` records, and the property says that there is no sixth:

- *refused*: a read that fails, or a move that is not recognised, ends the run and nothing retries it
  (`active_document_watch.rs:1151`, `1160`); the identity in the entry stays that of a file another
  program has replaced (`966–1013`), so a later rename of the new file is not recognised;
- *strayed*: a notification about the new path is dropped as irrelevant if it comes before the rename
  has been settled (`449`);
- *abandoned*: the thread that comes to confirm a deletion which has been refuted clears
  `reconcile_scheduled` and leaves what was asked for meanwhile undone (`548–551`);
- *returned*: a save does not update `last_snapshot`, so the version from before the save, restored
  exactly, is suppressed as a duplicate (`1173`);
- *absorbed*: the file is renamed right after a save; the run follows the rename, assigns the new path
  and then compares the content with the saved bytes *at that path* (`717`, `1164`–`1168`), so the rename
  passes for the echo of the save and the window keeps the old path. `ToldNeverGoesBack` leaves these
  states out too: a save at the old path is announced to no watch.

### PaneReplication

The main window's `state` (what `paneStateRef` holds), whether an effect still has to publish it
(`unrendered`), the publisher's `revision`, `snapshot`, `pending` and highest edit, the `cache` in local
storage, `messages` in flight as a set (any order; lost within `MaxLosses`), and one `replica`
per pop-out. A prepared open that is confirmed or stays unknown shows the text that was opened, even if another
one was accepted during the transition (`ResolveOpen`, `applyPreparedOpen` applies `transition.provisional` again).
A text carries the document it was written for. Documents without a path may
register a watch in the model, which only adds behaviours.

### DocumentSave and DocumentSession

`DocumentSave` is the backend: `disk` with a version per path, `tokens` and `reserved` (path authority set
aside for a save-as), a clock for the tokens' expiry. `DocumentSession` is the window: `queue` is the
FIFO of `documentSessionQueue.ts`, whose head runs in two steps (the command, then the code after the
`await`, which applies the answer), so other programs, events and the user come in between; `entry` is
what the watch believes, `wire` the events it has sent, `accepted` what the session's guard lets
through.

- `SavesRestOnSeen`: whatever a save, an overwrite or a save-as replaces is the version the session was
  based on, or the one the user was asked about.
- `ReservationsAreHeld`: a reserved path is held by a save-as under way or by a token; nothing that
  ends (expiry, eviction, cancel, a rejected dialog) forgets it, which would leave the path reserved
  until the program ends.

Saves are `DurableWrite`'s contract here. Creating, renaming and trashing entries from the sidebar
is not part of the window's model.

### SavedSettings, NativeMenu, EditorPopout, PdfPreview

`SavedSettings`: a command reads, compares and replaces the file in steps between which another
program may write it; `inbox` holds a window's answers and events in any order. `WindowsShowTheFile`:
once quiet, every window that was listening shows the file, or a failure. `UpdatesRestOnSeen`: a
window replaces the settings it had shown and no others.

`NativeMenu`: commands are synchronous, so what may fail is the installation of the menu, the
storage, or a broadcast. `MenuShowsTheProgram`: once quiet, the menu and the windows show what is
stored, unless an error was shown. Theme and locale run the same code, so one preference stands for both.

`EditorPopout`: `FlagShowsWindow`, `InsertedOnce` and `InsertionsArrive` state what the window is told
of its pop-out and what becomes of an insertion. Both hold but for the cases `excused` records; these
are listed under [disagreements](#disagreements-between-the-code-and-its-own-statements).
A React state change and its effects are one step; events to a window that is not there
vanish; insertion events keep their order, others do not; the handshake's sending ends at once.

`PdfPreview`: each document, zoom or locale is a run with a worker, a deadline, lanes and canvases.
`TypeOK` includes the pixel budget over all runs, the cancelled ones too. `PagesAreCurrent`: no page of
another run in the container, in order, none of a failed run; *ready* means all of them; an ended run
has no worker.

### CrashDrafts and DraftWindow

`CrashDrafts` is the directory (`dir`, with damaged files and leftovers of staged writes), one answer at
a time, and the error of the repair at the start, which the first list is told (`startup`); limits on entries and bytes
are one limit. `DraftWindow` adds per document what the scheduler has pending, in flight and queued, the session's step around it
(a save that cleans its draft, an open that leaves one document for another, the flush before the window is destroyed), the
discard that follows a save or a dropped text, with the list behind it, and a kill of the program at any step. The debounce timer
fires at any time.

`App.tsx:547` passes `enabled: false` to the recovery. So the window does not read the drafts when it starts, its dialog
of recovery is not rendered, and the commands that recover, reset and repair have no caller; none of these is modelled.
What is left of `useCrashDraftRecovery` is `afterConfirmedSave`, and the list it asks for is where a window first learns of an
earlier run's drafts and of a failed repair.

- `DirtyTextIsDrafted`: once quiet, a text that is not saved is in a draft, or the user was told.
- `SettledTextIsGone`: a draft of a text that was saved or dropped does not come back.
- `RemovalsAreJustified`: a draft goes because it is the oldest of too many, or because its text was saved or dropped.

All three leave out a text typed while a saved one is cleaned up, see
[disagreements](#disagreements-between-the-code-and-its-own-statements).

### OpenIntents

The bounded queue of the backend, the poll for its head, the coordinator's one active request, modal
dialogs, dirty documents, and the steps of carrying a request out (resolve, ask, apply, settle), with
receipts and the grants they stand for; reloads and restarts of the window.

- `NoRequestForgotten`: a request is in the queue until it is carried out or refused with a message.
- `RequestsInOrder`: a request is carried out once and in its turn. The window takes the head of the queue
  from any number of polls, reads it again before the queue has dropped it, and tells a request from another
  by its number alone, which counts from one again when the program restarts.
- `ReceiptsEnd`: when nothing is under way no receipt is left open.
- `ShownIsGranted`: the window shows the workspace the backend has granted. `RequestsAreKept`, the run's
  question, is these four.
- `RestoreEnds` (liveness): the restoration of the saved session ends, after which the session is
  stored again.

`restore_workspace_session_with_ports_inner` is called by tests only; the production path is
`open_intent_commands.rs` 319–365.

### SavedSession

The record on disk with its staged replacement, the window's queue of saves with their revisions,
the gate that holds saves back until the restoration has been settled, and the flush before closing.
`CloseKeepsSession`: after an orderly close the record is what was shown when it was asked for,
or later. `UnsettledKeepsSession`: until then the record is not replaced by what a window happens to show.

### RecentFiles

List and receipts under the runtime's lock; a commit persists, grants and rolls back, and each of the
three may fail. `VerdictIsTrue`: what the window is told or finds out by asking is what happened.
`MenuFollowsStore`: the native menu shows the list that is stored, or a refresh is owed.

### SearchIndex, WorkspaceSearch, WorkspaceListing

`SearchIndex` has the operations with their generation, the watcher installed after a build and its events
in any order. A query is checked under the lock (`IsCurrent`), the root is opened again without it (`LookAtRoot`), and the
blocking thread answers later (`Answer`). `IndexIsFresh`: once quiet, an index that is offered is that of the disk.
`AnswersInOrder`: a query that was not yet found current when a later one began does not answer after it. More is not so: one
that had been may come after the later one's answer, and `WorkspaceSearchDialog.tsx` (150–165) drops it by its operation and request;
the comment at `begin_query` (`workspace_index_runtime.rs:251`), that an older response must not stay eligible to update
the dialog, is true of the two together.

`WorkspaceSearch` is the algorithm: building within limits, ranking, locations, snippets, with every
cancellation check. `FilesAreFound`, `BestAreShown` (compared with sorting all matches by rank and
path) and `CancelledIsSilent`. A character is one of a few letters; a capital sharp s is three
bytes and folds to two letters, which is what makes offsets hard.

`WorkspaceListing` is the walk with its limit, its exclusions and links, while the tree changes and the
root is replaced, and put back (`RestoreRoot`). The walk looks up the root by its path for each directory, and its identity is
compared before and after only. `UndisturbedIsComplete` compares it with reachability; `FreshIsSelected` says that
a receipt which is not *stale* lists the directory the user selected, unless that was replaced and put back while it was
walked, which the comparison cannot find out.

### WorkspaceEntries

One operation at a time with its checks, the change of the disk and the observation after an error;
on Linux the Trash is an information file and a rename, elsewhere one call. `AnswersAreTrue`: what is
called done, or not done, is. `TrashIsRecoverable`: what is in the Trash has the information to be
put back. `NothingIsLost`: an entry is in the workspace or in the Trash. `UnsureIsClosed`: a path whose
outcome is unknown may not be written until that has been settled.

### HtmlPreviews, AnchoredFiles, AssetResolution

`HtmlPreviews`: commands change sites and leases under two locks, one after the other; threads revoke
between. `LeasesAreSites` and `OwnersAreFrames`: once quiet there is a site for every lease and for no
other, and its owners are the frames that show it.

`AnchoredFiles`: a walk by name beneath a directory that is held open, a parent checked after it was
opened, and the server's check after opening, against other programs that move directories and plant
links. `OpenedIsAnchored` says where an opened file was taken from. One read by its own grant was in the directory at its path,
one sent to a preview has itself been beneath the root of the preview. One read out of a workspace was taken through real
directories from the granted one, and never through a link: it has been beneath that directory, or beneath one that had been
there since the request. It need never have been beneath the grant itself: the walk holds each directory open and asks nothing about it
again, so what is put into a directory after that was moved away is still found (`commands.rs:542`). The instance has two levels
below the grant and two moves, with which this happens.
`BytesAreAsked`: what is read is what the range, the size and the limit say.

`AssetResolution`: `NearestIsShown` states which file a relative path means, with the retry of the
preview's scope.

### ResourceStore, ExcalidrawScene, ExportStore

`ResourceStore`: every file is staged, checked again and published by a rename; the directory is
reopened by its path each time. If the second picture of a pair fails, the first is put back (`PutBack`) or unlinked, and a new
ownership file with it (`GiveUp`); each unlink may fail, of which the code tells nobody. `AnswersAreKept`: a drawing that is
said to be stored has both pictures of one version, and one that is said not to be has left what was there, or, where the
undoing or the end of a publication failed too, the picture that was to be written; if no other program
stepped in. `ImagesAreLeft`: a published image is never written over.

`ExcalidrawScene`: `AcceptedMeansConsistent` compares the validation with the definition of a scene
whose references are mutual; every list of at most two elements is an initial state.

`ExportStore`: `AnswersAreTrue` and `OthersAreLeft` for a file and for a bundle with its rollback,
over the contract of `ExactFile`.

## Runs

TLC checks each passing run completely. `CHECK_DEADLOCK FALSE` appears where the system may stop:
calls are made once, budgets run out, windows close.

| run | question | instance and why it is enough |
|---|---|---|
| `dw_race` | one call against everybody else and power loss, on unix: all promises and the contract | 1 call, 3 foreign steps (before the comparison, before and after the replacement), 1 power loss, 2 parents and the temporary directory, each synchronized by itself |
| `dw_windows` | two calls of one process, with Windows's half-failing replacement; every call returns | 2 calls, 1 foreign step, 7 objects (enough for every private file of both) |
| `fa_open` | opening through a workspace and dialogs, saving, the watch | one directory, two files, a rename in place, 1 foreign step |
| `fa_rename` | renames, moves, trash of a directory that holds a workspace, with unknown outcomes | two directories, a nested workspace, two files, a lease, 1 foreign step |
| `watch_all` | all of the watch | 2 paths, 2 texts; 2 foreign changes with a save and one other event or with 2 saves, or 3 foreign changes; 1 poll; paths and texts symmetric |
| `pane_sync` | convergence and service of an editor pop-out | 2 documents, 2 edits, 2 launches, 2 messages in flight |
| `pane_all` | the same with reloads, losses, uncertain opens and Save As, one edit | 2 authorities, 1 loss |
| `windows` | session and saves, settings, menu, pop-out, PDF | session: 2 files, 3 texts (one blank), 1 token, 2 clicks, 1 edit, one each of failure, foreign step and other grant; settings: 2 windows, 2 commands, 1 trouble; menu: 3 commands, 2 faults; pop-out: 2 attempts, 3 events; PDF: pages of sizes 1, 1, 2, 1 under a budget of 3, 2 lanes, 2 runs, 1 fault; files and texts symmetric |
| `restarts` | drafts, requests and the session from one run to the next | drafts: 3 documents and a limit of 2 (one must go), cleanup in batches of 1, 4 texts, 3 runs, 2 faults; requests: 3 into a queue of 2, 1 fault, 2 moves of the window; session: 2 roots, 4 shows, 2 runs, 1 trouble |
| `stores` | the eleven stores | recent: 2 files, list of 2, 4 commands, 2 faults; index: 2 documents, 1 text, 2 operations alive of 3; entries: 2 names, 2 operations, a fault and a foreign step; previews: 1 document and 1 note, 1 site, 3 commands, 2 faults; resources: 2 versions, 2 directories, 3 operations, 2 faults, 1 foreign step; anchored: 5 directories, two levels of them below the grant, 2 files, a link, 2 moves; search: 8 files of which 2 are indexed; listing: trees of several shapes, limit 3, 1 change, and the root replaced and put back; scenes: all of 2 elements; exports: a bundle of 3, 2 calls, 2 foreign steps; assets: 1 resolution, 2 faults, 1 change |
| `pane_home` | expects a violation | see below |
| `settings_retry` | expects a violation | see below |

Bounds are guards on the environment (how often somebody edits, renames, fails); the program's own
steps are never cut short by one, except `MaxObjects` (a private file that cannot be created is a
failure the code handles, so calls would stick with fewer) and `MaxMessages`.

Some properties of the runs are conjunctions of properties that the modules define one by one, so
that each run has a handful of named questions. `CallsAreExact` is `OnlyExpectedDestroyed`,
`ConfirmedIsExact` and `IntendedRetained`; `FilesAreKept` is `NoDocumentLost` and `ConfirmedIsExact`;
`OriginsAreBound` is `WorkspaceOpenStaysBound` and `PublishedRootIsChosen`; `SavesStayBound` is
`RebindsOnlyItsOwn` and `SaveKeepsAuthority`; `GrantsStayInPlace` is `GrantsFollowRoots` and
`FreshKeysStayFree`; `RenamesSettle` is `SuspendedStaysSuspended` and `RenameSettlesAsOne`;
`RevocationIsComplete` is `WriteAuthorityAdvancesGeneration` and `PreviewsEndWithTheirSupport`;
`WatchKeepsUp` is `ScheduledHasRun` and `NothingUnseen`; `EventsAreSound` is `MissingIsConfirmed` and
`ToldNeverGoesBack`. In the sums, `DraftsAreKept`, `RequestsAreKept`, `AnswersAreTrue`, `AuthorityIsHeld`,
`StaleIsRefused`, `NothingIsLost`, `WindowsAgree` and `UpdatesRestOnSeen` say of each focus which of the
properties above they stand for; `WindowsTypeOK`, `RestartsTypeOK` and `StoresTypeOK` are the type invariants
of their components.

What the runs do not reach: two pop-outs at once in `pane_sync` (too large), Save As there
(the next section), both platforms in one instance, more than one rename that failed at a time, two
tokens alive at once (`windows` has a capacity of one, so the second one evicts the first), more than one
preview site.

Fairness. `DurableWrite!Spec` assumes that each call's thread keeps running
(`WF_vars(OpStep(o))`): `EveryCallReturns` then says that the process-wide lock is handed on. Foreign
steps and power loss are never fair. `PaneReplication!FairSpec` assumes that effects, timers,
listeners and events that were sent are served in the end (`WF_vars(Replicate)`), which the browser's
event loop and Tauri's event bus do as long as a window lives; user actions, reloads and closing are
not fair. `MCRestarts!Spec` assumes the same of the window's own steps with a request (`Working`), of the
answers to its polls (`Asked`), of the registration of its listeners, and that a modal dialog is
closed by the user in the end (`ModalCloses`): the coordinator waits behind it by design, so
without that nothing could be promised. One dialog cannot be closed, that about the store of drafts (see the next section). `RestoreEnds` excuses the two situations in which the code does not promise
it: a poll's answer that was lost with the window that asked (`unheard`), and a request whose
question the user leaves open (`Abandoned`). The other specifications are used for safety only.

## Disagreements between the code and its own statements

Two have a run that ends in a counterexample; `PROJECT.json` quotes the statement.

- `pane_home`: text of the editor pop-out for one document is taken into another one.
- `settings_retry`: a retry that reads the settings leaves the recovery dialog open, because the
  revision it finds is the one already shown.

The others were met while modelling and have no run of their own. The models have the behaviour; the
properties either leave it out, by a condition named in them, or are stated to the extent they hold.

Authority and watch:

- A rename that fails and is settled drops the ledger a pending save-as was about to extend, without
  advancing the generation that would have told it; the save then panics (`path_auth.rs:888`, `1793`)
  after the file was written.
- Trashing a directory takes the write authority of a document that was opened there and has been
  moved elsewhere (`path_auth.rs:1884`, `5746`).
- A document renamed between a save and the first reconcile after it is followed, but the event is taken
  for the echo of the save (`active_document_watch.rs:1167`): the main window keeps the old path (*absorbed*).
  The test `committed_write_suppression_requires_exact_path_and_bytes_and_is_cleared` (`2079`) asks for
  the exact path, and `committed_save_binding_survives_an_immediate_rename_before_watch_settlement`
  (`1979`) sets this very scene and stops before the comparison.
- Save As registers a new watch whose preview revision starts at 1 again
  (`active_document_watch.rs:1353`): with it in `pane_sync`, `QuietReplicasShowMain` fails.

Session and panes:

- An open that was not committed restores the former state under its former revision, and a pop-out
  that has seen the provisional state keeps it (`useDocumentSession.ts:545`).
- The busy mark survives some paths of the conflict decision (`useDocumentSession.ts:1826`), Save As onto
  the document's own path leaves the watch deaf (`1478`), an event from before an overwrite is
  applied after it (`800`), and a conflict dialog may keep the token of an earlier save-as (`1451`). Events
  are lost while listeners are registered anew (`App.tsx:889`).
- An edit made while a save of the same document fails is not always in a draft
  (`NewerEditsAreDrafted`, `useDocumentSession.ts:409` against `useDocumentSession.test.tsx:661`): the draft that
  `afterConfirmedSave` discards is the one stored last, be it of the newer text.
- The dialog about the store of drafts (`App.tsx:2367`) offers only a retry, which does nothing as the recovery is not enabled
  (`App.tsx:547`, `useCrashDraftRecovery.ts:79`), and no repair, as only that retry would find the receipt. It stays until a later
  discard succeeds, and requests to open something wait behind it (`App.tsx:729`). Nor are drafts of an earlier run offered at all.
- The overwritten `transition.provisional` drops a text that was accepted from a pop-out during the transition
  (`useDocumentSession.ts:534`, `557`).
- A media insertion is lost without a message if the pop-out is changing its listeners, if a second one
  comes before the first was rendered (`App.tsx:1424`), or if the request for the window's identity was
  missed, which nothing repeats (`App.tsx:1289`). One that was queued when an open failed survives into a
  later window. The pop-out's flag may be wrong if the window ends or another opens while an open
  or the first look has yet to report, or if an open fails although the window exists.
- `getPage` of the PDF preview has no deadline: a cancelled run and its worker may stay.

Stores:

- A creation or a replacement is confirmed although its directory was not synchronized, if another program swaps the parent between
  the last check and the synchronization (`durable_write.rs` 1113–1123, 1342, 1782); a power loss can then undo it.
- A file that was never below a workspace may be read through it, if two directories are moved during the walk
  (`commands.rs` 542–590), and a listing is fresh although another directory was listed, if the root is replaced and put back meanwhile
  (`workspace_snapshot.rs:151`).
- A generated picture may replace a file the ownership record does not cover, if it appears between check
  and rename (`resource_store.rs` 1155–1172, 1207, 1475–1480; tests at 2111 and 2158).
- An oversized settings file is offered to be reset, and the reset fails (`settings.rs:744`).
- A file of a bundle whose removal has an unknown outcome stays (`export_store.rs:198`), which the test
  `bundle_is_all_new_and_rolls_back_partial_publication` does not consider.
- A search snippet is cut at an offset of the folded text (`bounded_snippet`), so a hit behind letters
  that fold to more may lie outside; `BestAreShown` says so.
- A failed write to the local storage leaves a menu mark until the next refresh.

## Proofs

`DurableWriteProofs` proves for every set of calls, images and bounds, from the assumptions named in
`DurableWrite` (`PlatformAssumption`, `NoOpAssumption`, `NothingAssumption`, `VersionAssumption`,
`PowerLossAssumption`, `BoundAssumption`):

- `TypeCorrect`: `Spec => []TypeOK`. `TypeInv` is `TypeOK` split in named parts (control, names,
  files, disk images, locals); lemmas treat the shapes of a step (read and move on, return, change
  a directory, synchronize one) and `TypeStep` goes through the actions. What a power loss may leave is a mixture of states
  of several directories, so later parts need two more facts: a file never leaves the directory it was created
  in (`PlacedInv`), so that a mixture never has a file at two leaves or at none because it was between two directories;
  and a call that is to change, or has changed, the destination does so in one directory (`HomeInv`), so that its effect is in
  a mixture exactly if that directory's state has it.
- `DeniedCorrect`: `Spec => []DeniedIsUntouched`. By itself this is not inductive: it speaks of
  calls that have returned. `EffectInv` adds that a call at a label before its mutation, and at those that a
  denial can still be given from, has no effect of its own (`Clean`, `UntouchedLabels`); a failure
  reached later can only answer *indeterminate*.
- `DurableCorrect`: `Spec => []ConfirmedIsDurable`. `SettledInv` adds that at the labels behind a
  synchronization that was not missed every image power loss may leave already has the call's effect, and keeps it:
  what is journalled later is of a state that has it, and a synchronization of another directory leaves this one's alone.
  With `HomeInv` a call's path leads, at its synchronization, to the directory it changed, unless the swap fell in between and the
  synchronization is in `strayed`.

That no document is lost builds on it (it needs `TypeInv`):

- `DocumentKept`: `Spec => []NoDocumentLost`. A power loss may bring back any image in `onDisk`, so
  `KeptInv` says of each of them, and of the directories as they are, that every document has a
  name, or lost it to another program, or was destroyed by a verified delete (`Kept`). To show that
  a step which binds or unbinds a leaf keeps this, one must know what was there: `LeafOK` says at
  which labels the private leaves of a call are free, that its recovery image and, before the
  mutation, its stage are no documents, and that the staged alias of a creation may go because the
  destination is the same file or another program has removed it. `Fresh` makes a new file differ
  from all of these, `Exclusive` leaves the private leaves to the one call that holds the lock.

The exact effect of a call builds on both (`BaseInv` is all invariants of the first three parts together with
`ExactInv`). Its proofs share one lemma, `StepFrame`: a step of a call binds only leaves of its own and, in a
*mutation* (`InstallAbsent`, `Replace`, `ReplacePartially`, `MoveToQuarantine`, `Restore`), the destination; it
binds them to nothing, to files it creates or to files it moves, changes no existing file and leaves the other
calls alone.

- `ExactCorrect`: `Spec => []ConfirmedIsExact`. The call compares the displaced file *after* it was moved, and
  another program may have replaced, edited or restored any file in between. `TakenOK` says why the comparison is
  enough: from before the mutation until the comparison, a file at the displaced leaf that *is* the expected
  version is the one the call took. Other programs can put other files there, but none that equals a version seen
  before the call began: a new file has a larger identity, a written one a later stamp (`Dated`, `TakenKept`).
- `FilesCorrect`: `Spec => []FilesAreKept`, the run `dw_windows`' question: this with `DocumentKept`, both of which
  hold on either platform.
- `DestroyedCorrect`: `Spec => []OnlyExpectedDestroyed`. A destroyed version stays in the history when its call
  ends, and a power loss may bring back a directory without it; `DestroyedOK` therefore speaks of every image in
  `onDisk` and of what each says the call has done.
- `RetainedCorrect`: `Spec => []IntendedRetained`. The bytes in the recovery image could change through *any*
  leaf that leads to the same file; `KeptIn` says that in every tree a power loss may leave the recovery leaf is the
  only one that does, so no step on the other files reaches it.
- `CallsCorrect`: `Spec => []CallsAreExact`, the sum of the last three.
- `ContractCorrect`: `Spec => ImplementsContract`, the refinement of `ExactFile`. `Call` is `Ask`; the mutation of
  a call is `Change`, at most one (`EffectInv`); `Restore` is `PutBack`, which needs that the call had taken
  something (`TookInv`); a return is `Answer`, truthful by `ExactInv` and `EffectInv`; steps of other programs are
  `Foreign`, a swap before a synchronization too, which puts the call in `adrift`; and a power loss is `PowerLoss`, which undoes nothing
  confirmed that is not adrift (`SettledInv`) and gives a write no
  effect but none or its own (`WritesInv`). All other steps leave the destination's version and the answers as they are
  (`CellStays`, `StepReplies`). This is a step simulation; the contract states no fairness.

`PaneReplicationProofs` proves for every set of pop-outs and all bounds, from `ReplicaAssumption`,
`OutcomeAssumption` and `BoundAssumption`:

- `TypeCorrect`: `Spec => []TypeOK`. `TypeInv` adds what `TypeOK` leaves to its reader: the messages
  on their way and the counters.
- `RevisionCorrect`: `Spec => []RevisionNamesOneState`. Two snapshots with one revision could arise
  because four handlers draw on one counter and an answer may let a revision leave before its flush.
  `RevisionInv` adds that no visible snapshot of the running authority is above the publisher's
  revision, that the last snapshot carries exactly that revision, that a scheduled flush holds the
  last snapshot, and that nothing above the counter has left (`highest <= revision`). With it a
  flush is either the snapshot already known or has the next revision (`RevisionFlush`).
- `EditsCorrect`: `Spec => EditsRestOnLiveState`. The invariant is `StoredIsLocked`: what a pop-out
  shows without a live snapshot is never a committed document.
- `HeardCorrect`: `Spec => []EditorIsHeard`. `OwnerInv` adds what the sources remember. No message carries a
  number its window has not given out, what the session has accepted of a source is no later than that, and
  text is addressed to a document that is or was open (`SourcesOK`, `SequencesOK`, `AddressedToOpen`); then the
  owner's last text is either the highest of its source on the way or already the document's (`OwnerOK`).
- `QuietCorrect`: `Undisturbed` and `Spec => []QuietReplicasShowMain`. `Undisturbed` says that no emission is
  refused, that no prepared open is rolled back and that no document is saved under another name. Each of the
  three is needed, TLC finds a pop-out that stays behind without it: a refused emission is not repeated, and
  the order of states (epoch, preview revision) that lets a window turn down what is old also turns down what
  comes after a restored document or after a new file's watch, which counts from one again.
  `QuietInv` says that every step takes the session forward in that order (the lemmas `...Forward`), that what
  a pop-out shows is never ahead of the publisher, and that a pop-out which shows less has the answer on
  its way, or its request, or text that will be answered (`ServedOK`).

`FileAuthorizationProofs` proves for all paths, trees, renames and bounds, from the assumptions `PathAssumption`,
`DiskAssumption` and the others of `FileAuthorization`:

- `TypeCorrect`: `Spec => []TypeOK`.
- `OriginsCorrect`: `Spec => []OriginsAreBound`; `GrantsCorrect`: `Spec => []GrantsStayInPlace`. One invariant
  carries all three, `Inv`. Its heart, `Sound`, relates the four maps of the session: each ledger has origins and a
  sequence number given out before, an origin of a document has a number already used and, while it stands,
  the identity its authority was bound to (`StaysBound`), the grants of a workspace are below its root
  (`FollowsRoots`), and a root is the selected directory or what renames made of it (`IsChosen`).
  `PendingOK` says of a reserved save-as that its document and its ledgers are absent, which only a
  generation that no revocation has advanced can know; `WorldOK` and `WatchOK` say what the tree and the watches
  have to do with the paths in the ledgers. Every operation of `AuthorizationState` has a lemma that it leads from `Sound` to `Sound`,
  and those that only take or move authority one that they are a `Changed` step, so an action, which
  composes them, never looks into them.

The same module proves the action properties, from the same assumptions:

- `SavesCorrect`: `Spec => SavesStayBound`; `RevocationCorrect`: `Spec => RevocationIsComplete`;
  `RenamesCorrect`: `Spec => RenamesSettle`. `Inv` is not enough for them, `StepInv` adds two facts: an
  origin is in at most one ledger of a kind (`Apart`; otherwise a rename could bring an active
  ledger onto a suspended one by an origin they share), and the origin of a reserved save-as is in no ledger
  (`Reserved`). Each operation of `AuthorizationState` has a lemma that says which of four things it does
  between two states: it only takes (`Fewer`), it leaves suspended what it found suspended (`Wakes`), it
  leaves the bindings of documents alone (`KeepsBindings`), it advances the generation if it changes what may
  be written (`Dated`). `OnlyReconciled` says that nothing but `ReconcileRename` settles a failed rename,
  and `ReconcileOK` goes through its three ends. Neither asks what the two looks have found to be true still: the settlement
  treats all of the authority alike whatever they found.

  The proof found a case that the instances leave out. A workspace that is granted anew during an
  indeterminate rename activates the asset ledger of its root. If the asset protocol's scope then refuses it,
  `settle_workspace_authorization` takes back only the origin it added, so the ledger stays active, with the
  origins the rename had suspended. It lends no right to write and ends with those origins; `SuspendedStaysSuspended`
  states it as the third exception. TLC meets it when `MaxPendingRoots` of `FileAuthorizationRename.cfg` is
  raised to 1 (1.6 million states, too many for the run); the theorem covers every bound.

`DocumentSessionProofs` proves for every set of paths and texts, every capacity of tokens and all
bounds, from `SaveAssumption` of `DocumentSave` (which TLC evaluates in the run `windows`):

- `HeldCorrect`: `Spec => []ReservationsAreHeld`. The property speaks of any save-as in the queue; what is
  inductive is that a reservation is held by a token or by the operation at the *head* of the queue
  between its dialog and its token (`Waiting`), so an operation that leaves the queue holds none. A
  token is used up by its number, so `HeldInv` also says that numbers are unique and below `serial`. The
  lemmas about `Invalidated`, `Evicted`, `Issued`, `Settled` and `Retry` say what becomes of a state
  whose reservations are held (`Held(s, held)`); the actions then only differ in who holds before.
- `SeenCorrect`: `Spec => []SavesRestOnSeen`. Versions do not come back, so whether a text *fits* a version of a
  path (the file, should it have that version, holds that text: `Fits`) is stable under every write, of this
  program or another (`Grows`). `SeenInv` says of everything under way that it fits: the events on the wire and in
  the queue, the answer of the running operation (`AnswerFits`: what was committed is what was to be written),
  and the document. A stale event may thus be applied after a save: it brings the text of its own version. The one
  hard case is a change the user chooses to overwrite ("keep"): the document takes the text of the file
  for saved and keeps its old base. `Chosen` says that the text read for the choice fits that base too: it was
  read from the file as it was, and only the first operation of the queue gives a document a base.
- `TypeCorrect`: `Spec => []TypeOK`, the capacity of the tokens included. `TypeInv` adds two parts to the invariants
  above. `Limited` says what is limited: the tokens are finitely many and within `MaxTokens`, none is of a later
  authorization than the present one, and there is at most one reservation. All that a call does but issue a token leaves
  a state with no token or reservation it had not (`Fewer`); to issue one drops the oldest live token if there are as many
  as there may be, and there is an oldest because the numbers of tokens are well founded (`Least`). `TypedInv` follows
  texts and paths wherever they travel: events on the wire, operations and answers in the queue, the dialog, and
  a watch that is active, which is a watch of a path.

`ActiveDocumentWatchProofs` proves for every set of paths and texts and every budget of the environment,
from `BudgetAssumption`, `PathsAssumption` and `NobodyAssumption`:

- `TypeCorrect`: `Spec => []TypeOK`.
- `ScheduledCorrect`: `Spec => []ScheduledHasRun`, the first half of `WatchKeepsUp`.
- `EventsCorrect`: `Spec => EventsAreSound`. The invariant `WatchInv` ties each piece of work to the entry.
  `ScheduleOK` says which runs are under way and `PendingOK` that a watch not yet activated has none.
  `RunOK` and `GraceOK` say that a run which confirms a deletion belongs to the grace period begun when the
  file was last missed, hence `MissingIsConfirmed`. `SaveOK` says that a save was announced to the entry,
  unless the window knows another path (*absorbed*) or the watch is pending; so a read from before a save meets
  either a write under way or a later epoch, and `FreshOK`, what the holder of the lane has read is no older than
  what was told unless it is stale, survives the save. `ToldNeverGoesBack` follows when the run settles.
- `KeepsUpCorrect`: `Spec => []WatchKeepsUp`, whose second half is `NothingUnseen`: there is no sixth way to lose a
  change, whatever number of programs, saves, moves and watches. `UnseenInv` says for a state in full activity that
  the window was told what is on disk, or that another look is `Coming`: a notification not yet heard, what a
  pending watch or a save under way has noted, a scheduled run, or a grace period that will end. Three facts carry it.
  `ReadOK`: what the lane's holder has read is still on disk, or a notification about *that* path is on its way, or
  the run will be stale or followed by another; this is where a notification can stray. `ExpectsOK`: bytes that a
  settled save makes the entry expect are those the window was told of, so that a snapshot taken for the save's echo may be
  settled in silence. `KnownOK` is the claim, for states without an excuse; when a run clears the excuses it must hold
  at once, which is why `ReadOK` depends on none but *strayed*, the one that only a new watch clears.

`SavedSessionProofs` proves for all sets of workspaces and names and all bounds, from the assumptions of
`SavedSession`:

- `SessionTypeCorrect`: `Spec => []TypeOK`; `CloseKeepsSessionCorrect`: `Spec => []CloseKeepsSession`;
  `UnsettledKeepsSessionCorrect`: `Spec => UnsettledKeepsSession`. The property of closing speaks of one moment,
  after the flush was asked for, and of a set of records that would do (`due`); `DueOK` extends it to the time
  before: from the moment of the flush on, either the record on disk is one of those, or the *last* save in the queue is still to be
  carried out, and every save in the queue is of one of them. `QueueOK` says that the saves are in the order of their
  revisions and that only the first of them may have been sent, `SentOK` that the save the backend works on is that
  one, and `JobOK` that until the restoration has been settled the backend carries out no save, and writes nothing but
  the record it has read, without its active workspace.

`HtmlPreviewsProofs` proves for every set of windows, frames, notes and roots, every capacity and all bounds, from
`PreviewConstants`:

- `PreviewTypeCorrect`: `Spec => []TypeOK`. `TypeInv` adds that the table of sites is finite (the capacity counts it) and what a
  command under way may hold at each of its stages.
- `AuthorityIsHeldCorrect`: `Spec => []AuthorityIsHeld`, which is `LeasesAreSites` and `SitesAreShown`. Both speak of a quiet
  server, so the invariant must say of every moment who will see to it that they hold. `LeaseInv`: a lease without a
  site, or a site without its lease, is owed: a thread that has revoked or drained it, or the command
  under way, will still retire or install it (`Backed`, `Accounted`, `OfCommand`). `OwnerInv`: every owner in a site's table is
  waited for once, by the frame that shows it, by a release on its way or by the command that will
  answer (`Kept`, `Single`, `Windowed`), and an owner number is drawn once (`Drawn`). Both hold until the
  authorization lock is poisoned, which the code treats as the end of the session (`Lost`).

`OpenIntentsProofs` proves for all start lines, files and directories, every capacity of the queue and all bounds, from
`IntentConstants` (the hypothesis of each theorem; `MCRestarts` assumes it of its instance, so that TLC evaluates it):

- `IntentTypeCorrect`: `Spec => []TypeOK`; `RequestsAreKeptCorrect`: `Spec => []RequestsAreKept`. `RequestsInOrder` is
  part of the invariant, and not inductive alone: the window may be given a head of the queue it has carried out
  already. `Numbered` says that the window's requests, the head in an answer and the queue use one number for one
  request only, and that no two of these three are out of order; so a head that is not after the active request or
  the settled ones is one of them, and the coordinator's comparison of numbers recognizes it. `Headed`: while the
  queue is not empty, its head is known to the window or will be asked for, unless the answer was lost or the user
  leaves a question open. `Brought` and `Granted` say at each phase of a request which receipts and which workspace
  its answer has brought, between a grant and its settlement too; at rest they are `ReceiptsEnd` and `ShownIsGranted`.

Three kinds of facts are left to TLC because the prover does not reach them: liveness under fairness
and `ENABLED` (`EveryCallReturns`, `PopoutsAreServed`, `RestoreEnds`); induction over data (what a
recursive function computes for every input: `WorkspaceSearch`, `WorkspaceListing`, `ExcalidrawScene`); and
everything in a module with `RECURSIVE` operators, which is why the models use none. Model-checked and
not proved so far: `WindowsAgree` (settings, menu, pop-out, PDF), `DraftsAreKept` and `RemovalsAreJustified`
(drafts), `AnswersAreTrue`, `StaleIsRefused`, `NothingIsLost` (recent files, index, entries, resources and the other
stores), `TextStaysInItsDocument`'s and `RetriesEndRecovery`'s violations, and the type invariants of
these modules.

## Not modelled

`PROJECT.json` says for each component why. Not modelled at all: Markdown, paste and export formatting
(transformations of text, whose correctness is a matter of text), the updater (a check and an installation
delegated to the platform's plugin), the packaged end-to-end harness (test instrumentation).
Partly: the crash drafts (not their recovery, reset and repair, which the window never calls), the document session
(not the sidebar's create, rename and trash on the window's side), workspace
commands (not the conversion of a file to a data URL, nor embedded PDF and DOCX bytes), theme and
locale (not style sheets and the system's setting), program close (drafts and session record; not the
question about unsaved text), PDF and DOCX previews (not the conversion of DOCX, and the check of an
archive's sizes), user interface (insertions only).

Much of the Rust that no definition maps is test code (`#[cfg(test)]` modules make up nearly half of
the backend's lines) and the plumbing of system calls on three platforms, which the models treat as
operations with outcomes.

## Plan

Every component with state has a model. Next come proofs, in this order:

1. `DraftsAreKept` of `DraftWindow`, with the invariant of its scheduler and its directory.
2. `WindowsAgree` of `SavedSettings` and `NativeMenu`, then the stores' `AnswersAreTrue`.

Then the composition of `DocumentSession` with the whole of `ActiveDocumentWatch` in place of its summary
(`entry`, `wire`), and larger instances of the sums' components, each in a run of its own.
