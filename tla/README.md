# Formal models of tiny-shell

tiny-shell is a desktop SSH, SFTP and remote-desktop client written in Rust
with gpui. This directory holds TLA+ models of the parts whose correctness
depends on orders of events that the unit tests do not reach, the TLC
configurations that check them on small instances, and proofs that TLAPS
checks for every instance.

Paths below are relative to `src/src/` of the repository.

## Inventory

### The components and their state

| Component | State | Operations | What makes it hard |
| --- | --- | --- | --- |
| Three-way reconciliation (`sync/reconcile.rs`, `sync/merge.rs`) | none | compare baseline, local, remote; merge | each entity has three versions, deletions included |
| Synchronization coordinator (`app/config_sync.rs`, `app/sync_handlers.rs`, `app/runtime_state.rs` 440-560) | `SyncRuntimeState`, the supervisor's task, pending conflicts | upload, restore, automatic triggers, one handler per result | results arrive after newer local changes; crashes between two files |
| Baseline store (`sync/state.rs`) | `sync-state.json` | load, save | written after the configuration, in another file |
| Remote object (`sync/mod.rs`, `sync/http.rs`, `sync/backend.rs`) | payload and entity tag | conditional put, get | lost answers, late writes, other devices |
| Window close (`app/startup.rs`, `app/config_sync.rs` 213-265) | prompt, pending close, close synchronization | request, cancel, confirm, complete | dialog and synchronization run side by side |
| Configuration repository (`app/config_persistence.rs`, `app/mod.rs` 2425-2782, `app/runtime_state.rs` 281-408) | file, queue, `last_saved`, `last_error`; generations per window | preference saves, full commits, blocking saves, flush, shutdown | several windows share one file; timeouts; failures reported late |
| Saved connections and groups (`session/config.rs`, `session/connection_catalog.rs`) | groups by path, connections, recycle bin | create, move, rename, delete, restore | paths as identities; the bin of one device against the use of another |
| Merge of groups, keys, categories and tombstones (`sync/merge.rs`, `sync/model.rs`) | none | structural merge | references between entities |
| Command usage (`session/command_usage.rs`) | counter per writer | record, merge | the same writer advances two copies |
| Backend event channel (`terminal/mod.rs` 355-665) | three queues, one send order | send, drain | order over three queues; blocking with a lock held |
| Session store and event routes (`session/store.rs`) | routes, unrouted events, tombstones | register, remove, move, drain | bounded queues, tabs that move between windows |
| Tab transfer (`app/tab_transfer.rs`, `app/tab_drag.rs`) | groups in two windows | transfer, roll back | a failure after part of the move |
| SFTP transfers (`sftp/transfer.rs`, `sftp/mod.rs`) | flags, partial files | pause, resume, cancel, retry | flags polled by a task |
| SFTP text editor (`app/sftp_editor.rs`) | buffer, remote revision | load, save, close | the remote file changes meanwhile |
| Host keys (`session/host_key.rs`) | `known_hosts`, lock file | verify, remember | two processes, stale locks |
| Remote desktop (`backend/remote_desktop.rs`) | frame slot, certificate decision | publish, take, decide | wake-up races |
| Updater (`app/updater/`) | phase, download, backup file | check, download, install | install in several steps |
| Dialogs (`app/runtime_state.rs` 185-267) | tokens of dialogs | open, replace, close | late closes |
| Connection backends, terminal emulation, settings and connection windows, encryption, monitoring, user interface | | | I/O, text, forms and rendering; see "Not modelled" |

### How they interact

One thread, the user interface, runs every handler of every window to its end.
It calls the configuration repository (a channel to the save worker, with a
reply channel per request, some awaited while blocking, some polled) and starts
synchronization tasks (Tokio, through the supervisor's entry "sync-operation",
which replaces and aborts the task before). Their results come back through an
event queue. The window close begins a synchronization and waits for it; a
full commit holds a close synchronization back, and its completion continues
it; every stored change marks a local generation, and the coordinator compares
it with the generation it last reconciled.

### What makes each modelled component correct

- *Coordinator*: it never waits for a task that cannot report; it overwrites
  only remote versions it has merged; no committed edit is lost or forgotten
  by a late result; it does not undo what other devices did; everything is
  reconciled in the end.
- *Window close*: no window closes without a confirmation that still stands,
  or before its synchronization is over; a confirmed close ends.
- *Repository*: an acknowledged change is in the file, a failure is reported
  to somebody, clean state is stored state, counters only grow, a clean close
  leaves nothing behind, an answer reaches only who still waits for it.

- *Backend events and routes*: what a tab shows comes in the order it was
  sent; no event goes to a window that does not own the tab; the end of a
  connection is noticed.
- *Tab transfer*: no tab is lost or in two places; a move that fails changes
  nothing; routes go with their tabs.
- *Transfers*: a finished file comes from versions of its source with one
  fingerprint; cancelled is final; nothing is shown to run forever, unless it
  waits for a permit.
- *Editor*: it replaces only what its text was made from, calls clean only what
  was stored, and never leaves the path without a file or a backup.
- *Host keys*: an accepted key stays recorded. *Frames*: a published frame is
  shown in the end. *Updater*: a program that starts is left. *Catalog*: a
  deletion can be undone, and nothing in use is lost.

The hazards, each at its line, are listed in `PROJECT.json`.

## The modules

### ThreeWay and SyncCoordinator

`ThreeWay` holds the decision per entity (`Selected` is `reconcile_entity`),
the merge of the whole catalog and the two-way merge without a baseline. An
entity has an abstract content or is `Deleted` (a tombstone) or `Missing`.

`SyncCoordinator` is one device against one remote object. Handlers run on one
thread, so each is one action; what a handler does in sequence is a function
from a record of everything it may change (`Machine`) to the next one, and the
action installs the result (`Become`). `rt` is `SyncRuntimeState`; `tasks` the
tasks of the supervisor, live or replaced; `wire` the requests whose sender
has given up but which may still reach the server; `config`, `disk` and
`baseline` the configuration in memory, the file and the entry of
`sync-state.json`. `HandleFinished` is `handle_sync_finished` with all four
result handlers, the failures of every save in them, and the pending automatic
run at its end. The environment may crash the process between any two steps,
fail a request before or after the server has carried it out, deliver a write
late, and change the object from another device.

In the model `save_full` is atomic within the handler that calls it; the
repository's own model shows what may happen to it. `MCSyncCoordinator` adds
symmetry and the sets of entry points of the runs.

### CloseProtocol and WindowClose

`CloseProtocol` is the promise of the doc comment at `app/config_sync.rs` 209:
four phases of the window, three of the synchronization. `WindowClose` is the
code: the flags of `TinyShell` and of the close synchronization, the
coordinator reduced to its control (which outcome a handler reaches is a
choice), commits of both variants and local changes. It implements
`CloseProtocol` under the mapping `Phase`, `Cycle`. Two gaps in the code leave
a confirmed close without a driver; the auxiliary `gaps` marks them so that
everything else can be checked. An update of a window that is already being
updated fails in gpui: `approve_pending_close` called from a handler of the
same window drops the confirmation (`Refused` in the protocol).

### ConfigRepository

The save worker (`WorkerSaves`, `WorkerReports`) takes requests from a bounded
queue. A request says to which receiver its answer goes: the receipt of a
preference save, the future of a full commit, a blocking call, or nobody after
a timeout. Per window there are `mem` (`TinyShell::config`), `persist`
(`ConfigPersistenceState`) and `commit`. A blocking call is split in two
actions, the send and the return, because the worker runs in between; the user
interface does nothing else meanwhile (`Free`). A close is a chain of three
such calls (`ClosePreferences`, `CloseLayout`, `CloseRelease`), each of which
may fail or time out. A configuration is abstracted to a preference, a layout
(each the number of the edit that chose it), a set of catalog entries and the
usage counters by window.

### SessionStore and BackendEvents

`SessionStore` has the operations of `session/store.rs` as operators on a
record, so that two modules can build on them: `BackendEvents` for what
happens to events, `TabTransfer` for what happens to routes. An event is a
record of its kind, route, generation and sequence number. Output is a
sequence of chunks, each known by the number of the event that brought it, so
that joining output and showing it out of order are visible. Only the
distinction between output, reliable and other events is kept ("Status" is any
other). Time appears as a choice: how many of the routes seen longest ago have
expired.

`BackendEvents` is the way of an event. A connection (`ConnectionSends`) sends
under `send_order`, which a reliable event holds while it waits for room
(`blocked`, `Unblock`). `try_recv` is split behind its look at the lifecycle
queue, because senders move in between (`PollLifecycle`, then one of the
`Receive` actions); the rest of a drain is one action per event handled, since
the user interface does nothing else meanwhile but a handler may itself send
(`HandleOutput`, a change of title). The handlers of `app/mod.rs` are
`HandleOutput`, `HandleNews`, `HandleClosed`, behind the test for events of an
earlier generation (`Stale`). The user opens, closes, disconnects, retries and
moves tabs between two drains. Two variables are history: `last`, what was
shown of each connection, and `crowded`, that a queue of the store held nothing
but reliable events and was full, so that it refuses the next one.

### TabTransfer

The tabs, groups and SFTP handles of all windows with the routes of
`SessionStore`. A move is one step, as in the code, where all windows share a
thread: `TakeAll` takes the groups out one by one, `Accepts` is the
validation, `CanMoveRoutes` the handover of the routes, and a failure of any
of them puts everything back (`RestoredAll`, in the reverse order). The
layout of a group is the order of its panes; the direction of a split is left
out. A window that is to be opened is one that holds nothing; opening may fail.
The history variable `cut` has the routes a window itself removed
(`CutOff`) and nobody has registered since.

### SftpTransfer

One download, from the buttons to the file. `controls` is the queue of
`sftp/command.rs` with its coalescing, `entry` and `joined` are what
`active_transfers` and `active_tasks` hold, `flags` the atomics the tasks poll.
A partial file is known by the task that created it and its contents by the
versions of the source its chunks come from. Several tasks of one transfer
arise from two clicks or from a restart, as in the code. `handle_close` reports
before it aborts, hence two actions. A failure of the connection or of a file
is possible at every await of a task.

What a task awaits separates its steps: a permit (`TakePermit`), the channel
(`Open`), the metadata (`Check`), and for each chunk the look at the flag
(`Pause`, `Cancelled`, `Proceed`), the read and the write. `yield_if_paused` is
the only look a copying task takes, so a cancellation during the read or the
write comes too late for that chunk, and one during the last read does not
stop the end of the download. The window shows a transfer as running from its
start, before it has a permit of `channel_slots`; paused transfers keep theirs.
`others` are the permits that other transfers of the session hold.

A version of the source is what its metadata say, a size and a time in seconds
(`SourceFingerprint`), and two versions may say the same: written within one
second, or on a server that tells no time. The fingerprint a transfer starts
with may not be known at all (`Unknown`: `metadata` failed); then nothing is
compared, and after a restart it is not offered for recovery. The history
variables `touched` and `swapped` mark a source that changed under a copying
task, and a partial file that another task exchanged between the last check and
the rename; `late` counts the chunks written after a cancellation.

### SftpEditor

One remote file, its tab, and up to two saves, each a task of the session.
The save looks at the file twice and then replaces it by one rename, or by
two with a backup. Answers carry only the path, so an answer may meet a tab
that did not ask for it; the history variable `crossed` marks such a tab, and
`raced` a save behind whose last look someone else wrote, which no client of
SFTP can exclude.

### HostKeys, FrameMailbox, UpdateInstall

`HostKeys`: processes that verify keys under the lock file. Creating the file,
judging it stale, removing it, reading, replacing and the two steps of `Drop`
are separate actions; when replacing fails, the file may have the new entry all
the same, because the directory is synced after the rename. `FrameMailbox`: the
slot, the wake-up flag, and the way of the wake-up through the two bounded
queues. `UpdateInstall`: the steps of the two installations that replace a file
or a bundle, each of which may fail, and the process may end between any two.

### ConnectionCatalog

The edits of groups, connections and the recycle bin as operators on a
configuration, on two devices, and `Synchronize`, the reconciliation of both
kinds of entity at once with the normalization behind it. What happens during
a synchronization is left to `SyncCoordinator`.

### MCServices

The modules from `BackendEvents` on share no state. `MCServices` puts them side
by side for one run: `subject` is chosen at the start, only that component
moves, so the state space is the sum of theirs and not the product.

## The runs

| Run | Instance | Result and meaning |
| --- | --- | --- |
| `sync_all` | one entity, all entry points, 2 edits, 1 remote write, 1 fault | `TypeOK`, `NeverWedged`, `KnownVersions`, `NoUnseenOverwrite` hold |
| `sync_tracked` | two entities, commits, usage and timers, 2 edits, 2 remote writes, 1 fault | `ChangeNeverForgotten`, `EditNeverLost`, `UntouchedKeptUnlessSkewed` hold |
| `sync_live` | one entity, 1 edit, 1 remote write, 1 fault, fairness | `ChangeEventuallySent`, `Converges` hold |
| `sync_stale_upload` | two entities, 2 edits, 1 remote write | finds `UntouchedNeverReverted` violated |
| `sync_commit_order` | one entity, 1 edit | finds `CommittedIsStored` violated |
| `close` | both commit variants, 3 changes, fairness | `Consistent`, `DrivenUnlessGap`, `ImplementsProtocol`, `ConfirmedEnds` hold |
| `close_in_sync` | no commits | finds `ConfirmedIsDriven` violated |
| `repo` | 2 windows, capacity 1, 1 edit, 2 entries, 1 failed write | `TypeOK`, `Connected`, `CleanIsStored`, `SoleWindowKeepsAcked`, `CleanCloseLeavesNothing`, `FailureReported`, `UsageNeverErased` hold |
| `repo_live` | 1 window, capacity 1, 3 edits, 1 entry, 1 failed write, fairness | `DirtyEventuallySaved` holds |
| `repo_stale_window` | 2 windows, 1 edit, 1 entry | finds `FullNeverRevertsPreferences` violated |
| `services` | two windows, three tabs, two groups; one download of two chunks; two saves; two processes; two instances; two devices | the 18 properties below hold |
| `close_deadlock` | one window, two tabs, queues of capacity 1, fairness | finds `CloseIsHandled` violated |

The properties of `services`, besides `TypeOK`:

| Subject | Properties |
| --- | --- |
| events | `InSendOrder`, `RoutesFollowTabs`, `NoCloseLost` |
| tabs | `TabsConserved`, `RoutesTravel`, `RollbackExact` |
| transfer | `OneFingerprint`, `CancelSticks`, `TransferSettles` (liveness) |
| editor | `NoSilentOverwrite`, `CleanIsSafe`, `FileSurvives` |
| host keys | `KeysKept` |
| frames | `FrameNotStuck` |
| update | `NeverStranded` |
| catalog | `RestoreUndoesDelete`, `InUseNotLost` |

Deadlock is not checked: each system stops when its bounds are used up, or
when the last window has closed.

### The bounds and why they are enough

`MaxEdits`, `MaxRemoteWrites`, `MaxFaults`, `MaxChanges`, `MaxEntries` and
`MaxFailures` bound events from outside; nothing the program decides is
bounded. A decision of the coordinator relates one entity's three versions and
two generations: two contents beside deletion distinguish equal from
different, two entities show one that the user touched and one that only
another device touched, two edits give an operation overtaken by a change, two
remote writes a precondition that fails after a retry. In the repository two
windows suffice for one stale copy; a queue of capacity 1 is full whenever it
holds a request, the case that matters of the 32 places in the code; two
entries are needed for one acknowledged entry to be overwritten by the save of
another; one failed write to be followed by a success. With one window and
three edits `repo_live` covers a change during a save during a commit.

In `services` the capacities of the queues are constants of the model with
values of one to three, so that every limit is reached; the rules at a limit
do not depend on its value. `MaxWork` bounds what connections send and the user
asks, four in all, which is enough for a retry with events of the old
connection still under way, or for output, close and a move between them
(`WorkBound`: the fourth only while a single tab was opened, since what two
tabs do to each other, sharing queues, needs three). `MaxGen` 2 gives one retry.
`MaxOps` 6 allows two groups of two tabs, moved twice. A source of two chunks
in two versions shows a file mixed of both; up to three tasks share a partial
file, and with two permits the third of them, or the second behind another
transfer, waits; three requests are, for instance, pause, cancel and resume, and
a change of the source, a restart and the start of another transfer count as one
each. The editor has two
saves, three contents, and so one of the user, one of somebody else, and the
first. Two processes with three verifications suffice for a key forgotten by
the second and changed in the third. Two instances install three times, one
after the other or at once. Two devices make four edits, of two connections and
groups of two names, one in another at most.

Every property was also checked against at least one plausible defect in the
code it guards (the mutants in `PROJECT.json`), which the same bounds expose.

### Fairness and its justification

- `sync_live`: Tokio runs every task to its end because requests have
  timeouts; the executor delivers results; the worker empties its queue; the
  interval timer of automatic synchronization repeats while the program runs.
  No fairness is assumed of the user, of other devices or of faults.
- `close`: a running task ends and its result is handled; a commit is
  answered or its wait times out.
- `repo_live`: the event loop of a window calls
  `drive_config_preferences_save` whenever its timer wakes it (`app/mod.rs`
  1389), beyond debounce and retry delay; the worker takes its requests; a
  blocking call returns or times out, and the close it belongs to goes on.
- `services`, of the transfer only (`TrFairness`): the loop of the session, the
  tasks and the pump of the window run on. A task waits for a flag only while
  it is paused, and then says so, and for a permit only while none is free.
  That other transfers end and give theirs back is not assumed, nor any
  fairness of the user, of the connection, or that anything fails.
- `close_deadlock` (`EvFairness`): every window drains at least every 250 ms
  (`app/mod.rs` 1365-1423), a drain once begun runs on, and the channel of the
  standard library wakes its sender when there is room. Draining needs strong
  fairness because the windows take turns. The counterexample does not leave a
  fair process out: both are disabled.

## What the runs found

- `sync_stale_upload`: an upload that a local change overtook does not apply
  the merge to the configuration, yet records it as the baseline
  (`app/sync_handlers.rs` 163 and 188). The next run takes the old content of
  an entity that only another device has changed for a local change and
  uploads it. `docs/sync/webdav-sync-architecture.md` says that the remote side
  is used when only it has changed.
- `sync_commit_order`: the saves of a synchronization are not excluded while a
  full commit is in flight, so the older snapshot may be stored last
  (`app/config_sync.rs` 337), against the comment at `app/mod.rs` 2472.
- `close_in_sync`: a close synchronization whose plan needs no upload is never
  completed (`app/sync_handlers.rs` 56): a confirmed window stays open and
  cannot be closed again, the state that `app/startup.rs` 88 calls the defect
  it avoids.
- `repo_stale_window`: the revision check of a full save compares the file
  with the last write of the worker, which all windows share; a window that
  opened before another one changed a preference overwrites it with its next
  full save, against the comment at `app/config_persistence.rs` 383.
- `close_deadlock`: a sender that waits for room in the lifecycle queue keeps
  `send_order` (`terminal/mod.rs` 617). The user interface needs that lock when
  the output it handles sets the title of a terminal (`terminal/mod.rs` 1906),
  and nobody else empties the queue. `docs/upgrade/v1.4.0/README.md` 42 says
  that a close is handled also when output is refused.

### Excuses

Some properties hold but for a case that the code does not exclude. Each of
these cases is part of the property, so that the rest is checked:

- `KeysKept` excuses a lock removed while its holder works. `acquire` removes a
  stale lock by its name, so a process that judged the same lock stale a moment
  before removes the fresh one of the first; `Drop` reads the token and then
  removes the file by name. The comment at `session/host_key.rs` 418 says the
  token prevents an expired owner from deleting a successor's lock.
- `NeverStranded` excuses two installations at once: the second backs up what
  the first has just put in place, and macOS bundles share the names `.new` and
  `.old`. It also excuses one begun with no program in place: after an instance
  died between the two renames of the bundle, another that still runs removes
  the `.old` that is all that is left (`app/updater/mod.rs` 1091-1094).
- `FrameNotStuck` excuses a wake-up that finds the queue of its window full of
  reliable events: it is dropped, `wake_pending` stays set, and the picture
  stands still (`docs/02-design/remote-desktop-freerdp.md` 43 wants that
  avoided for the first frame).
- `OneFingerprint` excuses a source that changes while a task copies it, and a
  partial file exchanged before the rename: removed with its transfer and begun
  again by another task, it may be renamed unfinished by the first
  (`sftp/transfer.rs` 335). It speaks of fingerprints and not of versions: a
  source rewritten between two tasks with the same size within one second, or on
  a server that tells no times, is resumed into a file mixed of both.
- `TransferSettles` excuses a transfer that waits for a permit while all are
  held: behind four paused transfers a fifth is shown as running for as long as
  the user leaves them paused (`sftp/mod.rs` 385).
- `CancelSticks` allows one chunk more after a cancellation, the one the task
  was reading or writing (`sftp/transfer.rs` 377-388).
- `SoleWindowKeepsAcked` excuses a window that made a blocking save during its
  own full commit, a change of the catalog for instance
  (`app/connection_manager/operation_window.rs` 552).
- `NoSilentOverwrite` and `CleanIsSafe` excuse a tab that took the answer to
  another save: closed while saving and opened again, or reloaded during a
  forced save, it takes a revision or a text that is not its own.
- `InUseNotLost` excuses a connection in a group whose path is also in the bin:
  a synchronization hides the group and drops the connection, also when the
  group was created again under its old name or renamed to it.
- `RoutesTravel` excuses a route that a window itself removed and nobody put
  back: of a group that was disconnected, whose routes all go, also those of
  local tabs in it, and of an SSH pane closed beside others, whose handle stays
  (`app/session_actions.rs` 501-522). `RoutesFollowTabs` excuses the first.

### Observed, not run

Reading and exploring the models also showed, without a run of their own:

- A manual synchronization is not refused while conflicts are open
  (`app/config_sync.rs` 288 and 710 look at `in_progress` only). It may adopt a
  newer merge, whose save fails; resolving the old conflicts then adopts the
  older merge over an edit the newer one had. A restore started while conflicts
  are open loses its active generation when they are resolved, and a run
  without one never counts as stale: a commit made meanwhile is overwritten by
  what the restore downloads. TLC finds both as violations of `EditNeverLost`
  when "manual" or "restore" is added to the entry points of `sync_tracked`.
- A connection created and deleted between two synchronizations vanishes from
  the bin at the second: deleted and missing count as the same content
  (`sync/reconcile.rs` 33), and the remote side is taken
  (`docs/sync/webdav-sync-architecture.md` 90 keeps tombstones).
- A deleted group replaces the tombstone of an earlier one of the same path
  (`session/config.rs` 359); the bin entry of a group vanishes when another
  device creates a group of that path; a connection added elsewhere to a group
  deleted here ends in no bin; restoring a subgroup does not create its parents.
- A group restored with a connection that is also in the bin on its own leaves
  it in use and deleted at once; the next synchronization drops it.
- The SFTP handle of a split SSH pane goes by the name of the pane
  (`app/session_actions.rs` 1033) and is never removed with it; the handle of a
  docked group stays under a group that no longer exists.
- A terminal that exits by itself closes its tab but keeps its route
  (`ClosePane` with `asked` false). The first move of a group that was
  disconnected by hand always fails, because its routes are gone; undoing it
  registers them, so the second succeeds.
- Output of two generations of one tab is joined under the generation of the
  first (`app/backend_events.rs` 35), and the joined event is sorted by the
  number of the last (43): a close of the first one's connection that lies
  between the two is then shown before output that was sent ahead of it,
  against what the test `output_before_closed_by_sequence` expects of one
  connection. It takes output of the old connection behind that of its
  successor, and the end of the successor, in one batch; `InSendOrder` excuses
  such an event.
- A queue of the store that holds nothing but reliable events refuses the next
  one (`session/store.rs` 71): 8192 of them for a window, 256 for a route.
  `NoCloseLost` excuses what happens after that.
- An empty file cannot be downloaded: with no partial file the offset equals the
  size and the rename fails (`sftp/transfer.rs` 335). A closing session reports a
  transfer as interrupted before its task is aborted, which may still report
  progress.
- A save of the editor is not answered when the SFTP subsystem cannot be
  requested (`sftp/mod.rs` 944): the tab stays in the state of saving.
- The password dialog of the synchronization is opened through the stack of the
  component library (`app/sync_dialogs.rs`) but dismissed through the
  coordinator (`app/sync_handlers.rs` 641), which holds other tokens.

## Proofs

Every theorem below is checked by TLAPS and holds for all values of the
constants that the assumptions in the modules allow. Each property named is one
that a run checks; the inductive invariants, which are stronger, were checked
by TLC on the same instances before they were proved.

`SyncCoordinator_proofs`:

- `TypeCorrect`: `TypeOK`, which is inductive as it stands. Beyond the fields'
  types it needs that a task merges only with a baseline it has, and that
  `RecordSuccess` of a run without an active generation keeps the old one. One
  lemma per function on the machine, one case per action.
- `AlwaysOwned`: `NeverWedged`, inductive together with `TypeOK`. `Owned` is
  the same of the record a handler works on. Between the reset of
  `in_progress` and the end of `handle_sync_finished` up to two functions may
  start a task (`ContinueUpload`, `RequestAutomatic`); each keeps `Owned`
  because `Start` disowns every earlier task, and all others are `Quiet`.
- `RemembersTheServer`: `KnownVersions`, inductive together with `TypeOK` and
  `Origin` (an absent object has no content): a remembered version was the
  remote object when it was read, and every write raises the tag. From it
  `OverwritesOnlyTheSeen`, the action property `NoUnseenOverwrite`.
- `NothingForgotten`: `ChangeNeverForgotten`, if every change is noted as it is
  made (`"catalog" \notin Paths`; the entry point that does not is part of
  `sync_all` only). The invariant `Plans` says what a task whose generation is
  still the newest has merged or given up (`TaskPlan`).
- `EditsKept`: the action property `EditNeverLost`, for the entry points of
  `sync_tracked` (no unnoted change, no manual operation). The invariant
  `Carries` says that a task for the newest generation, and the merge behind
  open conflicts, keep what the user edited since the baseline.
- `OthersKept`: `UntouchedKeptUnlessSkewed`, for the same entry points. The
  invariant `UntouchedInv` says of everything that may become a write (tasks,
  conflicts, late requests, the configuration, the file, a staged commit) that
  it agrees with the version it was made from on every entity the user never
  touched (`Faithful`), as long as baseline and configuration have moved
  together.

The hypothesis on the entry points is not for convenience: with "manual" or
"restore" TLC finds `EditNeverLost` violated (see "Observed, not run").

`ConfigRepository_proofs`, for every set of windows and every capacity:

- `RepositoryTypeCorrect`: `TypeOK`, with the bound of the queue. The bound
  needs the blocking call: the queue exceeds its capacity by one only while a
  call waits, which is why a call given up must leave room first.
- `UsageIsKept`: `UsageNeverErased`, the action property that no step lowers a
  count of command use in the file or in a window. `TypeOK` is not enough: a
  blocking catalog change replaces the configuration of its window by the
  snapshot it has sent. The invariant `IInv` adds `EditCounts`: while such a
  call waits, its snapshot counts no use less than its window. It holds because
  the user interface stands still, and together with the merges in the worker
  and at the completion of a commit it gives the theorem.
- `ReceiptsConnected`: `Connected`. `Receipts` says of every channel of every
  window (save, commit, call) that it waits exactly when the queue holds one
  request for it.
- `FailuresReported`: `FailureReported`, with `QueueInv`: each request is of
  the kind its receiver asks for, and `Turn`, the protocol of blocking calls (a
  window has its lease until the release is asked for; nothing is sent behind a
  call that waits). `Errors` says where an unseen failure still is.
- `CleanWindowsStored`: `CleanIsStored`. `StoreInv` says of every open receipt,
  answer and request (`Told`, `Apt`) what the window will believe stored when
  it comes back, and that this is or will be in the file.
- `CleanCloseComplete`: `CleanCloseLeavesNothing`, with `Left`: a window whose
  close has reported nothing is settled, and no request of it is left.
- `SoleWindowKeeps`: `SoleWindowKeepsAcked`, with `CatalogKept`: what the user
  was told is saved is in the file, in memory and in every full save under way;
  no full save stands behind a commit; a staged commit has all that memory has.

`WindowClose_proofs`, for every use of the commit variants and any number of
changes:

- `CloseStateConsistent`: `Consistent`, which is inductive as it stands.
- `CloseImplementsProtocol`: `Spec => Protocol!Spec` under the mapping `Phase`,
  `Cycle`, with `Consistent` as its invariant: a confirmation can only be
  accepted where a cycle is known to have been requested. There is one lemma
  per function that a handler composes. Each says that the record stays `Fine`
  (`Consistent` of a record), and that the protocol sees nothing of the change
  (`Same`) or the end of the synchronization (`Over`). That `Over` happens at
  most once in `handle_sync_finished`, although the dispatched handler, the
  completion after it and the queued close may each cause it, is
  `FinishedStep`.
- `ConfirmedDriven`: `DrivenUnlessGap`. It speaks of confirmed closes, but a
  confirmation may come at any time, so the invariant `CloseHeld` says the same
  of every requested close: a running one has an operation, a queued one an
  operation or a commit that will continue it, or a gap was met.

`Sftp_proofs`:

- `FinishedIsOneFingerprint`: `OneFingerprint`, for every size, any number of
  tasks and of versions, with a known fingerprint or none. `TrIInv` says of
  every partial file that, while nobody changed the source under a copying
  task, its chunks come from versions with one fingerprint (`OneSource`), and of
  a verified file that it is as long as it was found to be and stays so
  (`Whole`).
- `CancelledForGood`: the action property `CancelSticks`. `Registered` says
  that the flag that buttons can still reach is not that of a cancelled task,
  and that a task which has written a chunk late neither reads nor writes.
- `CleanTabIsSafe`, `FileKept`: `CleanIsSafe` and `FileSurvives`, and
  `NothingOverwritten`, the action property `NoSilentOverwrite`, for any number
  of saves and contents. `EdIInv` follows a text from the tab to the save that
  carries it and to its answer (`Awaited`), and says what a save about to
  replace the file knows of it (`SaveTasks`).

`Connections_proofs`, for all devices, connections, names and depths:

- `GroupsComeBack`: `RestoreUndoesDelete`; `ConnectionsNotLost`: the action
  property `InUseNotLost`; `SavedConnectionsTyped`: `CtTypeOK`. `CtIInv` says
  that every configuration is one of `Configs` (paths are sequences, each
  identifier and each name of the bin occurs once), with one lemma per
  operation on a configuration. The library's induction theorems cannot be
  used; `Least`, that every nonempty set of naturals has a least element,
  proved from the one of the library for sets, serves in their place.

`Events_proofs`, for all windows, tabs and capacities of the queues:

- `PictureMoves`: `FrameNotStuck`. The strengthening is that `wake_pending` is
  only set while the mailbox holds a frame: else the wake-up handled last would
  find nothing to take and leave the flag set.
- `EventsReachTheirTab`: `RoutesFollowTabs`. `EvIInv` types every queue, says
  that what waits for a route waits at its owner (`WellRouted`, with one lemma
  per operation of the store), that a tab which was never opened has no route,
  and that a batch holds events of routes of the window that handles it: else a
  late Connected could revive a tab that was disconnected and has no route.
  The queues are folds, so the module first proves that the recursion of a fold
  has a solution and that its values stay in a set which every step stays in
  (`FoldTrace`, by least counterexamples), or has at every step what the step
  passes on (`Along`).
- `ClosesReachTheirTab`: `NoCloseLost`. The invariant `EndsKept` follows the
  end of a connection from its sender to its tab. `EndsTold`: while a
  connection has ended and its tab does not show it, or its beginning is still
  around and may revive the tab, the end is in the channel, in the store or in
  a batch, unless the store was crowded. For that the end must never wait
  before the beginning: `Ordered` says so of every queue, of what is still in
  the channel against what the store holds, and of a batch against both;
  `Known` gives the order of their numbers, by which a batch is sorted. Per
  operation of the store there is one lemma on the order it keeps
  (`RegisterQueued`, `MoveQueued`, `RoutedQueued`, ...) and one on what it
  loses (`UnregisterFate`, `ForgetFate`, ...): a reliable event is dropped only
  with a route that nobody has registered, and then with everything of that
  route (`Lone`), or by a queue that is full of its like. Ends that are lost
  with a route were noticed, because only a tab that is closed or disconnected
  has no route, and leave no beginning behind. `Quiet` is the part of that
  about routes: nothing waits unrouted for one that is registered or was
  removed.

`TabTransfer_proofs`, for all windows, tabs, groups and numbers of operations:

- `WindowsPlaced`: the inductive invariant `TTIInv`. What a window holds is
  laid out (`WinOK`: its groups share no pane, its tabs are the panes of its
  groups, each once, and what it shows is among them), no two windows hold
  anything in common, nothing held is an identifier still to be used, and the
  routes of what a window holds lead to it unless they were cut off (`Reached`,
  `Leads`). There is one lemma per operation; a transfer is followed group by
  group, from what leaves a window (`Payload`, `Taken`) to what arrives
  (`Received`, `Docked`).
- `TabsStayWhole`, `RoutesGoAlong`, `WindowsTyped`: `TabsConserved`,
  `RoutesTravel` and `TTTypeOK` follow from it.
- `FailedMoveUndone`: the action property `RollbackExact`, of moves of one
  group and of two. Groups are put back last taken first, so each finds the
  window as its taking left it (`Restored(Taken(w, p), p) = w`); for the tabs
  that says that inserting the taken ones at the places they had, from the
  first to the last, gives the sequence they were taken from (`Tally`, `Back`).

`Services_proofs`, the files that processes share, and all components together:

- `AcceptedKeysStay`: `KeysKept`, for all processes, hosts and keys. Two steps
  lie between reading the file and replacing it, so the invariant `HkIInv` adds
  that, while no process at work has lost its lock, the processes at work hold
  it (there is at most one), and the one about to write has read the file as it
  is now, without an entry of its host. An accepted key then cannot be the one
  that is replaced.
- `ProgramLeft`: `NeverStranded`, for all instances and versions. The invariant
  `UpIInv` says at every stage where the program that starts is: in place,
  among the leftovers, or in the backup of the one instance at work
  (`ImageAtHand`, `BundleAtHand`).
- `ServicesTyped`: the conjunction `TypeOK` of `MCServices`. Each component's
  part is an invariant of its own, strengthened by what its bounds need:
  `Bounded` (with `QueuesKeepTheirBounds` in `Events_proofs`), `TrBounded`,
  `EdBounded`, and that a lock file which is not there is not stale. A length is
  kept by joining events, by moving them between queues and by replacing the
  last one, so each operation of the store and the channel has a lemma on the
  lengths it leaves.
- `ServicesSafe`, `ServicesStep`: every invariant, and every action property but
  `InSendOrder`, of the specification that TLC runs. A behaviour of
  `MCServices` is one of each component (`EachService`), and no safety theorem
  needs the fairness of a component.

The theorems on a component are about its own specification; the last three
carry them over to `MCServices`, which runs it when it is the subject of the
behaviour.

The assumptions are those named in the modules (`CoordinatorAssumption`,
`SnapshotAssumption`, `RepositoryAssumption`, `CloseAssumption`,
`HostKeysAssumption`, `UpdateAssumption`, `TransferSizes`, `EditorAssumption`,
`CatalogAssumption`, `MailboxAssumption`, `StoreAssumption`,
`EventsAssumption`, `NoneAssumption`, `TransferAssumption`): the bounds are
natural numbers, the capacities are positive, the first window is a window, the
commit variants are the two of the code, identifiers of tabs and groups are
different routes, a lock file that is gone differs from one that was left
behind, and the markers of nothing are none of the things they stand for.

Only model-checked: `InSendOrder` of the events, and liveness. Liveness under
fairness and ENABLED are beyond the prover, as are inductions over data.

## Not modelled

- Of synchronization: S3 (manual only, no automatic runs), several targets,
  servers without entity tags (`UploadMode::Force`), password checks and
  resets, copying a conflict as a new connection, the re-upload in every cycle
  when secrets are included, the payload size limit, an unreadable baseline;
  command usage recorded shortly before a crash is counted as unsent only when
  it was noted. A payload that cannot be serialized is a case of `WindowClose`
  only.
- Of the repository: deletions from the catalog (a deleted command drops its
  counters with it), a file that cannot be read when a window opens, themes
  shared between windows in memory, the full save of the built-in commands at
  the start and the fire-and-forget saves of sessions, poisoned locks, a worker
  that cannot be joined at shutdown, overflow of the generation counters.
- Of the close: the drag that is cancelled, auxiliary windows, the cleanup of
  sessions.
- Of events: statistics, and the payload of Docker, monitoring and directory
  events. Bytes are counted in chunks.
- Of tabs: geometry and preview of a drag, tabs of system information, the
  direction of splits, closing a source window that has become empty.
- Of SFTP: uploads as such (they differ in which side is the source),
  directories, listings, file operations; the size limit of the editor, its
  encodings beyond reading the bytes again, tabs moved to a window of their own;
  a rename on the server that took effect although it reports an error; a
  source that is an empty file.
- Of host keys: revoked keys and other formats of lines. Of updates: check,
  download, verification, the scripts of Windows. Of remote desktops: the
  certificate decision, input, resizing.
- Of the catalog: copying, order, archives; keys, commands and categories, and
  conflicts settled by keeping both sides.
- Dialogs beyond that of the close: their stack is part of the component
  library, which is not in `src/`, and the coordinator alone is a map of
  tokens. Saturation of the usage counters.
- Connection backends beyond what they send (I/O of russh and portable-pty),
  terminal emulation and highlighting (sequential text processing), forms (what
  they commit is an action of the coordinator, the catalog and the repository),
  encryption (its failures are outcomes), monitoring and rendering.

## Plan

What is left is a proof of `InSendOrder`.
