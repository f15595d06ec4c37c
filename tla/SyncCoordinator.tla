--------------------------- MODULE SyncCoordinator ---------------------------
(***************************************************************************)
(* The synchronization coordinator of one device: SyncRuntimeState of      *)
(* src/app/runtime_state.rs, the operations of src/app/config_sync.rs and  *)
(* the result handlers of src/app/sync_handlers.rs, against one remote     *)
(* object with entity tags that other devices write too.                   *)
(*                                                                         *)
(* A handler runs on the UI thread without interruption, so it is one      *)
(* action.  What it does in sequence is composed from functions on a       *)
(* machine, the record of everything a handler may change.                 *)
(***************************************************************************)
EXTENDS ThreeWay, Naturals, FiniteSets

CONSTANTS
  None,             \* no generation, no baseline, no plan, no commit
  Paths,            \* the entry points the user and the world exercise
  MaxEdits,         \* bound: changes of this device's configuration
  MaxRemoteWrites,  \* bound: writes of the remote object by other devices
  MaxFaults         \* bound: crashes, failed requests and failed saves together

AllPaths == {"commit", "catalog", "usage", "automatic", "manual", "restore"}

\* A configuration payload of the remote object, or the baseline made of one.
Version == [content : Catalog, etag : Nat]

\* PendingSyncConflicts: the entities still open, the merge so far, and the
\* remote version it was computed from.
Pending == [open : SUBSET Entity, merged : Catalog, seen : Version]

\* A full commit between begin_full_commit and its completion.
Commit ==
  [entity : Entity, staged : Catalog, status : {"queued", "written", "failed"}]

ASSUME CoordinatorAssumption ==
  /\ Paths \subseteq AllPaths
  /\ MaxEdits \in Nat /\ MaxRemoteWrites \in Nat /\ MaxFaults \in Nat
  /\ None \notin Nat \cup Version \cup Pending \cup Commit

VARIABLES
  rt,        \* SyncRuntimeState
  config,    \* TinyShell::config, the configuration in memory
  commit,    \* a full commit between begin_full_commit and its completion
  tasks,     \* the tasks of the supervisor's entry "sync-operation"
  wire,      \* PUT requests whose sender has stopped waiting for an answer
  disk,      \* the configuration file
  baseline,  \* the entry of sync-state.json for this target
  remote,    \* the remote object; etag 0 means that it does not exist
  edits, remoteWrites, crashes, failures,  \* counters for the bounds
  touched,   \* auxiliary: entities this device's user ever decided about
  yielded,   \* auxiliary: entities the user last gave to the remote side
  unsent,    \* auxiliary: recorded local changes not yet in the baseline
  skewed     \* auxiliary: the baseline once moved past an unmerged local change

device == <<rt, config, commit, tasks, wire, disk, baseline>>
bounds == <<edits, remoteWrites, crashes, failures>>
vars == <<rt, config, commit, tasks, wire, disk, baseline, remote,
          edits, remoteWrites, crashes, failures,
          touched, yielded, unsent, skewed>>
-----------------------------------------------------------------------------
(* SyncRuntimeState and its transitions.                                   *)

Runtime ==
  [inProgress : BOOLEAN,
   pendingAutomatic : BOOLEAN,
   conflicts : Pending \cup {None},
   localGen : Nat,
   reconciledGen : Nat,
   activeGen : Nat \cup {None}]

FreshRuntime ==
  [inProgress |-> FALSE, pendingAutomatic |-> FALSE, conflicts |-> None,
   localGen |-> 0, reconciledGen |-> 0, activeGen |-> None]

HasUnsynced(r) == r.localGen # r.reconciledGen

MarkLocalChange(r) ==
  [r EXCEPT !.localGen = r.localGen + 1,
            !.pendingAutomatic = r.pendingAutomatic \/ r.inProgress]

BeginReconciliation(r) == [r EXCEPT !.activeGen = r.localGen]

IsStale(r) == r.activeGen \notin {None, r.localGen}

AbandonReconciliation(r) ==
  [r EXCEPT !.activeGen = None, !.pendingAutomatic = TRUE]

\* Mutants of RecordSuccess: it forgets that a run may have no generation,
\* takes the newest one for the reconciled one, or reconciles none.
RecordSuccessUnchecked(r) ==
  [r EXCEPT !.reconciledGen = r.activeGen, !.activeGen = None]

RecordSuccessOfNewest(r) ==
  [r EXCEPT !.reconciledGen = r.localGen, !.activeGen = None]

RecordSuccessOfNone(r) ==
  [r EXCEPT !.activeGen = None,
            !.pendingAutomatic = r.pendingAutomatic \/ HasUnsynced(r)]

RecordSuccess(r) ==
  LET done == IF r.activeGen = None THEN r.reconciledGen ELSE r.activeGen
  IN  [r EXCEPT !.reconciledGen = done,
                !.activeGen = None,
                !.pendingAutomatic = r.pendingAutomatic \/ done # r.localGen]

RecordFailure(r) == [r EXCEPT !.activeGen = None]
-----------------------------------------------------------------------------
(* Tasks and the machine a handler works on.                               *)

\* A task downloads ("fetch"), waits for the answer to a PUT ("put"), knows
\* the answer ("acked") or has posted SyncFinished ("done").  live: it is
\* still the supervisor's current task of that name.
Task ==
  [live : BOOLEAN,
   kind : {"upload", "restore"},
   phase : {"fetch", "put", "acked", "done"},
   result : {"none", "ready", "conflicts", "downloaded", "uploaded", "failed"},
   local : Catalog,                \* the configuration when the download started
   base : Version \cup {None},     \* the baseline when the download started
   seen : Version,                 \* the remote version it has downloaded
   open : SUBSET Entity,           \* the conflicts it found
   merged : Catalog,               \* what it merged, or uploads
   etag : Nat]                     \* the tag the server gave the upload

NoVersion == [content |-> EmptyCatalog, etag |-> 0]

Machine ==
  [rt : Runtime, config : Catalog, tasks : SUBSET Task,
   wire : SUBSET [seen : Version, merged : Catalog],
   disk : Catalog, baseline : Version \cup {None}]

Here ==
  [rt |-> rt, config |-> config, tasks |-> tasks, wire |-> wire,
   disk |-> disk, baseline |-> baseline]

Become(m) ==
  /\ rt' = m.rt
  /\ config' = m.config
  /\ tasks' = m.tasks
  /\ wire' = m.wire
  /\ disk' = m.disk
  /\ baseline' = m.baseline

\* TaskSupervisor::start replaces the task of the same name.  A task that
\* already posted its result is only disowned; one that is still running is
\* aborted, and its request may be on its way to the server.
Outstanding(ts) == {t \in ts : t.live /\ t.phase = "put"}

Start(m, task) ==
  [m EXCEPT
     !.tasks = {[t EXCEPT !.live = FALSE] : t \in {u \in m.tasks : u.phase = "done"}}
               \cup {task},
     !.wire = m.wire \cup {[seen |-> t.seen, merged |-> t.merged] :
                              t \in Outstanding(m.tasks)}]

FetchTask(kind, local, base) ==
  [live |-> TRUE, kind |-> kind, phase |-> "fetch", result |-> "none",
   local |-> local, base |-> base, seen |-> NoVersion, open |-> {},
   merged |-> EmptyCatalog, etag |-> 0]

PutTask(merged, seen) ==
  [live |-> TRUE, kind |-> "upload", phase |-> "put", result |-> "none",
   local |-> EmptyCatalog, base |-> None, seen |-> seen, open |-> {},
   merged |-> merged, etag |-> 0]

\* begin_sync, then begin_reconciliation and the snapshot of the local
\* configuration: the common start of upload_sync_config and
\* download_sync_config.  save_full of begin_sync may fail.
BeginOperation(m, kind, saved) ==
  IF m.rt.inProgress \/ ~saved THEN m
  ELSE Start([m EXCEPT !.disk = m.config,
                       !.rt = BeginReconciliation([m.rt EXCEPT !.inProgress = TRUE])],
             FetchTask(kind, m.config, m.baseline))

\* request_automatic_sync and run_automatic_sync.
RequestAutomatic(m, saved) ==
  IF "automatic" \notin Paths \/ m.rt.conflicts # None THEN m
  ELSE IF m.rt.inProgress THEN [m EXCEPT !.rt.pendingAutomatic = TRUE]
  ELSE BeginOperation([m EXCEPT !.rt = BeginReconciliation(m.rt)], "upload", saved)

\* The end of handle_sync_finished: a pending request becomes one new run.
ServePending(m, saved) ==
  IF m.rt.inProgress \/ ~m.rt.pendingAutomatic THEN m
  ELSE RequestAutomatic([m EXCEPT !.rt.pendingAutomatic = FALSE], saved)
-----------------------------------------------------------------------------
(* The handlers of a result, as functions on the machine.  saved and based *)
(* are the outcomes of save_full and of writing the baseline.              *)

\* A mutant of AdoptReconciled: the merge becomes the baseline.
AdoptMergeAsBaseline(m, merged, seen, saved, based) ==
  LET adopted == [m EXCEPT !.config = merged]
  IN  IF ~saved \/ ~based THEN adopted
      ELSE [adopted EXCEPT !.disk = merged,
                           !.baseline = [content |-> merged, etag |-> seen.etag],
                           !.rt = RecordSuccess(m.rt)]

\* handle_sync_reconciled: adopt the merge, and the remote version as the
\* baseline.  The configuration in memory is not rolled back on failure.
AdoptReconciled(m, merged, seen, saved, based) ==
  LET adopted == [m EXCEPT !.config = merged]
      stored  == [adopted EXCEPT !.disk = merged]
  IN  IF ~saved THEN adopted
      ELSE IF ~based THEN stored
      ELSE [stored EXCEPT !.baseline = seen, !.rt = RecordSuccess(m.rt)]

\* A mutant of ContinueUpload: it does not set in_progress again.
ContinueUploadIdle(m, merged, seen) ==
  Start(m, PutTask(IF seen.etag = 0 THEN m.config ELSE merged, seen))

\* continue_sync_upload.  Without a remote object there was nothing to merge
\* and the configuration of this moment is uploaded.
ContinueUpload(m, merged, seen) ==
  Start([m EXCEPT !.rt.inProgress = TRUE],
        PutTask(IF seen.etag = 0 THEN m.config ELSE merged, seen))

\* A mutant of PreflightReady: any merge counts as equal to the remote.
PreflightReadyAlways(m, merged, seen, counted, saved, based) ==
  IF IsStale(m.rt) THEN [m EXCEPT !.rt = AbandonReconciliation(m.rt)]
  ELSE IF seen.etag # 0 THEN AdoptReconciled(m, merged, seen, saved, based)
  ELSE ContinueUpload(m, merged, seen)

\* handle_sync_upload_preflight_ready.  counted: the usage counters of the
\* commands, which merge without conflict, differ from those of the remote.
PreflightReady(m, merged, seen, counted, saved, based) ==
  IF IsStale(m.rt) THEN [m EXCEPT !.rt = AbandonReconciliation(m.rt)]
  ELSE IF seen.etag # 0 /\ merged = seen.content /\ ~counted
         THEN AdoptReconciled(m, merged, seen, saved, based)
         ELSE ContinueUpload(m, merged, seen)

\* handle_sync_reconciliation_conflicts.
OfferConflicts(m, t) ==
  IF IsStale(m.rt) THEN [m EXCEPT !.rt = AbandonReconciliation(m.rt)]
  ELSE [m EXCEPT !.rt.conflicts =
          [open |-> t.open, merged |-> t.merged, seen |-> t.seen]]

\* A mutant of Uploaded: the merge is applied to a newer configuration too.
UploadedOverNewer(m, t, saved, based) ==
  LET applied == IF t.seen.etag = 0 THEN m ELSE [m EXCEPT !.config = t.merged]
  IN  IF ~saved \/ ~based THEN m
      ELSE [applied EXCEPT !.disk = applied.config,
                           !.baseline = [content |-> t.merged, etag |-> t.etag],
                           !.rt = RecordSuccess(m.rt)]

\* handle_sync_uploaded: a stale run keeps the newer local configuration but
\* still records the uploaded payload as the baseline.  The merge of a first
\* upload, made without a remote object, is not applied either.
Uploaded(m, t, saved, based) ==
  LET applied == IF IsStale(m.rt) \/ t.seen.etag = 0
                   THEN m ELSE [m EXCEPT !.config = t.merged]
      stored  == [applied EXCEPT !.disk = applied.config]
  IN  IF ~saved THEN m
      ELSE IF ~based THEN stored
      ELSE [stored EXCEPT !.baseline = [content |-> t.merged, etag |-> t.etag],
                          !.rt = RecordSuccess(m.rt)]

\* handle_sync_downloaded.
Downloaded(m, t, saved, based) ==
  IF IsStale(m.rt) THEN [m EXCEPT !.rt = AbandonReconciliation(m.rt)]
  ELSE IF ~saved THEN m
  ELSE AdoptReconciled(m, t.merged, t.seen, saved, based)

\* handle_sync_failed.
Failed(m) == [m EXCEPT !.rt = RecordFailure(m.rt)]

Dispatched(m, t, counted, saved, based) ==
  CASE t.result = "ready"      -> PreflightReady(m, t.merged, t.seen, counted, saved, based)
    [] t.result = "conflicts"  -> OfferConflicts(m, t)
    [] t.result = "uploaded"   -> Uploaded(m, t, saved, based)
    [] t.result = "downloaded" -> Downloaded(m, t, saved, based)
    [] OTHER                   -> Failed(m)
-----------------------------------------------------------------------------
(* The user, the configuration worker and the timers.                      *)

\* Counters differ from the remote only after a local change.
Counted == IF "usage" \in Paths /\ HasUnsynced(rt) THEN BOOLEAN ELSE {FALSE}

MayFault == crashes + failures < MaxFaults

\* A save of the configuration or of the baseline succeeds or fails.
Outcomes == IF MayFault THEN BOOLEAN ELSE {TRUE}

CountFailures(outcomes) ==
  failures' = IF FALSE \in outcomes THEN failures + 1 ELSE failures

\* save_full waits for the worker, so a handler that saves runs when the
\* worker has no earlier request in its queue.
QueueDrained == commit # None => commit.status # "queued"

\* A user gives an entity a new content, or deletes it.
Changes(catalog, e, v) ==
  /\ v # catalog[e]
  /\ v = Deleted => catalog[e] \in Value

\* commit_staged_config_async, up to the queued save.
CommitBegin ==
  /\ "commit" \in Paths
  /\ edits < MaxEdits
  /\ commit = None
  /\ \E e \in Entity, v \in Value \cup {Deleted} :
       /\ Changes(config, e, v)
       /\ commit' = [entity |-> e, staged |-> [config EXCEPT ![e] = v], status |-> "queued"]
       /\ touched' = touched \cup {e}
  /\ edits' = edits + 1
  /\ UNCHANGED <<rt, config, tasks, wire, disk, baseline, remote, remoteWrites,
                 crashes, failures, yielded, unsent>>

\* The worker's SaveRequest::Full for it.
WorkerCommits ==
  /\ commit # None /\ commit.status = "queued"
  /\ \E saved \in Outcomes :
       /\ commit' = [commit EXCEPT !.status = IF saved THEN "written" ELSE "failed"]
       /\ disk' = IF saved THEN commit.staged ELSE disk
       /\ CountFailures({saved})
  /\ UNCHANGED <<rt, config, tasks, wire, baseline, remote, edits, remoteWrites,
                 crashes, touched, yielded, unsent>>

\* Its completion on the UI thread: the staged snapshot replaces the
\* configuration, and note_local_config_saved drops open conflicts.
CommitDone ==
  /\ commit # None
  /\ commit.status # "queued"
  /\ IF commit.status = "written"
       THEN /\ config' = commit.staged
            /\ rt' = MarkLocalChange([rt EXCEPT !.conflicts = None])
            /\ yielded' = yielded \ {commit.entity}
            /\ unsent' = unsent \cup {commit.entity}
       ELSE UNCHANGED <<config, rt, yielded, unsent>>
  /\ commit' = None
  /\ UNCHANGED <<touched, tasks, wire, disk, baseline, remote, bounds>>

\* commit_catalog_change, submit_group, import_connection_archive: saved at
\* once, and not noted as a local change.
CatalogEdit ==
  /\ "catalog" \in Paths
  /\ edits < MaxEdits
  /\ QueueDrained
  /\ \E e \in Entity, v \in Value \cup {Deleted} :
       /\ Changes(config, e, v)
       /\ config' = [config EXCEPT ![e] = v]
       /\ touched' = touched \cup {e}
       /\ yielded' = yielded \ {e}
       /\ unsent' = unsent \cup {e}
  /\ disk' = config'
  /\ edits' = edits + 1
  /\ UNCHANGED <<rt, commit, tasks, wire, baseline, remote, remoteWrites, crashes,
                 failures>>

\* submit_terminal_completion: a change of usage counters only, noted at once.
RecordUsage ==
  /\ "usage" \in Paths
  /\ edits < MaxEdits
  /\ rt' = MarkLocalChange(rt)
  /\ edits' = edits + 1
  /\ UNCHANGED <<config, commit, tasks, wire, disk, baseline, remote, remoteWrites,
                 crashes, failures, touched, yielded, unsent>>

\* The debounce, retry and interval timers, and the activation of a window.
AutomaticTrigger ==
  /\ "automatic" \in Paths
  /\ QueueDrained
  /\ rt.conflicts = None
  /\ \E saved \in Outcomes :
       Become(RequestAutomatic(Here, saved)) /\ CountFailures({saved})
  /\ UNCHANGED <<commit, remote, edits, remoteWrites, crashes, touched, yielded, unsent>>

\* upload_sync_config from the settings page.
ManualSync ==
  /\ "manual" \in Paths
  /\ QueueDrained
  /\ ~rt.inProgress
  /\ \E saved \in Outcomes :
       Become(BeginOperation(Here, "upload", saved)) /\ CountFailures({saved})
  /\ UNCHANGED <<commit, remote, edits, remoteWrites, crashes, touched, yielded, unsent>>

\* download_sync_config: the user asks for the remote side.
ManualRestore ==
  /\ "restore" \in Paths
  /\ QueueDrained
  /\ ~rt.inProgress
  /\ \E saved \in Outcomes :
       Become(BeginOperation(Here, "restore", saved)) /\ CountFailures({saved})
  /\ yielded' = Entity
  /\ UNCHANGED <<commit, remote, edits, remoteWrites, crashes, touched, unsent>>

\* What is unsent once the baseline of m is on disk.
UnsentAfter(m) ==
  {e \in unsent : m.baseline = None \/ ~SameContent(m.baseline.content[e], m.config[e])}

\* resolve_sync_conflict and resolve_all_sync_conflicts: with the last
\* decision the merge goes through the checks before an upload.
Resolve(side, decided) ==
  LET pending == rt.conflicts
      open    == pending.open \ decided
      merged  == [e \in Entity |-> IF e \in decided /\ side = "Remote"
                                     THEN pending.seen.content[e]
                                     ELSE pending.merged[e]]
  IN  /\ IF open # {}
           THEN /\ rt' = [rt EXCEPT !.conflicts.open = open, !.conflicts.merged = merged]
                /\ UNCHANGED <<config, tasks, wire, disk, baseline, unsent, failures>>
           ELSE \E counted \in Counted, saved, based \in Outcomes :
                  LET m == PreflightReady([Here EXCEPT !.rt.conflicts = None],
                                          merged, pending.seen, counted, saved, based)
                  IN  /\ Become(m)
                      /\ unsent' = UnsentAfter(m)
                      /\ CountFailures({saved, based})
      /\ touched' = IF side = "Local" THEN touched \cup decided ELSE touched
      /\ yielded' = IF side = "Remote" THEN yielded \cup decided ELSE yielded
      /\ UNCHANGED <<commit, remote, edits, remoteWrites, crashes>>

ResolveConflict ==
  /\ QueueDrained
  /\ rt.conflicts # None
  /\ \E side \in {"Local", "Remote"} :
       \/ \E e \in rt.conflicts.open : Resolve(side, {e})
       \/ Resolve(side, rt.conflicts.open)
-----------------------------------------------------------------------------
(* The tasks and the server.                                               *)

\* The result of a download, by the kind of the operation.
Fetched(t) ==
  LET found == [t EXCEPT !.phase = "done", !.seen = remote,
                         !.local = EmptyCatalog, !.base = None]
      open  == Conflicts(t.base.content, t.local, remote.content)
  IN  CASE remote.etag = 0 ->
             [found EXCEPT !.result = IF t.kind = "upload" THEN "ready" ELSE "failed"]
        [] remote.etag # 0 /\ t.kind = "restore" ->
             [found EXCEPT !.result = "downloaded",
                           !.merged = Merged("Remote", t.local, remote.content)]
        [] remote.etag # 0 /\ t.kind = "upload" /\ t.base = None ->
             [found EXCEPT !.result = "ready",
                           !.merged = Merged("Local", t.local, remote.content)]
        [] OTHER ->
             [found EXCEPT !.result = IF open = {} THEN "ready" ELSE "conflicts",
                           !.open = open,
                           !.merged = Reconciled(t.base.content, t.local, remote.content)]

Replaced(t, new) == tasks' = (tasks \ {t}) \cup {new}

TaskFetches(t) ==
  /\ t.phase = "fetch"
  /\ Replaced(t, Fetched(t))
  /\ UNCHANGED <<rt, config, commit, wire, disk, baseline, remote, bounds,
                 touched, yielded, unsent>>

\* A mutant of Matches: every upload is forced.
ForcedMatches(seen) == TRUE

\* The server honours If-Match and If-None-Match.
Matches(seen) == seen.etag = remote.etag

ServerPuts(t) ==
  /\ t.phase = "put"
  /\ IF Matches(t.seen)
       THEN /\ remote' = [content |-> t.merged, etag |-> remote.etag + 1]
            /\ Replaced(t, [t EXCEPT !.phase = "acked", !.etag = remote.etag + 1])
       ELSE /\ Replaced(t, [t EXCEPT !.phase = "done", !.result = "failed"])
            /\ UNCHANGED remote
  /\ UNCHANGED <<rt, config, commit, wire, disk, baseline, bounds, touched,
                 yielded, unsent>>

TaskAnswered(t) ==
  /\ t.phase = "acked"
  /\ Replaced(t, [t EXCEPT !.phase = "done", !.result = "uploaded"])
  /\ UNCHANGED <<rt, config, commit, wire, disk, baseline, remote, bounds,
                 touched, yielded, unsent>>

\* A timeout, a server error, or a retried PUT answered with 412 because the
\* first attempt was applied: the task fails, its request may still arrive.
TaskFails(t) ==
  /\ MayFault
  /\ t.phase # "done"
  /\ Replaced(t, [t EXCEPT !.phase = "done", !.result = "failed"])
  /\ wire' = IF t.phase = "put"
               THEN wire \cup {[seen |-> t.seen, merged |-> t.merged]} ELSE wire
  /\ failures' = failures + 1
  /\ UNCHANGED <<rt, config, commit, disk, baseline, remote, edits, remoteWrites,
                 crashes, touched, yielded, unsent>>

\* A request whose sender has given up reaches the server, or is lost.
LatePut(r) ==
  /\ \/ /\ Matches(r.seen)
        /\ remote' = [content |-> r.merged, etag |-> remote.etag + 1]
     \/ UNCHANGED remote
  /\ wire' = wire \ {r}
  /\ UNCHANGED <<rt, config, commit, tasks, disk, baseline, bounds, touched,
                 yielded, unsent>>

\* handle_sync_finished: the result of a task that is no longer the current
\* one is ignored.
HandleFinished(t) ==
  /\ t.phase = "done"
  /\ QueueDrained
  /\ LET n == [Here EXCEPT !.tasks = tasks \ {t}]
     IN  IF ~t.live
           THEN Become(n) /\ UNCHANGED <<unsent, failures>>
           ELSE \E counted \in Counted, saved, based, saved2 \in Outcomes :
                  LET m == ServePending(
                             Dispatched([n EXCEPT !.rt.inProgress = FALSE],
                                        t, counted, saved, based),
                             saved2)
                  IN  /\ Become(m)
                      /\ unsent' = UnsentAfter(m)
                      /\ CountFailures({saved, based, saved2})
  /\ UNCHANGED <<commit, remote, edits, remoteWrites, crashes, touched, yielded>>

\* Another device replaces the remote object, changing one entity.
OtherDeviceWrites ==
  /\ remoteWrites < MaxRemoteWrites
  /\ \E e \in Entity, v \in Value \cup {Deleted} :
       /\ Changes(remote.content, e, v)
       /\ remote' = [content |-> [remote.content EXCEPT ![e] = v],
                     etag |-> remote.etag + 1]
  /\ remoteWrites' = remoteWrites + 1
  /\ UNCHANGED <<device, edits, crashes, failures, touched, yielded, unsent>>

\* The process ends at any point and starts again from its files.
Crash ==
  /\ MayFault
  /\ crashes' = crashes + 1
  /\ rt' = FreshRuntime
  /\ config' = disk
  /\ commit' = None
  /\ tasks' = {}
  /\ wire' = wire \cup {[seen |-> t.seen, merged |-> t.merged] : t \in Outstanding(tasks)}
  /\ unsent' = {}
  /\ UNCHANGED <<disk, baseline, remote, edits, remoteWrites, failures, touched, yielded>>
-----------------------------------------------------------------------------
\* A new device, or one in agreement with the remote object.
Init ==
  /\ \E x \in Snapshot : config = [e \in Entity |-> x]
  /\ disk = config
  /\ \/ /\ config = EmptyCatalog
        /\ baseline = None
        /\ remote = NoVersion
     \/ /\ remote = [content |-> config, etag |-> 1]
        /\ baseline = remote
  /\ rt = FreshRuntime
  /\ commit = None
  /\ tasks = {} /\ wire = {}
  /\ edits = 0 /\ remoteWrites = 0 /\ crashes = 0 /\ failures = 0
  /\ touched = {} /\ yielded = {} /\ unsent = {} /\ skewed = FALSE

Step ==
  \/ CommitBegin \/ WorkerCommits \/ CommitDone \/ CatalogEdit \/ RecordUsage
  \/ AutomaticTrigger \/ ManualSync \/ ManualRestore \/ ResolveConflict
  \/ \E t \in tasks :
       TaskFetches(t) \/ ServerPuts(t) \/ TaskAnswered(t) \/ TaskFails(t) \/ HandleFinished(t)
  \/ \E r \in wire : LatePut(r)
  \/ OtherDeviceWrites
  \/ Crash

\* The baseline moves while a local change that the operation did not see is
\* recorded or still being committed, or the configuration adopts a merge and
\* the baseline is not written.
Skews ==
  \/ baseline' # baseline /\ (IsStale(rt) \/ commit # None)
  \/ baseline' = baseline /\ config' # config /\ commit' = commit
     /\ edits' = edits /\ crashes' = crashes

Next == Step /\ skewed' = (skewed \/ Skews)

Spec == Init /\ [][Next]_vars

\* Tokio runs every task to its end (a request has a timeout), the executor
\* delivers every result, the worker empties its queue, and the interval timer
\* fires again for as long as the program runs.
TaskRuns == \E t \in tasks : TaskFetches(t) \/ ServerPuts(t) \/ TaskAnswered(t)
ResultHandled == \E t \in tasks : HandleFinished(t)

Fairness ==
  /\ WF_device(TaskRuns)
  /\ WF_device(ResultHandled)
  /\ WF_device(WorkerCommits)
  /\ WF_device(CommitDone)
  /\ WF_device(AutomaticTrigger)

FairSpec == Spec /\ Fairness
-----------------------------------------------------------------------------
(* Safety.                                                                 *)

TypeOK ==
  /\ rt \in Runtime
  /\ config \in Catalog /\ disk \in Catalog
  /\ commit \in Commit \cup {None}
  /\ tasks \subseteq Task
  /\ wire \subseteq [seen : Version, merged : Catalog]
  /\ baseline \in Version \cup {None}
  /\ remote \in Version
  /\ edits \in Nat /\ remoteWrites \in Nat /\ crashes \in Nat /\ failures \in Nat
  /\ touched \subseteq Entity /\ yielded \subseteq Entity /\ unsent \subseteq Entity
  /\ skewed \in BOOLEAN

\* in_progress, which refuses every new operation, is set exactly while one
\* live task will clear it: however operations are started, replaced from a
\* conflict dialog, aborted or failed, the coordinator is never left waiting
\* for a task that cannot report, and never runs two.
NeverWedged ==
  /\ rt.inProgress <=> \E t \in tasks : t.live
  /\ \A t, u \in tasks : t.live /\ u.live => t = u

\* What this device holds under an entity tag is what the server holds, or
\* held, under it: no remembered version is newer than the remote object, and
\* one with the same tag has the same content.
IsKnown(version) ==
  /\ version.etag <= remote.etag
  /\ version.etag = remote.etag => version.content = remote.content

KnownVersions ==
  /\ baseline # None => IsKnown(baseline)
  /\ rt.conflicts # None => IsKnown(rt.conflicts.seen)
  /\ \A t \in tasks :
       /\ t.base # None => IsKnown(t.base)
       /\ IsKnown(t.seen)
       /\ t.phase = "acked" \/ t.result = "uploaded" =>
            IsKnown([content |-> t.merged, etag |-> t.etag])
  /\ \A r \in wire : IsKnown(r.seen)

\* A write of this device replaces only a remote version whose content the
\* device has downloaded and merged, also when the request arrives after its
\* sender gave up, was replaced, or crashed.
SeenByWriter ==
  \/ \E t \in tasks : t.phase = "put" /\ t.seen = remote /\ remote'.content = t.merged
  \/ \E r \in wire : r.seen = remote /\ remote'.content = r.merged

NoUnseenOverwrite ==
  [][remoteWrites' = remoteWrites /\ remote' # remote => SeenByWriter]_vars

\* Once a commit is complete its change stays in the configuration of this
\* device through every result of a synchronization, until the next change or
\* until the user gives the entity to the remote side.
LocalEdits ==
  {e \in Entity : baseline # None /\ ~SameContent(config[e], baseline.content[e])}

EditNeverLost ==
  [][edits' = edits /\ crashes' = crashes /\ commit' = commit =>
       \A e \in LocalEdits \ yielded' : SameContent(config'[e], config[e])]_vars

\* When a full commit reports success, the configuration file holds the change
\* it reports, as "only one full transaction per window is admitted at a time,
\* which prevents two staged snapshots from committing out of order" implies.
CommittedIsStored ==
  [][crashes' = crashes /\ config' # config /\ commit # None /\ commit' = None =>
       disk'[commit.entity] = config'[commit.entity]]_vars

\* A device never undoes on the server what another device did to an entity
\* that this device's user never decided about.
UntouchedKept ==
  remoteWrites' = remoteWrites =>
    \A e \in Entity \ touched' : SameContent(remote'.content[e], remote.content[e])

UntouchedNeverReverted == [][UntouchedKept]_vars

\* The same, as long as the configuration and the baseline moved together.
UntouchedKeptUnlessSkewed == [][skewed' \/ UntouchedKept]_vars

\* When the generations say that nothing is left to synchronize, every change
\* noted by note_local_config_saved is in the baseline, except those the user
\* gave to the remote side.
ChangeNeverForgotten == ~HasUnsynced(rt) => unsent \subseteq yielded
-----------------------------------------------------------------------------
(* Liveness.                                                               *)

\* A noted local change is eventually reconciled, or the user is asked: also
\* when it was made during an operation, or after a failure.
ChangeEventuallySent == HasUnsynced(rt) ~> (~HasUnsynced(rt) \/ rt.conflicts # None)

\* When nobody edits any more, this device and the remote object come to agree
\* and stay in agreement, unless a conflict waits for the user.
Agreement == \A e \in Entity : SameContent(config[e], remote.content[e])

Converges == <>[](Agreement \/ rt.conflicts # None)
=============================================================================
