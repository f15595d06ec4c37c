----------------------- MODULE SyncCoordinator_proofs -----------------------
(***************************************************************************)
(* The coordinator is well typed and never wedged; what it remembers of    *)
(* the server is true, and it overwrites only what it has merged; no edit  *)
(* is forgotten or undone, here or by the writes to the server.            *)
(*                                                                         *)
(* A handler is a function on a record (Machine), so each invariant is     *)
(* stated of a record, has a lemma per function, and one per action that   *)
(* installs the result.                                                    *)
(***************************************************************************)
EXTENDS SyncCoordinator, TLAPS

\* Two-way and three-way merges of snapshots are snapshots.
LEMMA MergesAreCatalogs ==
  /\ EmptyCatalog \in Catalog
  /\ \A b, l, r \in Catalog : Reconciled(b, l, r) \in Catalog
  /\ \A l, r \in Catalog, p \in {"Local", "Remote"} : Merged(p, l, r) \in Catalog
  /\ \A b, l, r \in Catalog : Conflicts(b, l, r) \in SUBSET Entity
BY DEF EmptyCatalog, Catalog, Snapshot, Reconciled, Selected, Merged, Preferred, Conflicts

\* The operations of SyncRuntimeState keep its fields well typed.
LEMMA RuntimeSteps ==
  ASSUME NEW r \in Runtime
  PROVE  /\ MarkLocalChange(r) \in Runtime
         /\ BeginReconciliation(r) \in Runtime
         /\ AbandonReconciliation(r) \in Runtime
         /\ RecordSuccess(r) \in Runtime
         /\ RecordFailure(r) \in Runtime
<1>1. MarkLocalChange(r) \in Runtime
  <2> DEFINE pending == r.pendingAutomatic \/ r.inProgress
  <2>1. pending \in BOOLEAN
    OBVIOUS
  <2> DEFINE next == r.localGen + 1
  <2>2. next \in Nat
    BY DEF Runtime
  <2>3. MarkLocalChange(r) = [r EXCEPT !.localGen = next, !.pendingAutomatic = pending]
    BY DEF MarkLocalChange
  <2> HIDE DEF pending, next
  <2> QED
    BY <2>1, <2>2, <2>3 DEF Runtime
<1>2. BeginReconciliation(r) \in Runtime
  BY DEF Runtime, BeginReconciliation
<1>3. AbandonReconciliation(r) \in Runtime
  BY DEF Runtime, AbandonReconciliation
<1>4. RecordSuccess(r) \in Runtime
  <2> DEFINE done == IF r.activeGen = None THEN r.reconciledGen ELSE r.activeGen
             pending == r.pendingAutomatic \/ done # r.localGen
  <2>1. done \in Nat /\ pending \in BOOLEAN
    BY DEF Runtime
  <2>2. RecordSuccess(r) = [r EXCEPT !.reconciledGen = done, !.activeGen = None,
                                     !.pendingAutomatic = pending]
    BY DEF RecordSuccess
  <2> HIDE DEF done, pending
  <2> QED
    BY <2>1, <2>2 DEF Runtime
<1>5. RecordFailure(r) \in Runtime
  BY DEF Runtime, RecordFailure
<1> QED
  BY <1>1, <1>2, <1>3, <1>4, <1>5

\* The absent object is a version.
LEMMA NoVersionTypeOK == NoVersion \in Version
BY MergesAreCatalogs DEF NoVersion, Version

\* Requests and writes begin as well-typed tasks.
LEMMA NewTasks ==
  /\ \A kind \in {"upload", "restore"}, local \in Catalog, base \in Version \cup {None} :
       FetchTask(kind, local, base) \in Task
  /\ \A merged \in Catalog, seen \in Version : PutTask(merged, seen) \in Task
BY MergesAreCatalogs, NoVersionTypeOK DEF Task, FetchTask, PutTask

\* Starting a task keeps the coordinator well typed; the task before it lives no more.
LEMMA StartTypeOK ==
  ASSUME NEW m \in Machine, NEW task \in Task
  PROVE  Start(m, task) \in Machine
<1>1. \A t \in m.tasks : t \in Task
  BY DEF Machine
<1>2. \A t \in Task : [t EXCEPT !.live = FALSE] \in Task
  BY DEF Task
<1>3. \A t \in Task : [seen |-> t.seen, merged |-> t.merged] \in [seen : Version, merged : Catalog]
  BY DEF Task
<1> QED
  BY <1>1, <1>2, <1>3 DEF Start, Outstanding, Machine

\* A field of the coordinator may be replaced by a value of its type.
LEMMA MachineUpdates ==
  ASSUME NEW m \in Machine
  PROVE  /\ m.rt \in Runtime /\ m.config \in Catalog /\ m.baseline \in Version \cup {None}
         /\ \A r \in Runtime : [m EXCEPT !.rt = r] \in Machine
         /\ \A c \in Catalog : [m EXCEPT !.config = c] \in Machine
         /\ \A c \in Catalog : [m EXCEPT !.disk = c] \in Machine
         /\ \A b \in Version \cup {None} : [m EXCEPT !.baseline = b] \in Machine
         /\ \A p \in BOOLEAN : [m.rt EXCEPT !.inProgress = p] \in Runtime
         /\ \A p \in BOOLEAN : [m.rt EXCEPT !.pendingAutomatic = p] \in Runtime
         /\ \A p \in Pending \cup {None} : [m.rt EXCEPT !.conflicts = p] \in Runtime
BY DEF Machine, Runtime

\* begin_sync keeps the coordinator well typed.
LEMMA BeginOperationTypeOK ==
  ASSUME NEW m \in Machine, NEW kind \in {"upload", "restore"}, NEW saved \in BOOLEAN
  PROVE  BeginOperation(m, kind, saved) \in Machine
<1> DEFINE r == BeginReconciliation([m.rt EXCEPT !.inProgress = TRUE])
           n == [m EXCEPT !.disk = m.config, !.rt = r]
<1>1. r \in Runtime
  BY MachineUpdates, RuntimeSteps
<1>2. n \in Machine
  <2> HIDE DEF r
  <2> QED
    BY <1>1 DEF Machine
<1>3. FetchTask(kind, m.config, m.baseline) \in Task
  BY MachineUpdates, NewTasks
<1> QED
  BY <1>2, <1>3, StartTypeOK DEF BeginOperation

\* request_automatic_sync keeps the coordinator well typed.
LEMMA RequestAutomaticTypeOK ==
  ASSUME NEW m \in Machine, NEW saved \in BOOLEAN
  PROVE  RequestAutomatic(m, saved) \in Machine
<1>1. [m EXCEPT !.rt.pendingAutomatic = TRUE] \in Machine
  BY DEF Machine, Runtime
<1>2. [m EXCEPT !.rt = BeginReconciliation(m.rt)] \in Machine
  BY MachineUpdates, RuntimeSteps
<1>3. BeginOperation([m EXCEPT !.rt = BeginReconciliation(m.rt)], "upload", saved) \in Machine
  BY <1>2, BeginOperationTypeOK
<1> QED
  BY <1>1, <1>3 DEF RequestAutomatic

\* Serving the pending automatic run keeps the coordinator well typed.
LEMMA ServePendingTypeOK ==
  ASSUME NEW m \in Machine, NEW saved \in BOOLEAN
  PROVE  ServePending(m, saved) \in Machine
<1>1. [m EXCEPT !.rt.pendingAutomatic = FALSE] \in Machine
  BY DEF Machine, Runtime
<1> QED
  BY <1>1, RequestAutomaticTypeOK DEF ServePending

\* Storing a merge and its baseline keeps the coordinator well typed.
LEMMA AdoptReconciledTypeOK ==
  ASSUME NEW m \in Machine, NEW merged \in Catalog, NEW seen \in Version,
         NEW saved \in BOOLEAN, NEW based \in BOOLEAN
  PROVE  AdoptReconciled(m, merged, seen, saved, based) \in Machine
<1> DEFINE adopted == [m EXCEPT !.config = merged]
           stored  == [adopted EXCEPT !.disk = merged]
<1>1. adopted \in Machine
  BY MachineUpdates
<1>2. stored \in Machine
  <2> HIDE DEF adopted
  <2> QED
    BY <1>1, MachineUpdates
<1>3. [stored EXCEPT !.baseline = seen, !.rt = RecordSuccess(m.rt)] \in Machine
  <2>1. RecordSuccess(m.rt) \in Runtime
    BY MachineUpdates, RuntimeSteps
  <2> HIDE DEF stored
  <2> QED
    BY <1>2, <2>1 DEF Machine
<1> QED
  BY <1>1, <1>2, <1>3 DEF AdoptReconciled

\* continue_sync_upload keeps the coordinator well typed.
LEMMA ContinueUploadTypeOK ==
  ASSUME NEW m \in Machine, NEW merged \in Catalog, NEW seen \in Version
  PROVE  ContinueUpload(m, merged, seen) \in Machine
<1>1. [m EXCEPT !.rt.inProgress = TRUE] \in Machine
  BY DEF Machine, Runtime
<1>2. PutTask(IF seen.etag = 0 THEN m.config ELSE merged, seen) \in Task
  BY MachineUpdates, NewTasks
<1> QED
  BY <1>1, <1>2, StartTypeOK DEF ContinueUpload

\* handle_sync_upload_preflight_ready keeps the coordinator well typed.
LEMMA PreflightReadyTypeOK ==
  ASSUME NEW m \in Machine, NEW merged \in Catalog, NEW seen \in Version,
         NEW counted \in BOOLEAN, NEW saved \in BOOLEAN, NEW based \in BOOLEAN
  PROVE  PreflightReady(m, merged, seen, counted, saved, based) \in Machine
<1>1. [m EXCEPT !.rt = AbandonReconciliation(m.rt)] \in Machine
  BY MachineUpdates, RuntimeSteps
<1> QED
  BY <1>1, AdoptReconciledTypeOK, ContinueUploadTypeOK DEF PreflightReady

\* Offering conflicts to the user keeps the coordinator well typed.
LEMMA OfferConflictsTypeOK ==
  ASSUME NEW m \in Machine, NEW t \in Task
  PROVE  OfferConflicts(m, t) \in Machine
<1> DEFINE pending == [open |-> t.open, merged |-> t.merged, seen |-> t.seen]
<1>1. pending \in Pending
  BY DEF Pending, Task
<1>2. [m EXCEPT !.rt.conflicts = pending] \in Machine
  <2> HIDE DEF pending
  <2> QED
    BY <1>1 DEF Machine, Runtime
<1>3. [m EXCEPT !.rt = AbandonReconciliation(m.rt)] \in Machine
  BY MachineUpdates, RuntimeSteps
<1> QED
  BY <1>2, <1>3 DEF OfferConflicts

\* handle_sync_uploaded keeps the coordinator well typed.
LEMMA UploadedTypeOK ==
  ASSUME NEW m \in Machine, NEW t \in Task, NEW saved \in BOOLEAN, NEW based \in BOOLEAN
  PROVE  Uploaded(m, t, saved, based) \in Machine
<1> DEFINE applied == IF IsStale(m.rt) \/ t.seen.etag = 0
                        THEN m ELSE [m EXCEPT !.config = t.merged]
           stored  == [applied EXCEPT !.disk = applied.config]
           version == [content |-> t.merged, etag |-> t.etag]
<1>1. applied \in Machine
  BY MachineUpdates DEF Task
<1>2. stored \in Machine
  <2> HIDE DEF applied
  <2> QED
    BY <1>1, MachineUpdates
<1>3. version \in Version /\ RecordSuccess(m.rt) \in Runtime
  BY MachineUpdates, RuntimeSteps DEF Task, Version
<1>4. [stored EXCEPT !.baseline = version, !.rt = RecordSuccess(m.rt)] \in Machine
  <2> HIDE DEF stored, version
  <2> QED
    BY <1>2, <1>3 DEF Machine
<1> QED
  BY <1>2, <1>4 DEF Uploaded

\* handle_sync_downloaded keeps the coordinator well typed.
LEMMA DownloadedTypeOK ==
  ASSUME NEW m \in Machine, NEW t \in Task, NEW saved \in BOOLEAN, NEW based \in BOOLEAN
  PROVE  Downloaded(m, t, saved, based) \in Machine
<1>1. [m EXCEPT !.rt = AbandonReconciliation(m.rt)] \in Machine
  BY MachineUpdates, RuntimeSteps
<1>2. t.merged \in Catalog /\ t.seen \in Version
  BY DEF Task
<1> QED
  BY <1>1, <1>2, AdoptReconciledTypeOK DEF Downloaded

\* handle_sync_finished keeps the coordinator well typed, whatever the result is.
LEMMA DispatchedTypeOK ==
  ASSUME NEW m \in Machine, NEW t \in Task,
         NEW counted \in BOOLEAN, NEW saved \in BOOLEAN, NEW based \in BOOLEAN
  PROVE  Dispatched(m, t, counted, saved, based) \in Machine
<1>1. t.merged \in Catalog /\ t.seen \in Version
  BY DEF Task
<1>2. Failed(m) \in Machine
  BY MachineUpdates, RuntimeSteps DEF Failed
<1> QED
  BY <1>1, <1>2, PreflightReadyTypeOK, OfferConflictsTypeOK, UploadedTypeOK, DownloadedTypeOK
     DEF Dispatched

\* A finished request carries the configuration and the version of its kind.
LEMMA FetchedTypeOK ==
  ASSUME TypeOK, NEW t \in tasks, t.phase = "fetch"
  PROVE  Fetched(t) \in Task
<1> DEFINE found == [t EXCEPT !.phase = "done", !.seen = remote,
                              !.local = EmptyCatalog, !.base = None]
           open  == Conflicts(t.base.content, t.local, remote.content)
<1>1. t \in Task /\ remote \in Version
  BY DEF TypeOK
<1>2. found \in Task
  BY <1>1, MergesAreCatalogs DEF Task
<1>3. t.local \in Catalog /\ remote.content \in Catalog
  BY <1>1 DEF Task, Version
<1>4. \A p \in {"Local", "Remote"} : Merged(p, t.local, remote.content) \in Catalog
  BY <1>3, MergesAreCatalogs
<1>5. t.base # None => /\ open \in SUBSET Entity
                      /\ Reconciled(t.base.content, t.local, remote.content) \in Catalog
  BY <1>1, <1>3, MergesAreCatalogs DEF Task, Version
<1>6. t.kind \in {"upload", "restore"} /\ remote.etag \in Nat
  BY <1>1 DEF Task, Version
<1>7. CASE remote.etag = 0
  <2> DEFINE result == IF t.kind = "upload" THEN "ready" ELSE "failed"
  <2>1. Fetched(t) = [found EXCEPT !.result = result]
    BY <1>7 DEF Fetched
  <2> HIDE DEF found
  <2> QED
    BY <1>2, <2>1 DEF Task
<1>8. CASE remote.etag # 0 /\ t.kind = "restore"
  <2>1. Fetched(t) = [found EXCEPT !.result = "downloaded",
                                   !.merged = Merged("Remote", t.local, remote.content)]
    BY <1>8 DEF Fetched
  <2>2. Merged("Remote", t.local, remote.content) \in Catalog
    BY <1>4
  <2> HIDE DEF found
  <2> QED
    BY <1>2, <2>1, <2>2 DEF Task
<1>9. CASE remote.etag # 0 /\ t.kind = "upload" /\ t.base = None
  <2>1. Fetched(t) = [found EXCEPT !.result = "ready",
                                   !.merged = Merged("Local", t.local, remote.content)]
    BY <1>9 DEF Fetched
  <2>2. Merged("Local", t.local, remote.content) \in Catalog
    BY <1>4
  <2> HIDE DEF found
  <2> QED
    BY <1>2, <2>1, <2>2 DEF Task
<1>10. CASE remote.etag # 0 /\ t.kind = "upload" /\ t.base # None
  <2> DEFINE result == IF open = {} THEN "ready" ELSE "conflicts"
  <2>1. Fetched(t) = [found EXCEPT !.result = result, !.open = open,
                        !.merged = Reconciled(t.base.content, t.local, remote.content)]
    BY <1>10 DEF Fetched
  <2> HIDE DEF found, open
  <2> QED
    BY <1>2, <1>5, <1>10, <2>1 DEF Task
<1> QED
  BY <1>6, <1>7, <1>8, <1>9, <1>10

\* What TypeOK says of the variables a handler may change, and of the others.
LEMMA TypeOKIsMachine ==
  TypeOK <=> /\ Here \in Machine
             /\ commit \in Commit \cup {None}
             /\ remote \in Version
             /\ edits \in Nat /\ remoteWrites \in Nat /\ crashes \in Nat /\ failures \in Nat
             /\ touched \subseteq Entity /\ yielded \subseteq Entity /\ unsent \subseteq Entity
             /\ skewed \in BOOLEAN
BY DEF TypeOK, Here, Machine

\* A step whose coordinator is well typed leads to a well-typed state.
LEMMA BecomeTypeOK ==
  ASSUME TypeOK, NEW m \in Machine, Become(m), skewed' \in BOOLEAN,
         commit' \in Commit \cup {None}, remote' \in Version,
         edits' \in Nat, remoteWrites' \in Nat, crashes' \in Nat, failures' \in Nat,
         touched' \subseteq Entity, yielded' \subseteq Entity, unsent' \subseteq Entity
  PROVE  TypeOK'
BY DEF TypeOK, Become, Machine

\* The initial state is well typed.
LEMMA InitTypeOK == Init => TypeOK
<1> SUFFICES ASSUME Init PROVE TypeOK
  OBVIOUS
<1>1. config \in Catalog
  BY DEF Init, Catalog
<1>2. FreshRuntime \in Runtime
  BY DEF FreshRuntime, Runtime
<1>3. remote \in Version /\ baseline \in Version \cup {None}
  BY <1>1, NoVersionTypeOK DEF Init, Version
<1> QED
  BY <1>1, <1>2, <1>3 DEF Init, TypeOK

\* Every step keeps the types: one case per action.
LEMMA NextTypeOK ==
  ASSUME TypeOK, Next
  PROVE  TypeOK'
<1>1. skewed' \in BOOLEAN
  BY DEF Next, TypeOK
<1>2. Here \in Machine
  BY TypeOKIsMachine
<1>3. Outcomes \subseteq BOOLEAN /\ Counted \subseteq BOOLEAN
  BY DEF Outcomes, Counted
<1>4. \A outcomes : CountFailures(outcomes) => failures' \in Nat
  <2>1. failures \in Nat /\ failures + 1 \in Nat
    BY DEF TypeOK
  <2>2. ASSUME NEW outcomes, CountFailures(outcomes)
        PROVE  failures' = failures + 1 \/ failures' = failures
    BY <2>2, Zenon DEF CountFailures
  <2> QED
    BY <2>1, <2>2
<1>5. \A m : UnsentAfter(m) \subseteq Entity
  BY DEF UnsentAfter, TypeOK
<1>6. ASSUME CommitBegin PROVE TypeOK'
  <2>1. PICK e \in Entity, v \in Value \cup {Deleted} :
          /\ commit' = [entity |-> e, staged |-> [config EXCEPT ![e] = v], status |-> "queued"]
          /\ touched' = touched \cup {e}
    BY <1>6 DEF CommitBegin
  <2>2. [config EXCEPT ![e] = v] \in Catalog
    BY DEF TypeOK, Catalog, Snapshot
  <2>3. commit' \in Commit
    BY <2>1, <2>2 DEF Commit
  <2> QED
    BY <1>1, <1>6, <2>1, <2>3 DEF CommitBegin, TypeOK
<1>7. ASSUME WorkerCommits PROVE TypeOK'
  <2>1. commit \in Commit
    BY <1>7 DEF WorkerCommits, TypeOK
  <2>2. commit' \in Commit /\ disk' \in Catalog
    BY <1>7, <2>1 DEF WorkerCommits, Commit, TypeOK
  <2> QED
    BY <1>1, <1>4, <1>7, <2>2 DEF WorkerCommits, TypeOK
<1>8. ASSUME CommitDone PROVE TypeOK'
  <2>1. commit \in Commit
    BY <1>8 DEF CommitDone, TypeOK
  <2>2. [rt EXCEPT !.conflicts = None] \in Runtime
    BY DEF TypeOK, Runtime
  <2>3. MarkLocalChange([rt EXCEPT !.conflicts = None]) \in Runtime
    BY <2>2, RuntimeSteps
  <2>4. config' \in Catalog /\ rt' \in Runtime
    BY <1>8, <2>1, <2>3 DEF CommitDone, Commit, TypeOK
  <2>5. yielded' \subseteq Entity /\ unsent' \subseteq Entity
    BY <1>8, <2>1 DEF CommitDone, Commit, TypeOK
  <2> QED
    BY <1>1, <1>8, <2>4, <2>5 DEF CommitDone, TypeOK, bounds
<1>9. ASSUME CatalogEdit PROVE TypeOK'
  <2>1. PICK e \in Entity, v \in Value \cup {Deleted} :
          /\ config' = [config EXCEPT ![e] = v]
          /\ touched' = touched \cup {e}
          /\ yielded' = yielded \ {e}
          /\ unsent' = unsent \cup {e}
    BY <1>9 DEF CatalogEdit
  <2>2. config' \in Catalog
    BY <2>1 DEF TypeOK, Catalog, Snapshot
  <2> QED
    BY <1>1, <1>9, <2>1, <2>2 DEF CatalogEdit, TypeOK
<1>10. ASSUME RecordUsage PROVE TypeOK'
  BY <1>1, <1>10, RuntimeSteps DEF RecordUsage, TypeOK
<1>11. ASSUME AutomaticTrigger PROVE TypeOK'
  <2>1. PICK saved \in Outcomes : Become(RequestAutomatic(Here, saved)) /\ CountFailures({saved})
    BY <1>11 DEF AutomaticTrigger
  <2>2. RequestAutomatic(Here, saved) \in Machine
    BY <1>2, <1>3, RequestAutomaticTypeOK
  <2> QED
    BY <1>1, <1>4, <1>11, <2>1, <2>2, BecomeTypeOK DEF AutomaticTrigger, TypeOK
<1>12. ASSUME ManualSync PROVE TypeOK'
  <2>1. PICK saved \in Outcomes :
          Become(BeginOperation(Here, "upload", saved)) /\ CountFailures({saved})
    BY <1>12 DEF ManualSync
  <2>2. BeginOperation(Here, "upload", saved) \in Machine
    BY <1>2, <1>3, BeginOperationTypeOK
  <2> QED
    BY <1>1, <1>4, <1>12, <2>1, <2>2, BecomeTypeOK DEF ManualSync, TypeOK
<1>13. ASSUME ManualRestore PROVE TypeOK'
  <2>1. PICK saved \in Outcomes :
          Become(BeginOperation(Here, "restore", saved)) /\ CountFailures({saved})
    BY <1>13 DEF ManualRestore
  <2>2. BeginOperation(Here, "restore", saved) \in Machine
    BY <1>2, <1>3, BeginOperationTypeOK
  <2> QED
    BY <1>1, <1>4, <1>13, <2>1, <2>2, BecomeTypeOK DEF ManualRestore, TypeOK
<1>14. ASSUME NEW side \in {"Local", "Remote"}, NEW decided \in SUBSET Entity,
              rt.conflicts # None, Resolve(side, decided)
       PROVE  TypeOK'
  <2> DEFINE pending == rt.conflicts
             open    == pending.open \ decided
             merged  == [e \in Entity |-> IF e \in decided /\ side = "Remote"
                                            THEN pending.seen.content[e]
                                            ELSE pending.merged[e]]
  <2>1. pending \in Pending
    BY <1>14 DEF TypeOK, Runtime
  <2>2. open \subseteq Entity /\ merged \in Catalog /\ pending.seen \in Version
    BY <2>1 DEF Pending, Version, Catalog
  <2>3. touched' \subseteq Entity /\ yielded' \subseteq Entity
    BY <1>14 DEF Resolve, TypeOK
  <2>4. CASE open # {}
    <3>1. rt' = [rt EXCEPT !.conflicts.open = open, !.conflicts.merged = merged]
      BY <1>14, <2>4 DEF Resolve
    <3>2. rt' \in Runtime
      <4>1. rt' = [rt EXCEPT !.conflicts = [pending EXCEPT !.open = open, !.merged = merged]]
        BY <3>1 DEF TypeOK, Runtime
      <4>2. [pending EXCEPT !.open = open, !.merged = merged] \in Pending
        BY <2>1, <2>2 DEF Pending
      <4> HIDE DEF open, merged
      <4> QED
        BY <4>1, <4>2 DEF TypeOK, Runtime
    <3> QED
      BY <1>1, <1>14, <2>3, <2>4, <3>2 DEF Resolve, TypeOK
  <2>5. CASE open = {}
    <3> DEFINE done(c, s, b) ==
                 PreflightReady([Here EXCEPT !.rt.conflicts = None],
                                merged, pending.seen, c, s, b)
    <3>1. PICK counted \in Counted, saved \in Outcomes, based \in Outcomes :
            /\ Become(done(counted, saved, based))
            /\ unsent' = UnsentAfter(done(counted, saved, based))
            /\ CountFailures({saved, based})
      BY <1>14, <2>5 DEF Resolve
    <3>2. [Here EXCEPT !.rt.conflicts = None] \in Machine
      BY <1>2 DEF Machine, Runtime
    <3>3. done(counted, saved, based) \in Machine
      <4> HIDE DEF merged
      <4> QED
        BY <1>3, <2>2, <3>2, PreflightReadyTypeOK
    <3> HIDE DEF done
    <3> QED
      BY <1>1, <1>4, <1>5, <1>14, <2>3, <3>1, <3>3, BecomeTypeOK DEF Resolve, TypeOK
  <2> QED
    BY <2>4, <2>5
<1>15. ASSUME ResolveConflict PROVE TypeOK'
  <2>1. rt.conflicts # None /\ rt.conflicts.open \subseteq Entity
    BY <1>15 DEF ResolveConflict, TypeOK, Runtime, Pending
  <2>2. \E side \in {"Local", "Remote"}, decided \in SUBSET Entity : Resolve(side, decided)
    BY <1>15, <2>1 DEF ResolveConflict
  <2> QED
    BY <1>14, <2>1, <2>2
<1>16. ASSUME NEW t \in tasks, TaskFetches(t) PROVE TypeOK'
  <2>1. Fetched(t) \in Task
    BY <1>16, FetchedTypeOK DEF TaskFetches
  <2> QED
    BY <1>1, <1>16, <2>1 DEF TaskFetches, Replaced, TypeOK, bounds
<1>17. ASSUME NEW t \in tasks, ServerPuts(t) PROVE TypeOK'
  <2> DEFINE tag == remote.etag + 1
  <2>1. t \in Task /\ remote \in Version
    BY DEF TypeOK
  <2>2. tag \in Nat
    BY <2>1 DEF Version
  <2>3. [t EXCEPT !.phase = "done", !.result = "failed"] \in Task
    BY <2>1 DEF Task
  <2>4. ServerPuts(t) =>
          \/ /\ remote' = [content |-> t.merged, etag |-> tag]
             /\ tasks' = (tasks \ {t}) \cup {[t EXCEPT !.phase = "acked", !.etag = tag]}
          \/ /\ remote' = remote
             /\ tasks' = (tasks \ {t}) \cup {[t EXCEPT !.phase = "done", !.result = "failed"]}
    BY DEF ServerPuts, Replaced
  <2> HIDE DEF tag
  <2>5. [t EXCEPT !.phase = "acked", !.etag = tag] \in Task
    BY <2>1, <2>2 DEF Task
  <2>6. [content |-> t.merged, etag |-> tag] \in Version
    BY <2>1, <2>2 DEF Task, Version
  <2>7. tasks' \subseteq Task /\ remote' \in Version
    BY <1>17, <2>1, <2>3, <2>4, <2>5, <2>6 DEF TypeOK
  <2> QED
    BY <1>1, <1>17, <2>7 DEF ServerPuts, TypeOK, bounds
<1>18. ASSUME NEW t \in tasks, TaskAnswered(t) PROVE TypeOK'
  <2>1. [t EXCEPT !.phase = "done", !.result = "uploaded"] \in Task
    BY DEF Task, TypeOK
  <2> QED
    BY <1>1, <1>18, <2>1 DEF TaskAnswered, Replaced, TypeOK, bounds
<1>19. ASSUME NEW t \in tasks, TaskFails(t) PROVE TypeOK'
  <2>1. /\ [t EXCEPT !.phase = "done", !.result = "failed"] \in Task
        /\ [seen |-> t.seen, merged |-> t.merged] \in [seen : Version, merged : Catalog]
    BY DEF Task, TypeOK
  <2> QED
    BY <1>1, <1>19, <2>1 DEF TaskFails, Replaced, TypeOK
<1>20. ASSUME NEW t \in tasks, HandleFinished(t) PROVE TypeOK'
  <2> DEFINE n == [Here EXCEPT !.tasks = tasks \ {t}]
  <2>1. n \in Machine /\ t \in Task
    BY <1>2 DEF Here, Machine, TypeOK
  <2>2. CASE ~t.live
    <3>1. Become(n) /\ UNCHANGED <<unsent, failures>>
      BY <1>20, <2>2 DEF HandleFinished
    <3> HIDE DEF n
    <3> QED
      BY <1>1, <1>20, <2>1, <3>1, BecomeTypeOK DEF HandleFinished, TypeOK
  <2>3. CASE t.live
    <3> DEFINE idle == [n EXCEPT !.rt.inProgress = FALSE]
               after(c, s, b, s2) == ServePending(Dispatched(idle, t, c, s, b), s2)
    <3>1. PICK counted \in Counted, saved \in Outcomes, based \in Outcomes,
               saved2 \in Outcomes :
            /\ Become(after(counted, saved, based, saved2))
            /\ unsent' = UnsentAfter(after(counted, saved, based, saved2))
            /\ CountFailures({saved, based, saved2})
      BY <1>20, <2>3 DEF HandleFinished
    <3>2. idle \in Machine
      <4> HIDE DEF n
      <4> QED
        BY <2>1 DEF Machine, Runtime
    <3>3. after(counted, saved, based, saved2) \in Machine
      <4> HIDE DEF idle
      <4>1. Dispatched(idle, t, counted, saved, based) \in Machine
        BY <1>3, <2>1, <3>2, DispatchedTypeOK
      <4> QED
        BY <1>3, <4>1, ServePendingTypeOK
    <3> HIDE DEF after
    <3> QED
      BY <1>1, <1>4, <1>5, <1>20, <3>1, <3>3, BecomeTypeOK DEF HandleFinished, TypeOK
  <2> QED
    BY <2>2, <2>3
<1>21. ASSUME NEW r \in wire, LatePut(r) PROVE TypeOK'
  <2>1. [content |-> r.merged, etag |-> remote.etag + 1] \in Version
    BY DEF TypeOK, Version
  <2> QED
    BY <1>1, <1>21, <2>1 DEF LatePut, TypeOK, bounds
<1>22. ASSUME OtherDeviceWrites PROVE TypeOK'
  <2>1. \A e \in Entity, v \in Value \cup {Deleted} :
          [content |-> [remote.content EXCEPT ![e] = v], etag |-> remote.etag + 1] \in Version
    BY DEF TypeOK, Version, Catalog, Snapshot
  <2>2. remote' \in Version
    BY <1>22, <2>1 DEF OtherDeviceWrites
  <2> QED
    BY <1>1, <1>22, <2>2 DEF OtherDeviceWrites, TypeOK, device
<1>23. ASSUME Crash PROVE TypeOK'
  <2>1. \A t \in Outstanding(tasks) :
          [seen |-> t.seen, merged |-> t.merged] \in [seen : Version, merged : Catalog]
    BY DEF Outstanding, TypeOK, Task
  <2>2. FreshRuntime \in Runtime
    BY DEF FreshRuntime, Runtime
  <2> QED
    BY <1>1, <1>23, <2>1, <2>2 DEF Crash, TypeOK
<1> QED
  BY <1>6, <1>7, <1>8, <1>9, <1>10, <1>11, <1>12, <1>13, <1>15, <1>16, <1>17, <1>18, <1>19,
     <1>20, <1>21, <1>22, <1>23 DEF Next, Step

\* Every variable keeps its type, for every number of entities and values and
\* for every bound: in particular reconciled_generation is always a generation,
\* also when a run without an active generation succeeds.
THEOREM TypeCorrect == Spec => []TypeOK
<1>1. TypeOK /\ [Next]_vars => TypeOK'
  <2> SUFFICES ASSUME TypeOK, [Next]_vars PROVE TypeOK'
    OBVIOUS
  <2>1. CASE Next
    BY <2>1, NextTypeOK
  <2>2. CASE UNCHANGED vars
    BY <2>2 DEF vars, TypeOK
  <2> QED
    BY <2>1, <2>2
<1> QED
  BY <1>1, InitTypeOK, PTL DEF Spec
-----------------------------------------------------------------------------
(* NeverWedged.  It is inductive together with TypeOK.  The record that a  *)
(* handler works on has it too, from the reset of in_progress on.          *)

\* NeverWedged of the record a handler works on.
Owned(m) ==
  /\ m.rt.inProgress <=> \E t \in m.tasks : t.live
  /\ \A t, u \in m.tasks : t.live /\ u.live => t = u

\* Neither the tasks nor in_progress change from m to n.
Quiet(m, n) == n.tasks = m.tasks /\ n.rt.inProgress = m.rt.inProgress

\* What leaves the tasks and in_progress alone keeps Owned.
LEMMA QuietOwned ==
  ASSUME NEW m, NEW n, Owned(m), Quiet(m, n)
  PROVE  Owned(n)
BY DEF Owned, Quiet

\* The transitions of SyncRuntimeState leave in_progress alone.
LEMMA RuntimeQuiet ==
  ASSUME NEW r \in Runtime
  PROVE  /\ MarkLocalChange(r).inProgress = r.inProgress
         /\ BeginReconciliation(r).inProgress = r.inProgress
         /\ AbandonReconciliation(r).inProgress = r.inProgress
         /\ RecordSuccess(r).inProgress = r.inProgress
         /\ RecordFailure(r).inProgress = r.inProgress
BY DEF Runtime, MarkLocalChange, BeginReconciliation, AbandonReconciliation, RecordSuccess,
       RecordFailure

\* A transition of the runtime, applied to the coordinator, is quiet.
LEMMA RuntimeOnly ==
  ASSUME NEW m \in Machine, NEW r \in Runtime, r.inProgress = m.rt.inProgress
  PROVE  Quiet(m, [m EXCEPT !.rt = r])
BY DEF Machine, Quiet

\* The new task is the only live one: the task before it is aborted, or its
\* result is disowned.
LEMMA StartOwned ==
  ASSUME NEW m \in Machine, m.rt.inProgress, NEW task, task.live = TRUE
  PROVE  Owned(Start(m, task))
<1> DEFINE disowned == {[t EXCEPT !.live = FALSE] : t \in {u \in m.tasks : u.phase = "done"}}
           n == Start(m, task)
<1>1. \A t \in m.tasks : [t EXCEPT !.live = FALSE].live = FALSE
  BY DEF Machine, Task
<1>2. \A t \in disowned : t.live = FALSE
  BY <1>1
<1>3. n.tasks = disowned \cup {task} /\ n.rt = m.rt
  BY DEF Start, Machine
<1> HIDE DEF disowned, n
<1>4. Owned(n)
  BY <1>2, <1>3 DEF Owned
<1> QED
  BY <1>4 DEF n

\* begin_sync refuses, or sets in_progress and starts the task.
LEMMA BeginOperationOwned ==
  ASSUME NEW m \in Machine, Owned(m), NEW kind \in {"upload", "restore"}, NEW saved \in BOOLEAN
  PROVE  Owned(BeginOperation(m, kind, saved))
<1> DEFINE started == [m.rt EXCEPT !.inProgress = TRUE]
           r == BeginReconciliation(started)
           n == [m EXCEPT !.disk = m.config, !.rt = r]
           task == FetchTask(kind, m.config, m.baseline)
<1>1. started \in Runtime /\ started.inProgress
  <2>1. m.rt \in Runtime
    BY MachineUpdates
  <2> QED
    BY <2>1 DEF Runtime
<1>2. r \in Runtime /\ r.inProgress
  <2> HIDE DEF started
  <2> QED
    BY <1>1, RuntimeSteps, RuntimeQuiet
<1>3. n \in Machine /\ n.rt = r
  <2> HIDE DEF r
  <2> QED
    BY <1>2 DEF Machine
<1>4. task.live = TRUE
  BY DEF FetchTask
<1>5. \/ BeginOperation(m, kind, saved) = m
      \/ BeginOperation(m, kind, saved) = Start(n, task)
  BY DEF BeginOperation
<1> HIDE DEF n, task
<1>6. Owned(Start(n, task))
  BY <1>2, <1>3, <1>4, StartOwned
<1> QED
  BY <1>5, <1>6

\* request_automatic_sync starts a task only when none is in progress.
LEMMA RequestAutomaticOwned ==
  ASSUME NEW m \in Machine, Owned(m), NEW saved \in BOOLEAN
  PROVE  Owned(RequestAutomatic(m, saved))
<1> DEFINE p == [m.rt EXCEPT !.pendingAutomatic = TRUE]
           waits == [m EXCEPT !.rt = p]
           r == BeginReconciliation(m.rt)
           begun == [m EXCEPT !.rt = r]
<1>1. /\ p \in Runtime /\ p.inProgress = m.rt.inProgress
      /\ r \in Runtime /\ r.inProgress = m.rt.inProgress
  <2>1. m.rt \in Runtime
    BY MachineUpdates
  <2>2. r \in Runtime /\ r.inProgress = m.rt.inProgress
    BY <2>1, RuntimeSteps, RuntimeQuiet
  <2> QED
    BY <2>1, <2>2 DEF Runtime
<1>2. [m EXCEPT !.rt.pendingAutomatic = TRUE] = waits
  BY DEF Machine
<1> HIDE DEF p, r
<1>3. Owned(waits) /\ Owned(begun) /\ begun \in Machine
  BY <1>1, RuntimeOnly, QuietOwned, MachineUpdates
<1>4. Owned(BeginOperation(begun, "upload", saved))
  BY <1>3, BeginOperationOwned
<1>5. \/ RequestAutomatic(m, saved) = m
      \/ RequestAutomatic(m, saved) = waits
      \/ RequestAutomatic(m, saved) = BeginOperation(begun, "upload", saved)
  BY <1>2 DEF RequestAutomatic, r
<1> QED
  BY <1>3, <1>4, <1>5

\* Nor does the pending automatic run start a second one.
LEMMA ServePendingOwned ==
  ASSUME NEW m \in Machine, Owned(m), NEW saved \in BOOLEAN
  PROVE  Owned(ServePending(m, saved))
<1> DEFINE p == [m.rt EXCEPT !.pendingAutomatic = FALSE]
           served == [m EXCEPT !.rt = p]
<1>1. p \in Runtime /\ p.inProgress = m.rt.inProgress
  <2>1. m.rt \in Runtime
    BY MachineUpdates
  <2> QED
    BY <2>1 DEF Runtime
<1>2. [m EXCEPT !.rt.pendingAutomatic = FALSE] = served
  BY DEF Machine
<1> HIDE DEF p
<1>3. Owned(served) /\ served \in Machine
  BY <1>1, RuntimeOnly, QuietOwned, MachineUpdates
<1>4. Owned(RequestAutomatic(served, saved))
  BY <1>3, RequestAutomaticOwned
<1>5. ServePending(m, saved) = m \/ ServePending(m, saved) = RequestAutomatic(served, saved)
  BY <1>2 DEF ServePending
<1> QED
  BY <1>4, <1>5

\* Storing a merge starts and ends nothing.
LEMMA AdoptReconciledQuiet ==
  ASSUME NEW m \in Machine, NEW merged \in Catalog, NEW seen \in Version,
         NEW saved \in BOOLEAN, NEW based \in BOOLEAN
  PROVE  Quiet(m, AdoptReconciled(m, merged, seen, saved, based))
<1> DEFINE r == RecordSuccess(m.rt)
<1>1. r.inProgress = m.rt.inProgress
  BY MachineUpdates, RuntimeQuiet
<1> HIDE DEF r
<1> QED
  BY <1>1 DEF AdoptReconciled, Machine, Quiet, r

\* continue_sync_upload sets in_progress again for the task it starts.
LEMMA ContinueUploadOwned ==
  ASSUME NEW m \in Machine, NEW merged \in Catalog, NEW seen \in Version
  PROVE  Owned(ContinueUpload(m, merged, seen))
<1> DEFINE r == [m.rt EXCEPT !.inProgress = TRUE]
           n == [m EXCEPT !.rt = r]
           task == PutTask(IF seen.etag = 0 THEN m.config ELSE merged, seen)
<1>1. r \in Runtime /\ r.inProgress
  <2>1. m.rt \in Runtime
    BY MachineUpdates
  <2> QED
    BY <2>1 DEF Runtime
<1>2. ContinueUpload(m, merged, seen) = Start(n, task)
  BY DEF ContinueUpload, Machine
<1> HIDE DEF r
<1>3. n \in Machine /\ n.rt.inProgress
  BY <1>1 DEF Machine
<1>4. task.live = TRUE
  BY DEF PutTask
<1> HIDE DEF n, task
<1> QED
  BY <1>2, <1>3, <1>4, StartOwned

\* handle_sync_upload_preflight_ready.
LEMMA PreflightReadyOwned ==
  ASSUME NEW m \in Machine, Owned(m), NEW merged \in Catalog, NEW seen \in Version,
         NEW counted \in BOOLEAN, NEW saved \in BOOLEAN, NEW based \in BOOLEAN
  PROVE  Owned(PreflightReady(m, merged, seen, counted, saved, based))
<1>1. Quiet(m, [m EXCEPT !.rt = AbandonReconciliation(m.rt)])
  BY MachineUpdates, RuntimeSteps, RuntimeQuiet, RuntimeOnly
<1> QED
  BY <1>1, QuietOwned, AdoptReconciledQuiet, ContinueUploadOwned DEF PreflightReady

\* Of the result handlers, only the one of a plan starts a task.
LEMMA DispatchedOwned ==
  ASSUME NEW m \in Machine, Owned(m), NEW t \in Task,
         NEW counted \in BOOLEAN, NEW saved \in BOOLEAN, NEW based \in BOOLEAN
  PROVE  Owned(Dispatched(m, t, counted, saved, based))
<1>1. t.merged \in Catalog /\ t.seen \in Version
  BY DEF Task
<1>2. Owned(PreflightReady(m, t.merged, t.seen, counted, saved, based))
  BY <1>1, PreflightReadyOwned
<1>3. m.rt \in Runtime
  BY MachineUpdates
<1>4. Quiet(m, [m EXCEPT !.rt = AbandonReconciliation(m.rt)])
  BY <1>3, RuntimeSteps, RuntimeQuiet, RuntimeOnly
<1>5. Owned(OfferConflicts(m, t))
  <2> DEFINE pending == [open |-> t.open, merged |-> t.merged, seen |-> t.seen]
  <2>1. Quiet(m, [m EXCEPT !.rt.conflicts = pending])
    <3> HIDE DEF pending
    <3> QED
      BY DEF Machine, Runtime, Quiet
  <2> QED
    BY <1>4, <2>1, QuietOwned DEF OfferConflicts
<1>6. Owned(Uploaded(m, t, saved, based))
  <2> DEFINE r == RecordSuccess(m.rt)
             applied == IF IsStale(m.rt) \/ t.seen.etag = 0
                          THEN m ELSE [m EXCEPT !.config = t.merged]
             stored  == [applied EXCEPT !.disk = applied.config]
             recorded == [stored EXCEPT !.baseline = [content |-> t.merged, etag |-> t.etag],
                                       !.rt = r]
  <2>1. r.inProgress = m.rt.inProgress
    BY <1>3, RuntimeQuiet
  <2>2. applied \in Machine /\ Quiet(m, applied)
    BY <1>1, MachineUpdates DEF Machine, Quiet
  <2> HIDE DEF applied
  <2>3. stored \in Machine /\ Quiet(m, stored)
    BY <2>2, MachineUpdates DEF Machine, Quiet
  <2> HIDE DEF stored, r
  <2>4. Quiet(m, recorded)
    BY <2>1, <2>3 DEF Machine, Quiet
  <2>5. Uploaded(m, t, saved, based) \in {m, stored, recorded}
    BY DEF Uploaded, stored, applied, r
  <2> QED
    BY <2>3, <2>4, <2>5, QuietOwned
<1>7. Owned(Downloaded(m, t, saved, based))
  <2>1. Quiet(m, AdoptReconciled(m, t.merged, t.seen, saved, based))
    BY <1>1, AdoptReconciledQuiet
  <2> QED
    BY <1>4, <2>1, QuietOwned DEF Downloaded
<1>8. Owned(Failed(m))
  <2>1. Quiet(m, [m EXCEPT !.rt = RecordFailure(m.rt)])
    BY <1>3, RuntimeSteps, RuntimeQuiet, RuntimeOnly
  <2> QED
    BY <2>1, QuietOwned DEF Failed
<1>9. \/ Dispatched(m, t, counted, saved, based)
           = PreflightReady(m, t.merged, t.seen, counted, saved, based)
      \/ Dispatched(m, t, counted, saved, based) = OfferConflicts(m, t)
      \/ Dispatched(m, t, counted, saved, based) = Uploaded(m, t, saved, based)
      \/ Dispatched(m, t, counted, saved, based) = Downloaded(m, t, saved, based)
      \/ Dispatched(m, t, counted, saved, based) = Failed(m)
  BY DEF Dispatched
<1> QED
  BY <1>2, <1>5, <1>6, <1>7, <1>8, <1>9

\* A step of a task or of the server that goes on with the same task.
LEMMA ReplacedOwned ==
  ASSUME NEW t \in tasks, NEW new, new.live = t.live, Replaced(t, new), rt' = rt, NeverWedged
  PROVE  NeverWedged'
<1>1. tasks' = (tasks \ {t}) \cup {new}
  BY DEF Replaced
<1>2. (\E u \in tasks' : u.live) <=> (\E u \in tasks : u.live)
  BY <1>1
<1>3. \A u, v \in tasks' : u.live /\ v.live => u = v
  BY <1>1 DEF NeverWedged
<1> QED
  BY <1>2, <1>3 DEF NeverWedged

\* A handler that ends in m ends in a state with the same property.
LEMMA BecomeOwned ==
  ASSUME NEW m, Owned(m), Become(m)
  PROVE  NeverWedged'
BY DEF Owned, Become, NeverWedged

\* Every step keeps NeverWedged: one case per action.
LEMMA NextNeverWedged ==
  ASSUME TypeOK, NeverWedged, Next
  PROVE  NeverWedged'
<1>1. Here \in Machine /\ Owned(Here)
  BY TypeOKIsMachine DEF Owned, NeverWedged, Here
<1>2. Outcomes \subseteq BOOLEAN /\ Counted \subseteq BOOLEAN
  BY DEF Outcomes, Counted
<1>3. rt \in Runtime
  BY DEF TypeOK
<1>4. ASSUME CommitBegin \/ WorkerCommits \/ CatalogEdit \/ OtherDeviceWrites
             \/ \E r \in wire : LatePut(r)
      PROVE  NeverWedged'
  <2>1. rt' = rt /\ tasks' = tasks
    BY <1>4 DEF CommitBegin, WorkerCommits, CatalogEdit, OtherDeviceWrites, LatePut, device
  <2> QED
    BY <2>1 DEF NeverWedged
<1>5. ASSUME CommitDone \/ RecordUsage PROVE NeverWedged'
  <2> DEFINE settled == [rt EXCEPT !.conflicts = None]
  <2>1. settled \in Runtime /\ settled.inProgress = rt.inProgress
    BY <1>3 DEF Runtime
  <2> HIDE DEF settled
  <2>2. /\ MarkLocalChange(settled).inProgress = rt.inProgress
        /\ MarkLocalChange(rt).inProgress = rt.inProgress
    BY <1>3, <2>1, RuntimeQuiet
  <2>3. rt' \in {rt, MarkLocalChange(settled), MarkLocalChange(rt)} /\ tasks' = tasks
    BY <1>5 DEF CommitDone, RecordUsage, settled
  <2>4. rt'.inProgress = rt.inProgress
    BY <2>2, <2>3
  <2> QED
    BY <2>3, <2>4 DEF NeverWedged
<1>6. ASSUME AutomaticTrigger PROVE NeverWedged'
  <2>1. PICK saved \in Outcomes : Become(RequestAutomatic(Here, saved))
    BY <1>6 DEF AutomaticTrigger
  <2>2. Owned(RequestAutomatic(Here, saved))
    BY <1>1, <1>2, RequestAutomaticOwned
  <2> QED
    BY <2>1, <2>2, BecomeOwned
<1>7. ASSUME ManualSync \/ ManualRestore PROVE NeverWedged'
  <2>1. PICK kind \in {"upload", "restore"}, saved \in Outcomes :
          Become(BeginOperation(Here, kind, saved))
    BY <1>7 DEF ManualSync, ManualRestore
  <2>2. Owned(BeginOperation(Here, kind, saved))
    BY <1>1, <1>2, BeginOperationOwned
  <2> QED
    BY <2>1, <2>2, BecomeOwned
<1>8. ASSUME NEW side \in {"Local", "Remote"}, NEW decided \in SUBSET Entity,
             rt.conflicts # None, Resolve(side, decided)
      PROVE  NeverWedged'
  <2> DEFINE pending == rt.conflicts
             open    == pending.open \ decided
             merged  == [e \in Entity |-> IF e \in decided /\ side = "Remote"
                                            THEN pending.seen.content[e]
                                            ELSE pending.merged[e]]
             r       == [rt EXCEPT !.conflicts = None]
             settled == [Here EXCEPT !.rt = r]
  <2>1. pending \in Pending
    BY <1>3, <1>8 DEF Runtime
  <2>2. merged \in Catalog /\ pending.seen \in Version
    BY <2>1 DEF Pending, Version, Catalog
  <2>3. CASE open # {}
    <3>1. rt'.inProgress = rt.inProgress /\ tasks' = tasks
      BY <1>3, <1>8, <2>3 DEF Resolve, Runtime
    <3> QED
      BY <3>1 DEF NeverWedged
  <2>4. CASE open = {}
    <3>1. [Here EXCEPT !.rt.conflicts = None] = settled
      BY DEF Here
    <3>2. PICK counted \in Counted, saved \in Outcomes, based \in Outcomes :
            Become(PreflightReady(settled, merged, pending.seen, counted, saved, based))
      BY <1>8, <2>4, <3>1 DEF Resolve
    <3>3. r \in Runtime /\ r.inProgress = Here.rt.inProgress
      BY <1>3 DEF Runtime, Here
    <3> HIDE DEF r, merged
    <3>4. settled \in Machine /\ Owned(settled)
      BY <1>1, <3>3, RuntimeOnly, QuietOwned, MachineUpdates
    <3>5. Owned(PreflightReady(settled, merged, pending.seen, counted, saved, based))
      <4> HIDE DEF settled
      <4> QED
        BY <1>2, <2>2, <3>4, PreflightReadyOwned
    <3> QED
      BY <3>2, <3>5, BecomeOwned
  <2> QED
    BY <2>3, <2>4
<1>9. ASSUME ResolveConflict PROVE NeverWedged'
  <2>1. rt.conflicts # None /\ rt.conflicts.open \subseteq Entity
    BY <1>3, <1>9 DEF ResolveConflict, Runtime, Pending
  <2>2. \E side \in {"Local", "Remote"}, decided \in SUBSET Entity : Resolve(side, decided)
    BY <1>9, <2>1 DEF ResolveConflict
  <2> QED
    BY <1>8, <2>1, <2>2
<1>10. ASSUME NEW t \in tasks, TaskFetches(t) PROVE NeverWedged'
  <2>1. Fetched(t).live = t.live
    BY DEF Fetched, TypeOK, Task
  <2> QED
    BY <1>10, <2>1, ReplacedOwned DEF TaskFetches
<1>11. ASSUME NEW t \in tasks, ServerPuts(t) \/ TaskAnswered(t) \/ TaskFails(t)
       PROVE  NeverWedged'
  <2>1. /\ [t EXCEPT !.phase = "acked", !.etag = remote.etag + 1].live = t.live
        /\ [t EXCEPT !.phase = "done", !.result = "failed"].live = t.live
        /\ [t EXCEPT !.phase = "done", !.result = "uploaded"].live = t.live
    BY DEF TypeOK, Task
  <2>2. rt' = rt
    BY <1>11 DEF ServerPuts, TaskAnswered, TaskFails
  <2>3. \E new : new.live = t.live /\ Replaced(t, new)
    BY <1>11, <2>1 DEF ServerPuts, TaskAnswered, TaskFails
  <2> QED
    BY <2>2, <2>3, ReplacedOwned
<1>12. ASSUME NEW t \in tasks, HandleFinished(t) PROVE NeverWedged'
  <2> DEFINE rest == tasks \ {t}
             n == [Here EXCEPT !.tasks = rest]
  <2>1. /\ t \in Task /\ n \in Machine /\ n.tasks = rest /\ n.rt = rt
    BY <1>1 DEF TypeOK, Here, Machine
  <2>2. CASE ~t.live
    <3>1. Become(n)
      BY <1>12, <2>2 DEF HandleFinished
    <3> HIDE DEF n
    <3>2. Owned(n)
      BY <2>1, <2>2 DEF Owned, NeverWedged
    <3> QED
      BY <3>1, <3>2, BecomeOwned
  <2>3. CASE t.live
    <3> DEFINE r == [rt EXCEPT !.inProgress = FALSE]
               idle == [n EXCEPT !.rt = r]
               after(c, s, b, s2) == ServePending(Dispatched(idle, t, c, s, b), s2)
    <3>1. [n EXCEPT !.rt.inProgress = FALSE] = idle
      BY <2>1 DEF Here
    <3>2. PICK counted \in Counted, saved \in Outcomes, based \in Outcomes, saved2 \in Outcomes :
            Become(after(counted, saved, based, saved2))
      BY <1>12, <2>3, <3>1 DEF HandleFinished
    <3>3. r \in Runtime /\ r.inProgress = FALSE
      BY <1>3 DEF Runtime
    <3> HIDE DEF n, r
    <3>4. idle \in Machine /\ idle.rt = r /\ idle.tasks = rest
      BY <2>1, <3>3 DEF Machine
    <3>5. Owned(idle)
      BY <2>3, <3>3, <3>4 DEF Owned, NeverWedged
    <3>6. Owned(after(counted, saved, based, saved2))
      <4> HIDE DEF idle
      <4>1. /\ Dispatched(idle, t, counted, saved, based) \in Machine
            /\ Owned(Dispatched(idle, t, counted, saved, based))
        BY <1>2, <2>1, <3>4, <3>5, DispatchedTypeOK, DispatchedOwned
      <4> QED
        BY <1>2, <4>1, ServePendingOwned
    <3> HIDE DEF after
    <3> QED
      BY <3>2, <3>6, BecomeOwned
  <2> QED
    BY <2>2, <2>3
<1>13. ASSUME Crash PROVE NeverWedged'
  <2>1. tasks' = {} /\ rt'.inProgress = FALSE
    BY <1>13 DEF Crash, FreshRuntime
  <2> QED
    BY <2>1 DEF NeverWedged
<1> QED
  BY <1>4, <1>5, <1>6, <1>7, <1>9, <1>10, <1>11, <1>12, <1>13 DEF Next, Step

\* For every number of entities, values and faults: in_progress is set exactly
\* while one live task will clear it, so that the coordinator neither waits
\* for a task that cannot report nor runs two.
THEOREM AlwaysOwned == Spec => []NeverWedged
<1>1. Init => NeverWedged
  BY DEF Init, NeverWedged, FreshRuntime
<1>2. TypeOK /\ NeverWedged /\ [Next]_vars => NeverWedged'
  <2> SUFFICES ASSUME TypeOK, NeverWedged, [Next]_vars PROVE NeverWedged'
    OBVIOUS
  <2>1. CASE Next
    BY <2>1, NextNeverWedged
  <2>2. CASE UNCHANGED vars
    BY <2>2 DEF vars, NeverWedged
  <2> QED
    BY <2>1, <2>2
<1> QED
  BY <1>1, <1>2, TypeCorrect, PTL DEF Spec
-----------------------------------------------------------------------------
(* KnownVersions.  It is inductive together with TypeOK and Origin: a      *)
(* remembered version was remote when it was read or written, and every    *)
(* write of the remote object raises its tag.                              *)

\* A remote object that does not exist has no content.
Origin == remote.etag = 0 => remote = NoVersion

\* KnownVersions of one task.
TaskKnown(t) ==
  /\ t.base # None => IsKnown(t.base)
  /\ IsKnown(t.seen)
  /\ t.phase = "acked" \/ t.result = "uploaded" =>
       IsKnown([content |-> t.merged, etag |-> t.etag])

\* KnownVersions of the record a handler works on.
Known(m) ==
  /\ m.baseline # None => IsKnown(m.baseline)
  /\ m.rt.conflicts # None => IsKnown(m.rt.conflicts.seen)
  /\ \A t \in m.tasks : TaskKnown(t)
  /\ \A r \in m.wire : IsKnown(r.seen)

\* The absent object is a version the server may have had.
LEMMA NoVersionKnown ==
  ASSUME TypeOK, Origin
  PROVE  IsKnown(NoVersion)
BY DEF TypeOK, Version, Origin, IsKnown, NoVersion

\* A task is not known by its liveness.
LEMMA DisownedKnown ==
  ASSUME NEW t \in Task, TaskKnown(t)
  PROVE  TaskKnown([t EXCEPT !.live = FALSE])
<1> DEFINE u == [t EXCEPT !.live = FALSE]
<1>1. \A f \in {"base", "seen", "phase", "result", "merged", "etag"} : u[f] = t[f]
  BY DEF Task
<1>2. /\ u.base = t.base /\ u.seen = t.seen /\ u.phase = t.phase
      /\ u.result = t.result /\ u.merged = t.merged /\ u.etag = t.etag
  BY <1>1
<1> HIDE DEF u
<1>3. TaskKnown(u)
  BY <1>2 DEF TaskKnown
<1> QED
  BY <1>3 DEF u

\* New tasks know what their plan, or the baseline, knows.
LEMMA NewTasksKnown ==
  ASSUME TypeOK, Origin
  PROVE  /\ \A kind, local, base : (base # None => IsKnown(base)) =>
              TaskKnown(FetchTask(kind, local, base))
         /\ \A merged, seen : IsKnown(seen) => TaskKnown(PutTask(merged, seen))
BY NoVersionKnown DEF TaskKnown, FetchTask, PutTask

\* The request of a replaced task carries the version of that task.
LEMMA StartKnown ==
  ASSUME NEW m \in Machine, Known(m), NEW task, TaskKnown(task)
  PROVE  Known(Start(m, task))
<1> DEFINE disowned == {[t EXCEPT !.live = FALSE] : t \in {u \in m.tasks : u.phase = "done"}}
           sent == {[seen |-> t.seen, merged |-> t.merged] : t \in Outstanding(m.tasks)}
           n == Start(m, task)
<1>1. \A t \in m.tasks : t \in Task /\ TaskKnown(t)
  BY DEF Machine, Known
<1>2. \A t \in disowned : TaskKnown(t)
  BY <1>1, DisownedKnown
<1>3. \A r \in sent : IsKnown(r.seen)
  <2> SUFFICES ASSUME NEW t \in Outstanding(m.tasks),
                      NEW r, r = [seen |-> t.seen, merged |-> t.merged]
               PROVE  IsKnown(r.seen)
    OBVIOUS
  <2>1. IsKnown(t.seen) /\ r.seen = t.seen
    BY <1>1 DEF Outstanding, TaskKnown
  <2> QED
    BY <2>1
<1>4. /\ n.tasks = disowned \cup {task} /\ n.wire = m.wire \cup sent
      /\ n.rt = m.rt /\ n.baseline = m.baseline
  BY DEF Start, Machine
<1> HIDE DEF disowned, sent, n
<1>5. Known(n)
  BY <1>2, <1>3, <1>4 DEF Known
<1> QED
  BY <1>5 DEF n

\* The transitions of SyncRuntimeState leave the open conflicts alone.
LEMMA RuntimeAsks ==
  ASSUME NEW r \in Runtime
  PROVE  /\ MarkLocalChange(r).conflicts = r.conflicts
         /\ BeginReconciliation(r).conflicts = r.conflicts
         /\ AbandonReconciliation(r).conflicts = r.conflicts
         /\ RecordSuccess(r).conflicts = r.conflicts
         /\ RecordFailure(r).conflicts = r.conflicts
         /\ \A p \in BOOLEAN : [r EXCEPT !.inProgress = p].conflicts = r.conflicts
         /\ \A p \in BOOLEAN : [r EXCEPT !.pendingAutomatic = p].conflicts = r.conflicts
BY DEF Runtime, MarkLocalChange, BeginReconciliation, AbandonReconciliation, RecordSuccess,
       RecordFailure

\* A transition of the runtime forgets nothing.
LEMMA RuntimeKnown ==
  ASSUME NEW m \in Machine, Known(m), NEW r \in Runtime,
         r.conflicts = None \/ r.conflicts = m.rt.conflicts
  PROVE  Known([m EXCEPT !.rt = r])
BY DEF Machine, Known

\* begin_sync starts from the baseline.
LEMMA BeginOperationKnown ==
  ASSUME TypeOK, Origin,
         NEW m \in Machine, Known(m), NEW kind \in {"upload", "restore"}, NEW saved \in BOOLEAN
  PROVE  Known(BeginOperation(m, kind, saved))
<1> DEFINE started == [m.rt EXCEPT !.inProgress = TRUE]
           r == BeginReconciliation(started)
           s == [m EXCEPT !.disk = m.config]
           n == [s EXCEPT !.rt = r]
           task == FetchTask(kind, m.config, m.baseline)
<1>1. started \in Runtime /\ started.conflicts = m.rt.conflicts
  <2>1. m.rt \in Runtime
    BY MachineUpdates
  <2> QED
    BY <2>1 DEF Runtime
<1>2. r \in Runtime /\ r.conflicts = m.rt.conflicts
  <2> HIDE DEF started
  <2> QED
    BY <1>1, RuntimeSteps, RuntimeAsks
<1>3. s \in Machine /\ Known(s) /\ s.rt = m.rt
  BY DEF Machine, Known
<1>4. n = [m EXCEPT !.disk = m.config, !.rt = r]
  BY DEF Machine
<1>5. n \in Machine /\ Known(n)
  <2> HIDE DEF s, r
  <2> QED
    BY <1>2, <1>3, RuntimeKnown, MachineUpdates
<1>6. TaskKnown(task)
  BY NewTasksKnown DEF Known
<1>7. \/ BeginOperation(m, kind, saved) = m
      \/ BeginOperation(m, kind, saved) = Start(n, task)
  BY <1>4 DEF BeginOperation
<1> HIDE DEF n, task
<1> QED
  BY <1>5, <1>6, <1>7, StartKnown

\* So does an automatic run.
LEMMA RequestAutomaticKnown ==
  ASSUME TypeOK, Origin, NEW m \in Machine, Known(m), NEW saved \in BOOLEAN
  PROVE  Known(RequestAutomatic(m, saved))
<1> DEFINE p == [m.rt EXCEPT !.pendingAutomatic = TRUE]
           waits == [m EXCEPT !.rt = p]
           r == BeginReconciliation(m.rt)
           begun == [m EXCEPT !.rt = r]
<1>1. m.rt \in Runtime
  BY MachineUpdates
<1>2. /\ p \in Runtime /\ p.conflicts = m.rt.conflicts
      /\ r \in Runtime /\ r.conflicts = m.rt.conflicts
  BY <1>1, RuntimeSteps, RuntimeAsks, MachineUpdates
<1>3. [m EXCEPT !.rt.pendingAutomatic = TRUE] = waits
  BY DEF Machine
<1> HIDE DEF p, r
<1>4. Known(waits) /\ Known(begun) /\ begun \in Machine
  BY <1>2, RuntimeKnown, MachineUpdates
<1>5. Known(BeginOperation(begun, "upload", saved))
  BY <1>4, BeginOperationKnown
<1>6. \/ RequestAutomatic(m, saved) = m
      \/ RequestAutomatic(m, saved) = waits
      \/ RequestAutomatic(m, saved) = BeginOperation(begun, "upload", saved)
  BY <1>3 DEF RequestAutomatic, r
<1> QED
  BY <1>4, <1>5, <1>6

\* And the pending one.
LEMMA ServePendingKnown ==
  ASSUME TypeOK, Origin, NEW m \in Machine, Known(m), NEW saved \in BOOLEAN
  PROVE  Known(ServePending(m, saved))
<1> DEFINE p == [m.rt EXCEPT !.pendingAutomatic = FALSE]
           served == [m EXCEPT !.rt = p]
<1>1. p \in Runtime /\ p.conflicts = m.rt.conflicts
  BY RuntimeAsks, MachineUpdates
<1>2. [m EXCEPT !.rt.pendingAutomatic = FALSE] = served
  BY DEF Machine
<1> HIDE DEF p
<1>3. Known(served) /\ served \in Machine
  BY <1>1, RuntimeKnown, MachineUpdates
<1>4. Known(RequestAutomatic(served, saved))
  BY <1>3, RequestAutomaticKnown
<1>5. ServePending(m, saved) = m \/ ServePending(m, saved) = RequestAutomatic(served, saved)
  BY <1>2 DEF ServePending
<1> QED
  BY <1>4, <1>5

\* A handler that stores a known version as the baseline, or none, and leaves
\* the tasks and their requests alone.
LEMMA StoredKnown ==
  ASSUME NEW m, Known(m), NEW n, n.tasks = m.tasks, n.wire = m.wire,
         n.rt.conflicts = m.rt.conflicts,
         n.baseline = m.baseline \/ IsKnown(n.baseline)
  PROVE  Known(n)
BY DEF Known

\* handle_sync_reconciled takes the version the merge saw for the baseline.
LEMMA AdoptReconciledKnown ==
  ASSUME NEW m \in Machine, Known(m), NEW merged \in Catalog, NEW seen \in Version,
         IsKnown(seen), NEW saved \in BOOLEAN, NEW based \in BOOLEAN
  PROVE  Known(AdoptReconciled(m, merged, seen, saved, based))
<1> DEFINE r == RecordSuccess(m.rt)
           n == AdoptReconciled(m, merged, seen, saved, based)
<1>1. r.conflicts = m.rt.conflicts
  BY MachineUpdates, RuntimeAsks
<1> HIDE DEF r
<1>2. /\ n.tasks = m.tasks /\ n.wire = m.wire /\ n.rt.conflicts = m.rt.conflicts
      /\ n.baseline = m.baseline \/ n.baseline = seen
  BY <1>1 DEF AdoptReconciled, Machine, r
<1> HIDE DEF n
<1>3. Known(n)
  BY <1>2, StoredKnown
<1> QED
  BY <1>3 DEF n

\* continue_sync_upload uploads over the version the merge saw.
LEMMA ContinueUploadKnown ==
  ASSUME TypeOK, Origin,
         NEW m \in Machine, Known(m), NEW merged \in Catalog, NEW seen \in Version,
         IsKnown(seen)
  PROVE  Known(ContinueUpload(m, merged, seen))
<1> DEFINE r == [m.rt EXCEPT !.inProgress = TRUE]
           n == [m EXCEPT !.rt = r]
           task == PutTask(IF seen.etag = 0 THEN m.config ELSE merged, seen)
<1>1. r \in Runtime /\ r.conflicts = m.rt.conflicts
  BY MachineUpdates, RuntimeAsks
<1>2. ContinueUpload(m, merged, seen) = Start(n, task)
  BY DEF ContinueUpload, Machine
<1> HIDE DEF r
<1>3. n \in Machine /\ Known(n)
  BY <1>1, MachineUpdates, RuntimeKnown
<1>4. TaskKnown(task)
  BY NewTasksKnown
<1> HIDE DEF n, task
<1> QED
  BY <1>2, <1>3, <1>4, StartKnown

\* handle_sync_upload_preflight_ready.
LEMMA PreflightReadyKnown ==
  ASSUME TypeOK, Origin,
         NEW m \in Machine, Known(m), NEW merged \in Catalog, NEW seen \in Version,
         IsKnown(seen), NEW counted \in BOOLEAN, NEW saved \in BOOLEAN, NEW based \in BOOLEAN
  PROVE  Known(PreflightReady(m, merged, seen, counted, saved, based))
<1>1. Known([m EXCEPT !.rt = AbandonReconciliation(m.rt)])
  BY MachineUpdates, RuntimeSteps, RuntimeAsks, RuntimeKnown
<1> QED
  BY <1>1, AdoptReconciledKnown, ContinueUploadKnown DEF PreflightReady

\* handle_sync_uploaded takes what the server acknowledged for the baseline.
LEMMA UploadedKnown ==
  ASSUME NEW m \in Machine, Known(m), NEW t \in Task, t.result = "uploaded", TaskKnown(t),
         NEW saved \in BOOLEAN, NEW based \in BOOLEAN
  PROVE  Known(Uploaded(m, t, saved, based))
<1> DEFINE r == RecordSuccess(m.rt)
           version == [content |-> t.merged, etag |-> t.etag]
           applied == IF IsStale(m.rt) \/ t.seen.etag = 0
                        THEN m ELSE [m EXCEPT !.config = t.merged]
           stored  == [applied EXCEPT !.disk = applied.config]
           recorded == [stored EXCEPT !.baseline = version, !.rt = r]
<1>1. r.conflicts = m.rt.conflicts
  BY MachineUpdates, RuntimeAsks
<1>2. IsKnown(version)
  BY DEF TaskKnown
<1>3. Uploaded(m, t, saved, based) \in {m, stored, recorded}
  BY DEF Uploaded
<1> HIDE DEF r, version
<1>4. applied \in Machine /\ Known(applied) /\ applied.rt = m.rt
  <2>1. t.merged \in Catalog
    BY DEF Task
  <2> QED
    BY <2>1, MachineUpdates DEF Known, Machine
<1> HIDE DEF applied
<1>5. stored \in Machine /\ Known(stored) /\ stored.rt = m.rt
  BY <1>4, MachineUpdates DEF Known, Machine
<1> HIDE DEF stored
<1>6. Known(recorded)
  <2>1. /\ recorded.tasks = stored.tasks /\ recorded.wire = stored.wire
        /\ recorded.rt = r /\ recorded.baseline = version
    BY <1>5 DEF Machine
  <2> HIDE DEF recorded
  <2> QED
    BY <1>1, <1>2, <1>5, <2>1, StoredKnown
<1> QED
  BY <1>3, <1>5, <1>6

\* The results: each remembers the version its task saw or made.
LEMMA DispatchedKnown ==
  ASSUME TypeOK, Origin, NEW m \in Machine, Known(m), NEW t \in Task, TaskKnown(t),
         NEW counted \in BOOLEAN, NEW saved \in BOOLEAN, NEW based \in BOOLEAN
  PROVE  Known(Dispatched(m, t, counted, saved, based))
<1>1. t.merged \in Catalog /\ t.seen \in Version /\ IsKnown(t.seen)
  BY DEF Task, TaskKnown
<1>2. Known(PreflightReady(m, t.merged, t.seen, counted, saved, based))
  BY <1>1, PreflightReadyKnown
<1>3. m.rt \in Runtime
  BY MachineUpdates
<1>4. Known([m EXCEPT !.rt = AbandonReconciliation(m.rt)])
  BY <1>3, RuntimeSteps, RuntimeAsks, RuntimeKnown
<1>5. Known(OfferConflicts(m, t))
  <2> DEFINE pending == [open |-> t.open, merged |-> t.merged, seen |-> t.seen]
             n == [m EXCEPT !.rt.conflicts = pending]
  <2>1. pending.seen = t.seen
    OBVIOUS
  <2> HIDE DEF pending
  <2>2. /\ n.tasks = m.tasks /\ n.wire = m.wire /\ n.baseline = m.baseline
        /\ n.rt.conflicts = pending
    BY DEF Machine, Runtime
  <2> HIDE DEF n
  <2>3. Known(n)
    BY <1>1, <2>1, <2>2 DEF Known
  <2> QED
    BY <1>4, <2>3 DEF OfferConflicts, n, pending
<1>6. t.result = "uploaded" => Known(Uploaded(m, t, saved, based))
  BY UploadedKnown
<1>7. Known(Downloaded(m, t, saved, based))
  BY <1>1, <1>4, AdoptReconciledKnown DEF Downloaded
<1>8. Known(Failed(m))
  BY <1>3, RuntimeSteps, RuntimeAsks, RuntimeKnown DEF Failed
<1>9. \/ Dispatched(m, t, counted, saved, based)
           = PreflightReady(m, t.merged, t.seen, counted, saved, based)
      \/ Dispatched(m, t, counted, saved, based) = OfferConflicts(m, t)
      \/ /\ t.result = "uploaded"
         /\ Dispatched(m, t, counted, saved, based) = Uploaded(m, t, saved, based)
      \/ Dispatched(m, t, counted, saved, based) = Downloaded(m, t, saved, based)
      \/ Dispatched(m, t, counted, saved, based) = Failed(m)
  BY DEF Dispatched
<1> QED
  BY <1>2, <1>5, <1>6, <1>7, <1>8, <1>9

\* What TypeOK says of the remembered versions and of the uploads.
LEMMA VersionsTyped ==
  ASSUME TypeOK
  PROVE  /\ remote \in Version
         /\ baseline # None => baseline \in Version
         /\ rt.conflicts # None => rt.conflicts.seen \in Version
         /\ \A t \in tasks : /\ t.seen \in Version
                             /\ t.base # None => t.base \in Version
                             /\ [content |-> t.merged, etag |-> t.etag] \in Version
         /\ \A r \in wire : r.seen \in Version
<1>1. \A t \in tasks : t \in Task
  BY DEF TypeOK
<1>2. \A t \in Task : /\ t.seen \in Version
                      /\ t.base # None => t.base \in Version
                      /\ [content |-> t.merged, etag |-> t.etag] \in Version
  BY DEF Task, Version
<1>3. rt.conflicts # None => rt.conflicts \in Pending
  BY DEF TypeOK, Runtime
<1> QED
  BY <1>1, <1>2, <1>3 DEF TypeOK, Pending

\* A handler that ends in m ends in a state with the same property.
LEMMA BecomeKnown ==
  ASSUME NEW m, Known(m), Become(m), UNCHANGED remote
  PROVE  KnownVersions'
BY DEF Known, TaskKnown, Become, KnownVersions, IsKnown

\* A write of the remote object makes every remembered version an old one.
LEMMA RaisedKnown ==
  ASSUME TypeOK, KnownVersions, remote'.etag = remote.etag + 1,
         UNCHANGED <<rt, baseline, tasks>>, wire' \subseteq wire
  PROVE  KnownVersions'
<1> DEFINE Old(v) == v.etag <= remote'.etag /\ v.etag # remote'.etag
<1>1. \A v \in Version : IsKnown(v) => Old(v)
  BY VersionsTyped DEF Version, IsKnown
<1>2. baseline # None => Old(baseline)
  BY <1>1, VersionsTyped DEF KnownVersions
<1>3. rt.conflicts # None => Old(rt.conflicts.seen)
  BY <1>1, VersionsTyped DEF KnownVersions
<1>4. \A t \in tasks :
        /\ t.base # None => Old(t.base)
        /\ Old(t.seen)
        /\ t.phase = "acked" \/ t.result = "uploaded" =>
             Old([content |-> t.merged, etag |-> t.etag])
  BY <1>1, VersionsTyped DEF KnownVersions
<1>5. \A r \in wire : Old(r.seen)
  BY <1>1, VersionsTyped DEF KnownVersions
<1>6. baseline # None => IsKnown(baseline)'
  BY <1>2 DEF IsKnown
<1>7. (rt.conflicts # None => IsKnown(rt.conflicts.seen))'
  BY <1>3 DEF IsKnown
<1>8. (\A t \in tasks :
         /\ t.base # None => IsKnown(t.base)
         /\ IsKnown(t.seen)
         /\ t.phase = "acked" \/ t.result = "uploaded" =>
              IsKnown([content |-> t.merged, etag |-> t.etag]))'
  BY <1>4 DEF IsKnown
<1>9. (\A r \in wire : IsKnown(r.seen))'
  BY <1>5 DEF IsKnown
<1> QED
  BY <1>6, <1>7, <1>8, <1>9 DEF KnownVersions

\* A step of a task that leaves the remote object alone.
LEMMA ReplacedKnown ==
  ASSUME KnownVersions, NEW t \in tasks, NEW new, TaskKnown(new), Replaced(t, new),
         UNCHANGED <<rt, baseline, remote>>,
         wire' \subseteq wire \cup {[seen |-> t.seen, merged |-> t.merged]}
  PROVE  KnownVersions'
<1>1. \A u \in tasks' : TaskKnown(u)
  BY DEF Replaced, KnownVersions, TaskKnown
<1>2. \A r \in wire' : IsKnown(r.seen)
  <2> SUFFICES ASSUME NEW r \in wire' PROVE IsKnown(r.seen)
    OBVIOUS
  <2>1. CASE r \in wire
    BY <2>1 DEF KnownVersions
  <2>2. CASE r = [seen |-> t.seen, merged |-> t.merged]
    <3>1. r.seen = t.seen /\ IsKnown(t.seen)
      BY <2>2 DEF KnownVersions
    <3> QED
      BY <3>1
  <2> QED
    BY <2>1, <2>2
<1> QED
  BY <1>1, <1>2 DEF KnownVersions, TaskKnown, IsKnown

\* A finished download has seen the remote object.
LEMMA FetchedKnown ==
  ASSUME TypeOK, NEW t \in tasks, t.phase = "fetch"
  PROVE  /\ Fetched(t).seen = remote /\ Fetched(t).base = None
         /\ Fetched(t).phase = "done" /\ Fetched(t).result # "uploaded"
<1>1. t \in Task
  BY DEF TypeOK
<1>2. t.kind \in {"upload", "restore"} /\ remote.etag \in Nat
  BY <1>1, VersionsTyped DEF Task, Version
<1> DEFINE found == [t EXCEPT !.phase = "done", !.seen = remote,
                              !.local = EmptyCatalog, !.base = None]
<1>3. /\ found.seen = remote /\ found.base = None /\ found.phase = "done"
      /\ DOMAIN found = DOMAIN t
  BY <1>1 DEF Task
<1>4. \E result \in {"ready", "failed", "downloaded", "conflicts"} : \E open, merged :
        Fetched(t) = [found EXCEPT !.result = result, !.open = open, !.merged = merged]
  <2>1. CASE remote.etag = 0
    <3>1. PICK result \in {"ready", "failed"} : Fetched(t) = [found EXCEPT !.result = result]
      BY <2>1 DEF Fetched
    <3>2. [found EXCEPT !.result = result]
            = [found EXCEPT !.result = result, !.open = t.open, !.merged = t.merged]
      BY <1>1 DEF Task
    <3> HIDE DEF found
    <3>3. Fetched(t)
            = [found EXCEPT !.result = result, !.open = t.open, !.merged = t.merged]
      BY <3>1, <3>2
    <3> QED
      BY <3>3
  <2>2. CASE remote.etag # 0 /\ t.kind = "restore"
    <3> DEFINE merged == Merged("Remote", t.local, remote.content)
    <3>1. Fetched(t) = [found EXCEPT !.result = "downloaded", !.merged = merged]
      BY <2>2 DEF Fetched
    <3> HIDE DEF merged
    <3>2. [found EXCEPT !.result = "downloaded", !.merged = merged]
            = [found EXCEPT !.result = "downloaded", !.open = t.open, !.merged = merged]
      BY <1>1 DEF Task
    <3> QED
      BY <3>1, <3>2
  <2>3. CASE remote.etag # 0 /\ t.kind = "upload" /\ t.base = None
    <3> DEFINE merged == Merged("Local", t.local, remote.content)
    <3>1. Fetched(t) = [found EXCEPT !.result = "ready", !.merged = merged]
      BY <2>3 DEF Fetched
    <3> HIDE DEF merged
    <3>2. [found EXCEPT !.result = "ready", !.merged = merged]
            = [found EXCEPT !.result = "ready", !.open = t.open, !.merged = merged]
      BY <1>1 DEF Task
    <3> QED
      BY <3>1, <3>2
  <2>4. CASE remote.etag # 0 /\ t.kind = "upload" /\ t.base # None
    <3> DEFINE open == Conflicts(t.base.content, t.local, remote.content)
               merged == Reconciled(t.base.content, t.local, remote.content)
    <3>1. Fetched(t) = [found EXCEPT !.result = IF open = {} THEN "ready" ELSE "conflicts",
                                     !.open = open, !.merged = merged]
      BY <2>4 DEF Fetched
    <3>2. PICK result \in {"ready", "conflicts"} :
            Fetched(t) = [found EXCEPT !.result = result, !.open = open, !.merged = merged]
      BY <3>1
    <3> QED
      BY <3>2
  <2> QED
    BY <1>2, <2>1, <2>2, <2>3, <2>4
<1>r. PICK result \in {"ready", "failed", "downloaded", "conflicts"} : \E open, merged :
        Fetched(t) = [found EXCEPT !.result = result, !.open = open, !.merged = merged]
  BY <1>4
<1>5. PICK open, merged :
        Fetched(t) = [found EXCEPT !.result = result, !.open = open, !.merged = merged]
  BY <1>r
<1>6. DOMAIN t = {"live", "kind", "phase", "result", "local", "base", "seen", "open",
                  "merged", "etag"}
  BY <1>1 DEF Task
<1> HIDE DEF found
<1> QED
  BY <1>3, <1>5, <1>6

\* Every step keeps KnownVersions and Origin: one case per action.
LEMMA NextKnown ==
  ASSUME TypeOK, Origin, KnownVersions, Next
  PROVE  KnownVersions' /\ Origin'
<1>1. Here \in Machine /\ Known(Here)
  BY TypeOKIsMachine DEF Known, TaskKnown, KnownVersions, Here
<1>2. Outcomes \subseteq BOOLEAN /\ Counted \subseteq BOOLEAN
  BY DEF Outcomes, Counted
<1>3. rt \in Runtime /\ remote \in Version /\ remote.etag \in Nat
  BY DEF TypeOK, Version
<1>4. UNCHANGED remote => Origin'
  BY DEF Origin
<1>5. remote'.etag = remote.etag + 1 => Origin'
  BY <1>3 DEF Origin
<1>6. ASSUME CommitBegin \/ WorkerCommits \/ CatalogEdit PROVE KnownVersions' /\ Origin'
  <2>1. UNCHANGED <<rt, tasks, wire, baseline, remote>>
    BY <1>6 DEF CommitBegin, WorkerCommits, CatalogEdit
  <2> QED
    BY <1>4, <2>1 DEF KnownVersions, IsKnown
<1>7. ASSUME CommitDone \/ RecordUsage PROVE KnownVersions' /\ Origin'
  <2> DEFINE settled == [rt EXCEPT !.conflicts = None]
  <2>1. settled \in Runtime /\ settled.conflicts = None
    BY <1>3 DEF Runtime
  <2> HIDE DEF settled
  <2>2. /\ MarkLocalChange(settled).conflicts = None
        /\ MarkLocalChange(rt).conflicts = rt.conflicts
    BY <1>3, <2>1, RuntimeAsks
  <2>3. /\ rt' \in {rt, MarkLocalChange(settled), MarkLocalChange(rt)}
        /\ UNCHANGED <<tasks, wire, baseline, remote>>
    BY <1>7 DEF CommitDone, RecordUsage, settled
  <2>4. rt'.conflicts = None \/ rt'.conflicts = rt.conflicts
    BY <2>2, <2>3
  <2> QED
    BY <1>4, <2>3, <2>4 DEF KnownVersions, IsKnown
<1>8. ASSUME AutomaticTrigger PROVE KnownVersions' /\ Origin'
  <2>1. UNCHANGED remote /\ \E saved \in Outcomes : Become(RequestAutomatic(Here, saved))
    BY <1>8 DEF AutomaticTrigger
  <2>2. PICK saved \in Outcomes : Become(RequestAutomatic(Here, saved))
    BY <2>1
  <2>3. Known(RequestAutomatic(Here, saved))
    BY <1>1, <1>2, RequestAutomaticKnown
  <2> QED
    BY <1>4, <2>1, <2>2, <2>3, BecomeKnown
<1>9. ASSUME ManualSync \/ ManualRestore PROVE KnownVersions' /\ Origin'
  <2>1. UNCHANGED remote /\ \E kind \in {"upload", "restore"}, saved \in Outcomes :
          Become(BeginOperation(Here, kind, saved))
    BY <1>9 DEF ManualSync, ManualRestore
  <2>2. PICK kind \in {"upload", "restore"}, saved \in Outcomes :
          Become(BeginOperation(Here, kind, saved))
    BY <2>1
  <2>3. Known(BeginOperation(Here, kind, saved))
    BY <1>1, <1>2, BeginOperationKnown
  <2> QED
    BY <1>4, <2>1, <2>2, <2>3, BecomeKnown
<1>10. ASSUME NEW side \in {"Local", "Remote"}, NEW decided \in SUBSET Entity,
              rt.conflicts # None, Resolve(side, decided)
       PROVE  KnownVersions' /\ Origin'
  <2> DEFINE pending == rt.conflicts
             open    == pending.open \ decided
             merged  == [e \in Entity |-> IF e \in decided /\ side = "Remote"
                                            THEN pending.seen.content[e]
                                            ELSE pending.merged[e]]
             r       == [rt EXCEPT !.conflicts = None]
             settled == [Here EXCEPT !.rt = r]
  <2>1. pending \in Pending /\ IsKnown(pending.seen)
    BY <1>3, <1>10 DEF Runtime, KnownVersions
  <2>2. merged \in Catalog /\ pending.seen \in Version
    BY <2>1 DEF Pending, Version, Catalog
  <2>3. UNCHANGED remote
    BY <1>10 DEF Resolve
  <2>4. CASE open # {}
    <3>1. UNCHANGED <<tasks, wire, baseline>>
      BY <1>10, <2>4 DEF Resolve
    <3>2. rt'.conflicts.seen = rt.conflicts.seen
      BY <1>3, <1>10, <2>1, <2>4 DEF Resolve, Runtime, Pending
    <3> QED
      BY <1>4, <1>10, <2>3, <3>1, <3>2 DEF KnownVersions, IsKnown
  <2>5. CASE open = {}
    <3>1. [Here EXCEPT !.rt.conflicts = None] = settled
      BY DEF Here
    <3>2. PICK counted \in Counted, saved \in Outcomes, based \in Outcomes :
            Become(PreflightReady(settled, merged, pending.seen, counted, saved, based))
      BY <1>10, <2>5, <3>1 DEF Resolve
    <3>3. r \in Runtime /\ r.conflicts = None
      BY <1>3 DEF Runtime
    <3> HIDE DEF r, merged
    <3>4. settled \in Machine /\ Known(settled)
      BY <1>1, <3>3, RuntimeKnown, MachineUpdates
    <3>5. Known(PreflightReady(settled, merged, pending.seen, counted, saved, based))
      <4> HIDE DEF settled
      <4> QED
        BY <1>2, <2>1, <2>2, <3>4, PreflightReadyKnown
    <3> QED
      BY <1>4, <2>3, <3>2, <3>5, BecomeKnown
  <2> QED
    BY <2>4, <2>5
<1>11. ASSUME ResolveConflict PROVE KnownVersions' /\ Origin'
  <2>1. rt.conflicts # None /\ rt.conflicts.open \subseteq Entity
    BY <1>3, <1>11 DEF ResolveConflict, Runtime, Pending
  <2>2. \E side \in {"Local", "Remote"}, decided \in SUBSET Entity : Resolve(side, decided)
    BY <1>11, <2>1 DEF ResolveConflict
  <2> QED
    BY <1>10, <2>1, <2>2
<1>12. ASSUME NEW t \in tasks, TaskFetches(t) PROVE KnownVersions' /\ Origin'
  <2> DEFINE new == Fetched(t)
  <2>1. /\ t.phase = "fetch" /\ Replaced(t, new)
        /\ UNCHANGED <<rt, baseline, remote, wire>>
    BY <1>12 DEF TaskFetches
  <2>2. new.seen = remote /\ new.base = None /\ new.phase = "done" /\ new.result # "uploaded"
    BY <2>1, FetchedKnown
  <2> HIDE DEF new
  <2>3. TaskKnown(new)
    BY <1>3, <2>2 DEF TaskKnown, IsKnown
  <2> QED
    BY <1>4, <2>1, <2>3, ReplacedKnown
<1>13. ASSUME NEW t \in tasks, TaskAnswered(t) \/ TaskFails(t) PROVE KnownVersions' /\ Origin'
  <2>1. t \in Task /\ TaskKnown(t)
    BY DEF TypeOK, KnownVersions, TaskKnown
  <2>2. PICK result \in {"uploaded", "failed"} :
          /\ result = "uploaded" => t.phase = "acked"
          /\ Replaced(t, [t EXCEPT !.phase = "done", !.result = result])
    BY <1>13 DEF TaskAnswered, TaskFails
  <2> DEFINE new == [t EXCEPT !.phase = "done", !.result = result]
  <2>3. /\ new.phase = "done" /\ new.result = result
        /\ \A f \in {"base", "seen", "merged", "etag"} : new[f] = t[f]
    BY <2>1 DEF Task
  <2>4. Replaced(t, new)
    BY <2>2
  <2> HIDE DEF new
  <2>5. new.base = t.base /\ new.seen = t.seen /\ new.merged = t.merged /\ new.etag = t.etag
    BY <2>3
  <2>6. TaskKnown(new)
    BY <2>1, <2>2, <2>3, <2>5 DEF TaskKnown
  <2>7. /\ UNCHANGED <<rt, baseline, remote>>
        /\ wire' \subseteq wire \cup {[seen |-> t.seen, merged |-> t.merged]}
    BY <1>13 DEF TaskAnswered, TaskFails
  <2> QED
    BY <1>4, <2>4, <2>6, <2>7, ReplacedKnown
<1>14. ASSUME NEW t \in tasks, ServerPuts(t) PROVE KnownVersions' /\ Origin'
  <2> DEFINE tag == remote.etag + 1
             acked == [t EXCEPT !.phase = "acked", !.etag = tag]
             refused == [t EXCEPT !.phase = "done", !.result = "failed"]
  <2>1. t \in Task /\ TaskKnown(t) /\ UNCHANGED <<rt, baseline, wire>>
    BY <1>14 DEF TypeOK, KnownVersions, TaskKnown, ServerPuts
  <2>2. CASE Matches(t.seen)
    <3>1. remote' = [content |-> t.merged, etag |-> tag] /\ Replaced(t, acked)
      BY <1>14, <2>2 DEF ServerPuts
    <3>2. /\ acked.etag = tag
          /\ \A f \in {"base", "seen", "merged"} : acked[f] = t[f]
      BY <2>1 DEF Task
    <3>3. acked.base = t.base /\ acked.seen = t.seen /\ acked.merged = t.merged
      BY <3>2
    <3>4. tag \in Nat /\ remote'.etag = tag /\ remote'.content = t.merged
      BY <1>3, <3>1
    <3>5. tag = remote.etag + 1
      OBVIOUS
    <3> HIDE DEF acked, tag
    <3> DEFINE Old(v) == v.etag <= tag /\ v.etag # tag
    <3>6. \A v \in Version : IsKnown(v) => Old(v)
      BY <1>3, <3>5 DEF Version, IsKnown
    <3>7. Old(acked.seen) /\ (acked.base # None => Old(acked.base))
      BY <2>1, <3>3, <3>6, VersionsTyped DEF TaskKnown
    <3>8. \A u \in tasks :
            /\ u.base # None => Old(u.base)
            /\ Old(u.seen)
            /\ u.phase = "acked" \/ u.result = "uploaded" =>
                 Old([content |-> u.merged, etag |-> u.etag])
      BY <3>6, VersionsTyped DEF KnownVersions
    <3>9. /\ baseline # None => Old(baseline)
          /\ rt.conflicts # None => Old(rt.conflicts.seen)
          /\ \A r \in wire : Old(r.seen)
      BY <3>6, VersionsTyped DEF KnownVersions
    <3>10. \A u \in tasks' :
             /\ u.base # None => Old(u.base)
             /\ Old(u.seen)
             /\ u.phase = "acked" \/ u.result = "uploaded" =>
                  Old([content |-> u.merged, etag |-> u.etag])
                  \/ (u.merged = remote'.content /\ u.etag = tag)
      BY <3>1, <3>2, <3>3, <3>4, <3>7, <3>8 DEF Replaced
    <3>11. (\A u \in tasks :
              /\ u.base # None => IsKnown(u.base)
              /\ IsKnown(u.seen)
              /\ u.phase = "acked" \/ u.result = "uploaded" =>
                   IsKnown([content |-> u.merged, etag |-> u.etag]))'
      BY <3>4, <3>10 DEF IsKnown
    <3>12. KnownVersions'
      BY <2>1, <3>4, <3>9, <3>11 DEF KnownVersions, IsKnown
    <3> QED
      BY <1>5, <3>4, <3>5, <3>12
  <2>3. CASE ~Matches(t.seen)
    <3>1. UNCHANGED remote /\ Replaced(t, refused)
      BY <1>14, <2>3 DEF ServerPuts
    <3>2. /\ refused.phase = "done" /\ refused.result = "failed"
          /\ \A f \in {"base", "seen"} : refused[f] = t[f]
      BY <2>1 DEF Task
    <3>3. refused.base = t.base /\ refused.seen = t.seen
      BY <3>2
    <3> HIDE DEF refused
    <3>4. TaskKnown(refused)
      BY <2>1, <3>2, <3>3 DEF TaskKnown
    <3> QED
      BY <1>4, <2>1, <3>1, <3>4, ReplacedKnown
  <2> QED
    BY <2>2, <2>3
<1>15. ASSUME NEW r \in wire, LatePut(r) PROVE KnownVersions' /\ Origin'
  <2>1. UNCHANGED <<rt, baseline, tasks>> /\ wire' \subseteq wire
    BY <1>15 DEF LatePut
  <2>2. CASE UNCHANGED remote
    BY <1>4, <2>1, <2>2 DEF KnownVersions, IsKnown
  <2>3. CASE remote' = [content |-> r.merged, etag |-> remote.etag + 1]
    BY <1>5, <2>1, <2>3, RaisedKnown
  <2> QED
    BY <1>15, <2>2, <2>3 DEF LatePut
<1>16. ASSUME OtherDeviceWrites PROVE KnownVersions' /\ Origin'
  <2>1. remote'.etag = remote.etag + 1 /\ UNCHANGED <<rt, baseline, tasks, wire>>
    BY <1>16 DEF OtherDeviceWrites, device
  <2> QED
    BY <1>5, <2>1, RaisedKnown
<1>17. ASSUME NEW t \in tasks, HandleFinished(t) PROVE KnownVersions' /\ Origin'
  <2> DEFINE rest == tasks \ {t}
             n == [Here EXCEPT !.tasks = rest]
  <2>1. /\ t \in Task /\ TaskKnown(t) /\ n \in Machine /\ Known(n) /\ n.rt = rt
        /\ UNCHANGED remote
    <3>1. t \in Task /\ TaskKnown(t) /\ n \in Machine /\ n.rt = rt
      BY <1>1 DEF TypeOK, Here, Machine, Known
    <3>2. Known(n)
      BY <1>1 DEF Known, Here
    <3> QED
      BY <1>17, <3>1, <3>2 DEF HandleFinished
  <2>2. CASE ~t.live
    <3>1. Become(n)
      BY <1>17, <2>2 DEF HandleFinished
    <3> HIDE DEF n
    <3> QED
      BY <1>4, <2>1, <3>1, BecomeKnown
  <2>3. CASE t.live
    <3> DEFINE r == [rt EXCEPT !.inProgress = FALSE]
               idle == [n EXCEPT !.rt = r]
               after(c, s, b, s2) == ServePending(Dispatched(idle, t, c, s, b), s2)
    <3>1. [n EXCEPT !.rt.inProgress = FALSE] = idle
      BY <2>1 DEF Here
    <3>2. PICK counted \in Counted, saved \in Outcomes, based \in Outcomes, saved2 \in Outcomes :
            Become(after(counted, saved, based, saved2))
      BY <1>17, <2>3, <3>1 DEF HandleFinished
    <3>3. r \in Runtime /\ r.conflicts = rt.conflicts
      BY <1>3 DEF Runtime
    <3> HIDE DEF n, r
    <3>4. idle \in Machine /\ Known(idle)
      BY <2>1, <3>3, RuntimeKnown, MachineUpdates
    <3>5. Known(after(counted, saved, based, saved2))
      <4> HIDE DEF idle
      <4>1. /\ Dispatched(idle, t, counted, saved, based) \in Machine
            /\ Known(Dispatched(idle, t, counted, saved, based))
        BY <1>2, <2>1, <3>4, DispatchedTypeOK, DispatchedKnown
      <4> QED
        BY <1>2, <4>1, ServePendingKnown
    <3> HIDE DEF after
    <3> QED
      BY <1>4, <2>1, <3>2, <3>5, BecomeKnown
  <2> QED
    BY <2>2, <2>3
<1>18. ASSUME Crash PROVE KnownVersions' /\ Origin'
  <2> DEFINE sent == {[seen |-> t.seen, merged |-> t.merged] : t \in Outstanding(tasks)}
  <2>1. tasks' = {} /\ rt'.conflicts = None /\ wire' = wire \cup sent /\ UNCHANGED <<baseline, remote>>
    BY <1>18 DEF Crash, FreshRuntime
  <2>2. \A r \in sent : IsKnown(r.seen)
    <3> SUFFICES ASSUME NEW t \in Outstanding(tasks),
                        NEW r, r = [seen |-> t.seen, merged |-> t.merged]
                 PROVE  IsKnown(r.seen)
      OBVIOUS
    <3>1. IsKnown(t.seen) /\ r.seen = t.seen
      BY DEF Outstanding, KnownVersions
    <3> QED
      BY <3>1
  <2> HIDE DEF sent
  <2> QED
    BY <1>4, <2>1, <2>2 DEF KnownVersions, IsKnown
<1> QED
  BY <1>6, <1>7, <1>8, <1>9, <1>11, <1>12, <1>13, <1>14, <1>15, <1>16, <1>17, <1>18 DEF Next, Step

\* The initial remote object is known.
LEMMA InitKnown == Init => KnownVersions /\ Origin
BY DEF Init, KnownVersions, Origin, IsKnown, NoVersion, FreshRuntime

\* KnownVersions with the two invariants it rests on.
LEMMA KnownInductive == Spec => [](TypeOK /\ Origin /\ KnownVersions)
<1>1. TypeOK /\ Origin /\ KnownVersions /\ [Next]_vars => (Origin /\ KnownVersions)'
  <2> SUFFICES ASSUME TypeOK, Origin, KnownVersions, [Next]_vars
               PROVE  (Origin /\ KnownVersions)'
    OBVIOUS
  <2>1. CASE Next
    BY <2>1, NextKnown
  <2>2. CASE UNCHANGED vars
    BY <2>2 DEF vars, KnownVersions, Origin, IsKnown
  <2> QED
    BY <2>1, <2>2
<1> QED
  BY <1>1, InitKnown, TypeCorrect, PTL DEF Spec

\* For every number of entities, writes and faults: whatever this device holds
\* under an entity tag, in its baseline file, in an open conflict, in a task or
\* in a request on its way, is what the server holds or held under that tag.
THEOREM RemembersTheServer == Spec => []KnownVersions
BY KnownInductive, PTL
-----------------------------------------------------------------------------
(* NoUnseenOverwrite, an action property: a write is conditional on the     *)
(* tag, and by KnownVersions the tag stands for the content.                *)

\* A step that changes the remote object, other than another device's, is a
\* conditional write of a version this device has seen.
LEMMA StepSeen ==
  ASSUME TypeOK, KnownVersions, Next, remoteWrites' = remoteWrites, remote' # remote
  PROVE  SeenByWriter
<1>1. \A v \in Version : IsKnown(v) /\ Matches(v) => v = remote
  BY VersionsTyped DEF Version, IsKnown, Matches
<1>2. ~OtherDeviceWrites
  BY DEF OtherDeviceWrites, TypeOK
<1>3. ASSUME NEW t \in tasks, ServerPuts(t) PROVE SeenByWriter
  <2>1. t.phase = "put" /\ Matches(t.seen) /\ remote'.content = t.merged
    BY <1>3 DEF ServerPuts
  <2> QED
    BY <1>1, <2>1, VersionsTyped DEF SeenByWriter, KnownVersions
<1>4. ASSUME NEW r \in wire, LatePut(r) PROVE SeenByWriter
  <2>1. Matches(r.seen) /\ remote'.content = r.merged
    BY <1>4 DEF LatePut
  <2> QED
    BY <1>1, <2>1, VersionsTyped DEF SeenByWriter, KnownVersions
<1>5. \A t \in tasks : ~(TaskFetches(t) \/ TaskAnswered(t) \/ TaskFails(t) \/ HandleFinished(t))
  BY DEF TaskFetches, TaskAnswered, TaskFails, HandleFinished
<1>6. ~(CommitBegin \/ WorkerCommits \/ CommitDone \/ CatalogEdit \/ RecordUsage)
  BY DEF CommitBegin, WorkerCommits, CommitDone, CatalogEdit, RecordUsage
<1>7. ~(AutomaticTrigger \/ ManualSync \/ ManualRestore \/ Crash)
  BY DEF AutomaticTrigger, ManualSync, ManualRestore, Crash
<1>8. ~ResolveConflict
  BY DEF ResolveConflict, Resolve
<1> QED
  BY <1>2, <1>3, <1>4, <1>5, <1>6, <1>7, <1>8 DEF Next, Step

\* For every number of entities, writes and faults: a write of this device
\* replaces only a remote version that the device has downloaded and merged,
\* also when its sender has given up, was replaced, or crashed.
THEOREM OverwritesOnlyTheSeen == Spec => NoUnseenOverwrite
<1>1. TypeOK /\ KnownVersions /\ [Next]_vars =>
        [remoteWrites' = remoteWrites /\ remote' # remote => SeenByWriter]_vars
  <2> SUFFICES ASSUME TypeOK, KnownVersions, Next,
                      remoteWrites' = remoteWrites, remote' # remote
               PROVE  SeenByWriter
    BY DEF vars
  <2> QED
    BY StepSeen
<1> QED
  BY <1>1, KnownInductive, PTL DEF Spec, NoUnseenOverwrite
-----------------------------------------------------------------------------
(* ChangeNeverForgotten, when every change of the configuration is noted.  *)
(* A run records its generation as reconciled on three ways: the merge is  *)
(* the remote content, the merge was uploaded, or it was restored.  The    *)
(* inductive invariant says of the one live task what it needs to be true  *)
(* that nothing of that generation is missing from the baseline then.      *)

\* No generation is reconciled or under way before it has begun.
Generations(r) ==
  /\ r.reconciledGen <= r.localGen
  /\ r.activeGen # None => r.activeGen <= r.localGen

\* An upload to a remote object that does not exist.
FirstUpload(t) ==
  t.seen.etag = 0 /\ (t.phase \in {"put", "acked"} \/ t.result = "uploaded")

\* A task has a result when it is done, and the result is one of its kind.  A
\* restore of the newest generation has everything yielded to the remote side,
\* a first upload of it uploads the configuration, and while a conflict is open
\* no task has found the remote object missing.
TaskPlan(m, t, y) ==
  /\ t.phase # "done" => t.result = "none"
  /\ t.result = "conflicts" => t.seen.etag # 0
  /\ t.result = "downloaded" => t.kind = "restore"
  /\ t.live /\ m.rt.activeGen = m.rt.localGen =>
       /\ t.kind = "restore" => y = Entity
       /\ FirstUpload(t) => t.merged = m.config
  /\ t.live /\ m.rt.conflicts # None =>
       t.phase = "fetch" \/ t.result = "failed" \/ t.seen.etag # 0

\* The same of the record a handler works on; y is what the user has yielded.
Plans(m, y) ==
  /\ Generations(m.rt)
  /\ m.rt.conflicts # None => m.rt.conflicts.seen.etag # 0
  /\ \A t \in m.tasks : TaskPlan(m, t, y)

\* No task is live: so it is from the reset of in_progress on.
NoneLive(m) == \A t \in m.tasks : ~t.live

\* The generations after each transition of SyncRuntimeState.
LEMMA RuntimeGenerations ==
  ASSUME NEW r \in Runtime, Generations(r)
  PROVE  /\ Generations(MarkLocalChange(r)) /\ HasUnsynced(MarkLocalChange(r))
         /\ MarkLocalChange(r).activeGen # MarkLocalChange(r).localGen
         /\ Generations(BeginReconciliation(r))
         /\ Generations(AbandonReconciliation(r))
         /\ AbandonReconciliation(r).activeGen # AbandonReconciliation(r).localGen
         /\ Generations(RecordSuccess(r))
         /\ RecordSuccess(r).activeGen # RecordSuccess(r).localGen
         /\ Generations(RecordFailure(r))
         /\ RecordFailure(r).activeGen # RecordFailure(r).localGen
<1>1. None \notin Nat
  BY CoordinatorAssumption
<1>2. /\ r.localGen \in Nat /\ r.reconciledGen \in Nat
      /\ r.activeGen \in Nat \cup {None} /\ r.localGen + 1 \in Nat
  BY DEF Runtime
<1>3. /\ MarkLocalChange(r).localGen = r.localGen + 1
      /\ MarkLocalChange(r).reconciledGen = r.reconciledGen
      /\ MarkLocalChange(r).activeGen = r.activeGen
  BY DEF Runtime, MarkLocalChange
<1>4. /\ BeginReconciliation(r).localGen = r.localGen
      /\ BeginReconciliation(r).reconciledGen = r.reconciledGen
      /\ BeginReconciliation(r).activeGen = r.localGen
  BY DEF Runtime, BeginReconciliation
<1>5. /\ AbandonReconciliation(r).localGen = r.localGen
      /\ AbandonReconciliation(r).reconciledGen = r.reconciledGen
      /\ AbandonReconciliation(r).activeGen = None
  BY DEF Runtime, AbandonReconciliation
<1>6. /\ RecordSuccess(r).localGen = r.localGen
      /\ RecordSuccess(r).reconciledGen \in {r.reconciledGen, r.activeGen}
      /\ r.activeGen = None => RecordSuccess(r).reconciledGen = r.reconciledGen
      /\ RecordSuccess(r).activeGen = None
  BY DEF Runtime, RecordSuccess
<1>7. /\ RecordFailure(r).localGen = r.localGen
      /\ RecordFailure(r).reconciledGen = r.reconciledGen
      /\ RecordFailure(r).activeGen = None
  BY DEF Runtime, RecordFailure
<1>8. /\ Generations(MarkLocalChange(r)) /\ HasUnsynced(MarkLocalChange(r))
      /\ MarkLocalChange(r).activeGen # MarkLocalChange(r).localGen
  BY <1>1, <1>2, <1>3 DEF Generations, HasUnsynced
<1>9. Generations(BeginReconciliation(r))
  BY <1>1, <1>2, <1>4 DEF Generations
<1>10. /\ Generations(AbandonReconciliation(r))
       /\ AbandonReconciliation(r).activeGen # AbandonReconciliation(r).localGen
  BY <1>1, <1>2, <1>5 DEF Generations
<1>11. /\ Generations(RecordSuccess(r))
       /\ RecordSuccess(r).activeGen # RecordSuccess(r).localGen
  BY <1>1, <1>2, <1>6 DEF Generations
<1>12. /\ Generations(RecordFailure(r))
       /\ RecordFailure(r).activeGen # RecordFailure(r).localGen
  BY <1>1, <1>2, <1>7 DEF Generations
<1> QED
  BY <1>8, <1>9, <1>10, <1>11, <1>12

\* A success without a generation changes nothing of the generations, and one
\* of an older generation leaves something to synchronize.
LEMMA SuccessSettles ==
  ASSUME NEW r \in Runtime, Generations(r), ~HasUnsynced(RecordSuccess(r)), HasUnsynced(r)
  PROVE  r.activeGen = r.localGen /\ ~IsStale(r)
<1>1. None \notin Nat
  BY CoordinatorAssumption
<1>2. /\ r.localGen \in Nat /\ r.reconciledGen \in Nat /\ r.activeGen \in Nat \cup {None}
  BY DEF Runtime
<1>3. /\ RecordSuccess(r).localGen = r.localGen
      /\ r.activeGen = None => RecordSuccess(r).reconciledGen = r.reconciledGen
      /\ r.activeGen # None => RecordSuccess(r).reconciledGen = r.activeGen
  BY DEF Runtime, RecordSuccess
<1> QED
  BY <1>1, <1>2, <1>3 DEF HasUnsynced, IsStale

\* The plan of a disowned task is its result.
LEMMA DisownedPlan ==
  ASSUME NEW m, NEW n, NEW y, NEW t \in Task, TaskPlan(m, t, y)
  PROVE  TaskPlan(n, [t EXCEPT !.live = FALSE], y)
<1> DEFINE u == [t EXCEPT !.live = FALSE]
<1>1. /\ u.live = FALSE
      /\ \A f \in {"seen", "phase", "result", "kind"} : u[f] = t[f]
  BY DEF Task
<1>2. u.seen = t.seen /\ u.phase = t.phase /\ u.result = t.result /\ u.kind = t.kind
  BY <1>1
<1> HIDE DEF u
<1>3. TaskPlan(n, u, y)
  BY <1>1, <1>2 DEF TaskPlan
<1> QED
  BY <1>3 DEF u

\* The new task is the only one that still acts.
LEMMA StartPlans ==
  ASSUME NEW m \in Machine, NEW y, Plans(m, y), NEW task, TaskPlan(m, task, y)
  PROVE  Plans(Start(m, task), y)
<1> DEFINE disowned == {[t EXCEPT !.live = FALSE] : t \in {u \in m.tasks : u.phase = "done"}}
           n == Start(m, task)
<1>1. \A t \in m.tasks : t \in Task /\ TaskPlan(m, t, y)
  BY DEF Machine, Plans
<1>2. n.tasks = disowned \cup {task} /\ n.rt = m.rt /\ n.config = m.config
  BY DEF Start, Machine
<1>3. \A t \in disowned : TaskPlan(n, t, y)
  BY <1>1, DisownedPlan
<1> HIDE DEF disowned, n
<1>4. TaskPlan(n, task, y)
  BY <1>2 DEF TaskPlan
<1>5. Plans(n, y)
  BY <1>2, <1>3, <1>4 DEF Plans
<1> QED
  BY <1>5 DEF n

\* A change of the coordinator that leaves the tasks alone keeps their plans
\* when no task is live, or none carries the newest generation any more, or the
\* generations stay and no first upload is under way or the configuration
\* stays.
LEMMA KeptPlans ==
  ASSUME NEW m, NEW n, NEW y, Plans(m, y), n.tasks = m.tasks,
         Generations(n.rt), n.rt.conflicts \in {None, m.rt.conflicts},
         \/ NoneLive(m)
         \/ n.rt.activeGen # n.rt.localGen
         \/ /\ n.rt.activeGen = m.rt.activeGen /\ n.rt.localGen = m.rt.localGen
            /\ n.config = m.config \/ \A t \in m.tasks : t.live => ~FirstUpload(t)
  PROVE  Plans(n, y)
<1>1. ASSUME NEW t \in m.tasks PROVE TaskPlan(n, t, y)
  <2>1. TaskPlan(m, t, y)
    BY DEF Plans
  <2>2. t.live /\ n.rt.activeGen = n.rt.localGen =>
          /\ t.kind = "restore" => y = Entity
          /\ FirstUpload(t) => t.merged = n.config
    BY <2>1 DEF TaskPlan, NoneLive
  <2>3. t.live /\ n.rt.conflicts # None =>
          t.phase = "fetch" \/ t.result = "failed" \/ t.seen.etag # 0
    BY <2>1 DEF TaskPlan
  <2> QED
    BY <2>1, <2>2, <2>3 DEF TaskPlan
<1>2. n.rt.conflicts # None => n.rt.conflicts.seen.etag # 0
  BY DEF Plans
<1> QED
  BY <1>1, <1>2 DEF Plans

\* Nothing in progress: nothing live.
LEMMA IdleNoneLive ==
  ASSUME NEW m, Owned(m), ~m.rt.inProgress
  PROVE  NoneLive(m)
BY DEF Owned, NoneLive

\* begin_sync: a restore has everything yielded to the remote side.
LEMMA BeginOperationPlans ==
  ASSUME NEW m \in Machine, NEW y, Owned(m), Plans(m, y),
         NEW kind \in {"upload", "restore"}, NEW saved \in BOOLEAN,
         kind = "restore" => y = Entity
  PROVE  Plans(BeginOperation(m, kind, saved), y)
<1> DEFINE started == [m.rt EXCEPT !.inProgress = TRUE]
           r == BeginReconciliation(started)
           n == [m EXCEPT !.disk = m.config, !.rt = r]
           task == FetchTask(kind, m.config, m.baseline)
<1>1. CASE m.rt.inProgress \/ ~saved
  BY <1>1 DEF BeginOperation
<1>2. CASE ~(m.rt.inProgress \/ ~saved)
  <2>1. /\ started \in Runtime /\ Generations(started) /\ started.conflicts = m.rt.conflicts
    <3>1. m.rt \in Runtime /\ Generations(m.rt)
      BY MachineUpdates DEF Plans
    <3> QED
      BY <3>1 DEF Runtime, Generations
  <2>2. r \in Runtime /\ Generations(r) /\ r.conflicts = m.rt.conflicts
    <3> HIDE DEF started
    <3> QED
      BY <2>1, RuntimeSteps, RuntimeAsks, RuntimeGenerations
  <2> HIDE DEF r
  <2>3. n \in Machine /\ n.rt = r /\ n.tasks = m.tasks
    BY <2>2 DEF Machine
  <2>4. NoneLive(m)
    BY <1>2, IdleNoneLive
  <2>5. BeginOperation(m, kind, saved) = Start(n, task)
    BY <1>2 DEF BeginOperation, r
  <2>6. /\ task.phase = "fetch" /\ task.result = "none" /\ task.kind = kind
    BY DEF FetchTask
  <2> HIDE DEF n, task
  <2>7. Plans(n, y)
    BY <2>2, <2>3, <2>4, KeptPlans
  <2>8. TaskPlan(n, task, y)
    BY <2>6 DEF TaskPlan, FirstUpload
  <2> QED
    BY <2>3, <2>5, <2>7, <2>8, StartPlans
<1> QED
  BY <1>1, <1>2

\* An automatic run.
LEMMA RequestAutomaticPlans ==
  ASSUME NEW m \in Machine, NEW y, Owned(m), Plans(m, y), NEW saved \in BOOLEAN
  PROVE  Plans(RequestAutomatic(m, saved), y)
<1> DEFINE p == [m.rt EXCEPT !.pendingAutomatic = TRUE]
           waits == [m EXCEPT !.rt = p]
           r == BeginReconciliation(m.rt)
           begun == [m EXCEPT !.rt = r]
<1>1. m.rt \in Runtime /\ Generations(m.rt)
  BY MachineUpdates DEF Plans
<1>2. CASE "automatic" \notin Paths \/ m.rt.conflicts # None
  BY <1>2 DEF RequestAutomatic
<1>3. CASE "automatic" \in Paths /\ m.rt.conflicts = None /\ m.rt.inProgress
  <2>1. /\ p.conflicts = m.rt.conflicts /\ p.activeGen = m.rt.activeGen
        /\ p.localGen = m.rt.localGen /\ p.reconciledGen = m.rt.reconciledGen
    BY <1>1 DEF Runtime
  <2>2. RequestAutomatic(m, saved) = waits
    BY <1>3 DEF RequestAutomatic, Machine
  <2> HIDE DEF p
  <2>3. waits.rt = p /\ waits.tasks = m.tasks /\ waits.config = m.config
    BY DEF Machine
  <2>4. Generations(p)
    BY <1>1, <2>1 DEF Generations
  <2> HIDE DEF waits
  <2>5. Plans(waits, y)
    BY <2>1, <2>3, <2>4, KeptPlans
  <2> QED
    BY <2>2, <2>5
<1>4. CASE "automatic" \in Paths /\ m.rt.conflicts = None /\ ~m.rt.inProgress
  <2>1. /\ r \in Runtime /\ Generations(r) /\ r.conflicts = m.rt.conflicts
        /\ r.inProgress = m.rt.inProgress
    BY <1>1, RuntimeSteps, RuntimeAsks, RuntimeGenerations, RuntimeQuiet
  <2>2. RequestAutomatic(m, saved) = BeginOperation(begun, "upload", saved)
    BY <1>4 DEF RequestAutomatic
  <2> HIDE DEF r
  <2>3. begun \in Machine /\ begun.rt = r /\ begun.tasks = m.tasks
    BY <2>1 DEF Machine
  <2>4. NoneLive(m)
    BY <1>4, IdleNoneLive
  <2>5. Owned(begun)
    BY <2>1, <2>3, QuietOwned DEF Quiet
  <2> HIDE DEF begun
  <2>6. Plans(begun, y)
    BY <2>1, <2>3, <2>4, KeptPlans
  <2> QED
    BY <2>2, <2>3, <2>5, <2>6, BeginOperationPlans
<1> QED
  BY <1>2, <1>3, <1>4

\* The pending automatic run.
LEMMA ServePendingPlans ==
  ASSUME NEW m \in Machine, NEW y, Owned(m), Plans(m, y), NEW saved \in BOOLEAN
  PROVE  Plans(ServePending(m, saved), y)
<1> DEFINE p == [m.rt EXCEPT !.pendingAutomatic = FALSE]
           served == [m EXCEPT !.rt = p]
<1>1. m.rt \in Runtime /\ Generations(m.rt)
  BY MachineUpdates DEF Plans
<1>2. /\ p \in Runtime /\ p.conflicts = m.rt.conflicts /\ p.activeGen = m.rt.activeGen
      /\ p.localGen = m.rt.localGen /\ p.reconciledGen = m.rt.reconciledGen
      /\ p.inProgress = m.rt.inProgress
  BY <1>1 DEF Runtime
<1>3. [m EXCEPT !.rt.pendingAutomatic = FALSE] = served
  BY DEF Machine
<1>4. ServePending(m, saved) = m \/ ServePending(m, saved) = RequestAutomatic(served, saved)
  BY <1>3 DEF ServePending
<1> HIDE DEF p
<1>5. served \in Machine /\ served.rt = p /\ served.tasks = m.tasks /\ served.config = m.config
  BY <1>2 DEF Machine
<1>6. Generations(p)
  BY <1>1, <1>2 DEF Generations
<1> HIDE DEF served
<1>7. Plans(served, y) /\ Owned(served)
  BY <1>2, <1>5, <1>6, KeptPlans, QuietOwned DEF Quiet
<1> QED
  BY <1>4, <1>5, <1>7, RequestAutomaticPlans

\* What starts an operation stores nothing but the configuration file: neither
\* the configuration, nor the baseline, nor the generations' agreement change.
Stores(m, n) ==
  n.config = m.config /\ n.baseline = m.baseline /\ HasUnsynced(n.rt) = HasUnsynced(m.rt)

\* begin_sync stores nothing else.
LEMMA BeginOperationStores ==
  ASSUME NEW m \in Machine, NEW kind \in {"upload", "restore"}, NEW saved \in BOOLEAN
  PROVE  Stores(m, BeginOperation(m, kind, saved))
<1> DEFINE started == [m.rt EXCEPT !.inProgress = TRUE]
           r == BeginReconciliation(started)
           b == [m EXCEPT !.disk = m.config, !.rt = r]
<1>1. \A n \in Machine : \A task :
        /\ Start(n, task).config = n.config
        /\ Start(n, task).baseline = n.baseline
        /\ Start(n, task).rt = n.rt
  BY DEF Start, Machine
<1>2. m.rt \in Runtime
  BY MachineUpdates
<1>3. r \in Runtime /\ HasUnsynced(r) = HasUnsynced(m.rt)
  BY <1>2 DEF Runtime, BeginReconciliation, HasUnsynced
<1>4. \/ BeginOperation(m, kind, saved) = m
      \/ \E task : BeginOperation(m, kind, saved) = Start(b, task)
  BY DEF BeginOperation
<1> HIDE DEF r
<1>5. b \in Machine /\ b.config = m.config /\ b.baseline = m.baseline /\ b.rt = r
  BY <1>3 DEF Machine
<1> HIDE DEF b
<1> QED
  BY <1>1, <1>3, <1>4, <1>5 DEF Stores

\* Nor does an automatic run.
LEMMA RequestAutomaticStores ==
  ASSUME NEW m \in Machine, NEW saved \in BOOLEAN
  PROVE  Stores(m, RequestAutomatic(m, saved))
<1> DEFINE p == [m.rt EXCEPT !.pendingAutomatic = TRUE]
           waits == [m EXCEPT !.rt = p]
           r == BeginReconciliation(m.rt)
           begun == [m EXCEPT !.rt = r]
<1>1. m.rt \in Runtime
  BY MachineUpdates
<1>2. /\ p \in Runtime /\ HasUnsynced(p) = HasUnsynced(m.rt)
      /\ r \in Runtime /\ HasUnsynced(r) = HasUnsynced(m.rt)
  BY <1>1 DEF Runtime, BeginReconciliation, HasUnsynced
<1>3. \/ RequestAutomatic(m, saved) = m
      \/ RequestAutomatic(m, saved) = waits
      \/ RequestAutomatic(m, saved) = BeginOperation(begun, "upload", saved)
  BY DEF RequestAutomatic, Machine
<1> HIDE DEF p, r
<1>4. /\ waits.config = m.config /\ waits.baseline = m.baseline /\ waits.rt = p
      /\ begun \in Machine /\ begun.config = m.config /\ begun.baseline = m.baseline
      /\ begun.rt = r
  BY <1>2 DEF Machine
<1> HIDE DEF waits, begun
<1>5. Stores(begun, BeginOperation(begun, "upload", saved))
  BY <1>4, BeginOperationStores
<1> QED
  BY <1>2, <1>3, <1>4, <1>5 DEF Stores

\* Nor the pending one.
LEMMA ServePendingStores ==
  ASSUME NEW m \in Machine, NEW saved \in BOOLEAN
  PROVE  Stores(m, ServePending(m, saved))
<1> DEFINE p == [m.rt EXCEPT !.pendingAutomatic = FALSE]
           served == [m EXCEPT !.rt = p]
<1>1. m.rt \in Runtime
  BY MachineUpdates
<1>2. p \in Runtime /\ HasUnsynced(p) = HasUnsynced(m.rt)
  BY <1>1 DEF Runtime, HasUnsynced
<1>3. ServePending(m, saved) = m \/ ServePending(m, saved) = RequestAutomatic(served, saved)
  BY DEF ServePending, Machine
<1> HIDE DEF p
<1>4. /\ served \in Machine /\ served.config = m.config /\ served.baseline = m.baseline
      /\ served.rt = p
  BY <1>2 DEF Machine
<1> HIDE DEF served
<1>5. Stores(served, RequestAutomatic(served, saved))
  BY <1>4, RequestAutomaticStores
<1> QED
  BY <1>2, <1>3, <1>4, <1>5 DEF Stores

\* The configuration is the baseline.
Agreed(m) == m.baseline # None /\ m.baseline.content = m.config

\* From m to n the generations settle only with the baseline, or with a restore.
Settles(m, n, y) ==
  HasUnsynced(n.rt) \/ ~HasUnsynced(m.rt) \/ Agreed(n) \/ y = Entity

\* handle_sync_reconciled while no first upload is under way.
LEMMA AdoptReconciledPlans ==
  ASSUME NEW m \in Machine, NEW y, Plans(m, y),
         NEW merged \in Catalog, NEW seen \in Version,
         NEW saved \in BOOLEAN, NEW based \in BOOLEAN,
         \A t \in m.tasks : t.live => ~FirstUpload(t)
  PROVE  LET n == AdoptReconciled(m, merged, seen, saved, based)
         IN  Plans(n, y) /\ (merged = seen.content \/ y = Entity => Settles(m, n, y))
<1> DEFINE n == AdoptReconciled(m, merged, seen, saved, based)
           r == RecordSuccess(m.rt)
<1>1. m.rt \in Runtime /\ Generations(m.rt)
  BY MachineUpdates DEF Plans
<1>2. /\ Generations(r) /\ r.activeGen # r.localGen /\ r.conflicts = m.rt.conflicts
  BY <1>1, RuntimeGenerations, RuntimeAsks
<1>3. /\ n.tasks = m.tasks
      /\ \/ n.rt = m.rt
         \/ n.rt = r /\ n.baseline = seen /\ n.config = merged
  BY DEF AdoptReconciled, Machine
<1>4. seen # None
  BY CoordinatorAssumption
<1> HIDE DEF n, r
<1>5. Plans(n, y)
  BY <1>1, <1>2, <1>3, KeptPlans
<1>6. merged = seen.content \/ y = Entity => Settles(m, n, y)
  BY <1>3, <1>4 DEF Settles, Agreed
<1> QED
  BY <1>5, <1>6 DEF n

\* continue_sync_upload: a first upload uploads the configuration.
LEMMA ContinueUploadPlans ==
  ASSUME NEW m \in Machine, NEW y, Plans(m, y),
         NEW merged \in Catalog, NEW seen \in Version,
         m.rt.conflicts # None => seen.etag # 0
  PROVE  LET n == ContinueUpload(m, merged, seen)
         IN  Plans(n, y) /\ Settles(m, n, y)
<1> DEFINE r == [m.rt EXCEPT !.inProgress = TRUE]
           s == [m EXCEPT !.rt = r]
           task == PutTask(IF seen.etag = 0 THEN m.config ELSE merged, seen)
           n == ContinueUpload(m, merged, seen)
<1>1. m.rt \in Runtime /\ Generations(m.rt)
  BY MachineUpdates DEF Plans
<1>2. /\ r \in Runtime /\ r.conflicts = m.rt.conflicts /\ r.activeGen = m.rt.activeGen
      /\ r.localGen = m.rt.localGen /\ r.reconciledGen = m.rt.reconciledGen
  BY <1>1 DEF Runtime
<1>3. n = Start(s, task)
  BY DEF ContinueUpload, Machine
<1> HIDE DEF r
<1>4. s \in Machine /\ s.rt = r /\ s.tasks = m.tasks /\ s.config = m.config
  BY <1>2 DEF Machine
<1>5. Generations(r) /\ HasUnsynced(r) = HasUnsynced(m.rt)
  BY <1>1, <1>2 DEF Generations, HasUnsynced
<1>6. /\ task.phase = "put" /\ task.result = "none" /\ task.kind = "upload"
      /\ task.seen = seen /\ (seen.etag = 0 => task.merged = m.config)
  BY DEF PutTask
<1> HIDE DEF s, task
<1>7. Plans(s, y)
  BY <1>2, <1>4, <1>5, KeptPlans
<1>8. TaskPlan(s, task, y)
  BY <1>2, <1>4, <1>6 DEF TaskPlan, FirstUpload
<1>9. n.rt = s.rt
  BY <1>3, <1>4 DEF Start, Machine
<1>10. Plans(n, y)
  BY <1>3, <1>4, <1>7, <1>8, StartPlans
<1> HIDE DEF n
<1>11. Settles(m, n, y)
  BY <1>4, <1>5, <1>9 DEF Settles
<1> QED
  BY <1>10, <1>11 DEF n

\* Giving a generation up settles nothing.
LEMMA AbandonPlans ==
  ASSUME NEW m \in Machine, NEW y, Plans(m, y),
         NEW r \in {AbandonReconciliation(m.rt), RecordFailure(m.rt)}
  PROVE  Plans([m EXCEPT !.rt = r], y) /\ Settles(m, [m EXCEPT !.rt = r], y)
<1> DEFINE n == [m EXCEPT !.rt = r]
<1>1. m.rt \in Runtime /\ Generations(m.rt)
  BY MachineUpdates DEF Plans
<1>2. Generations(r) /\ r.activeGen # r.localGen /\ r.conflicts = m.rt.conflicts
  BY <1>1, RuntimeGenerations, RuntimeAsks
<1>3. HasUnsynced(r) = HasUnsynced(m.rt)
  BY <1>1 DEF Runtime, AbandonReconciliation, RecordFailure, HasUnsynced
<1>4. n.rt = r /\ n.tasks = m.tasks
  BY DEF Machine
<1> HIDE DEF n
<1>5. Plans(n, y) /\ Settles(m, n, y)
  BY <1>2, <1>3, <1>4, KeptPlans DEF Settles
<1> QED
  BY <1>5 DEF n

\* handle_sync_upload_preflight_ready, from a result or from the last decision.
LEMMA PreflightReadyPlans ==
  ASSUME NEW m \in Machine, NEW y, Plans(m, y),
         NEW merged \in Catalog, NEW seen \in Version,
         NEW counted \in BOOLEAN, NEW saved \in BOOLEAN, NEW based \in BOOLEAN,
         \A t \in m.tasks : t.live => ~FirstUpload(t),
         m.rt.conflicts # None => seen.etag # 0
  PROVE  LET n == PreflightReady(m, merged, seen, counted, saved, based)
         IN  Plans(n, y) /\ Settles(m, n, y)
<1> DEFINE n == PreflightReady(m, merged, seen, counted, saved, based)
           a == AbandonReconciliation(m.rt)
<1>1. CASE IsStale(m.rt)
  <2>1. n = [m EXCEPT !.rt = a]
    BY <1>1 DEF PreflightReady
  <2>2. Plans([m EXCEPT !.rt = a], y) /\ Settles(m, [m EXCEPT !.rt = a], y)
    BY AbandonPlans
  <2> QED
    BY <2>1, <2>2
<1>2. CASE ~IsStale(m.rt) /\ seen.etag # 0 /\ merged = seen.content /\ ~counted
  <2>1. n = AdoptReconciled(m, merged, seen, saved, based)
    BY <1>2 DEF PreflightReady
  <2> QED
    BY <1>2, <2>1, AdoptReconciledPlans
<1>3. CASE ~IsStale(m.rt) /\ ~(seen.etag # 0 /\ merged = seen.content /\ ~counted)
  <2>1. n = ContinueUpload(m, merged, seen)
    BY <1>3 DEF PreflightReady
  <2> QED
    BY <2>1, ContinueUploadPlans
<1> QED
  BY <1>1, <1>2, <1>3

\* handle_sync_uploaded: what was uploaded of the newest generation is the
\* configuration.
LEMMA UploadedPlans ==
  ASSUME NEW m \in Machine, NEW y, Plans(m, y), NoneLive(m), NEW t \in Task,
         t.seen.etag = 0 /\ m.rt.activeGen = m.rt.localGen => t.merged = m.config,
         NEW saved \in BOOLEAN, NEW based \in BOOLEAN
  PROVE  LET n == Uploaded(m, t, saved, based)
         IN  Plans(n, y) /\ Settles(m, n, y)
<1> DEFINE r == RecordSuccess(m.rt)
           n == Uploaded(m, t, saved, based)
<1>1. m.rt \in Runtime /\ Generations(m.rt) /\ t.merged \in Catalog /\ t.etag \in Nat
  BY MachineUpdates DEF Plans, Task
<1>2. /\ Generations(r) /\ r.activeGen # r.localGen /\ r.conflicts = m.rt.conflicts
  BY <1>1, RuntimeGenerations, RuntimeAsks
<1>3. [content |-> t.merged, etag |-> t.etag] # None
  <2>1. [content |-> t.merged, etag |-> t.etag] \in Version
    BY <1>1 DEF Version
  <2> QED
    BY <2>1, CoordinatorAssumption
<1> DEFINE version == [content |-> t.merged, etag |-> t.etag]
<1>4. version.content = t.merged
  OBVIOUS
<1> HIDE DEF r, version
<1>5. /\ n.tasks = m.tasks
      /\ \/ n.rt = m.rt
         \/ /\ n.rt = r /\ n.baseline = version
            /\ IF IsStale(m.rt) \/ t.seen.etag = 0
                 THEN n.config = m.config ELSE n.config = t.merged
  BY DEF Uploaded, Machine, r, version
<1> HIDE DEF n
<1>6. Plans(n, y)
  BY <1>1, <1>2, <1>5, KeptPlans
<1>7. ASSUME n.rt = r, ~HasUnsynced(r), HasUnsynced(m.rt),
             n.baseline = version,
             IF IsStale(m.rt) \/ t.seen.etag = 0
               THEN n.config = m.config ELSE n.config = t.merged
      PROVE  Agreed(n)
  <2>1. m.rt.activeGen = m.rt.localGen /\ ~IsStale(m.rt)
    BY <1>1, <1>7, SuccessSettles DEF r
  <2>2. n.config = t.merged
    BY <1>7, <2>1
  <2> QED
    BY <1>3, <1>4, <1>7, <2>2 DEF Agreed, version
<1>8. Settles(m, n, y)
  BY <1>5, <1>7 DEF Settles
<1> QED
  BY <1>6, <1>8 DEF n

\* handle_sync_downloaded: a restore of the newest generation.
LEMMA DownloadedPlans ==
  ASSUME NEW m \in Machine, NEW y, Plans(m, y), NoneLive(m), NEW t \in Task,
         m.rt.activeGen = m.rt.localGen => y = Entity,
         NEW saved \in BOOLEAN, NEW based \in BOOLEAN
  PROVE  LET n == Downloaded(m, t, saved, based)
         IN  Plans(n, y) /\ Settles(m, n, y)
<1> DEFINE n == Downloaded(m, t, saved, based)
           a == AbandonReconciliation(m.rt)
           adopted == AdoptReconciled(m, t.merged, t.seen, saved, based)
<1>1. m.rt \in Runtime /\ Generations(m.rt) /\ t.merged \in Catalog /\ t.seen \in Version
  BY MachineUpdates DEF Plans, Task
<1>2. Plans([m EXCEPT !.rt = a], y) /\ Settles(m, [m EXCEPT !.rt = a], y)
  BY AbandonPlans
<1>3. Plans(adopted, y)
  BY <1>1, AdoptReconciledPlans DEF NoneLive
<1>4. Settles(m, adopted, y)
  <2>1. CASE m.rt.activeGen = m.rt.localGen
    BY <2>1 DEF Settles
  <2>2. CASE m.rt.activeGen # m.rt.localGen
    <3>1. adopted.rt \in {m.rt, RecordSuccess(m.rt)}
      BY DEF AdoptReconciled, Machine
    <3>2. HasUnsynced(RecordSuccess(m.rt)) \/ ~HasUnsynced(m.rt)
      BY <1>1, <2>2, SuccessSettles
    <3> HIDE DEF adopted
    <3> QED
      BY <3>1, <3>2 DEF Settles
  <2> QED
    BY <2>1, <2>2
<1>5. n = [m EXCEPT !.rt = a] \/ n = m \/ n = adopted
  BY DEF Downloaded
<1>6. Settles(m, m, y)
  BY DEF Settles
<1> HIDE DEF n, a, adopted
<1>7. Plans(n, y) /\ Settles(m, n, y)
  BY <1>2, <1>3, <1>4, <1>5, <1>6
<1> QED
  BY <1>7 DEF n

\* handle_sync_reconciliation_conflicts: conflicts are with a remote object.
LEMMA OfferConflictsPlans ==
  ASSUME NEW m \in Machine, NEW y, Plans(m, y), NoneLive(m), NEW t \in Task, t.seen.etag # 0
  PROVE  LET n == OfferConflicts(m, t)
         IN  Plans(n, y) /\ Settles(m, n, y)
<1> DEFINE n == OfferConflicts(m, t)
           a == AbandonReconciliation(m.rt)
           pending == [open |-> t.open, merged |-> t.merged, seen |-> t.seen]
           r == [m.rt EXCEPT !.conflicts = pending]
           asks == [m EXCEPT !.rt = r]
<1>1. m.rt \in Runtime /\ Generations(m.rt)
  BY MachineUpdates DEF Plans
<1>2. Plans([m EXCEPT !.rt = a], y) /\ Settles(m, [m EXCEPT !.rt = a], y)
  BY AbandonPlans
<1>3. pending.seen.etag # 0
  OBVIOUS
<1> HIDE DEF pending
<1>4. /\ r.conflicts = pending /\ r.activeGen = m.rt.activeGen
      /\ r.localGen = m.rt.localGen /\ r.reconciledGen = m.rt.reconciledGen
  BY <1>1 DEF Runtime
<1>5. n = [m EXCEPT !.rt = a] \/ n = asks
  BY DEF OfferConflicts, Machine, pending
<1> HIDE DEF r
<1>6. asks.rt = r /\ asks.tasks = m.tasks
  BY DEF Machine
<1> HIDE DEF asks
<1>7. Generations(r) /\ HasUnsynced(r) = HasUnsynced(m.rt)
  BY <1>1, <1>4 DEF Generations, HasUnsynced
<1>8. \A u \in m.tasks : TaskPlan(asks, u, y)
  BY DEF Plans, TaskPlan, NoneLive
<1>9. Plans(asks, y)
  BY <1>3, <1>4, <1>6, <1>7, <1>8 DEF Plans
<1>10. Settles(m, asks, y)
  BY <1>6, <1>7 DEF Settles
<1> HIDE DEF n, a
<1>11. Plans(n, y) /\ Settles(m, n, y)
  BY <1>2, <1>5, <1>9, <1>10
<1> QED
  BY <1>11 DEF n

\* The results of the task that was live, on the record without it.
LEMMA DispatchedPlans ==
  ASSUME NEW m \in Machine, NEW y, Plans(m, y), NoneLive(m),
         NEW t \in Task, t.live, t.phase = "done", TaskPlan(m, t, y),
         NEW counted \in BOOLEAN, NEW saved \in BOOLEAN, NEW based \in BOOLEAN
  PROVE  LET n == Dispatched(m, t, counted, saved, based)
         IN  Plans(n, y) /\ Settles(m, n, y)
<1> DEFINE n == Dispatched(m, t, counted, saved, based)
<1>1. t.merged \in Catalog /\ t.seen \in Version
  BY DEF Task
<1>2. \A u \in m.tasks : u.live => ~FirstUpload(u)
  BY DEF NoneLive
<1>3. CASE t.result = "ready"
  <2>1. n = PreflightReady(m, t.merged, t.seen, counted, saved, based)
    BY <1>3 DEF Dispatched
  <2>2. m.rt.conflicts # None => t.seen.etag # 0
    BY <1>3 DEF TaskPlan
  <2> QED
    BY <1>1, <1>2, <2>1, <2>2, PreflightReadyPlans
<1>4. CASE t.result = "conflicts"
  <2>1. n = OfferConflicts(m, t) /\ t.seen.etag # 0
    BY <1>4 DEF Dispatched, TaskPlan
  <2> QED
    BY <2>1, OfferConflictsPlans
<1>5. CASE t.result = "uploaded"
  <2>1. n = Uploaded(m, t, saved, based)
    BY <1>5 DEF Dispatched
  <2>2. t.seen.etag = 0 /\ m.rt.activeGen = m.rt.localGen => t.merged = m.config
    BY <1>5 DEF TaskPlan, FirstUpload
  <2> QED
    BY <2>1, <2>2, UploadedPlans
<1>6. CASE t.result = "downloaded"
  <2>1. n = Downloaded(m, t, saved, based)
    BY <1>6 DEF Dispatched
  <2>2. m.rt.activeGen = m.rt.localGen => y = Entity
    BY <1>6 DEF TaskPlan
  <2> QED
    BY <2>1, <2>2, DownloadedPlans
<1>7. CASE t.result \notin {"ready", "conflicts", "uploaded", "downloaded"}
  <2> DEFINE r == RecordFailure(m.rt)
  <2>1. n = [m EXCEPT !.rt = r]
    BY <1>7 DEF Dispatched, Failed
  <2>2. Plans([m EXCEPT !.rt = r], y) /\ Settles(m, [m EXCEPT !.rt = r], y)
    BY AbandonPlans
  <2> QED
    BY <2>1, <2>2
<1> QED
  BY <1>3, <1>4, <1>5, <1>6, <1>7

\* What the user has yielded only helps.
LEMMA YieldedPlans ==
  ASSUME NEW m, NEW y, NEW z, Plans(m, y), y \subseteq z, z \subseteq Entity
  PROVE  Plans(m, z)
<1>1. y = Entity => z = Entity
  OBVIOUS
<1> QED
  BY <1>1 DEF Plans, TaskPlan

\* A handler that ends in m ends in a state with the same plans.
LEMMA BecomePlans ==
  ASSUME NEW m, NEW y, Plans(m, y), Become(m), yielded' = y
  PROVE  Plans(Here, yielded)'
BY DEF Become, Plans, TaskPlan, FirstUpload, Here, Generations

\* A new generation: no task carries it.
LEMMA NotedPlans ==
  ASSUME Plans(Here, yielded), UNCHANGED tasks, Generations(rt'),
         rt'.activeGen # rt'.localGen, rt'.conflicts \in {None, rt.conflicts}
  PROVE  Plans(Here, yielded)'
<1>1. Here.rt = rt /\ Here.tasks = tasks
  BY DEF Here
<1>2. (Here.rt = rt /\ Here.tasks = tasks)'
  BY DEF Here
<1>3. rt'.conflicts # None => rt'.conflicts.seen.etag # 0
  BY <1>1 DEF Plans
<1>4. \A t \in tasks :
        /\ t.phase # "done" => t.result = "none"
        /\ t.result = "conflicts" => t.seen.etag # 0
        /\ t.result = "downloaded" => t.kind = "restore"
        /\ t.live /\ rt'.conflicts # None =>
             t.phase = "fetch" \/ t.result = "failed" \/ t.seen.etag # 0
  BY <1>1 DEF Plans, TaskPlan
<1>5. (\A t \in tasks : TaskPlan(Here, t, yielded))'
  BY <1>2, <1>4 DEF TaskPlan
<1>6. Generations(rt)'
  BY DEF Generations
<1>7. (rt.conflicts # None => rt.conflicts.seen.etag # 0)'
  BY <1>3
<1> QED
  BY <1>2, <1>5, <1>6, <1>7 DEF Plans

\* A step of a task or of the server that goes on with the same task.
LEMMA ReplacedPlans ==
  ASSUME Plans(Here, yielded), NEW t \in tasks, NEW new, Replaced(t, new),
         TaskPlan(Here, new, yielded), UNCHANGED <<rt, config, yielded>>
  PROVE  Plans(Here, yielded)'
<1>1. Here.rt = rt /\ Here.tasks = tasks /\ Here.config = config
  BY DEF Here
<1>2. (Here.rt = rt /\ Here.tasks = tasks /\ Here.config = config)'
  BY DEF Here
<1> DEFINE Fits(u) ==
             /\ u.phase # "done" => u.result = "none"
             /\ u.result = "conflicts" => u.seen.etag # 0
             /\ u.result = "downloaded" => u.kind = "restore"
             /\ u.live /\ rt.activeGen = rt.localGen =>
                  /\ u.kind = "restore" => yielded = Entity
                  /\ FirstUpload(u) => u.merged = config
             /\ u.live /\ rt.conflicts # None =>
                  u.phase = "fetch" \/ u.result = "failed" \/ u.seen.etag # 0
<1>3. \A u \in (tasks \ {t}) \cup {new} : Fits(u)
  BY <1>1 DEF Plans, TaskPlan
<1>4. \A u \in tasks' : Fits(u)
  BY <1>3 DEF Replaced
<1>5. (\A u \in tasks : TaskPlan(Here, u, yielded))'
  BY <1>2, <1>4 DEF TaskPlan, FirstUpload
<1>6. (Generations(rt) /\ (rt.conflicts # None => rt.conflicts.seen.etag # 0))'
  BY <1>1 DEF Plans, Generations
<1> QED
  BY <1>2, <1>5, <1>6 DEF Plans

\* What leaves the runtime, the tasks and the configuration alone.
LEMMA SamePlans ==
  ASSUME Plans(Here, yielded), UNCHANGED <<rt, tasks, config, yielded>>
  PROVE  Plans(Here, yielded)'
BY DEF Plans, TaskPlan, FirstUpload, Here, Generations

\* The result of a download by the kind of the operation.
LEMMA FetchedPlan ==
  ASSUME TypeOK, NEW t \in tasks, t.phase = "fetch", t.result = "none"
  PROVE  /\ Fetched(t).live = t.live /\ Fetched(t).kind = t.kind
         /\ Fetched(t).result = "conflicts" => remote.etag # 0
         /\ Fetched(t).result = "downloaded" => t.kind = "restore"
<1>1. t \in Task
  BY DEF TypeOK
<1>2. t.kind \in {"upload", "restore"} /\ remote.etag \in Nat
  BY <1>1, VersionsTyped DEF Task, Version
<1> DEFINE found == [t EXCEPT !.phase = "done", !.seen = remote,
                              !.local = EmptyCatalog, !.base = None]
<1>3. /\ found.live = t.live /\ found.kind = t.kind /\ found.result = "none"
      /\ DOMAIN found = {"live", "kind", "phase", "result", "local", "base", "seen", "open",
                         "merged", "etag"}
  BY <1>1 DEF Task
<1>4. CASE remote.etag = 0
  <2>1. PICK result \in {"ready", "failed"} : Fetched(t) = [found EXCEPT !.result = result]
    BY <1>4 DEF Fetched
  <2> HIDE DEF found
  <2> QED
    BY <1>3, <2>1
<1>5. CASE remote.etag # 0 /\ t.kind = "restore"
  <2> DEFINE merged == Merged("Remote", t.local, remote.content)
  <2>1. Fetched(t) = [found EXCEPT !.result = "downloaded", !.merged = merged]
    BY <1>5 DEF Fetched
  <2> HIDE DEF merged, found
  <2> QED
    BY <1>3, <1>5, <2>1
<1>6. CASE remote.etag # 0 /\ t.kind = "upload" /\ t.base = None
  <2> DEFINE merged == Merged("Local", t.local, remote.content)
  <2>1. Fetched(t) = [found EXCEPT !.result = "ready", !.merged = merged]
    BY <1>6 DEF Fetched
  <2> HIDE DEF merged, found
  <2> QED
    BY <1>3, <1>6, <2>1
<1>7. CASE remote.etag # 0 /\ t.kind = "upload" /\ t.base # None
  <2> DEFINE open == Conflicts(t.base.content, t.local, remote.content)
             merged == Reconciled(t.base.content, t.local, remote.content)
             result == IF open = {} THEN "ready" ELSE "conflicts"
  <2>1. Fetched(t) = [found EXCEPT !.result = result, !.open = open, !.merged = merged]
    BY <1>7 DEF Fetched
  <2>2. result \in {"ready", "conflicts"}
    OBVIOUS
  <2> HIDE DEF open, merged, found, result
  <2>3. Fetched(t).result = result /\ Fetched(t).live = t.live /\ Fetched(t).kind = t.kind
    BY <1>3, <2>1
  <2> QED
    BY <1>7, <2>2, <2>3
<1> QED
  BY <1>2, <1>4, <1>5, <1>6, <1>7

\* A handler that settles the generations has nothing unsent left that the user
\* has not yielded.
LEMMA SettledIsSent ==
  ASSUME ChangeNeverForgotten, NEW m, m.rt.localGen = rt.localGen,
         HasUnsynced(m.rt) = HasUnsynced(rt),
         TypeOK, NEW n, NEW y \in SUBSET Entity, yielded \subseteq y, Settles(m, n, y),
         ~HasUnsynced(n.rt)
  PROVE  UnsentAfter(n) \subseteq y
<1>1. UnsentAfter(n) \subseteq unsent /\ unsent \subseteq Entity
  BY DEF UnsentAfter, TypeOK
<1>2. CASE ~HasUnsynced(m.rt)
  BY <1>1, <1>2 DEF ChangeNeverForgotten
<1>3. CASE Agreed(n)
  BY <1>3 DEF Agreed, UnsentAfter, SameContent
<1>4. CASE y = Entity
  BY <1>1, <1>4
<1> QED
  BY <1>2, <1>3, <1>4 DEF Settles

\* Every step keeps the plans and forgets no change: one case per action.
LEMMA NextForgetsNothing ==
  ASSUME "catalog" \notin Paths, TypeOK, KnownVersions, NeverWedged,
         Plans(Here, yielded), ChangeNeverForgotten, Next
  PROVE  Plans(Here, yielded)' /\ ChangeNeverForgotten'
<1>1. Here \in Machine /\ Owned(Here) /\ Here.rt = rt /\ Here.tasks = tasks
  BY TypeOKIsMachine DEF Owned, NeverWedged, Here
<1>2. Outcomes \subseteq BOOLEAN /\ Counted \subseteq BOOLEAN
  BY DEF Outcomes, Counted
<1>3. rt \in Runtime /\ Generations(rt) /\ yielded \subseteq Entity
  BY <1>1 DEF TypeOK, Plans
<1>4. UNCHANGED <<rt, unsent, yielded>> => ChangeNeverForgotten'
  BY DEF ChangeNeverForgotten
<1>5. ASSUME CommitBegin \/ WorkerCommits \/ OtherDeviceWrites \/ \E r \in wire : LatePut(r)
      PROVE  Plans(Here, yielded)' /\ ChangeNeverForgotten'
  <2>1. UNCHANGED <<rt, tasks, config, yielded, unsent>>
    BY <1>5 DEF CommitBegin, WorkerCommits, OtherDeviceWrites, LatePut, device
  <2> QED
    BY <1>4, <2>1, SamePlans
<1>6. ~CatalogEdit
  BY DEF CatalogEdit
<1>7. ASSUME CommitDone \/ RecordUsage PROVE Plans(Here, yielded)' /\ ChangeNeverForgotten'
  <2> DEFINE settled == [rt EXCEPT !.conflicts = None]
  <2>1. settled \in Runtime /\ Generations(settled) /\ settled.conflicts = None
    BY <1>3 DEF Runtime, Generations
  <2>2. \/ UNCHANGED <<rt, tasks, config, yielded, unsent>>
        \/ rt' \in {MarkLocalChange(settled), MarkLocalChange(rt)} /\ UNCHANGED tasks
    BY <1>7 DEF CommitDone, RecordUsage
  <2>3. CASE UNCHANGED <<rt, tasks, config, yielded, unsent>>
    BY <1>4, <2>3, SamePlans
  <2>4. CASE rt' \in {MarkLocalChange(settled), MarkLocalChange(rt)} /\ UNCHANGED tasks
    <3> HIDE DEF settled
    <3>1. \A r \in {settled, rt} :
            LET n == MarkLocalChange(r)
            IN  /\ Generations(n) /\ HasUnsynced(n) /\ n.activeGen # n.localGen
                /\ n.conflicts = r.conflicts
      BY <1>3, <2>1, RuntimeGenerations, RuntimeAsks
    <3>2. /\ Generations(rt') /\ HasUnsynced(rt') /\ rt'.activeGen # rt'.localGen
          /\ rt'.conflicts \in {None, rt.conflicts}
      BY <2>1, <2>4, <3>1
    <3>3. ChangeNeverForgotten'
      BY <3>2 DEF ChangeNeverForgotten, HasUnsynced
    <3> QED
      BY <2>4, <3>2, <3>3, NotedPlans
  <2> QED
    BY <2>2, <2>3, <2>4
<1>8. ASSUME NEW m, NEW y \in SUBSET Entity, Become(m), Plans(m, y), yielded' = y,
             yielded \subseteq y, UNCHANGED unsent, HasUnsynced(m.rt) = HasUnsynced(rt)
      PROVE  Plans(Here, yielded)' /\ ChangeNeverForgotten'
  <2>1. Plans(Here, yielded)'
    BY <1>8, BecomePlans
  <2>2. rt' = m.rt
    BY <1>8 DEF Become
  <2>3. HasUnsynced(rt)' = HasUnsynced(rt)
    BY <1>8, <2>2 DEF HasUnsynced
  <2>4. ChangeNeverForgotten'
    BY <1>8, <2>3 DEF ChangeNeverForgotten
  <2> QED
    BY <2>1, <2>4
<1>9. ASSUME AutomaticTrigger PROVE Plans(Here, yielded)' /\ ChangeNeverForgotten'
  <2>1. UNCHANGED <<yielded, unsent>>
        /\ \E saved \in Outcomes : Become(RequestAutomatic(Here, saved))
    BY <1>9 DEF AutomaticTrigger
  <2>2. PICK saved \in Outcomes : Become(RequestAutomatic(Here, saved))
    BY <2>1
  <2>3. /\ Plans(RequestAutomatic(Here, saved), yielded)
        /\ HasUnsynced(RequestAutomatic(Here, saved).rt) = HasUnsynced(rt)
    BY <1>1, <1>2, RequestAutomaticPlans, RequestAutomaticStores DEF Stores
  <2> QED
    BY <1>3, <1>8, <2>1, <2>2, <2>3
<1>10. ASSUME NEW kind \in {"upload", "restore"}, NEW saved \in Outcomes,
              Become(BeginOperation(Here, kind, saved)),
              UNCHANGED unsent, yielded' = IF kind = "restore" THEN Entity ELSE yielded
       PROVE  Plans(Here, yielded)' /\ ChangeNeverForgotten'
  <2> DEFINE y == IF kind = "restore" THEN Entity ELSE yielded
             m == BeginOperation(Here, kind, saved)
  <2>1. y \subseteq Entity /\ yielded \subseteq y /\ (kind = "restore" => y = Entity)
    BY <1>3
  <2>2. Become(m) /\ yielded' = y
    BY <1>10
  <2> HIDE DEF y
  <2>3. Plans(Here, y)
    BY <2>1, YieldedPlans
  <2>4. Plans(m, y) /\ HasUnsynced(m.rt) = HasUnsynced(rt)
    BY <1>1, <1>2, <2>1, <2>3, BeginOperationPlans, BeginOperationStores DEF Stores
  <2> HIDE DEF m
  <2> QED
    BY <1>8, <1>10, <2>1, <2>2, <2>4
<1>11. ASSUME ManualSync \/ ManualRestore PROVE Plans(Here, yielded)' /\ ChangeNeverForgotten'
  <2>1. \E kind \in {"upload", "restore"}, saved \in Outcomes :
          /\ Become(BeginOperation(Here, kind, saved)) /\ UNCHANGED unsent
          /\ yielded' = IF kind = "restore" THEN Entity ELSE yielded
    BY <1>11 DEF ManualSync, ManualRestore
  <2> QED
    BY <1>10, <2>1
<1>12. ASSUME NEW side \in {"Local", "Remote"}, NEW decided \in SUBSET Entity,
              rt.conflicts # None, Resolve(side, decided)
       PROVE  Plans(Here, yielded)' /\ ChangeNeverForgotten'
  <2> DEFINE pending == rt.conflicts
             open    == pending.open \ decided
             merged  == [e \in Entity |-> IF e \in decided /\ side = "Remote"
                                            THEN pending.seen.content[e]
                                            ELSE pending.merged[e]]
             r       == [rt EXCEPT !.conflicts = None]
             settled == [Here EXCEPT !.rt = r]
             y       == IF side = "Remote" THEN yielded \cup decided ELSE yielded
  <2>1. pending \in Pending /\ pending.seen.etag # 0
    BY <1>1, <1>3, <1>12 DEF Runtime, Plans
  <2>2. merged \in Catalog /\ pending.seen \in Version
    BY <2>1 DEF Pending, Version, Catalog
  <2>3. yielded' = y
    BY <1>12 DEF Resolve
  <2>4. y \subseteq Entity /\ yielded \subseteq y
    BY <1>3
  <2> HIDE DEF y
  <2>5. Plans(Here, y)
    BY <2>4, YieldedPlans
  <2>6. CASE open # {}
    <3>1. UNCHANGED <<tasks, config, unsent>>
      BY <1>12, <2>6 DEF Resolve
    <3>2. /\ rt'.conflicts.seen = rt.conflicts.seen
          /\ rt'.activeGen = rt.activeGen /\ rt'.localGen = rt.localGen
          /\ rt'.reconciledGen = rt.reconciledGen
      <4> DEFINE c == [pending EXCEPT !.open = open, !.merged = merged]
      <4>1. rt' = [rt EXCEPT !.conflicts = c]
        BY <1>3, <1>12, <2>6 DEF Resolve, Runtime
      <4>2. c.seen = pending.seen
        BY <2>1 DEF Pending
      <4> HIDE DEF c
      <4>3. /\ rt'.conflicts = c /\ rt'.activeGen = rt.activeGen
            /\ rt'.localGen = rt.localGen /\ rt'.reconciledGen = rt.reconciledGen
        BY <1>3, <4>1 DEF Runtime
      <4> QED
        BY <4>2, <4>3
    <3>3. ChangeNeverForgotten'
      BY <2>3, <2>4, <3>1, <3>2 DEF ChangeNeverForgotten, HasUnsynced
    <3>4. (Here.rt = rt /\ Here.tasks = tasks /\ Here.config = config)'
      BY DEF Here
    <3>5. Here.rt = rt /\ Here.tasks = tasks /\ Here.config = config
      BY DEF Here
    <3>6. (\A t \in tasks : TaskPlan(Here, t, yielded))'
      BY <1>12, <2>3, <2>5, <3>1, <3>2, <3>4, <3>5 DEF Plans, TaskPlan, FirstUpload
    <3>7. (Generations(rt) /\ (rt.conflicts # None => rt.conflicts.seen.etag # 0))'
      BY <1>3, <2>1, <3>2 DEF Generations
    <3>8. Plans(Here, yielded)'
      BY <3>4, <3>6, <3>7 DEF Plans
    <3> QED
      BY <3>3, <3>8
  <2>7. CASE open = {}
    <3> DEFINE after(c, s, b) == PreflightReady(settled, merged, pending.seen, c, s, b)
    <3>1. [Here EXCEPT !.rt.conflicts = None] = settled
      BY DEF Here
    <3>2. PICK counted \in Counted, saved \in Outcomes, based \in Outcomes :
            /\ Become(after(counted, saved, based))
            /\ unsent' = UnsentAfter(after(counted, saved, based))
      BY <1>12, <2>7, <3>1 DEF Resolve
    <3>3. /\ r \in Runtime /\ r.conflicts = None /\ r.activeGen = rt.activeGen
          /\ r.localGen = rt.localGen /\ r.reconciledGen = rt.reconciledGen
      BY <1>3 DEF Runtime
    <3>4. Generations(r) /\ HasUnsynced(r) = HasUnsynced(rt)
      BY <1>3, <3>3 DEF Generations, HasUnsynced
    <3> HIDE DEF r, merged
    <3>5. /\ settled \in Machine /\ settled.rt = r /\ settled.tasks = Here.tasks
          /\ settled.config = Here.config
      BY <1>1, <3>3 DEF Machine
    <3>6. \A t \in settled.tasks : t.live => ~FirstUpload(t)
      <4>1. \A t \in Here.tasks : t.live =>
              /\ t.phase # "done" => t.result = "none"
              /\ t.phase = "fetch" \/ t.result = "failed" \/ t.seen.etag # 0
        BY <1>1, <1>12 DEF Plans, TaskPlan
      <4> QED
        BY <3>5, <4>1 DEF FirstUpload
    <3> DEFINE n == after(counted, saved, based)
    <3> HIDE DEF settled
    <3>7. Plans(settled, y)
      BY <1>1, <2>5, <3>3, <3>4, <3>5, KeptPlans
    <3>8. Plans(n, y) /\ Settles(settled, n, y)
      BY <1>2, <2>2, <3>3, <3>5, <3>6, <3>7, PreflightReadyPlans
    <3>9. Become(n) /\ unsent' = UnsentAfter(n)
      BY <3>2
    <3> HIDE DEF n
    <3>10. Plans(Here, yielded)'
      BY <2>3, <3>8, <3>9, BecomePlans
    <3>11. ~HasUnsynced(n.rt) => UnsentAfter(n) \subseteq y
      BY <2>4, <3>3, <3>4, <3>5, <3>8, SettledIsSent
    <3>12. rt' = n.rt
      BY <3>9 DEF Become
    <3>13. ChangeNeverForgotten'
      BY <2>3, <3>9, <3>11, <3>12 DEF ChangeNeverForgotten, HasUnsynced
    <3> QED
      BY <3>10, <3>13
  <2> QED
    BY <2>6, <2>7
<1>13. ASSUME ResolveConflict PROVE Plans(Here, yielded)' /\ ChangeNeverForgotten'
  <2>1. rt.conflicts # None /\ rt.conflicts.open \subseteq Entity
    BY <1>3, <1>13 DEF ResolveConflict, Runtime, Pending
  <2>2. \E side \in {"Local", "Remote"}, decided \in SUBSET Entity : Resolve(side, decided)
    BY <1>13, <2>1 DEF ResolveConflict
  <2> QED
    BY <1>12, <2>1, <2>2
<1>14. ASSUME NEW t \in tasks, TaskFetches(t)
       PROVE  Plans(Here, yielded)' /\ ChangeNeverForgotten'
  <2> DEFINE new == Fetched(t)
  <2>1. /\ t.phase = "fetch" /\ Replaced(t, new)
        /\ UNCHANGED <<rt, config, yielded, unsent>>
    BY <1>14 DEF TaskFetches
  <2>2. t.result = "none" /\ TaskPlan(Here, t, yielded)
    BY <1>1, <2>1 DEF Plans, TaskPlan
  <2>3. /\ new.seen = remote /\ new.phase = "done" /\ new.result # "uploaded"
        /\ new.live = t.live /\ new.kind = t.kind
        /\ new.result = "conflicts" => remote.etag # 0
        /\ new.result = "downloaded" => t.kind = "restore"
    BY <2>1, <2>2, FetchedKnown, FetchedPlan
  <2>4. rt.conflicts # None => remote.etag # 0
    <3>1. rt.conflicts # None =>
            /\ rt.conflicts.seen.etag # 0 /\ rt.conflicts.seen.etag <= remote.etag
            /\ rt.conflicts.seen.etag \in Nat
      BY <1>1, VersionsTyped DEF Plans, KnownVersions, IsKnown, Version
    <3> QED
      BY <3>1, VersionsTyped DEF Version
  <2> HIDE DEF new
  <2>5. TaskPlan(Here, new, yielded)
    BY <1>1, <2>2, <2>3, <2>4 DEF TaskPlan, FirstUpload
  <2> QED
    BY <1>4, <2>1, <2>5, ReplacedPlans
<1>15. ASSUME NEW t \in tasks, TaskAnswered(t) \/ TaskFails(t)
       PROVE  Plans(Here, yielded)' /\ ChangeNeverForgotten'
  <2>1. t \in Task /\ TaskPlan(Here, t, yielded)
    BY <1>1 DEF TypeOK, Plans
  <2>2. PICK result \in {"uploaded", "failed"} :
          /\ result = "uploaded" => t.phase = "acked"
          /\ t.phase # "done"
          /\ Replaced(t, [t EXCEPT !.phase = "done", !.result = result])
    BY <1>15 DEF TaskAnswered, TaskFails
  <2> DEFINE new == [t EXCEPT !.phase = "done", !.result = result]
  <2>3. /\ new.phase = "done" /\ new.result = result
        /\ \A f \in {"live", "kind", "seen", "merged"} : new[f] = t[f]
    BY <2>1 DEF Task
  <2>4. Replaced(t, new)
    BY <2>2
  <2> HIDE DEF new
  <2>5. new.live = t.live /\ new.kind = t.kind /\ new.seen = t.seen /\ new.merged = t.merged
    BY <2>3
  <2>6. TaskPlan(Here, new, yielded)
    <3>1. FirstUpload(new) => FirstUpload(t)
      BY <2>2, <2>3, <2>5 DEF FirstUpload
    <3>2. result = "uploaded" => t.result = "none" /\ t.phase = "acked"
      BY <2>1, <2>2 DEF TaskPlan
    <3> QED
      BY <2>1, <2>2, <2>3, <2>5, <3>1, <3>2 DEF TaskPlan
  <2>7. UNCHANGED <<rt, config, yielded, unsent>>
    BY <1>15 DEF TaskAnswered, TaskFails
  <2> QED
    BY <1>4, <2>4, <2>6, <2>7, ReplacedPlans
<1>16. ASSUME NEW t \in tasks, ServerPuts(t)
       PROVE  Plans(Here, yielded)' /\ ChangeNeverForgotten'
  <2> DEFINE tag == remote.etag + 1
             acked == [t EXCEPT !.phase = "acked", !.etag = tag]
             refused == [t EXCEPT !.phase = "done", !.result = "failed"]
  <2>1. /\ t \in Task /\ TaskPlan(Here, t, yielded) /\ t.phase = "put"
        /\ UNCHANGED <<rt, config, yielded, unsent>>
    BY <1>1, <1>16 DEF TypeOK, Plans, ServerPuts
  <2>2. Replaced(t, acked) \/ Replaced(t, refused)
    BY <1>16 DEF ServerPuts
  <2>3. TaskPlan(Here, acked, yielded)
    <3>1. /\ acked.phase = "acked"
          /\ \A f \in {"live", "kind", "result", "seen", "merged"} : acked[f] = t[f]
      BY <2>1 DEF Task
    <3>2. /\ acked.live = t.live /\ acked.kind = t.kind /\ acked.result = t.result
          /\ acked.seen = t.seen /\ acked.merged = t.merged
      BY <3>1
    <3> HIDE DEF acked
    <3>3. FirstUpload(acked) => FirstUpload(t)
      BY <2>1, <3>2 DEF FirstUpload
    <3> QED
      BY <2>1, <3>1, <3>2, <3>3 DEF TaskPlan
  <2>4. TaskPlan(Here, refused, yielded)
    <3>1. /\ refused.phase = "done" /\ refused.result = "failed"
          /\ \A f \in {"live", "kind", "seen", "merged"} : refused[f] = t[f]
      BY <2>1 DEF Task
    <3>2. /\ refused.live = t.live /\ refused.kind = t.kind
          /\ refused.seen = t.seen /\ refused.merged = t.merged
      BY <3>1
    <3> HIDE DEF refused
    <3>3. ~FirstUpload(refused)
      BY <3>1 DEF FirstUpload
    <3> QED
      BY <2>1, <3>1, <3>2, <3>3 DEF TaskPlan
  <2> HIDE DEF acked, refused
  <2> QED
    BY <1>4, <2>1, <2>2, <2>3, <2>4, ReplacedPlans
<1>17. ASSUME NEW t \in tasks, HandleFinished(t)
       PROVE  Plans(Here, yielded)' /\ ChangeNeverForgotten'
  <2> DEFINE rest == tasks \ {t}
             n == [Here EXCEPT !.tasks = rest]
  <2>1. /\ t \in Task /\ TaskPlan(Here, t, yielded) /\ t.phase = "done"
        /\ n \in Machine /\ n.rt = rt /\ n.tasks = rest /\ n.config = config
        /\ UNCHANGED yielded
    BY <1>1, <1>17 DEF TypeOK, Here, Machine, Plans, HandleFinished
  <2>2. Here.config = config
    BY DEF Here
  <2>3. CASE ~t.live
    <3>1. Become(n) /\ UNCHANGED unsent
      BY <1>17, <2>3 DEF HandleFinished
    <3> HIDE DEF n
    <3>2. Plans(n, yielded)
      BY <1>1, <2>1, <2>2 DEF Plans, TaskPlan
    <3> QED
      BY <1>3, <1>8, <2>1, <3>1, <3>2
  <2>4. CASE t.live
    <3> DEFINE r == [rt EXCEPT !.inProgress = FALSE]
               idle == [n EXCEPT !.rt = r]
               result(c, s, b) == Dispatched(idle, t, c, s, b)
               after(c, s, b, s2) == ServePending(result(c, s, b), s2)
    <3>1. [n EXCEPT !.rt.inProgress = FALSE] = idle
      BY <2>1 DEF Here
    <3>2. PICK counted \in Counted, saved \in Outcomes, based \in Outcomes, saved2 \in Outcomes :
            /\ Become(after(counted, saved, based, saved2))
            /\ unsent' = UnsentAfter(after(counted, saved, based, saved2))
      BY <1>17, <2>4, <3>1 DEF HandleFinished
    <3>3. /\ r \in Runtime /\ r.inProgress = FALSE /\ r.conflicts = rt.conflicts
          /\ r.activeGen = rt.activeGen /\ r.localGen = rt.localGen
          /\ r.reconciledGen = rt.reconciledGen
      BY <1>3 DEF Runtime
    <3> HIDE DEF n, r
    <3>4. idle \in Machine /\ idle.rt = r /\ idle.tasks = rest /\ idle.config = config
      BY <2>1, <3>3 DEF Machine
    <3>5. Owned(idle) /\ NoneLive(idle)
      BY <2>4, <3>3, <3>4 DEF Owned, NeverWedged, NoneLive
    <3>6. Generations(r) /\ HasUnsynced(r) = HasUnsynced(rt)
      BY <1>3, <3>3 DEF Generations, HasUnsynced
    <3>7. Plans(idle, yielded) /\ TaskPlan(idle, t, yielded)
      BY <1>1, <2>1, <2>2, <3>3, <3>4, <3>6 DEF Plans, TaskPlan
    <3> DEFINE d == result(counted, saved, based)
               a == after(counted, saved, based, saved2)
    <3> HIDE DEF idle
    <3>8. d \in Machine /\ Owned(d)
      BY <1>2, <2>1, <3>4, <3>5, DispatchedTypeOK, DispatchedOwned
    <3>9. Plans(d, yielded) /\ Settles(idle, d, yielded)
      BY <1>2, <2>1, <2>4, <3>4, <3>5, <3>7, DispatchedPlans
    <3>10. a = ServePending(d, saved2) /\ Become(a) /\ unsent' = UnsentAfter(a)
      BY <3>2
    <3> HIDE DEF d, a
    <3>11. Plans(a, yielded) /\ Stores(d, a)
      BY <1>2, <3>8, <3>9, <3>10, ServePendingPlans, ServePendingStores
    <3>12. UnsentAfter(a) = UnsentAfter(d) /\ HasUnsynced(a.rt) = HasUnsynced(d.rt)
      BY <3>11 DEF Stores, UnsentAfter
    <3>13. ~HasUnsynced(d.rt) => UnsentAfter(d) \subseteq yielded
      BY <1>3, <3>3, <3>4, <3>6, <3>9, SettledIsSent
    <3>14. rt' = a.rt
      BY <3>10 DEF Become
    <3>15. ChangeNeverForgotten'
      <4>1. HasUnsynced(rt)' = HasUnsynced(a.rt)
        BY <3>14 DEF HasUnsynced
      <4> QED
        BY <2>1, <3>10, <3>12, <3>13, <4>1 DEF ChangeNeverForgotten
    <3>16. Plans(Here, yielded)'
      BY <2>1, <3>10, <3>11, BecomePlans
    <3> QED
      BY <3>15, <3>16
  <2> QED
    BY <2>3, <2>4
<1>18. ASSUME Crash PROVE Plans(Here, yielded)' /\ ChangeNeverForgotten'
  <2>1. tasks' = {} /\ rt' = FreshRuntime /\ unsent' = {}
    BY <1>18 DEF Crash
  <2>2. Generations(FreshRuntime) /\ FreshRuntime.conflicts = None
    BY DEF FreshRuntime, Generations
  <2>3. (Here.rt = rt /\ Here.tasks = tasks)'
    BY DEF Here
  <2>4. Plans(Here, yielded)'
    BY <2>1, <2>2, <2>3 DEF Plans, Generations
  <2>5. ChangeNeverForgotten'
    BY <2>1 DEF ChangeNeverForgotten
  <2> QED
    BY <2>4, <2>5
<1> QED
  BY <1>5, <1>6, <1>7, <1>9, <1>11, <1>13, <1>14, <1>15, <1>16, <1>17, <1>18 DEF Next, Step

\* The plans hold in every state, and nothing noted is forgotten.
LEMMA PlansInductive ==
  ASSUME "catalog" \notin Paths
  PROVE  Spec => [](Plans(Here, yielded) /\ ChangeNeverForgotten)
<1>1. Init => Plans(Here, yielded) /\ ChangeNeverForgotten
  <2> SUFFICES ASSUME Init PROVE Plans(Here, yielded) /\ ChangeNeverForgotten
    OBVIOUS
  <2>1. Here.tasks = {} /\ Here.rt = FreshRuntime /\ unsent = {}
    BY DEF Init, Here
  <2> QED
    BY <2>1 DEF Plans, Generations, FreshRuntime, ChangeNeverForgotten
<1>2. /\ TypeOK /\ Origin /\ KnownVersions /\ NeverWedged
      /\ Plans(Here, yielded) /\ ChangeNeverForgotten /\ [Next]_vars
      => (Plans(Here, yielded) /\ ChangeNeverForgotten)'
  <2> SUFFICES ASSUME TypeOK, KnownVersions, NeverWedged, Plans(Here, yielded),
                      ChangeNeverForgotten, [Next]_vars
               PROVE  Plans(Here, yielded)' /\ ChangeNeverForgotten'
    OBVIOUS
  <2>1. CASE Next
    BY <2>1, NextForgetsNothing
  <2>2. CASE UNCHANGED vars
    <3>1. UNCHANGED <<rt, tasks, config, yielded, unsent>>
      BY <2>2 DEF vars
    <3> QED
      BY <3>1, SamePlans DEF ChangeNeverForgotten
  <2> QED
    BY <2>1, <2>2
<1> QED
  BY <1>1, <1>2, KnownInductive, AlwaysOwned, PTL DEF Spec

\* When every change of the configuration is noted as it is made ("catalog",
\* the one way that does not, is the subject of a run of its own), then for
\* every number of entities, edits, writes and faults: the generations agree
\* only when everything noted is in the baseline or was yielded by the user.
THEOREM NothingForgotten ==
  ASSUME "catalog" \notin Paths
  PROVE  Spec => []ChangeNeverForgotten
<1>1. Spec => [](Plans(Here, yielded) /\ ChangeNeverForgotten)
  BY PlansInductive
<1> QED
  BY <1>1, PTL
-----------------------------------------------------------------------------
(* EditNeverLost, when every operation is an automatic upload and every    *)
(* change is noted.  A run of the newest generation has a merge that keeps *)
(* every content in which the configuration differs from the baseline, or, *)
(* before there is a merge, it still has both as they are now; what the    *)
(* user yields while conflicts are open is not claimed any more.           *)

\* The entity differs from the baseline.
Edited(m, e) ==
  m.baseline # None /\ ~SameContent(m.config[e], m.baseline.content[e])

\* The catalog keeps what differs, but for what is yielded.
Keeps(m, catalog, y) ==
  \A e \in Entity \ y : Edited(m, e) => SameContent(catalog[e], m.config[e])

\* What a task carries for the configuration.
TaskCarries(m, t, y) ==
  /\ t.kind = "upload" /\ t.result # "downloaded"
  /\ t.live =>
       /\ m.rt.conflicts = None /\ m.rt.activeGen # None
       /\ m.rt.activeGen = m.rt.localGen =>
            IF t.phase = "fetch" THEN t.local = m.config /\ t.base = m.baseline
            ELSE t.result # "failed" /\ t.seen.etag # 0 => Keeps(m, t.merged, y)

\* The same of the tasks and of the merge behind the open conflicts.
Carries(m, y) ==
  /\ \A t \in m.tasks : TaskCarries(m, t, y)
  /\ m.rt.conflicts # None =>
       /\ m.rt.activeGen # None
       /\ m.rt.activeGen = m.rt.localGen => Keeps(m, m.rt.conflicts.merged, y)

\* Every task is one of an upload.
AllUploads(m) == \A t \in m.tasks : t.kind = "upload" /\ t.result # "downloaded"

\* Without a live task and without conflicts nothing has to be carried.
LEMMA IdleCarries ==
  ASSUME NEW m, NEW y, AllUploads(m), NoneLive(m), m.rt.conflicts = None
  PROVE  Carries(m, y)
BY DEF AllUploads, NoneLive, Carries, TaskCarries

\* A yielded entity is not claimed any more.
LEMMA YieldedCarries ==
  ASSUME NEW m, NEW y, NEW z, Carries(m, y), y \subseteq z
  PROVE  Carries(m, z)
<1>1. \A c : Keeps(m, c, y) => Keeps(m, c, z)
  BY DEF Keeps
<1> QED
  BY <1>1 DEF Carries, TaskCarries

\* Only the generations, the conflicts, the tasks, the configuration and the
\* baseline matter.
LEMMA SameCarries ==
  ASSUME NEW m, NEW n, NEW y, Carries(m, y), n.tasks = m.tasks, n.config = m.config,
         n.baseline = m.baseline, n.rt.conflicts = m.rt.conflicts,
         n.rt.activeGen = m.rt.activeGen, n.rt.localGen = m.rt.localGen
  PROVE  Carries(n, y)
BY DEF Carries, TaskCarries, Keeps, Edited

\* The new task is the only live one.
LEMMA StartCarries ==
  ASSUME NEW m \in Machine, NEW y, AllUploads(m), m.rt.conflicts = None,
         NEW task, TaskCarries(m, task, y)
  PROVE  Carries(Start(m, task), y)
<1> DEFINE disowned == {[t EXCEPT !.live = FALSE] : t \in {u \in m.tasks : u.phase = "done"}}
           n == Start(m, task)
<1>1. \A t \in m.tasks : LET u == [t EXCEPT !.live = FALSE]
                         IN  u.live = FALSE /\ u.kind = t.kind /\ u.result = t.result
  BY DEF Machine, Task
<1>2. \A u \in disowned : ~u.live /\ u.kind = "upload" /\ u.result # "downloaded"
  BY <1>1 DEF AllUploads
<1>3. /\ n.tasks = disowned \cup {task} /\ n.rt = m.rt /\ n.config = m.config
      /\ n.baseline = m.baseline
  BY DEF Start, Machine
<1> HIDE DEF disowned, n
<1>4. TaskCarries(n, task, y)
  BY <1>3 DEF TaskCarries, Keeps, Edited
<1>5. \A u \in disowned : TaskCarries(n, u, y)
  BY <1>2 DEF TaskCarries
<1>6. Carries(n, y)
  BY <1>3, <1>4, <1>5 DEF Carries
<1> QED
  BY <1>6 DEF n

\* begin_sync of an upload: the task has the configuration and the baseline.
LEMMA BeginOperationCarries ==
  ASSUME NEW m \in Machine, NEW y, Owned(m), Carries(m, y), m.rt.conflicts = None,
         NEW saved \in BOOLEAN
  PROVE  Carries(BeginOperation(m, "upload", saved), y)
<1> DEFINE started == [m.rt EXCEPT !.inProgress = TRUE]
           r == BeginReconciliation(started)
           b == [m EXCEPT !.disk = m.config, !.rt = r]
           task == FetchTask("upload", m.config, m.baseline)
<1>1. m.rt \in Runtime
  BY MachineUpdates
<1>2. /\ r \in Runtime /\ r.conflicts = None /\ r.activeGen # None
  <2>1. None \notin Nat
    BY CoordinatorAssumption
  <2> QED
    BY <1>1, <2>1 DEF Runtime, BeginReconciliation
<1>3. \/ BeginOperation(m, "upload", saved) = m
      \/ BeginOperation(m, "upload", saved) = Start(b, task)
  BY DEF BeginOperation
<1> HIDE DEF r
<1>4. /\ b \in Machine /\ b.rt = r /\ b.tasks = m.tasks /\ b.config = m.config
      /\ b.baseline = m.baseline
  BY <1>2 DEF Machine
<1>5. /\ task.kind = "upload" /\ task.result = "none" /\ task.phase = "fetch"
      /\ task.local = m.config /\ task.base = m.baseline
  BY DEF FetchTask
<1> HIDE DEF b, task
<1>6. TaskCarries(b, task, y)
  BY <1>2, <1>4, <1>5 DEF TaskCarries
<1>7. AllUploads(b)
  BY <1>4 DEF AllUploads, Carries, TaskCarries
<1>8. Carries(Start(b, task), y)
  BY <1>2, <1>4, <1>6, <1>7, StartCarries
<1> QED
  BY <1>3, <1>8

\* request_automatic_sync
LEMMA RequestAutomaticCarries ==
  ASSUME NEW m \in Machine, NEW y, Owned(m), Carries(m, y), NEW saved \in BOOLEAN
  PROVE  Carries(RequestAutomatic(m, saved), y)
<1> DEFINE p == [m.rt EXCEPT !.pendingAutomatic = TRUE]
           waits == [m EXCEPT !.rt = p]
           r == BeginReconciliation(m.rt)
           begun == [m EXCEPT !.rt = r]
<1>1. m.rt \in Runtime
  BY MachineUpdates
<1>2. CASE RequestAutomatic(m, saved) = m
  BY <1>2
<1>3. CASE RequestAutomatic(m, saved) = [m EXCEPT !.rt.pendingAutomatic = TRUE]
  <2>1. RequestAutomatic(m, saved) = waits
    BY <1>3 DEF Machine
  <2>2. /\ p.conflicts = m.rt.conflicts /\ p.activeGen = m.rt.activeGen
        /\ p.localGen = m.rt.localGen
    BY <1>1 DEF Runtime
  <2> HIDE DEF p
  <2>3. /\ waits.rt = p /\ waits.tasks = m.tasks /\ waits.config = m.config
        /\ waits.baseline = m.baseline
    BY DEF Machine
  <2> HIDE DEF waits
  <2> QED
    BY <2>1, <2>2, <2>3, SameCarries
<1>4. CASE "automatic" \in Paths /\ m.rt.conflicts = None /\ ~m.rt.inProgress
  <2>1. /\ r \in Runtime /\ r.conflicts = None /\ r.inProgress = m.rt.inProgress
    BY <1>1, <1>4, RuntimeSteps, RuntimeAsks, RuntimeQuiet
  <2>2. RequestAutomatic(m, saved) = BeginOperation(begun, "upload", saved)
    BY <1>4 DEF RequestAutomatic
  <2> HIDE DEF r
  <2>3. /\ begun \in Machine /\ begun.rt = r /\ begun.tasks = m.tasks
    BY <2>1 DEF Machine
  <2>4. NoneLive(m)
    BY <1>4, IdleNoneLive
  <2>5. Owned(begun)
    BY <2>1, <2>3, QuietOwned DEF Quiet
  <2>6. AllUploads(begun) /\ NoneLive(begun)
    BY <2>3, <2>4 DEF AllUploads, NoneLive, Carries, TaskCarries
  <2> HIDE DEF begun
  <2>7. Carries(begun, y)
    BY <2>1, <2>3, <2>6, IdleCarries
  <2> QED
    BY <2>1, <2>2, <2>3, <2>5, <2>7, BeginOperationCarries
<1> QED
  BY <1>2, <1>3, <1>4 DEF RequestAutomatic

\* The pending automatic run.
LEMMA ServePendingCarries ==
  ASSUME NEW m \in Machine, NEW y, Owned(m), Carries(m, y), NEW saved \in BOOLEAN
  PROVE  Carries(ServePending(m, saved), y)
<1> DEFINE p == [m.rt EXCEPT !.pendingAutomatic = FALSE]
           served == [m EXCEPT !.rt = p]
<1>1. m.rt \in Runtime
  BY MachineUpdates
<1>2. /\ p \in Runtime /\ p.conflicts = m.rt.conflicts /\ p.activeGen = m.rt.activeGen
      /\ p.localGen = m.rt.localGen /\ p.inProgress = m.rt.inProgress
  BY <1>1 DEF Runtime
<1>3. [m EXCEPT !.rt.pendingAutomatic = FALSE] = served
  BY DEF Machine
<1>4. ServePending(m, saved) = m \/ ServePending(m, saved) = RequestAutomatic(served, saved)
  BY <1>3 DEF ServePending
<1> HIDE DEF p
<1>5. /\ served \in Machine /\ served.rt = p /\ served.tasks = m.tasks
      /\ served.config = m.config /\ served.baseline = m.baseline
  BY <1>2 DEF Machine
<1> HIDE DEF served
<1>6. Carries(served, y) /\ Owned(served)
  BY <1>2, <1>5, SameCarries, QuietOwned DEF Quiet
<1> QED
  BY <1>4, <1>5, <1>6, RequestAutomaticCarries

\* The configuration keeps what differs in it.
LEMMA ConfigKeeps ==
  ASSUME NEW m, NEW y
  PROVE  Keeps(m, m.config, y)
BY DEF Keeps, SameContent

\* handle_sync_reconciled
LEMMA AdoptReconciledCarries ==
  ASSUME NEW m \in Machine, NEW y, AllUploads(m), NoneLive(m), m.rt.conflicts = None,
         NEW merged \in Catalog, NEW seen \in Version, Keeps(m, merged, y),
         NEW saved \in BOOLEAN, NEW based \in BOOLEAN
  PROVE  LET n == AdoptReconciled(m, merged, seen, saved, based)
         IN  Carries(n, y) /\ Keeps(m, n.config, y)
<1> DEFINE n == AdoptReconciled(m, merged, seen, saved, based)
           r == RecordSuccess(m.rt)
<1>1. r.conflicts = None
  BY MachineUpdates, RuntimeAsks
<1>2. n.tasks = m.tasks /\ n.rt \in {m.rt, r} /\ n.config = merged
  BY DEF AdoptReconciled, Machine
<1> HIDE DEF n, r
<1>3. AllUploads(n) /\ NoneLive(n) /\ n.rt.conflicts = None
  BY <1>1, <1>2 DEF AllUploads, NoneLive
<1> QED
  BY <1>2, <1>3, IdleCarries DEF n

\* continue_sync_upload
LEMMA ContinueUploadCarries ==
  ASSUME NEW m \in Machine, NEW y, AllUploads(m), m.rt.conflicts = None,
         m.rt.activeGen # None, NEW merged \in Catalog, NEW seen \in Version,
         seen.etag # 0 => Keeps(m, merged, y)
  PROVE  LET n == ContinueUpload(m, merged, seen)
         IN  Carries(n, y) /\ Keeps(m, n.config, y)
<1> DEFINE r == [m.rt EXCEPT !.inProgress = TRUE]
           s == [m EXCEPT !.rt = r]
           task == PutTask(IF seen.etag = 0 THEN m.config ELSE merged, seen)
           n == ContinueUpload(m, merged, seen)
<1>1. /\ r \in Runtime /\ r.conflicts = m.rt.conflicts /\ r.activeGen = m.rt.activeGen
      /\ r.localGen = m.rt.localGen
  <2>1. m.rt \in Runtime
    BY MachineUpdates
  <2> QED
    BY <2>1 DEF Runtime
<1>2. n = Start(s, task)
  BY DEF ContinueUpload, Machine
<1> HIDE DEF r
<1>3. /\ s \in Machine /\ s.rt = r /\ s.tasks = m.tasks /\ s.config = m.config
      /\ s.baseline = m.baseline
  BY <1>1 DEF Machine
<1>4. /\ task.phase = "put" /\ task.result = "none" /\ task.kind = "upload"
      /\ task.seen = seen /\ (seen.etag # 0 => task.merged = merged)
  BY DEF PutTask
<1> HIDE DEF s, task
<1>5. AllUploads(s)
  BY <1>3 DEF AllUploads
<1>6. TaskCarries(s, task, y)
  BY <1>1, <1>3, <1>4 DEF TaskCarries, Keeps, Edited
<1>7. n.config = m.config
  BY <1>2, <1>3 DEF Start, Machine
<1>8. Carries(n, y)
  BY <1>1, <1>2, <1>3, <1>5, <1>6, StartCarries
<1> HIDE DEF n
<1>9. Keeps(m, n.config, y)
  BY <1>7, ConfigKeeps
<1> QED
  BY <1>8, <1>9 DEF n

\* Giving the generation up, for a newer one or after a failure.
LEMMA AbandonCarries ==
  ASSUME NEW m \in Machine, NEW y, AllUploads(m), NoneLive(m), m.rt.conflicts = None,
         NEW r \in {AbandonReconciliation(m.rt), RecordFailure(m.rt)}
  PROVE  LET n == [m EXCEPT !.rt = r]
         IN  Carries(n, y) /\ Keeps(m, n.config, y)
<1> DEFINE n == [m EXCEPT !.rt = r]
<1>1. r.conflicts = None
  BY MachineUpdates, RuntimeAsks
<1>2. n.tasks = m.tasks /\ n.rt = r /\ n.config = m.config
  BY DEF Machine
<1> HIDE DEF n
<1>3. AllUploads(n) /\ NoneLive(n) /\ n.rt.conflicts = None
  BY <1>1, <1>2 DEF AllUploads, NoneLive
<1>4. Carries(n, y) /\ Keeps(m, n.config, y)
  BY <1>2, <1>3, IdleCarries, ConfigKeeps
<1> QED
  BY <1>4 DEF n

\* A run that is not stale and still has its generation has the newest one.
LEMMA NotStale ==
  ASSUME NEW r, r.activeGen # None, ~IsStale(r)
  PROVE  r.activeGen = r.localGen
BY DEF IsStale

\* handle_sync_upload_preflight_ready, from a result or from the last decision.
LEMMA PreflightReadyCarries ==
  ASSUME NEW m \in Machine, NEW y, AllUploads(m), NoneLive(m), m.rt.conflicts = None,
         m.rt.activeGen # None, NEW merged \in Catalog, NEW seen \in Version,
         m.rt.activeGen = m.rt.localGen /\ seen.etag # 0 => Keeps(m, merged, y),
         NEW counted \in BOOLEAN, NEW saved \in BOOLEAN, NEW based \in BOOLEAN
  PROVE  LET n == PreflightReady(m, merged, seen, counted, saved, based)
         IN  Carries(n, y) /\ Keeps(m, n.config, y)
<1> DEFINE n == PreflightReady(m, merged, seen, counted, saved, based)
<1>1. CASE IsStale(m.rt)
  <2>1. n = [m EXCEPT !.rt = AbandonReconciliation(m.rt)]
    BY <1>1 DEF PreflightReady
  <2> QED
    BY <2>1, AbandonCarries
<1>2. CASE ~IsStale(m.rt) /\ seen.etag # 0 /\ merged = seen.content /\ ~counted
  <2>1. n = AdoptReconciled(m, merged, seen, saved, based)
    BY <1>2 DEF PreflightReady
  <2> QED
    BY <1>2, <2>1, NotStale, AdoptReconciledCarries
<1>3. CASE ~IsStale(m.rt) /\ ~(seen.etag # 0 /\ merged = seen.content /\ ~counted)
  <2>1. n = ContinueUpload(m, merged, seen)
    BY <1>3 DEF PreflightReady
  <2>2. seen.etag # 0 => Keeps(m, merged, y)
    BY <1>3, NotStale
  <2> HIDE DEF n
  <2>3. Carries(n, y) /\ Keeps(m, n.config, y)
    BY <2>1, <2>2, ContinueUploadCarries
  <2> QED
    BY <2>3 DEF n
<1> QED
  BY <1>1, <1>2, <1>3

\* handle_sync_reconciliation_conflicts
LEMMA OfferConflictsCarries ==
  ASSUME NEW m \in Machine, NEW y, AllUploads(m), NoneLive(m), m.rt.conflicts = None,
         m.rt.activeGen # None, NEW t \in Task,
         m.rt.activeGen = m.rt.localGen => Keeps(m, t.merged, y)
  PROVE  LET n == OfferConflicts(m, t)
         IN  Carries(n, y) /\ Keeps(m, n.config, y)
<1> DEFINE n == OfferConflicts(m, t)
           pending == [open |-> t.open, merged |-> t.merged, seen |-> t.seen]
           r == [m.rt EXCEPT !.conflicts = pending]
           asks == [m EXCEPT !.rt = r]
<1>1. CASE IsStale(m.rt)
  <2>1. n = [m EXCEPT !.rt = AbandonReconciliation(m.rt)]
    BY <1>1 DEF OfferConflicts
  <2> QED
    BY <2>1, AbandonCarries
<1>2. CASE ~IsStale(m.rt)
  <2>1. n = asks
    BY <1>2 DEF OfferConflicts, Machine
  <2>2. pending.merged = t.merged
    OBVIOUS
  <2> HIDE DEF pending
  <2>3. /\ r.conflicts = pending /\ r.activeGen = m.rt.activeGen
        /\ r.localGen = m.rt.localGen
    BY MachineUpdates DEF Runtime
  <2> HIDE DEF r
  <2>4. /\ asks.rt = r /\ asks.tasks = m.tasks /\ asks.config = m.config
        /\ asks.baseline = m.baseline
    BY DEF Machine
  <2> HIDE DEF asks, n
  <2>5. \A u \in asks.tasks : TaskCarries(asks, u, y)
    BY <2>4 DEF AllUploads, NoneLive, TaskCarries
  <2>6. asks.rt.activeGen = asks.rt.localGen => Keeps(asks, asks.rt.conflicts.merged, y)
    BY <2>2, <2>3, <2>4 DEF Keeps, Edited
  <2>7. Carries(asks, y)
    BY <2>3, <2>4, <2>5, <2>6 DEF Carries
  <2>8. Keeps(m, n.config, y)
    BY <2>1, <2>4, ConfigKeeps
  <2> QED
    BY <2>1, <2>7, <2>8 DEF n
<1> QED
  BY <1>1, <1>2

\* handle_sync_uploaded
LEMMA UploadedCarries ==
  ASSUME NEW m \in Machine, NEW y, AllUploads(m), NoneLive(m), m.rt.conflicts = None,
         m.rt.activeGen # None, NEW t \in Task,
         m.rt.activeGen = m.rt.localGen /\ t.seen.etag # 0 => Keeps(m, t.merged, y),
         NEW saved \in BOOLEAN, NEW based \in BOOLEAN
  PROVE  LET n == Uploaded(m, t, saved, based)
         IN  Carries(n, y) /\ Keeps(m, n.config, y)
<1> DEFINE n == Uploaded(m, t, saved, based)
           r == RecordSuccess(m.rt)
<1>1. r.conflicts = None
  BY MachineUpdates, RuntimeAsks
<1>2. /\ n.tasks = m.tasks /\ n.rt \in {m.rt, r}
      /\ \/ n.config = m.config
         \/ ~IsStale(m.rt) /\ t.seen.etag # 0 /\ n.config = t.merged
  BY DEF Uploaded, Machine
<1> HIDE DEF n, r
<1>3. AllUploads(n) /\ NoneLive(n) /\ n.rt.conflicts = None
  BY <1>1, <1>2 DEF AllUploads, NoneLive
<1>4. Carries(n, y)
  BY <1>3, IdleCarries
<1>5. Keeps(m, n.config, y)
  BY <1>2, NotStale, ConfigKeeps
<1> QED
  BY <1>4, <1>5 DEF n

\* The results of the task that was live, on the record without it.
LEMMA DispatchedCarries ==
  ASSUME NEW m \in Machine, NEW y, AllUploads(m), NoneLive(m), m.rt.conflicts = None,
         m.rt.activeGen # None, NEW t \in Task, t.result # "downloaded",
         t.result = "conflicts" => t.seen.etag # 0,
         m.rt.activeGen = m.rt.localGen /\ t.result # "failed" /\ t.seen.etag # 0 =>
           Keeps(m, t.merged, y),
         NEW counted \in BOOLEAN, NEW saved \in BOOLEAN, NEW based \in BOOLEAN
  PROVE  LET n == Dispatched(m, t, counted, saved, based)
         IN  Carries(n, y) /\ Keeps(m, n.config, y)
<1> DEFINE n == Dispatched(m, t, counted, saved, based)
<1>1. t.merged \in Catalog /\ t.seen \in Version
  BY DEF Task
<1>2. CASE t.result = "ready"
  <2>1. n = PreflightReady(m, t.merged, t.seen, counted, saved, based)
    BY <1>2 DEF Dispatched
  <2> QED
    BY <1>1, <1>2, <2>1, PreflightReadyCarries
<1>3. CASE t.result = "conflicts"
  <2>1. n = OfferConflicts(m, t)
    BY <1>3 DEF Dispatched
  <2> QED
    BY <1>3, <2>1, OfferConflictsCarries
<1>4. CASE t.result = "uploaded"
  <2>1. n = Uploaded(m, t, saved, based)
    BY <1>4 DEF Dispatched
  <2> QED
    BY <1>4, <2>1, UploadedCarries
<1>5. CASE t.result \notin {"ready", "conflicts", "uploaded"}
  <2>1. n = [m EXCEPT !.rt = RecordFailure(m.rt)]
    BY <1>5 DEF Dispatched, Failed
  <2> QED
    BY <2>1, AbandonCarries
<1> QED
  BY <1>2, <1>3, <1>4, <1>5

\* A handler that ends in m ends in a state that carries the same.
LEMMA BecomeCarries ==
  ASSUME NEW m, NEW y, Carries(m, y), Become(m), yielded' = y
  PROVE  Carries(Here, yielded)'
BY DEF Become, Carries, TaskCarries, Keeps, Edited, Here

\* What leaves the generations, the tasks, the configuration and the baseline
\* alone.
LEMMA UnchangedCarries ==
  ASSUME Carries(Here, yielded), UNCHANGED <<rt, tasks, config, baseline, yielded>>
  PROVE  Carries(Here, yielded)'
BY DEF Carries, TaskCarries, Keeps, Edited, Here

\* A new generation: no task carries it.
LEMMA NotedCarries ==
  ASSUME Carries(Here, yielded), UNCHANGED tasks, rt'.activeGen = rt.activeGen,
         rt'.activeGen # rt'.localGen, rt'.conflicts \in {None, rt.conflicts}
  PROVE  Carries(Here, yielded)'
<1>1. Here.rt = rt /\ Here.tasks = tasks
  BY DEF Here
<1>2. (Here.rt = rt /\ Here.tasks = tasks)'
  BY DEF Here
<1>3. \A t \in tasks :
        /\ t.kind = "upload" /\ t.result # "downloaded"
        /\ t.live => rt'.conflicts = None /\ rt'.activeGen # None
  BY <1>1 DEF Carries, TaskCarries
<1>4. (\A t \in tasks : TaskCarries(Here, t, yielded))'
  BY <1>2, <1>3 DEF TaskCarries
<1>5. rt'.conflicts # None => rt'.activeGen # None
  BY <1>1 DEF Carries
<1> QED
  BY <1>2, <1>4, <1>5 DEF Carries

\* A step of a task or of the server that goes on with the same task.
LEMMA ReplacedCarries ==
  ASSUME Carries(Here, yielded), NEW t \in tasks, NEW new, Replaced(t, new),
         TaskCarries(Here, new, yielded), UNCHANGED <<rt, config, baseline, yielded>>
  PROVE  Carries(Here, yielded)'
<1>1. /\ Here.rt = rt /\ Here.tasks = tasks /\ Here.config = config
      /\ Here.baseline = baseline
  BY DEF Here
<1>2. (/\ Here.rt = rt /\ Here.tasks = tasks /\ Here.config = config
       /\ Here.baseline = baseline)'
  BY DEF Here
<1> DEFINE Kept(c) == \A e \in Entity \ yielded :
                        baseline # None /\ ~SameContent(config[e], baseline.content[e])
                          => SameContent(c[e], config[e])
           Fits(u) ==
             /\ u.kind = "upload" /\ u.result # "downloaded"
             /\ u.live =>
                  /\ rt.conflicts = None /\ rt.activeGen # None
                  /\ rt.activeGen = rt.localGen =>
                       IF u.phase = "fetch" THEN u.local = config /\ u.base = baseline
                       ELSE u.result # "failed" /\ u.seen.etag # 0 => Kept(u.merged)
<1>3. \A u \in (tasks \ {t}) \cup {new} : Fits(u)
  BY <1>1 DEF Carries, TaskCarries, Keeps, Edited
<1>4. \A u \in tasks' : Fits(u)
  BY <1>3 DEF Replaced
<1>5. (\A u \in tasks : TaskCarries(Here, u, yielded))'
  BY <1>2, <1>4 DEF TaskCarries, Keeps, Edited
<1>6. (rt.conflicts # None =>
        /\ rt.activeGen # None
        /\ rt.activeGen = rt.localGen => Keeps(Here, rt.conflicts.merged, yielded))'
  BY <1>1, <1>2 DEF Carries, Keeps, Edited
<1> QED
  BY <1>2, <1>5, <1>6 DEF Carries

\* The merge of a download keeps what differs from the baseline.
LEMMA FetchedCarries ==
  ASSUME TypeOK, NEW t \in tasks, t.phase = "fetch", t.result = "none",
         TaskCarries(Here, t, yielded)
  PROVE  TaskCarries(Here, Fetched(t), yielded)
<1> DEFINE new == Fetched(t)
<1>1. t \in Task /\ remote \in Version /\ t.kind = "upload"
  BY DEF TypeOK, TaskCarries
<1>2. new.live = t.live /\ new.kind = t.kind /\ new.phase = "done"
      /\ new.seen = remote /\ new.result # "downloaded"
  BY <1>1, FetchedPlan, FetchedKnown
<1>3. Here.config = config /\ Here.baseline = baseline /\ Here.rt = rt
  BY DEF Here
<1>4. ASSUME t.local = config, t.base = baseline, remote.etag # 0
      PROVE  Keeps(Here, new.merged, yielded)
  <2>1. CASE baseline = None
    BY <1>3, <2>1 DEF Keeps, Edited
  <2>2. CASE baseline # None
    <3> DEFINE open == Conflicts(t.base.content, t.local, remote.content)
               merged == Reconciled(t.base.content, t.local, remote.content)
               found == [t EXCEPT !.phase = "done", !.seen = remote,
                                  !.local = EmptyCatalog, !.base = None]
               result == IF open = {} THEN "ready" ELSE "conflicts"
    <3>1. new = [found EXCEPT !.result = result, !.open = open, !.merged = merged]
      BY <1>1, <1>4, <2>2 DEF Fetched
    <3>2. DOMAIN found = {"live", "kind", "phase", "result", "local", "base", "seen", "open",
                          "merged", "etag"}
      BY <1>1 DEF Task
    <3>3. \A e \in Entity : merged[e] = Selected(baseline.content[e], config[e], remote.content[e])
      BY <1>4 DEF Reconciled
    <3> HIDE DEF open, merged, found, result, new
    <3>4. new.merged = merged
      BY <3>1, <3>2
    <3>5. Keeps(Here, merged, yielded)
      BY <1>3, <3>3 DEF Keeps, Edited, Selected, SameContent
    <3> QED
      BY <3>4, <3>5
  <2> QED
    BY <2>1, <2>2
<1> HIDE DEF new
<1>5. TaskCarries(Here, new, yielded)
  BY <1>1, <1>2, <1>3, <1>4 DEF TaskCarries
<1> QED
  BY <1>5 DEF new

\* What one step may not do to a recorded edit.
EditKept ==
  edits' = edits /\ crashes' = crashes /\ commit' = commit =>
    \A e \in LocalEdits \ yielded' : SameContent(config'[e], config[e])

\* A configuration that keeps what differs loses no edit.
LEMMA KeepsIsKept ==
  ASSUME NEW c, NEW y, Keeps(Here, c, y), config' = c, yielded' = y
  PROVE  EditKept
BY DEF Keeps, Edited, EditKept, LocalEdits, Here

\* Every step of an automatic run keeps what the runs carry and loses no edit:
\* one case per action.
LEMMA NextKeepsEdits ==
  ASSUME Paths \cap {"catalog", "manual", "restore"} = {}, TypeOK, NeverWedged,
         Plans(Here, yielded), Carries(Here, yielded), Next
  PROVE  Carries(Here, yielded)' /\ EditKept
<1>1. Here \in Machine /\ Owned(Here) /\ Here.rt = rt /\ Here.tasks = tasks
      /\ Here.config = config /\ Here.baseline = baseline
  BY TypeOKIsMachine DEF Owned, NeverWedged, Here
<1>2. Outcomes \subseteq BOOLEAN /\ Counted \subseteq BOOLEAN
  BY DEF Outcomes, Counted
<1>3. rt \in Runtime /\ Generations(rt) /\ yielded \subseteq Entity
  BY <1>1 DEF TypeOK, Plans
<1>4. AllUploads(Here)
  BY DEF AllUploads, Carries, TaskCarries
<1>5. config' = config => EditKept
  BY DEF EditKept, SameContent
<1>6. ASSUME CommitBegin \/ WorkerCommits \/ OtherDeviceWrites \/ \E r \in wire : LatePut(r)
      PROVE  Carries(Here, yielded)' /\ EditKept
  <2>1. UNCHANGED <<rt, tasks, config, baseline, yielded>>
    BY <1>6 DEF CommitBegin, WorkerCommits, OtherDeviceWrites, LatePut, device
  <2> QED
    BY <1>5, <2>1, UnchangedCarries
<1>7. ~CatalogEdit /\ ~ManualSync /\ ~ManualRestore
  BY DEF CatalogEdit, ManualSync, ManualRestore
<1>8. ASSUME CommitDone \/ RecordUsage PROVE Carries(Here, yielded)' /\ EditKept
  <2> DEFINE settled == [rt EXCEPT !.conflicts = None]
  <2>1. settled \in Runtime /\ Generations(settled) /\ settled.conflicts = None
        /\ settled.activeGen = rt.activeGen
    BY <1>3 DEF Runtime, Generations
  <2>2. EditKept
    <3>1. CASE CommitDone
      <4>1. commit' # commit
        BY <3>1 DEF CommitDone
      <4> QED
        BY <4>1 DEF EditKept
    <3>2. CASE RecordUsage
      BY <1>5, <3>2 DEF RecordUsage
    <3> QED
      BY <1>8, <3>1, <3>2
  <2>3. \/ UNCHANGED <<rt, tasks, config, baseline, yielded>>
        \/ rt' \in {MarkLocalChange(settled), MarkLocalChange(rt)} /\ UNCHANGED tasks
    BY <1>8 DEF CommitDone, RecordUsage
  <2>4. CASE UNCHANGED <<rt, tasks, config, baseline, yielded>>
    BY <2>2, <2>4, UnchangedCarries
  <2>5. CASE rt' \in {MarkLocalChange(settled), MarkLocalChange(rt)} /\ UNCHANGED tasks
    <3> HIDE DEF settled
    <3>1. \A r \in {settled, rt} :
            LET n == MarkLocalChange(r)
            IN  n.activeGen # n.localGen /\ n.conflicts = r.conflicts
      BY <1>3, <2>1, RuntimeGenerations, RuntimeAsks
    <3>2. \A r \in Runtime : MarkLocalChange(r).activeGen = r.activeGen
      BY DEF Runtime, MarkLocalChange
    <3>3. /\ rt'.activeGen = rt.activeGen /\ rt'.activeGen # rt'.localGen
          /\ rt'.conflicts \in {None, rt.conflicts}
      BY <1>3, <2>1, <2>5, <3>1, <3>2
    <3> QED
      BY <2>2, <2>5, <3>3, NotedCarries
  <2> QED
    BY <2>3, <2>4, <2>5
<1>9. ASSUME AutomaticTrigger PROVE Carries(Here, yielded)' /\ EditKept
  <2>1. /\ yielded' = yielded
        /\ \E saved \in Outcomes : Become(RequestAutomatic(Here, saved))
    BY <1>9 DEF AutomaticTrigger
  <2>2. PICK saved \in Outcomes : Become(RequestAutomatic(Here, saved))
    BY <2>1
  <2>3. /\ Carries(RequestAutomatic(Here, saved), yielded)
        /\ RequestAutomatic(Here, saved).config = config
    BY <1>1, <1>2, RequestAutomaticCarries, RequestAutomaticStores DEF Stores
  <2>4. config' = config
    BY <2>2, <2>3 DEF Become
  <2> QED
    BY <1>5, <2>1, <2>2, <2>3, <2>4, BecomeCarries
<1>10. ASSUME NEW side \in {"Local", "Remote"}, NEW decided \in SUBSET Entity,
              rt.conflicts # None, Resolve(side, decided)
       PROVE  Carries(Here, yielded)' /\ EditKept
  <2> DEFINE pending == rt.conflicts
             open    == pending.open \ decided
             merged  == [e \in Entity |-> IF e \in decided /\ side = "Remote"
                                            THEN pending.seen.content[e]
                                            ELSE pending.merged[e]]
             r       == [rt EXCEPT !.conflicts = None]
             settled == [Here EXCEPT !.rt = r]
             y       == IF side = "Remote" THEN yielded \cup decided ELSE yielded
  <2>1. pending \in Pending /\ pending.seen.etag # 0
    BY <1>1, <1>3, <1>10 DEF Runtime, Plans
  <2>2. merged \in Catalog /\ pending.seen \in Version
    BY <2>1 DEF Pending, Version, Catalog
  <2>3. yielded' = y
    BY <1>10 DEF Resolve
  <2>4. /\ rt.activeGen # None
        /\ rt.activeGen = rt.localGen => Keeps(Here, pending.merged, yielded)
    BY <1>1, <1>10 DEF Carries
  <2>5. Keeps(Here, pending.merged, yielded) => Keeps(Here, merged, y)
    BY DEF Keeps
  <2>6. NoneLive(Here)
    BY <1>1, <1>10 DEF NoneLive, Carries, TaskCarries
  <2> HIDE DEF y
  <2>7. CASE open # {}
    <3> DEFINE c == [pending EXCEPT !.open = open, !.merged = merged]
    <3>1. UNCHANGED <<tasks, config, baseline>> /\ rt' = [rt EXCEPT !.conflicts = c]
      BY <1>3, <1>10, <2>7 DEF Resolve, Runtime
    <3>2. c.merged = merged
      BY <2>1 DEF Pending
    <3> HIDE DEF c, merged
    <3>3. /\ rt'.conflicts = c /\ rt'.activeGen = rt.activeGen /\ rt'.localGen = rt.localGen
      BY <1>3, <3>1 DEF Runtime
    <3>4. (/\ Here.rt = rt /\ Here.tasks = tasks /\ Here.config = config
           /\ Here.baseline = baseline)'
      BY DEF Here
    <3>5. (\A t \in tasks : TaskCarries(Here, t, yielded))'
      BY <1>1, <1>4, <2>6, <3>1, <3>4 DEF AllUploads, NoneLive, TaskCarries
    <3>6. (rt.activeGen # None)'
      BY <2>4, <3>3
    <3>7. (rt.activeGen = rt.localGen => Keeps(Here, rt.conflicts.merged, yielded))'
      <4>1. rt.activeGen = rt.localGen => Keeps(Here, merged, y)
        BY <2>4, <2>5
      <4> QED
        BY <1>1, <2>3, <3>1, <3>2, <3>3, <3>4, <4>1 DEF Keeps, Edited
    <3>8. Carries(Here, yielded)'
      BY <3>4, <3>5, <3>6, <3>7 DEF Carries
    <3> QED
      BY <1>5, <3>1, <3>8
  <2>8. CASE open = {}
    <3> DEFINE after(c, s, b) == PreflightReady(settled, merged, pending.seen, c, s, b)
    <3>1. [Here EXCEPT !.rt.conflicts = None] = settled
      BY DEF Here
    <3>2. PICK counted \in Counted, saved \in Outcomes, based \in Outcomes :
            Become(after(counted, saved, based))
      BY <1>10, <2>8, <3>1 DEF Resolve
    <3>3. /\ r \in Runtime /\ r.conflicts = None /\ r.activeGen = rt.activeGen
          /\ r.localGen = rt.localGen
      BY <1>3 DEF Runtime
    <3> HIDE DEF r, merged
    <3>4. /\ settled \in Machine /\ settled.rt = r /\ settled.tasks = Here.tasks
          /\ settled.config = config /\ settled.baseline = baseline
      BY <1>1, <3>3 DEF Machine
    <3> DEFINE n == after(counted, saved, based)
    <3> HIDE DEF settled
    <3>5. AllUploads(settled) /\ NoneLive(settled)
      BY <1>4, <2>6, <3>4 DEF AllUploads, NoneLive
    <3>6. \A c : Keeps(settled, c, y) = Keeps(Here, c, y)
      BY <1>1, <3>4 DEF Keeps, Edited
    <3>7. rt.activeGen = rt.localGen => Keeps(settled, merged, y)
      BY <2>4, <2>5, <3>6
    <3>8. Carries(n, y) /\ Keeps(settled, n.config, y)
      BY <1>2, <2>2, <2>4, <3>3, <3>4, <3>5, <3>7, PreflightReadyCarries
    <3>9. Become(n)
      BY <3>2
    <3> HIDE DEF n
    <3>10. Carries(Here, yielded)'
      BY <2>3, <3>8, <3>9, BecomeCarries
    <3>11. config' = n.config
      BY <3>9 DEF Become
    <3>12. EditKept
      BY <2>3, <3>6, <3>8, <3>11, KeepsIsKept
    <3> QED
      BY <3>10, <3>12
  <2> QED
    BY <2>7, <2>8
<1>11. ASSUME ResolveConflict PROVE Carries(Here, yielded)' /\ EditKept
  <2>1. rt.conflicts # None /\ rt.conflicts.open \subseteq Entity
    BY <1>3, <1>11 DEF ResolveConflict, Runtime, Pending
  <2>2. \E side \in {"Local", "Remote"}, decided \in SUBSET Entity : Resolve(side, decided)
    BY <1>11, <2>1 DEF ResolveConflict
  <2> QED
    BY <1>10, <2>1, <2>2
<1>12. ASSUME NEW t \in tasks, NEW new, Replaced(t, new), TaskCarries(Here, new, yielded),
              UNCHANGED <<rt, config, baseline, yielded>>
       PROVE  Carries(Here, yielded)' /\ EditKept
  BY <1>5, <1>12, ReplacedCarries
<1>13. ASSUME NEW t \in tasks, TaskFetches(t) PROVE Carries(Here, yielded)' /\ EditKept
  <2>1. /\ t.phase = "fetch" /\ Replaced(t, Fetched(t))
        /\ UNCHANGED <<rt, config, baseline, yielded>>
    BY <1>13 DEF TaskFetches
  <2>2. t.result = "none" /\ TaskCarries(Here, t, yielded)
    BY <1>1, <2>1 DEF Plans, TaskPlan, Carries
  <2> QED
    BY <1>12, <2>1, <2>2, FetchedCarries
<1>14. ASSUME NEW t \in tasks, TaskAnswered(t) \/ TaskFails(t)
       PROVE  Carries(Here, yielded)' /\ EditKept
  <2>1. t \in Task /\ TaskCarries(Here, t, yielded)
    BY <1>1 DEF TypeOK, Carries
  <2>2. PICK result \in {"uploaded", "failed"} :
          /\ result = "uploaded" => t.phase = "acked"
          /\ Replaced(t, [t EXCEPT !.phase = "done", !.result = result])
    BY <1>14 DEF TaskAnswered, TaskFails
  <2> DEFINE new == [t EXCEPT !.phase = "done", !.result = result]
  <2>3. /\ new.phase = "done" /\ new.result = result /\ new.live = t.live
        /\ new.kind = t.kind /\ new.seen = t.seen /\ new.merged = t.merged
    BY <2>1 DEF Task
  <2>4. Replaced(t, new) /\ UNCHANGED <<rt, config, baseline, yielded>>
    BY <1>14, <2>2 DEF TaskAnswered, TaskFails
  <2> HIDE DEF new
  <2>5. result = "uploaded" => t.result = "none" /\ t.phase = "acked"
    BY <1>1, <2>2 DEF Plans, TaskPlan
  <2>6. TaskCarries(Here, new, yielded)
    BY <2>1, <2>3, <2>5 DEF TaskCarries
  <2> QED
    BY <1>12, <2>4, <2>6
<1>15. ASSUME NEW t \in tasks, ServerPuts(t) PROVE Carries(Here, yielded)' /\ EditKept
  <2> DEFINE tag == remote.etag + 1
             acked == [t EXCEPT !.phase = "acked", !.etag = tag]
             refused == [t EXCEPT !.phase = "done", !.result = "failed"]
  <2>1. /\ t \in Task /\ TaskCarries(Here, t, yielded) /\ t.phase = "put"
        /\ UNCHANGED <<rt, config, baseline, yielded>>
    BY <1>1, <1>15 DEF TypeOK, Carries, ServerPuts
  <2>2. Replaced(t, acked) \/ Replaced(t, refused)
    BY <1>15 DEF ServerPuts
  <2>3. /\ acked.phase = "acked" /\ acked.live = t.live /\ acked.kind = t.kind
        /\ acked.seen = t.seen /\ acked.merged = t.merged /\ acked.result = t.result
    BY <2>1 DEF Task
  <2>4. /\ refused.phase = "done" /\ refused.result = "failed" /\ refused.live = t.live
        /\ refused.kind = t.kind
    BY <2>1 DEF Task
  <2> HIDE DEF acked, refused
  <2>5. TaskCarries(Here, acked, yielded) /\ TaskCarries(Here, refused, yielded)
    BY <2>1, <2>3, <2>4 DEF TaskCarries
  <2> QED
    BY <1>12, <2>1, <2>2, <2>5
<1>16. ASSUME NEW t \in tasks, HandleFinished(t) PROVE Carries(Here, yielded)' /\ EditKept
  <2> DEFINE rest == tasks \ {t}
             n == [Here EXCEPT !.tasks = rest]
  <2>1. /\ t \in Task /\ TaskCarries(Here, t, yielded) /\ t.phase = "done"
        /\ n \in Machine /\ n.rt = rt /\ n.tasks = rest /\ n.config = config
        /\ n.baseline = baseline /\ yielded' = yielded
    BY <1>1, <1>16 DEF TypeOK, Here, Machine, Carries, HandleFinished
  <2>2. t.result = "conflicts" => t.seen.etag # 0
    BY <1>1 DEF Plans, TaskPlan
  <2>3. CASE ~t.live
    <3>1. Become(n)
      BY <1>16, <2>3 DEF HandleFinished
    <3> HIDE DEF n
    <3>2. Carries(n, yielded)
      BY <1>1, <2>1 DEF Carries, TaskCarries, Keeps, Edited
    <3>3. config' = config
      BY <2>1, <3>1 DEF Become
    <3> QED
      BY <1>5, <2>1, <3>1, <3>2, <3>3, BecomeCarries
  <2>4. CASE t.live
    <3> DEFINE r == [rt EXCEPT !.inProgress = FALSE]
               idle == [n EXCEPT !.rt = r]
               result(c, s, b) == Dispatched(idle, t, c, s, b)
               after(c, s, b, s2) == ServePending(result(c, s, b), s2)
    <3>1. [n EXCEPT !.rt.inProgress = FALSE] = idle
      BY <2>1 DEF Here
    <3>2. PICK counted \in Counted, saved \in Outcomes, based \in Outcomes, saved2 \in Outcomes :
            Become(after(counted, saved, based, saved2))
      BY <1>16, <2>4, <3>1 DEF HandleFinished
    <3>3. /\ r \in Runtime /\ r.inProgress = FALSE /\ r.conflicts = rt.conflicts
          /\ r.activeGen = rt.activeGen /\ r.localGen = rt.localGen
      BY <1>3 DEF Runtime
    <3> HIDE DEF n, r
    <3>4. /\ idle \in Machine /\ idle.rt = r /\ idle.tasks = rest /\ idle.config = config
          /\ idle.baseline = baseline
      BY <2>1, <3>3 DEF Machine
    <3>5. Owned(idle) /\ NoneLive(idle)
      BY <2>4, <3>3, <3>4 DEF Owned, NeverWedged, NoneLive
    <3>6. AllUploads(idle)
      BY <1>1, <1>4, <3>4 DEF AllUploads
    <3>7. \A c, y : Keeps(idle, c, y) = Keeps(Here, c, y)
      BY <1>1, <3>4 DEF Keeps, Edited
    <3>8. /\ idle.rt.conflicts = None /\ idle.rt.activeGen # None /\ t.result # "downloaded"
          /\ idle.rt.activeGen = idle.rt.localGen /\ t.result # "failed" /\ t.seen.etag # 0 =>
               Keeps(idle, t.merged, yielded)
      BY <1>1, <2>1, <2>4, <3>3, <3>4, <3>7 DEF TaskCarries
    <3> DEFINE d == result(counted, saved, based)
               a == after(counted, saved, based, saved2)
    <3> HIDE DEF idle
    <3>9. d \in Machine /\ Owned(d)
      BY <1>2, <2>1, <3>4, <3>5, DispatchedTypeOK, DispatchedOwned
    <3>10. Carries(d, yielded) /\ Keeps(idle, d.config, yielded)
      BY <1>2, <2>1, <2>2, <3>4, <3>5, <3>6, <3>8, DispatchedCarries
    <3>11. a = ServePending(d, saved2) /\ Become(a)
      BY <3>2
    <3> HIDE DEF d, a
    <3>12. Carries(a, yielded) /\ a.config = d.config
      BY <1>2, <3>9, <3>10, <3>11, ServePendingCarries, ServePendingStores DEF Stores
    <3>13. Carries(Here, yielded)'
      BY <2>1, <3>11, <3>12, BecomeCarries
    <3>14. config' = d.config
      BY <3>11, <3>12 DEF Become
    <3>15. EditKept
      BY <2>1, <3>7, <3>10, <3>14, KeepsIsKept
    <3> QED
      BY <3>13, <3>15
  <2> QED
    BY <2>3, <2>4
<1>17. ASSUME Crash PROVE Carries(Here, yielded)' /\ EditKept
  <2>1. tasks' = {} /\ rt' = FreshRuntime /\ crashes' = crashes + 1
    BY <1>17 DEF Crash
  <2>2. FreshRuntime.conflicts = None
    BY DEF FreshRuntime
  <2>3. (Here.rt = rt /\ Here.tasks = tasks)'
    BY DEF Here
  <2>4. Carries(Here, yielded)'
    BY <2>1, <2>2, <2>3 DEF Carries
  <2>5. EditKept
    BY <2>1 DEF EditKept, TypeOK
  <2> QED
    BY <2>4, <2>5
<1> QED
  BY <1>6, <1>7, <1>8, <1>9, <1>11, <1>13, <1>14, <1>15, <1>16, <1>17 DEF Next, Step

\* What the runs carry, and that no step loses an edit.
LEMMA CarriesInductive ==
  ASSUME Paths \cap {"catalog", "manual", "restore"} = {}
  PROVE  Spec => []Carries(Here, yielded) /\ [][EditKept]_vars
<1>1. Init => Carries(Here, yielded)
  <2> SUFFICES ASSUME Init PROVE Carries(Here, yielded)
    OBVIOUS
  <2>1. Here.tasks = {} /\ Here.rt.conflicts = None
    BY DEF Init, Here, FreshRuntime
  <2> QED
    BY <2>1 DEF Carries
<1>2. /\ TypeOK /\ NeverWedged /\ Plans(Here, yielded) /\ Carries(Here, yielded)
      /\ [Next]_vars
      => /\ Carries(Here, yielded)'
         /\ [EditKept]_vars
  <2> SUFFICES ASSUME TypeOK, NeverWedged, Plans(Here, yielded), Carries(Here, yielded),
                      [Next]_vars
               PROVE  Carries(Here, yielded)' /\ [EditKept]_vars
    OBVIOUS
  <2>1. CASE Next
    BY <2>1, NextKeepsEdits
  <2>2. CASE UNCHANGED vars
    <3>1. UNCHANGED <<rt, tasks, config, baseline, yielded>>
      BY <2>2 DEF vars
    <3> QED
      BY <2>2, <3>1, UnchangedCarries
  <2> QED
    BY <2>1, <2>2
<1>3. Spec => [](Plans(Here, yielded) /\ ChangeNeverForgotten)
  BY PlansInductive
<1> QED
  BY <1>1, <1>2, <1>3, TypeCorrect, AlwaysOwned, PTL DEF Spec

\* When a window only commits changes, counts usage and synchronizes by
\* itself, no result of a synchronization changes what the user edited since
\* the baseline, for every number of entities, edits, writes of other devices,
\* crashes and failures: conflicts wait for the user, and a result that an edit
\* overtook is not applied.
THEOREM EditsKept ==
  ASSUME Paths \cap {"catalog", "manual", "restore"} = {}
  PROVE  Spec => EditNeverLost
<1>1. Spec => []Carries(Here, yielded) /\ [][EditKept]_vars
  BY CarriesInductive
<1>2. EditNeverLost <=> [][EditKept]_vars
  BY PTL DEF EditNeverLost, EditKept
<1> QED
  BY <1>1, <1>2, PTL
-----------------------------------------------------------------------------
(* UntouchedKeptUnlessSkewed, under the same hypothesis.  Of an entity the *)
(* user never decided about, the configuration, the file and a staged      *)
(* commit say what the baseline says, every merge and every request        *)
(* under way says what the remote version it is for says, and so does what *)
(* the server then stores.  The first part breaks when the baseline moves  *)
(* alone or the configuration does: that is what skewed records.           *)

\* The catalog c says of every untouched entity what the baseline b says.
Untouched(c, b, u) ==
  \A e \in Entity \ u :
    IF b = None THEN c[e] = Missing ELSE SameContent(c[e], b.content[e])

\* The catalog says of every untouched entity what the version says.
Agrees(catalog, version, u) ==
  \A e \in Entity \ u : SameContent(catalog[e], version.content[e])

\* The versions of a task carry the tags the server gives: no object has the
\* tag 0, and the preflight of a first upload knows of no baseline.
TaskTagged(m, t) ==
  /\ t.seen.etag = 0 => t.seen = NoVersion
  /\ t.phase = "acked" \/ t.result = "uploaded" => t.etag # 0
  /\ t.live /\ t.result = "ready" /\ t.seen.etag = 0 => m.baseline = None

\* A download starts from what the baseline says, its result agrees with what
\* it downloaded.
TaskHonest(t, u) ==
  IF t.phase = "fetch" THEN t.merged = EmptyCatalog /\ Untouched(t.local, t.base, u)
  ELSE t.result # "failed" => Agrees(t.merged, t.seen, u)

\* The invariant of the record a handler works on; k: nothing is skewed yet.
Faithful(m, u, k) ==
  /\ m.baseline # None => m.baseline.etag # 0
  /\ \A t \in m.tasks : TaskTagged(m, t) /\ (k => TaskHonest(t, u))
  /\ k => /\ Untouched(m.config, m.baseline, u) /\ Untouched(m.disk, m.baseline, u)
          /\ m.rt.conflicts # None => Agrees(m.rt.conflicts.merged, m.rt.conflicts.seen, u)
          /\ \A r \in m.wire : Agrees(r.merged, r.seen, u)

\* A handler from m to n moved the baseline or the configuration alone.
Skew(m, n) ==
  \/ n.baseline # m.baseline /\ IsStale(m.rt)
  \/ n.baseline = m.baseline /\ n.config # m.config

\* A version agrees with itself.
LEMMA OwnContent ==
  /\ \A v, u : Agrees(v.content, v, u)
  /\ \A c, v, u : v # None /\ v.content = c => Untouched(c, v, u)
BY DEF Agrees, Untouched, SameContent

\* More decisions of the user, or less to claim.
LEMMA WeakerFaithful ==
  ASSUME NEW m, NEW u, NEW v, NEW k, NEW l, Faithful(m, u, k), u \subseteq v, l => k
  PROVE  Faithful(m, v, l)
<1>1. \A c, b : Untouched(c, b, u) => Untouched(c, b, v)
  BY DEF Untouched
<1>2. \A c, s : Agrees(c, s, u) => Agrees(c, s, v)
  BY DEF Agrees
<1>3. \A t : TaskHonest(t, u) => TaskHonest(t, v)
  BY <1>1, <1>2 DEF TaskHonest
<1> QED
  BY <1>1, <1>2, <1>3 DEF Faithful

\* A step of the runtime only.
LEMMA SameFaithful ==
  ASSUME NEW m, NEW n, NEW u, NEW k, Faithful(m, u, k), n.tasks = m.tasks,
         n.wire = m.wire, n.config = m.config, n.disk \in {m.disk, m.config},
         n.baseline = m.baseline, n.rt.conflicts \in {None, m.rt.conflicts}
  PROVE  Faithful(n, u, k)
BY DEF Faithful, TaskTagged

\* The new task, after one that is done.
LEMMA StartFaithful ==
  ASSUME NEW m \in Machine, NEW u, NEW k, Faithful(m, u, k), NoneLive(m),
         NEW task, TaskTagged(m, task), k => TaskHonest(task, u)
  PROVE  Faithful(Start(m, task), u, k)
<1> DEFINE disowned == {[t EXCEPT !.live = FALSE] : t \in {x \in m.tasks : x.phase = "done"}}
           n == Start(m, task)
<1>1. \A t \in m.tasks : LET d == [t EXCEPT !.live = FALSE]
                         IN  /\ d.live = FALSE /\ d.phase = t.phase /\ d.result = t.result
                             /\ d.seen = t.seen /\ d.merged = t.merged /\ d.etag = t.etag
  BY DEF Machine, Task
<1>2. \A t \in m.tasks : TaskTagged(m, t) /\ (k => TaskHonest(t, u))
  BY DEF Faithful
<1>3. \A d \in disowned : TaskTagged(m, d) /\ (k => TaskHonest(d, u))
  <2> SUFFICES ASSUME NEW t \in m.tasks, t.phase = "done"
               PROVE  LET d == [t EXCEPT !.live = FALSE]
                      IN  TaskTagged(m, d) /\ (k => TaskHonest(d, u))
    OBVIOUS
  <2> QED
    BY <1>1, <1>2 DEF TaskTagged, TaskHonest
<1>4. Outstanding(m.tasks) = {}
  BY DEF Outstanding, NoneLive
<1>5. /\ n.tasks = disowned \cup {task} /\ n.rt = m.rt /\ n.config = m.config
      /\ n.baseline = m.baseline /\ n.disk = m.disk /\ n.wire = m.wire
  <2>1. {[seen |-> t.seen, merged |-> t.merged] : t \in Outstanding(m.tasks)} = {}
    BY <1>4
  <2> QED
    BY <2>1 DEF Start, Machine
<1> HIDE DEF disowned, n
<1>6. Faithful(n, u, k)
  BY <1>3, <1>5 DEF Faithful, TaskTagged
<1> QED
  BY <1>6 DEF n

\* begin_sync: the task starts from the configuration and the baseline.
LEMMA BeginOperationFaithful ==
  ASSUME NEW m \in Machine, NEW u, NEW k, Faithful(m, u, k), Owned(m),
         NEW saved \in BOOLEAN
  PROVE  Faithful(BeginOperation(m, "upload", saved), u, k)
<1> DEFINE started == [m.rt EXCEPT !.inProgress = TRUE]
           r == BeginReconciliation(started)
           b == [m EXCEPT !.disk = m.config, !.rt = r]
           task == FetchTask("upload", m.config, m.baseline)
<1>1. m.rt \in Runtime
  BY MachineUpdates
<1>2. r \in Runtime /\ r.conflicts = m.rt.conflicts
  BY <1>1 DEF Runtime, BeginReconciliation
<1>3. \/ BeginOperation(m, "upload", saved) = m
      \/ ~m.rt.inProgress /\ BeginOperation(m, "upload", saved) = Start(b, task)
  BY DEF BeginOperation
<1> HIDE DEF r
<1>4. /\ b \in Machine /\ b.rt = r /\ b.tasks = m.tasks /\ b.config = m.config
      /\ b.baseline = m.baseline /\ b.disk = m.config /\ b.wire = m.wire
  BY <1>2 DEF Machine
<1>5. /\ task.phase = "fetch" /\ task.result = "none" /\ task.merged = EmptyCatalog
      /\ task.local = m.config /\ task.base = m.baseline /\ task.seen = NoVersion
  BY DEF FetchTask
<1> HIDE DEF b, task
<1>6. TaskTagged(b, task)
  BY <1>5 DEF TaskTagged
<1>7. k => TaskHonest(task, u)
  BY <1>5 DEF TaskHonest, Faithful
<1>8. Faithful(b, u, k)
  BY <1>2, <1>4, SameFaithful
<1>9. CASE ~m.rt.inProgress /\ BeginOperation(m, "upload", saved) = Start(b, task)
  <2>1. NoneLive(b)
    BY <1>4, <1>9, IdleNoneLive DEF NoneLive
  <2> QED
    BY <1>4, <1>6, <1>7, <1>8, <1>9, <2>1, StartFaithful
<1> QED
  BY <1>3, <1>9

\* request_automatic_sync
LEMMA RequestAutomaticFaithful ==
  ASSUME NEW m \in Machine, NEW u, NEW k, Faithful(m, u, k), Owned(m),
         NEW saved \in BOOLEAN
  PROVE  Faithful(RequestAutomatic(m, saved), u, k)
<1> DEFINE p == [m.rt EXCEPT !.pendingAutomatic = TRUE]
           waits == [m EXCEPT !.rt = p]
           r == BeginReconciliation(m.rt)
           begun == [m EXCEPT !.rt = r]
<1>1. m.rt \in Runtime
  BY MachineUpdates
<1>2. /\ p \in Runtime /\ p.conflicts = m.rt.conflicts
      /\ r \in Runtime /\ r.conflicts = m.rt.conflicts /\ r.inProgress = m.rt.inProgress
  BY <1>1, RuntimeSteps, RuntimeAsks, RuntimeQuiet DEF Runtime
<1>3. \/ RequestAutomatic(m, saved) = m
      \/ RequestAutomatic(m, saved) = waits
      \/ RequestAutomatic(m, saved) = BeginOperation(begun, "upload", saved)
  BY DEF RequestAutomatic, Machine
<1> HIDE DEF p, r
<1>4. /\ waits.rt = p /\ waits.tasks = m.tasks /\ waits.wire = m.wire
      /\ waits.config = m.config /\ waits.disk = m.disk /\ waits.baseline = m.baseline
  BY DEF Machine
<1>5. /\ begun \in Machine /\ begun.rt = r /\ begun.tasks = m.tasks /\ begun.wire = m.wire
      /\ begun.config = m.config /\ begun.disk = m.disk /\ begun.baseline = m.baseline
  BY <1>2 DEF Machine
<1> HIDE DEF waits, begun
<1>6. Faithful(waits, u, k) /\ Faithful(begun, u, k)
  BY <1>2, <1>4, <1>5, SameFaithful
<1>7. Owned(begun)
  BY <1>2, <1>5, QuietOwned DEF Quiet
<1> QED
  BY <1>3, <1>5, <1>6, <1>7, BeginOperationFaithful

\* The pending automatic run.
LEMMA ServePendingFaithful ==
  ASSUME NEW m \in Machine, NEW u, NEW k, Faithful(m, u, k), Owned(m),
         NEW saved \in BOOLEAN
  PROVE  Faithful(ServePending(m, saved), u, k)
<1> DEFINE p == [m.rt EXCEPT !.pendingAutomatic = FALSE]
           served == [m EXCEPT !.rt = p]
<1>1. m.rt \in Runtime
  BY MachineUpdates
<1>2. p \in Runtime /\ p.conflicts = m.rt.conflicts /\ p.inProgress = m.rt.inProgress
  BY <1>1 DEF Runtime
<1>3. ServePending(m, saved) = m \/ ServePending(m, saved) = RequestAutomatic(served, saved)
  BY DEF ServePending, Machine
<1> HIDE DEF p
<1>4. /\ served \in Machine /\ served.rt = p /\ served.tasks = m.tasks
      /\ served.wire = m.wire /\ served.config = m.config /\ served.disk = m.disk
      /\ served.baseline = m.baseline
  BY <1>2 DEF Machine
<1> HIDE DEF served
<1>5. Faithful(served, u, k) /\ Owned(served)
  BY <1>2, <1>4, SameFaithful, QuietOwned DEF Quiet
<1> QED
  BY <1>3, <1>4, <1>5, RequestAutomaticFaithful

\* Without a live task a new baseline has only to carry a tag, and what is not
\* skewed to say what the configuration and the file say.
LEMMA StoredFaithful ==
  ASSUME NEW m, NEW n, NEW u, NEW k, NEW l, Faithful(m, u, k), NoneLive(m),
         n.tasks = m.tasks, n.wire = m.wire, n.rt.conflicts = m.rt.conflicts,
         n.baseline # None => n.baseline.etag # 0, l => k,
         l => Untouched(n.config, n.baseline, u) /\ Untouched(n.disk, n.baseline, u)
  PROVE  Faithful(n, u, l)
<1>1. \A t \in m.tasks : TaskTagged(n, t)
  BY DEF Faithful, TaskTagged, NoneLive
<1> QED
  BY <1>1 DEF Faithful

\* handle_sync_reconciled with a merge that is the remote content.
LEMMA AdoptReconciledFaithful ==
  ASSUME NEW m \in Machine, NEW u, NEW k, Faithful(m, u, k), NoneLive(m),
         NEW merged \in Catalog, NEW seen \in Version, merged = seen.content,
         seen.etag # 0, NEW saved \in BOOLEAN, NEW based \in BOOLEAN
  PROVE  LET n == AdoptReconciled(m, merged, seen, saved, based)
         IN  Faithful(n, u, k /\ ~Skew(m, n))
<1> DEFINE n == AdoptReconciled(m, merged, seen, saved, based)
           r == RecordSuccess(m.rt)
<1>1. r.conflicts = m.rt.conflicts
  BY MachineUpdates, RuntimeAsks
<1>2. /\ n.tasks = m.tasks /\ n.wire = m.wire /\ n.rt \in {m.rt, r} /\ n.config = merged
      /\ \/ n.disk \in {m.disk, merged} /\ n.baseline = m.baseline
         \/ n.disk = merged /\ n.baseline = seen
  BY DEF AdoptReconciled, Machine
<1>3. seen # None
  BY CoordinatorAssumption
<1> HIDE DEF n, r
<1>4. n.baseline # None => n.baseline.etag # 0
  BY <1>2 DEF Faithful
<1>5. k => Untouched(m.config, m.baseline, u) /\ Untouched(m.disk, m.baseline, u)
  BY DEF Faithful
<1>6. ASSUME k, ~Skew(m, n)
      PROVE  Untouched(n.config, n.baseline, u) /\ Untouched(n.disk, n.baseline, u)
  <2>1. CASE n.baseline = seen /\ n.disk = merged
    BY <1>2, <1>3, <2>1, OwnContent
  <2>2. CASE n.baseline = m.baseline /\ n.disk \in {m.disk, merged}
    BY <1>2, <1>5, <1>6, <2>2 DEF Skew
  <2> QED
    BY <1>2, <2>1, <2>2
<1> DEFINE l == k /\ ~Skew(m, n)
<1>7. /\ l => k
      /\ l => Untouched(n.config, n.baseline, u) /\ Untouched(n.disk, n.baseline, u)
  BY <1>6
<1> HIDE DEF l
<1>8. Faithful(n, u, l)
  BY <1>1, <1>2, <1>4, <1>7, StoredFaithful
<1> QED
  BY <1>8 DEF n, l

\* continue_sync_upload
LEMMA ContinueUploadFaithful ==
  ASSUME NEW m \in Machine, NEW u, NEW k, Faithful(m, u, k), NoneLive(m),
         NEW merged \in Catalog, NEW seen \in Version, k => Agrees(merged, seen, u),
         seen.etag = 0 => seen = NoVersion /\ m.baseline = None
  PROVE  Faithful(ContinueUpload(m, merged, seen), u, k)
<1> DEFINE r == [m.rt EXCEPT !.inProgress = TRUE]
           s == [m EXCEPT !.rt = r]
           put == IF seen.etag = 0 THEN m.config ELSE merged
           task == PutTask(put, seen)
           n == ContinueUpload(m, merged, seen)
<1>1. r \in Runtime /\ r.conflicts = m.rt.conflicts
  <2>1. m.rt \in Runtime
    BY MachineUpdates
  <2> QED
    BY <2>1 DEF Runtime
<1>2. n = Start(s, task)
  BY DEF ContinueUpload, Machine
<1> HIDE DEF r
<1>3. /\ s \in Machine /\ s.rt = r /\ s.tasks = m.tasks /\ s.wire = m.wire
      /\ s.config = m.config /\ s.disk = m.disk /\ s.baseline = m.baseline
  BY <1>1 DEF Machine
<1>4. k => Agrees(put, seen, u)
  <2>1. ASSUME k, seen.etag = 0 PROVE Agrees(m.config, seen, u)
    <3>1. Untouched(m.config, None, u) /\ seen = NoVersion
      BY <2>1 DEF Faithful
    <3>2. \A e \in Entity : seen.content[e] = Missing
      BY <3>1 DEF NoVersion, EmptyCatalog
    <3> QED
      BY <3>1, <3>2 DEF Agrees, Untouched, SameContent
  <2> QED
    BY <2>1
<1> HIDE DEF put
<1>5. /\ task.phase = "put" /\ task.result = "none" /\ task.seen = seen
      /\ task.merged = put
  BY DEF PutTask
<1> HIDE DEF s, task
<1>6. TaskTagged(s, task) /\ (k => TaskHonest(task, u))
  BY <1>4, <1>5 DEF TaskTagged, TaskHonest
<1>7. Faithful(s, u, k) /\ NoneLive(s)
  BY <1>1, <1>3, SameFaithful DEF NoneLive
<1>8. Faithful(Start(s, task), u, k)
  BY <1>3, <1>6, <1>7, StartFaithful
<1> QED
  BY <1>2, <1>8

\* What changes neither the configuration nor the baseline is no skew.
LEMMA NoSkew ==
  ASSUME NEW m, NEW n, NEW u, NEW k, Faithful(n, u, k)
  PROVE  Faithful(n, u, k /\ ~Skew(m, n))
BY WeakerFaithful

\* Giving the generation up.
LEMMA AbandonFaithful ==
  ASSUME NEW m \in Machine, NEW u, NEW k, Faithful(m, u, k),
         NEW r \in {AbandonReconciliation(m.rt), RecordFailure(m.rt)}
  PROVE  Faithful([m EXCEPT !.rt = r], u, k)
<1> DEFINE n == [m EXCEPT !.rt = r]
<1>1. r.conflicts = m.rt.conflicts
  BY MachineUpdates, RuntimeAsks
<1>2. /\ n.tasks = m.tasks /\ n.rt = r /\ n.config = m.config /\ n.wire = m.wire
      /\ n.disk = m.disk /\ n.baseline = m.baseline
  BY DEF Machine
<1> HIDE DEF n
<1>3. Faithful(n, u, k)
  BY <1>1, <1>2, SameFaithful
<1> QED
  BY <1>3 DEF n

\* handle_sync_upload_preflight_ready, from a result or from the last decision.
LEMMA PreflightReadyFaithful ==
  ASSUME NEW m \in Machine, NEW u, NEW k, Faithful(m, u, k), NoneLive(m),
         NEW merged \in Catalog, NEW seen \in Version, k => Agrees(merged, seen, u),
         seen.etag = 0 => seen = NoVersion /\ m.baseline = None,
         NEW counted \in BOOLEAN, NEW saved \in BOOLEAN, NEW based \in BOOLEAN
  PROVE  LET n == PreflightReady(m, merged, seen, counted, saved, based)
         IN  Faithful(n, u, k /\ ~Skew(m, n))
<1> DEFINE n == PreflightReady(m, merged, seen, counted, saved, based)
<1>1. CASE IsStale(m.rt)
  <2>1. n = [m EXCEPT !.rt = AbandonReconciliation(m.rt)]
    BY <1>1 DEF PreflightReady
  <2>2. Faithful(n, u, k)
    BY <2>1, AbandonFaithful
  <2> HIDE DEF n
  <2>3. Faithful(n, u, k /\ ~Skew(m, n))
    BY <2>2, NoSkew
  <2> QED
    BY <2>3 DEF n
<1>2. CASE ~IsStale(m.rt) /\ seen.etag # 0 /\ merged = seen.content /\ ~counted
  <2>1. n = AdoptReconciled(m, merged, seen, saved, based)
    BY <1>2 DEF PreflightReady
  <2> QED
    BY <1>2, <2>1, AdoptReconciledFaithful
<1>3. CASE ~IsStale(m.rt) /\ ~(seen.etag # 0 /\ merged = seen.content /\ ~counted)
  <2>1. n = ContinueUpload(m, merged, seen)
    BY <1>3 DEF PreflightReady
  <2>2. Faithful(n, u, k)
    BY <2>1, ContinueUploadFaithful
  <2> HIDE DEF n
  <2>3. Faithful(n, u, k /\ ~Skew(m, n))
    BY <2>2, NoSkew
  <2> QED
    BY <2>3 DEF n
<1> QED
  BY <1>1, <1>2, <1>3

\* handle_sync_reconciliation_conflicts
LEMMA OfferConflictsFaithful ==
  ASSUME NEW m \in Machine, NEW u, NEW k, Faithful(m, u, k), NEW t \in Task,
         k => Agrees(t.merged, t.seen, u)
  PROVE  Faithful(OfferConflicts(m, t), u, k)
<1> DEFINE n == OfferConflicts(m, t)
           pending == [open |-> t.open, merged |-> t.merged, seen |-> t.seen]
           r == [m.rt EXCEPT !.conflicts = pending]
           asks == [m EXCEPT !.rt = r]
<1>1. CASE IsStale(m.rt)
  <2>1. n = [m EXCEPT !.rt = AbandonReconciliation(m.rt)]
    BY <1>1 DEF OfferConflicts
  <2> QED
    BY <2>1, AbandonFaithful
<1>2. CASE ~IsStale(m.rt)
  <2>1. n = asks
    BY <1>2 DEF OfferConflicts, Machine
  <2>2. pending.merged = t.merged /\ pending.seen = t.seen
    OBVIOUS
  <2> HIDE DEF pending
  <2>3. r.conflicts = pending
    BY MachineUpdates DEF Runtime
  <2> HIDE DEF r
  <2>4. /\ asks.rt = r /\ asks.tasks = m.tasks /\ asks.config = m.config
        /\ asks.wire = m.wire /\ asks.disk = m.disk /\ asks.baseline = m.baseline
    BY DEF Machine
  <2> HIDE DEF asks, n
  <2>5. Faithful(asks, u, k)
    BY <2>2, <2>3, <2>4 DEF Faithful, TaskTagged
  <2> QED
    BY <2>1, <2>5 DEF n
<1> QED
  BY <1>1, <1>2

\* handle_sync_uploaded: what was uploaded becomes the baseline.
LEMMA UploadedFaithful ==
  ASSUME NEW m \in Machine, NEW u, NEW k, Faithful(m, u, k), NoneLive(m),
         m.rt.activeGen # None, NEW t \in Task, t.etag # 0,
         t.seen.etag = 0 /\ m.rt.activeGen = m.rt.localGen => t.merged = m.config,
         NEW saved \in BOOLEAN, NEW based \in BOOLEAN
  PROVE  LET n == Uploaded(m, t, saved, based)
         IN  Faithful(n, u, k /\ ~Skew(m, n))
<1> DEFINE n == Uploaded(m, t, saved, based)
           r == RecordSuccess(m.rt)
           version == [content |-> t.merged, etag |-> t.etag]
<1>1. r.conflicts = m.rt.conflicts
  BY MachineUpdates, RuntimeAsks
<1>2. version # None
  <2>1. version \in Version
    BY DEF Task, Version
  <2> QED
    BY <2>1, CoordinatorAssumption
<1>3. version.content = t.merged /\ version.etag = t.etag
  OBVIOUS
<1> HIDE DEF r, version
<1>4. /\ n.tasks = m.tasks /\ n.wire = m.wire /\ n.rt \in {m.rt, r}
      /\ \/ n.disk \in {m.disk, n.config} /\ n.baseline = m.baseline
         \/ /\ n.disk = n.config /\ n.baseline = version
            /\ n.config = IF IsStale(m.rt) \/ t.seen.etag = 0 THEN m.config ELSE t.merged
  BY DEF Uploaded, Machine, r, version
<1> HIDE DEF n
<1>5. n.baseline # None => n.baseline.etag # 0
  BY <1>3, <1>4 DEF Faithful
<1>6. k => Untouched(m.config, m.baseline, u) /\ Untouched(m.disk, m.baseline, u)
  BY DEF Faithful
<1>7. ASSUME k, ~Skew(m, n)
      PROVE  Untouched(n.config, n.baseline, u) /\ Untouched(n.disk, n.baseline, u)
  <2>1. CASE n.baseline = m.baseline /\ n.disk \in {m.disk, n.config}
    BY <1>6, <1>7, <2>1 DEF Skew
  <2>2. CASE /\ n.disk = n.config /\ n.baseline = version /\ n.baseline # m.baseline
             /\ n.config = IF IsStale(m.rt) \/ t.seen.etag = 0 THEN m.config ELSE t.merged
    <3>1. ~IsStale(m.rt)
      BY <1>7, <2>2 DEF Skew
    <3>2. n.config = t.merged
      BY <2>2, <3>1, NotStale
    <3> QED
      BY <1>2, <1>3, <2>2, <3>2, OwnContent
  <2>3. CASE n.baseline = m.baseline /\ n.disk = n.config
    BY <1>6, <1>7, <2>3 DEF Skew
  <2> QED
    BY <1>4, <2>1, <2>2, <2>3
<1> DEFINE l == k /\ ~Skew(m, n)
<1>8. /\ l => k
      /\ l => Untouched(n.config, n.baseline, u) /\ Untouched(n.disk, n.baseline, u)
  BY <1>7
<1> HIDE DEF l
<1>9. Faithful(n, u, l)
  BY <1>1, <1>4, <1>5, <1>8, StoredFaithful
<1> QED
  BY <1>9 DEF n, l

\* The results of the task that was live, on the record without it.
LEMMA DispatchedFaithful ==
  ASSUME NEW m \in Machine, NEW u, NEW k, Faithful(m, u, k), NoneLive(m),
         m.rt.activeGen # None, NEW t \in Task, t.live, t.phase = "done",
         t.result # "downloaded", TaskTagged(m, t), k => TaskHonest(t, u),
         FirstUpload(t) /\ m.rt.activeGen = m.rt.localGen => t.merged = m.config,
         NEW counted \in BOOLEAN, NEW saved \in BOOLEAN, NEW based \in BOOLEAN
  PROVE  LET n == Dispatched(m, t, counted, saved, based)
         IN  Faithful(n, u, k /\ ~Skew(m, n))
<1> DEFINE n == Dispatched(m, t, counted, saved, based)
<1>1. t.merged \in Catalog /\ t.seen \in Version
  BY DEF Task
<1>2. k /\ t.result # "failed" => Agrees(t.merged, t.seen, u)
  BY DEF TaskHonest
<1>3. CASE t.result = "ready"
  <2>1. n = PreflightReady(m, t.merged, t.seen, counted, saved, based)
    BY <1>3 DEF Dispatched
  <2>2. t.seen.etag = 0 => t.seen = NoVersion /\ m.baseline = None
    BY <1>3 DEF TaskTagged
  <2>3. k => Agrees(t.merged, t.seen, u)
    BY <1>2, <1>3
  <2> QED
    BY <1>1, <2>1, <2>2, <2>3, PreflightReadyFaithful
<1>4. CASE t.result = "conflicts"
  <2>1. n = OfferConflicts(m, t)
    BY <1>4 DEF Dispatched
  <2>2. Faithful(n, u, k)
    BY <1>2, <1>4, <2>1, OfferConflictsFaithful
  <2> HIDE DEF n
  <2>3. Faithful(n, u, k /\ ~Skew(m, n))
    BY <2>2, NoSkew
  <2> QED
    BY <2>3 DEF n
<1>5. CASE t.result = "uploaded"
  <2>1. n = Uploaded(m, t, saved, based)
    BY <1>5 DEF Dispatched
  <2>2. t.etag # 0
    BY <1>5 DEF TaskTagged
  <2>3. t.seen.etag = 0 /\ m.rt.activeGen = m.rt.localGen => t.merged = m.config
    BY <1>5 DEF FirstUpload
  <2> QED
    BY <2>1, <2>2, <2>3, UploadedFaithful
<1>6. CASE t.result \notin {"ready", "conflicts", "uploaded"}
  <2>1. n = [m EXCEPT !.rt = RecordFailure(m.rt)]
    BY <1>6 DEF Dispatched, Failed
  <2>2. Faithful(n, u, k)
    BY <2>1, AbandonFaithful
  <2> HIDE DEF n
  <2>3. Faithful(n, u, k /\ ~Skew(m, n))
    BY <2>2, NoSkew
  <2> QED
    BY <2>3 DEF n
<1> QED
  BY <1>3, <1>4, <1>5, <1>6

\* The inductive invariant: the record of the state is faithful, and so is a
\* staged commit.
StagedHonest ==
  ~skewed /\ commit # None => Untouched(commit.staged, baseline, touched)

UntouchedInv == Faithful(Here, touched, ~skewed) /\ StagedHonest

\* A handler that ends in m ends in a faithful state.
LEMMA BecomeFaithful ==
  ASSUME NEW m, NEW u, NEW k, Faithful(m, u, k), Become(m), touched' = u, ~skewed' => k
  PROVE  Faithful(Here, touched, ~skewed)'
<1>1. Faithful(m, u, ~skewed')
  BY WeakerFaithful
<1> QED
  BY <1>1 DEF Become, Faithful, TaskTagged, TaskHonest, Untouched, Agrees, Here

\* A staged commit stays what it is unless the baseline moves, which is a skew.
LEMMA StagedKept ==
  ASSUME StagedHonest, UNCHANGED commit, touched \subseteq touched',
         skewed' = (skewed \/ Skews)
  PROVE  StagedHonest'
<1>1. ~skewed' /\ commit # None => ~skewed /\ baseline' = baseline
  BY DEF Skews
<1> QED
  BY <1>1 DEF StagedHonest, Untouched

\* A step that is neither a handler nor a write of the remote object: the tasks
\* after it are faithful, and so are the requests, the file and the configuration.
LEMMA MovedFaithful ==
  ASSUME Faithful(Here, touched, ~skewed), ~skewed' => ~skewed, touched \subseteq touched',
         UNCHANGED baseline, rt'.conflicts \in {None, rt.conflicts},
         \A t \in tasks' : TaskTagged(Here, t) /\ (~skewed => TaskHonest(t, touched')),
         ~skewed => /\ Untouched(config', baseline, touched')
                    /\ Untouched(disk', baseline, touched')
                    /\ \A r \in wire' : r \in wire \/ Agrees(r.merged, r.seen, touched')
  PROVE  Faithful(Here, touched, ~skewed)'
<1>1. /\ Here.rt = rt /\ Here.wire = wire /\ Here.baseline = baseline
  BY DEF Here
<1>2. (/\ Here.rt = rt /\ Here.tasks = tasks /\ Here.wire = wire /\ Here.config = config
       /\ Here.disk = disk /\ Here.baseline = baseline)'
  BY DEF Here
<1>3. baseline # None => baseline.etag # 0
  BY <1>1 DEF Faithful
<1>4. (\A t \in tasks : TaskTagged(Here, t))'
  BY <1>1, <1>2 DEF TaskTagged
<1>5. (\A t \in tasks : ~skewed => TaskHonest(t, touched))'
  BY DEF TaskHonest, Untouched, Agrees
<1>6. (~skewed => Untouched(config, baseline, touched) /\ Untouched(disk, baseline, touched))'
  BY DEF Untouched
<1>7. \A c, s : Agrees(c, s, touched) => Agrees(c, s, touched')
  BY DEF Agrees
<1>8. ~skewed' => \A r \in wire' : Agrees(r.merged, r.seen, touched')
  BY <1>1, <1>7 DEF Faithful
<1>9. ~skewed' /\ rt'.conflicts # None =>
        Agrees(rt'.conflicts.merged, rt'.conflicts.seen, touched')
  BY <1>1, <1>7 DEF Faithful
<1>10. (~skewed => \A r \in wire : Agrees(r.merged, r.seen, touched))'
  BY <1>8 DEF Agrees
<1>11. (~skewed /\ rt.conflicts # None =>
          Agrees(rt.conflicts.merged, rt.conflicts.seen, touched))'
  BY <1>9 DEF Agrees
<1> QED
  BY <1>2, <1>3, <1>4, <1>5, <1>6, <1>10, <1>11 DEF Faithful

\* What the record of the state is.
LEMMA FaithfulParts ==
  ASSUME Faithful(Here, touched, ~skewed)
  PROVE  /\ baseline # None => baseline.etag # 0
         /\ \A t \in tasks : TaskTagged(Here, t) /\ (~skewed => TaskHonest(t, touched))
         /\ ~skewed => /\ Untouched(config, baseline, touched)
                       /\ Untouched(disk, baseline, touched)
                       /\ rt.conflicts # None =>
                            Agrees(rt.conflicts.merged, rt.conflicts.seen, touched)
                       /\ \A r \in wire : Agrees(r.merged, r.seen, touched)
BY DEF Faithful, Here

\* The merge of a download agrees with what was downloaded.
LEMMA FetchedFaithful ==
  ASSUME TypeOK, Origin, KnownVersions, Faithful(Here, touched, ~skewed),
         NEW t \in tasks, t.phase = "fetch", t.result = "none", t.kind = "upload"
  PROVE  /\ TaskTagged(Here, Fetched(t))
         /\ ~skewed => TaskHonest(Fetched(t), touched)
<1> DEFINE new == Fetched(t)
<1>1. t \in Task /\ remote \in Version /\ t.local \in Catalog
  BY DEF TypeOK, Task
<1>2. /\ new.seen = remote /\ new.phase = "done" /\ new.result # "uploaded"
  BY FetchedKnown
<1>3. remote.etag = 0 => remote = NoVersion /\ baseline = None
  <2>1. baseline # None => baseline.etag # 0 /\ baseline.etag <= remote.etag
                           /\ baseline.etag \in Nat
    BY VersionsTyped, FaithfulParts DEF KnownVersions, IsKnown, Version
  <2> QED
    BY <1>1, <2>1 DEF Origin, Version
<1>4. TaskTagged(Here, new)
  <2>1. Here.baseline = baseline
    BY DEF Here
  <2> HIDE DEF new
  <2> QED
    BY <1>2, <1>3, <2>1 DEF TaskTagged
<1>5. ASSUME ~skewed, new.result # "failed" PROVE Agrees(new.merged, remote, touched)
  <2> DEFINE found == [t EXCEPT !.phase = "done", !.seen = remote,
                                !.local = EmptyCatalog, !.base = None]
  <2>1. t.merged = EmptyCatalog /\ Untouched(t.local, t.base, touched)
    BY <1>5, FaithfulParts DEF TaskHonest
  <2>2. /\ found.merged = t.merged
        /\ DOMAIN found = {"live", "kind", "phase", "result", "local", "base", "seen", "open",
                           "merged", "etag"}
    BY <1>1 DEF Task
  <2>3. CASE remote.etag = 0
    <3>1. PICK result : new = [found EXCEPT !.result = result]
      BY <2>3 DEF Fetched
    <3> HIDE DEF found, new
    <3>2. new.merged = NoVersion.content
      BY <2>1, <2>2, <3>1 DEF NoVersion
    <3> QED
      BY <1>3, <2>3, <3>2, OwnContent
  <2>4. CASE remote.etag # 0 /\ t.base = None
    <3> DEFINE merged == Merged("Local", t.local, remote.content)
    <3>1. new = [found EXCEPT !.result = "ready", !.merged = merged]
      BY <2>4 DEF Fetched
    <3>2. \A e \in Entity : merged[e] = Preferred("Local", t.local[e], remote.content[e])
      BY DEF Merged
    <3> HIDE DEF merged, found, new
    <3>3. new.merged = merged
      BY <2>2, <3>1
    <3>4. ASSUME NEW e \in Entity \ touched PROVE merged[e] = remote.content[e]
      <4>1. t.local[e] = Missing
        BY <2>1, <2>4 DEF Untouched
      <4>2. CASE remote.content[e] = Deleted
        BY <3>2, <4>1, <4>2 DEF Preferred
      <4>3. CASE remote.content[e] # Deleted
        BY <3>2, <4>1, <4>3, SnapshotAssumption DEF Preferred
      <4> QED
        BY <4>2, <4>3
    <3> QED
      BY <3>3, <3>4 DEF Agrees, SameContent
  <2>5. CASE remote.etag # 0 /\ t.base # None
    <3> DEFINE open == Conflicts(t.base.content, t.local, remote.content)
               merged == Reconciled(t.base.content, t.local, remote.content)
               result == IF open = {} THEN "ready" ELSE "conflicts"
    <3>1. new = [found EXCEPT !.result = result, !.open = open, !.merged = merged]
      BY <2>5 DEF Fetched
    <3>2. \A e \in Entity :
            merged[e] = Selected(t.base.content[e], t.local[e], remote.content[e])
      BY DEF Reconciled
    <3> HIDE DEF open, merged, found, result, new
    <3>3. new.merged = merged
      BY <2>2, <3>1
    <3>4. ASSUME NEW e \in Entity \ touched PROVE merged[e] = remote.content[e]
      BY <2>1, <2>5, <3>2 DEF Untouched, Selected
    <3> QED
      BY <3>3, <3>4 DEF Agrees, SameContent
  <2> QED
    BY <2>3, <2>4, <2>5
<1> HIDE DEF new
<1>6. ~skewed => TaskHonest(new, touched)
  BY <1>2, <1>5 DEF TaskHonest
<1> QED
  BY <1>4, <1>6 DEF new

\* More decisions of the user leave a task honest.
LEMMA MoreHonest ==
  ASSUME NEW u, NEW v, u \subseteq v, NEW t, TaskHonest(t, u)
  PROVE  TaskHonest(t, v)
BY DEF TaskHonest, Untouched, Agrees

\* The steps of a full commit: what is staged, written and adopted differs from
\* the baseline only where the user decided.
LEMMA CommitHonest ==
  ASSUME TypeOK, UntouchedInv, skewed' = (skewed \/ Skews),
         CommitBegin \/ WorkerCommits \/ CommitDone
  PROVE  UntouchedInv'
<1>1. /\ \A t \in tasks : TaskTagged(Here, t) /\ (~skewed => TaskHonest(t, touched))
      /\ ~skewed => Untouched(config, baseline, touched) /\ Untouched(disk, baseline, touched)
      /\ ~skewed /\ commit # None => Untouched(commit.staged, baseline, touched)
      /\ Faithful(Here, touched, ~skewed)
  BY FaithfulParts DEF UntouchedInv, StagedHonest
<1>2. UNCHANGED <<tasks, wire, baseline>> /\ touched \subseteq touched'
  BY DEF CommitBegin, WorkerCommits, CommitDone
<1>3. \A t \in tasks' : TaskTagged(Here, t) /\ (~skewed => TaskHonest(t, touched'))
  BY <1>1, <1>2, MoreHonest
<1>4. \A c : Untouched(c, baseline, touched) => Untouched(c, baseline, touched')
  BY <1>2 DEF Untouched
<1>5. rt'.conflicts \in {None, rt.conflicts}
  <2> DEFINE settled == [rt EXCEPT !.conflicts = None]
  <2>1. settled \in Runtime /\ settled.conflicts = None
    BY DEF TypeOK, Runtime
  <2>2. rt' = rt \/ rt' = MarkLocalChange(settled)
    BY DEF CommitBegin, WorkerCommits, CommitDone
  <2> HIDE DEF settled
  <2> QED
    BY <2>1, <2>2, RuntimeAsks
<1>6. ~skewed => /\ Untouched(config', baseline, touched')
                 /\ Untouched(disk', baseline, touched')
                 /\ commit' # None => Untouched(commit'.staged, baseline, touched')
  <2> SUFFICES ASSUME ~skewed
               PROVE  /\ Untouched(config', baseline, touched')
                      /\ Untouched(disk', baseline, touched')
                      /\ commit' # None => Untouched(commit'.staged, baseline, touched')
    OBVIOUS
  <2>1. CASE CommitBegin
    <3>1. PICK e \in Entity, v \in Value \cup {Deleted} :
            /\ commit' = [entity |-> e, staged |-> [config EXCEPT ![e] = v],
                          status |-> "queued"]
            /\ touched' = touched \cup {e}
      BY <2>1 DEF CommitBegin
    <3> DEFINE staged == [config EXCEPT ![e] = v]
    <3>2. commit'.staged = staged /\ UNCHANGED <<config, disk>>
      BY <2>1, <3>1 DEF CommitBegin
    <3>3. \A x \in Entity \ touched' : staged[x] = config[x]
      BY <3>1 DEF TypeOK, Catalog
    <3> HIDE DEF staged
    <3>4. Untouched(staged, baseline, touched')
      BY <1>1, <1>4, <3>3 DEF Untouched
    <3> QED
      BY <1>1, <1>4, <3>2, <3>4
  <2>2. CASE WorkerCommits
    <3>1. PICK status : commit' = [commit EXCEPT !.status = status]
      BY <2>2 DEF WorkerCommits
    <3>2. commit # None /\ disk' \in {disk, commit.staged} /\ UNCHANGED config
      BY <2>2 DEF WorkerCommits
    <3>3. commit'.staged = commit.staged
      BY <3>1, <3>2 DEF TypeOK, Commit
    <3> QED
      BY <1>1, <1>4, <3>2, <3>3
  <2>3. CASE CommitDone
    <3>1. commit # None /\ config' \in {config, commit.staged} /\ UNCHANGED disk /\ commit' = None
      BY <2>3 DEF CommitDone
    <3> QED
      BY <1>1, <1>4, <3>1
  <2> QED
    BY <2>1, <2>2, <2>3
<1>7. ~skewed' => ~skewed
  OBVIOUS
<1>8. Faithful(Here, touched, ~skewed)'
  BY <1>1, <1>2, <1>3, <1>5, <1>6, <1>7, MovedFaithful
<1>9. StagedHonest'
  BY <1>2, <1>6, <1>7 DEF StagedHonest, Untouched
<1> QED
  BY <1>8, <1>9 DEF UntouchedInv

\* A step that leaves the configuration, the file and the baseline alone, and
\* adds no task and no request but honest ones.
LEMMA StepHonest ==
  ASSUME UntouchedInv, skewed' = (skewed \/ Skews),
         UNCHANGED <<config, commit, disk, baseline, touched>>,
         rt'.conflicts \in {None, rt.conflicts},
         \A t \in tasks' : t \in tasks \/ (TaskTagged(Here, t) /\ (~skewed => TaskHonest(t, touched))),
         \A r \in wire' : r \in wire \/ (~skewed => Agrees(r.merged, r.seen, touched))
  PROVE  UntouchedInv'
<1>1. Faithful(Here, touched, ~skewed) /\ StagedHonest
  BY DEF UntouchedInv
<1>2. \A t \in tasks' : TaskTagged(Here, t) /\ (~skewed => TaskHonest(t, touched'))
  BY <1>1, FaithfulParts
<1>3. /\ ~skewed' => ~skewed
      /\ touched \subseteq touched'
      /\ ~skewed => /\ Untouched(config', baseline, touched')
                    /\ Untouched(disk', baseline, touched')
                    /\ \A r \in wire' : r \in wire \/ Agrees(r.merged, r.seen, touched')
  BY <1>1, FaithfulParts
<1>4. Faithful(Here, touched, ~skewed)'
  BY <1>1, <1>2, <1>3, MovedFaithful
<1> QED
  BY <1>1, <1>3, <1>4, StagedKept DEF UntouchedInv

\* A request carries what its task does.
LEMMA RequestsHonest ==
  ASSUME UntouchedInv, NEW t \in tasks, t.phase = "put", t.result = "none", ~skewed,
         NEW r, r = [seen |-> t.seen, merged |-> t.merged]
  PROVE  Agrees(r.merged, r.seen, touched)
<1>1. TaskHonest(t, touched)
  BY FaithfulParts DEF UntouchedInv
<1> QED
  BY <1>1 DEF TaskHonest

\* A write of a merge that agrees with the version the object has.
LEMMA WriteKeepsUntouched ==
  ASSUME NEW merged, NEW seen, Agrees(merged, seen, touched), IsKnown(seen), Matches(seen),
         remote'.content = merged, UNCHANGED touched
  PROVE  UntouchedKept
<1>1. seen.content = remote.content
  BY DEF IsKnown, Matches
<1> QED
  BY <1>1 DEF UntouchedKept, Agrees

\* The user's decisions on open conflicts: what is decided for the remote side
\* agrees with it, what is decided for this device is the user's from then on.
LEMMA ResolveHonest ==
  ASSUME TypeOK, NeverWedged, Plans(Here, yielded), Carries(Here, yielded), UntouchedInv,
         skewed' = (skewed \/ Skews), rt.conflicts # None,
         NEW side \in {"Local", "Remote"}, NEW decided \in SUBSET Entity,
         Resolve(side, decided)
  PROVE  UntouchedInv'
<1> DEFINE pending == rt.conflicts
           open    == pending.open \ decided
           merged  == [e \in Entity |-> IF e \in decided /\ side = "Remote"
                                          THEN pending.seen.content[e]
                                          ELSE pending.merged[e]]
           r       == [rt EXCEPT !.conflicts = None]
           settled == [Here EXCEPT !.rt = r]
           u       == IF side = "Local" THEN touched \cup decided ELSE touched
<1>1. /\ Here \in Machine /\ Here.rt = rt /\ Here.tasks = tasks /\ Here.config = config
      /\ Here.baseline = baseline /\ Here.disk = disk /\ Here.wire = wire
  BY TypeOKIsMachine DEF Here
<1>2. Outcomes \subseteq BOOLEAN /\ Counted \subseteq BOOLEAN
  BY DEF Outcomes, Counted
<1>3. rt \in Runtime
  BY DEF TypeOK
<1>4. pending \in Pending /\ pending.seen.etag # 0
  BY <1>1, <1>3 DEF Runtime, Plans
<1>5. merged \in Catalog /\ pending.seen \in Version
  BY <1>4 DEF Pending, Version, Catalog
<1>6. touched' = u /\ touched \subseteq u /\ UNCHANGED <<commit, edits, crashes>>
  BY DEF Resolve
<1>7. NoneLive(Here)
  BY <1>1 DEF NoneLive, Carries, TaskCarries
<1>8. Faithful(Here, touched, ~skewed) /\ StagedHonest
  BY DEF UntouchedInv
<1>9. Faithful(Here, u, ~skewed)
  BY <1>6, <1>8, WeakerFaithful
<1>10. ~skewed => Agrees(merged, pending.seen, u)
  BY <1>6, <1>8, FaithfulParts DEF Agrees, SameContent
<1>11. StagedHonest'
  BY <1>6, <1>8, StagedKept
<1> HIDE DEF u
<1>12. CASE open # {}
  <2> DEFINE c == [pending EXCEPT !.open = open, !.merged = merged]
             q == [rt EXCEPT !.conflicts = c]
             asks == [Here EXCEPT !.rt = q]
  <2>1. UNCHANGED <<tasks, config, wire, disk, baseline>> /\ rt' = q
    BY <1>3, <1>12 DEF Resolve, Runtime
  <2>2. c.merged = merged /\ c.seen = pending.seen
    BY <1>4 DEF Pending
  <2> HIDE DEF c, merged
  <2>3. q.conflicts = c
    BY <1>3 DEF Runtime
  <2> HIDE DEF q
  <2>4. /\ asks.rt = q /\ asks.tasks = tasks /\ asks.config = config
        /\ asks.baseline = baseline /\ asks.disk = disk /\ asks.wire = wire
    BY <1>1 DEF Machine
  <2> HIDE DEF asks
  <2>5. Faithful(asks, u, ~skewed)
    BY <1>1, <1>9, <1>10, <2>2, <2>3, <2>4 DEF Faithful, TaskTagged
  <2>6. Become(asks)
    BY <2>1, <2>4 DEF Become
  <2>7. Faithful(Here, touched, ~skewed)'
    BY <1>6, <2>5, <2>6, BecomeFaithful
  <2> QED
    BY <1>11, <2>7 DEF UntouchedInv
<1>13. CASE open = {}
  <2> DEFINE after(c, s, b) == PreflightReady(settled, merged, pending.seen, c, s, b)
  <2>1. [Here EXCEPT !.rt.conflicts = None] = settled
    BY DEF Here
  <2>2. PICK counted \in Counted, saved \in Outcomes, based \in Outcomes :
          Become(after(counted, saved, based))
    BY <1>13, <2>1 DEF Resolve
  <2>3. r \in Runtime /\ r.conflicts = None /\ IsStale(r) = IsStale(rt)
    BY <1>3 DEF Runtime, IsStale
  <2> HIDE DEF r, merged
  <2>4. /\ settled \in Machine /\ settled.rt = r /\ settled.tasks = Here.tasks
        /\ settled.config = config /\ settled.baseline = baseline
        /\ settled.disk = disk /\ settled.wire = wire
    BY <1>1, <2>3 DEF Machine
  <2> DEFINE n == after(counted, saved, based)
  <2> HIDE DEF settled
  <2>5. NoneLive(settled) /\ Faithful(settled, u, ~skewed)
    BY <1>1, <1>7, <1>9, <2>3, <2>4, SameFaithful DEF NoneLive
  <2>6. Faithful(n, u, ~skewed /\ ~Skew(settled, n))
    BY <1>2, <1>4, <1>5, <1>10, <2>4, <2>5, PreflightReadyFaithful
  <2>7. Become(n)
    BY <2>2
  <2> HIDE DEF n
  <2>8. ~skewed' => ~skewed /\ ~Skew(settled, n)
    BY <1>6, <2>3, <2>4, <2>7 DEF Skews, Skew, Become
  <2>9. Faithful(Here, touched, ~skewed)'
    BY <1>6, <2>6, <2>7, <2>8, BecomeFaithful
  <2> QED
    BY <1>11, <2>9 DEF UntouchedInv
<1> QED
  BY <1>12, <1>13

\* handle_sync_finished, with the run that it may start.
LEMMA HandleHonest ==
  ASSUME TypeOK, NeverWedged, Plans(Here, yielded), Carries(Here, yielded), UntouchedInv,
         skewed' = (skewed \/ Skews), NEW t \in tasks, HandleFinished(t)
  PROVE  UntouchedInv'
<1> DEFINE rest == tasks \ {t}
           n == [Here EXCEPT !.tasks = rest]
<1>1. /\ Here \in Machine /\ Here.rt = rt /\ Here.tasks = tasks /\ Here.config = config
      /\ Here.baseline = baseline /\ Here.disk = disk /\ Here.wire = wire
  BY TypeOKIsMachine DEF Here
<1>2. Outcomes \subseteq BOOLEAN /\ Counted \subseteq BOOLEAN
  BY DEF Outcomes, Counted
<1>3. rt \in Runtime
  BY DEF TypeOK
<1>4. t \in Task /\ TaskCarries(Here, t, yielded) /\ TaskPlan(Here, t, yielded)
      /\ t.phase = "done"
  BY <1>1 DEF TypeOK, Carries, Plans, HandleFinished
<1>5. UNCHANGED <<commit, touched, edits, crashes>>
  BY DEF HandleFinished
<1>6. Faithful(Here, touched, ~skewed) /\ StagedHonest
  BY DEF UntouchedInv
<1>7. TaskTagged(Here, t) /\ (~skewed => TaskHonest(t, touched))
  BY <1>6, FaithfulParts
<1>8. StagedHonest'
  BY <1>5, <1>6, StagedKept
<1>9. /\ n \in Machine /\ n.rt = rt /\ n.tasks = rest /\ n.config = config
      /\ n.baseline = baseline /\ n.disk = disk /\ n.wire = wire
  BY <1>1 DEF Here, Machine
<1>10. CASE ~t.live
  <2>1. Become(n)
    BY <1>10 DEF HandleFinished
  <2> HIDE DEF n
  <2>2. Faithful(n, touched, ~skewed)
    BY <1>1, <1>6, <1>9 DEF Faithful, TaskTagged
  <2>3. Faithful(Here, touched, ~skewed)'
    BY <1>5, <2>1, <2>2, BecomeFaithful
  <2> QED
    BY <1>8, <2>3 DEF UntouchedInv
<1>11. CASE t.live
  <2> DEFINE r == [rt EXCEPT !.inProgress = FALSE]
             idle == [n EXCEPT !.rt = r]
             result(c, s, b) == Dispatched(idle, t, c, s, b)
             after(c, s, b, s2) == ServePending(result(c, s, b), s2)
  <2>1. [n EXCEPT !.rt.inProgress = FALSE] = idle
    BY DEF Here
  <2>2. PICK counted \in Counted, saved \in Outcomes, based \in Outcomes, saved2 \in Outcomes :
          Become(after(counted, saved, based, saved2))
    BY <1>11, <2>1 DEF HandleFinished
  <2>3. /\ r \in Runtime /\ r.inProgress = FALSE /\ r.conflicts = rt.conflicts
        /\ r.activeGen = rt.activeGen /\ r.localGen = rt.localGen
    BY <1>3 DEF Runtime
  <2> HIDE DEF n, r
  <2>4. /\ idle \in Machine /\ idle.rt = r /\ idle.tasks = rest /\ idle.config = config
        /\ idle.baseline = baseline /\ idle.disk = disk /\ idle.wire = wire
    BY <1>9, <2>3 DEF Machine
  <2> HIDE DEF idle
  <2>5. Owned(idle) /\ NoneLive(idle)
    BY <1>11, <2>3, <2>4 DEF Owned, NeverWedged, NoneLive
  <2>6. Faithful(idle, touched, ~skewed) /\ TaskTagged(idle, t)
    BY <1>1, <1>6, <1>7, <2>3, <2>4 DEF Faithful, TaskTagged
  <2>7. /\ idle.rt.activeGen # None /\ t.result # "downloaded"
        /\ FirstUpload(t) /\ idle.rt.activeGen = idle.rt.localGen => t.merged = idle.config
    BY <1>1, <1>4, <1>11, <2>3, <2>4 DEF TaskCarries, TaskPlan
  <2> DEFINE d == result(counted, saved, based)
             a == after(counted, saved, based, saved2)
  <2>8. d \in Machine /\ Owned(d)
    BY <1>2, <1>4, <2>4, <2>5, DispatchedTypeOK, DispatchedOwned
  <2>9. Faithful(d, touched, ~skewed /\ ~Skew(idle, d))
    BY <1>2, <1>4, <1>7, <1>11, <2>4, <2>5, <2>6, <2>7, DispatchedFaithful
  <2>10. a = ServePending(d, saved2) /\ Become(a)
    BY <2>2
  <2> HIDE DEF d, a
  <2>11. /\ Faithful(a, touched, ~skewed /\ ~Skew(idle, d))
         /\ a.config = d.config /\ a.baseline = d.baseline
    BY <1>2, <2>8, <2>9, <2>10, ServePendingFaithful, ServePendingStores DEF Stores
  <2>12. config' = d.config /\ baseline' = d.baseline
    BY <2>10, <2>11 DEF Become
  <2>13. ~skewed' => ~skewed /\ ~Skew(idle, d)
    BY <1>5, <2>3, <2>4, <2>12 DEF Skews, Skew, IsStale
  <2>14. Faithful(Here, touched, ~skewed)'
    BY <1>5, <2>10, <2>11, <2>13, BecomeFaithful
  <2> QED
    BY <1>8, <2>14 DEF UntouchedInv
<1> QED
  BY <1>10, <1>11

\* Every step of an automatic run keeps the record faithful, and one that is
\* not skewed writes over no other device's change: one case per action.
LEMMA NextHonest ==
  ASSUME Paths \cap {"catalog", "manual", "restore"} = {}, TypeOK, Origin, KnownVersions,
         NeverWedged, Plans(Here, yielded), Carries(Here, yielded), UntouchedInv, Next
  PROVE  UntouchedInv' /\ (skewed' \/ UntouchedKept)
<1>1. Here.rt = rt /\ Here.tasks = tasks
  BY DEF Here
<1>2. skewed' = (skewed \/ Skews)
  BY DEF Next
<1>3. UNCHANGED remote => UntouchedKept
  BY DEF UntouchedKept, SameContent
<1>4. \A t \in tasks : /\ t \in Task /\ t.kind = "upload" /\ TaskPlan(Here, t, yielded)
                       /\ TaskTagged(Here, t) /\ (~skewed => TaskHonest(t, touched))
                       /\ IsKnown(t.seen)
  BY <1>1, FaithfulParts DEF TypeOK, Carries, TaskCarries, Plans, UntouchedInv, KnownVersions
<1>5. ASSUME NEW t \in tasks, NEW new, Replaced(t, new), TaskTagged(Here, new),
             ~skewed => TaskHonest(new, touched),
             UNCHANGED <<rt, config, commit, disk, baseline, touched>>,
             wire' \subseteq wire \cup {[seen |-> t.seen, merged |-> t.merged]},
             wire' = wire \/ t.phase = "put"
      PROVE  UntouchedInv'
  <2>1. \A u \in tasks' : u \in tasks \/ (TaskTagged(Here, u) /\ (~skewed => TaskHonest(u, touched)))
    BY <1>5 DEF Replaced
  <2>2. \A r \in wire' : r \in wire \/ (~skewed => Agrees(r.merged, r.seen, touched))
    BY <1>4, <1>5, RequestsHonest DEF TaskPlan
  <2> QED
    BY <1>2, <1>5, <2>1, <2>2, StepHonest
<1>6. ASSUME CommitBegin \/ WorkerCommits \/ CommitDone
      PROVE  UntouchedInv' /\ (skewed' \/ UntouchedKept)
  <2>1. UNCHANGED remote
    BY <1>6 DEF CommitBegin, WorkerCommits, CommitDone
  <2> QED
    BY <1>2, <1>3, <1>6, <2>1, CommitHonest
<1>7. ~CatalogEdit /\ ~ManualSync /\ ~ManualRestore
  BY DEF CatalogEdit, ManualSync, ManualRestore
<1>8. ASSUME RecordUsage PROVE UntouchedInv' /\ (skewed' \/ UntouchedKept)
  <2>1. /\ UNCHANGED <<config, commit, disk, baseline, touched, tasks, wire, remote>>
        /\ rt' = MarkLocalChange(rt) /\ rt \in Runtime
    BY <1>8 DEF RecordUsage, TypeOK
  <2>2. rt'.conflicts = rt.conflicts
    BY <2>1, RuntimeAsks
  <2> QED
    BY <1>2, <1>3, <2>1, <2>2, StepHonest
<1>9. ASSUME OtherDeviceWrites PROVE UntouchedInv' /\ (skewed' \/ UntouchedKept)
  <2>1. UNCHANGED <<rt, config, commit, disk, baseline, touched, tasks, wire>>
    BY <1>9 DEF OtherDeviceWrites, device
  <2>2. remoteWrites' # remoteWrites
    BY <1>9 DEF OtherDeviceWrites, TypeOK
  <2> QED
    BY <1>2, <2>1, <2>2, StepHonest DEF UntouchedKept
<1>10. ASSUME NEW r \in wire, LatePut(r) PROVE UntouchedInv' /\ (skewed' \/ UntouchedKept)
  <2>1. UNCHANGED <<rt, config, commit, disk, baseline, touched, tasks>> /\ wire' \subseteq wire
    BY <1>10 DEF LatePut
  <2>2. ~skewed => Agrees(r.merged, r.seen, touched)
    BY FaithfulParts DEF UntouchedInv
  <2>3. IsKnown(r.seen)
    BY DEF KnownVersions
  <2>4. UNCHANGED remote \/ (Matches(r.seen) /\ remote'.content = r.merged)
    BY <1>10 DEF LatePut
  <2> QED
    BY <1>2, <1>3, <2>1, <2>2, <2>3, <2>4, StepHonest, WriteKeepsUntouched
<1>11. ASSUME AutomaticTrigger PROVE UntouchedInv' /\ (skewed' \/ UntouchedKept)
  <2>1. /\ UNCHANGED <<commit, remote, touched>>
        /\ \E saved \in Outcomes : Become(RequestAutomatic(Here, saved))
    BY <1>11 DEF AutomaticTrigger
  <2>2. PICK saved \in Outcomes : Become(RequestAutomatic(Here, saved))
    BY <2>1
  <2>3. saved \in BOOLEAN /\ Here \in Machine /\ Owned(Here)
        /\ Faithful(Here, touched, ~skewed)
    BY TypeOKIsMachine DEF Outcomes, Owned, NeverWedged, Here, UntouchedInv
  <2>4. Faithful(RequestAutomatic(Here, saved), touched, ~skewed)
    BY <2>3, RequestAutomaticFaithful
  <2>5. Faithful(Here, touched, ~skewed)' /\ StagedHonest'
    BY <1>2, <2>1, <2>2, <2>4, BecomeFaithful, StagedKept DEF UntouchedInv
  <2> QED
    BY <1>3, <2>1, <2>5 DEF UntouchedInv
<1>12. ASSUME ResolveConflict PROVE UntouchedInv' /\ (skewed' \/ UntouchedKept)
  <2>1. rt.conflicts # None /\ rt.conflicts.open \subseteq Entity
    BY <1>12 DEF ResolveConflict, Runtime, Pending, TypeOK
  <2>2. PICK side \in {"Local", "Remote"}, decided \in SUBSET Entity : Resolve(side, decided)
    BY <1>12, <2>1 DEF ResolveConflict
  <2>3. UNCHANGED remote
    BY <2>2 DEF Resolve
  <2> QED
    BY <1>2, <1>3, <2>1, <2>2, <2>3, ResolveHonest
<1>13. ASSUME NEW t \in tasks, TaskFetches(t)
       PROVE  UntouchedInv' /\ (skewed' \/ UntouchedKept)
  <2>1. /\ t.phase = "fetch" /\ Replaced(t, Fetched(t))
        /\ UNCHANGED <<rt, config, commit, disk, baseline, touched, wire, remote>>
    BY <1>13 DEF TaskFetches
  <2>2. t.result = "none" /\ t.kind = "upload"
    BY <1>4, <2>1 DEF TaskPlan
  <2>3. TaskTagged(Here, Fetched(t)) /\ (~skewed => TaskHonest(Fetched(t), touched))
    BY <2>1, <2>2, FetchedFaithful DEF UntouchedInv
  <2> QED
    BY <1>3, <1>5, <2>1, <2>3
<1>14. ASSUME NEW t \in tasks, TaskAnswered(t) \/ TaskFails(t)
       PROVE  UntouchedInv' /\ (skewed' \/ UntouchedKept)
  <2>1. PICK result \in {"uploaded", "failed"} :
          /\ result = "uploaded" => t.phase = "acked"
          /\ Replaced(t, [t EXCEPT !.phase = "done", !.result = result])
    BY <1>14 DEF TaskAnswered, TaskFails
  <2> DEFINE new == [t EXCEPT !.phase = "done", !.result = result]
  <2>2. /\ new.phase = "done" /\ new.result = result /\ new.live = t.live
        /\ new.etag = t.etag /\ new.seen = t.seen /\ new.merged = t.merged
    BY <1>4 DEF Task
  <2>3. /\ Replaced(t, new)
        /\ UNCHANGED <<rt, config, commit, disk, baseline, touched, remote>>
        /\ wire' \subseteq wire \cup {[seen |-> t.seen, merged |-> t.merged]}
        /\ wire' = wire \/ t.phase = "put"
    BY <1>14, <2>1 DEF TaskAnswered, TaskFails
  <2> HIDE DEF new
  <2>4. result = "uploaded" => t.result = "none" /\ t.phase = "acked"
    BY <1>4, <2>1 DEF TaskPlan
  <2>5. TaskTagged(Here, new) /\ (~skewed => TaskHonest(new, touched))
    BY <1>4, <2>2, <2>4 DEF TaskTagged, TaskHonest
  <2> QED
    BY <1>3, <1>5, <2>3, <2>5
<1>15. ASSUME NEW t \in tasks, ServerPuts(t)
       PROVE  UntouchedInv' /\ (skewed' \/ UntouchedKept)
  <2> DEFINE tag == remote.etag + 1
             acked == [t EXCEPT !.phase = "acked", !.etag = tag]
             refused == [t EXCEPT !.phase = "done", !.result = "failed"]
  <2>1. /\ t.phase = "put" /\ t.result = "none"
        /\ UNCHANGED <<rt, config, commit, disk, baseline, touched, wire>>
    BY <1>4, <1>15 DEF ServerPuts, TaskPlan
  <2>2. \/ Replaced(t, acked) /\ Matches(t.seen) /\ remote'.content = t.merged
        \/ Replaced(t, refused) /\ UNCHANGED remote
    BY <1>15 DEF ServerPuts
  <2>3. /\ acked.phase = "acked" /\ acked.live = t.live /\ acked.etag = tag /\ tag # 0
        /\ acked.seen = t.seen /\ acked.merged = t.merged /\ acked.result = t.result
    BY <1>4, VersionsTyped DEF Task, Version
  <2>4. /\ refused.phase = "done" /\ refused.result = "failed" /\ refused.live = t.live
        /\ refused.seen = t.seen
    BY <1>4 DEF Task
  <2> HIDE DEF acked, refused
  <2>5. /\ TaskTagged(Here, acked) /\ (~skewed => TaskHonest(acked, touched))
        /\ TaskTagged(Here, refused) /\ (~skewed => TaskHonest(refused, touched))
    BY <1>4, <2>1, <2>3, <2>4 DEF TaskTagged, TaskHonest
  <2>6. UntouchedInv'
    BY <1>5, <2>1, <2>2, <2>5
  <2>7. ~skewed => Agrees(t.merged, t.seen, touched)
    BY <1>4, <2>1 DEF TaskHonest
  <2>8. skewed' \/ UntouchedKept
    BY <1>2, <1>3, <1>4, <2>1, <2>2, <2>7, WriteKeepsUntouched
  <2> QED
    BY <2>6, <2>8
<1>16. ASSUME NEW t \in tasks, HandleFinished(t)
       PROVE  UntouchedInv' /\ (skewed' \/ UntouchedKept)
  <2>1. UNCHANGED remote
    BY <1>16 DEF HandleFinished
  <2> QED
    BY <1>2, <1>3, <1>16, <2>1, HandleHonest
<1>17. ASSUME Crash PROVE UntouchedInv' /\ (skewed' \/ UntouchedKept)
  <2>1. /\ UNCHANGED <<disk, baseline, touched, remote>>
        /\ config' = disk /\ commit' = None /\ tasks' = {} /\ rt' = FreshRuntime
    BY <1>17 DEF Crash
  <2>2. rt'.conflicts = None
    BY <2>1 DEF FreshRuntime
  <2>3. \A r \in wire' : r \in wire \/ (~skewed => Agrees(r.merged, r.seen, touched))
    <3>1. \A r \in wire' : r \in wire \/ \E t \in tasks :
            t.phase = "put" /\ r = [seen |-> t.seen, merged |-> t.merged]
      BY <1>17 DEF Crash, Outstanding
    <3> QED
      BY <1>4, <3>1, RequestsHonest DEF TaskPlan
  <2>4. ~skewed => Untouched(disk, baseline, touched)
    BY FaithfulParts DEF UntouchedInv
  <2>5. Faithful(Here, touched, ~skewed)
    BY DEF UntouchedInv
  <2>6. Faithful(Here, touched, ~skewed)'
    BY <1>2, <2>1, <2>2, <2>3, <2>4, <2>5, MovedFaithful
  <2>7. StagedHonest'
    BY <2>1 DEF StagedHonest
  <2> QED
    BY <1>3, <2>1, <2>6, <2>7 DEF UntouchedInv
<1> QED
  BY <1>6, <1>7, <1>8, <1>9, <1>10, <1>11, <1>12, <1>13, <1>14, <1>15, <1>16, <1>17
     DEF Next, Step

\* A device that only commits changes, counts usage and synchronizes by itself
\* never undoes on the server what another device did to an entity its user
\* never decided about, for every number of entities, edits, writes of other
\* devices, crashes, failures and late requests: until its baseline moves past
\* a local change it did not merge, or its configuration moves without it.
THEOREM OthersKept ==
  ASSUME Paths \cap {"catalog", "manual", "restore"} = {}
  PROVE  Spec => UntouchedKeptUnlessSkewed
<1>1. Init => UntouchedInv
  <2> SUFFICES ASSUME Init PROVE UntouchedInv
    OBVIOUS
  <2>1. /\ Here.tasks = {} /\ Here.rt.conflicts = None /\ Here.wire = {}
        /\ Here.config = config /\ Here.disk = config /\ Here.baseline = baseline
        /\ commit = None
    BY DEF Init, Here, FreshRuntime
  <2>2. CASE config = EmptyCatalog /\ baseline = None
    <3>1. Untouched(config, baseline, touched)
      BY <2>2 DEF Untouched, EmptyCatalog
    <3> QED
      BY <2>1, <2>2, <3>1 DEF UntouchedInv, StagedHonest, Faithful
  <2>3. CASE remote = [content |-> config, etag |-> 1] /\ baseline = remote
    <3>1. Untouched(config, baseline, touched)
      <4>1. config \in Catalog
        BY DEF Init, Catalog
      <4>2. baseline \in Version /\ baseline.content = config
        BY <2>3, <4>1 DEF Version
      <4> QED
        BY <4>2, OwnContent, CoordinatorAssumption
    <3>2. baseline.etag # 0
      BY <2>3
    <3> QED
      BY <2>1, <3>1, <3>2 DEF UntouchedInv, StagedHonest, Faithful
  <2> QED
    BY <2>2, <2>3 DEF Init
<1>2. /\ TypeOK /\ Origin /\ KnownVersions /\ NeverWedged /\ Plans(Here, yielded)
      /\ Carries(Here, yielded) /\ UntouchedInv /\ [Next]_vars
      => /\ UntouchedInv'
         /\ [skewed' \/ UntouchedKept]_vars
  <2> SUFFICES ASSUME TypeOK, Origin, KnownVersions, NeverWedged, Plans(Here, yielded),
                      Carries(Here, yielded), UntouchedInv, [Next]_vars
               PROVE  UntouchedInv' /\ [skewed' \/ UntouchedKept]_vars
    OBVIOUS
  <2>1. CASE Next
    BY <2>1, NextHonest
  <2>2. CASE UNCHANGED vars
    <3>1. /\ Faithful(Here, touched, ~skewed) /\ StagedHonest
          /\ UNCHANGED <<rt, config, commit, tasks, wire, disk, baseline, touched, skewed>>
      BY <2>2 DEF vars, UntouchedInv
    <3>2. Become(Here)
      BY <3>1 DEF Become, Here
    <3>3. Faithful(Here, touched, ~skewed)'
      BY <3>1, <3>2, BecomeFaithful
    <3>4. StagedHonest'
      BY <3>1 DEF StagedHonest, Untouched
    <3> QED
      BY <2>2, <3>3, <3>4 DEF UntouchedInv
  <2> QED
    BY <2>1, <2>2
<1>3. UntouchedKeptUnlessSkewed <=> [][skewed' \/ UntouchedKept]_vars
  BY PTL DEF UntouchedKeptUnlessSkewed
<1>4. Spec => [](Plans(Here, yielded) /\ ChangeNeverForgotten)
  BY PlansInductive
<1>5. Spec => []Carries(Here, yielded) /\ [][EditKept]_vars
  BY CarriesInductive
<1> QED
  BY <1>1, <1>2, <1>3, <1>4, <1>5, TypeCorrect, KnownInductive, AlwaysOwned, PTL DEF Spec
=============================================================================
