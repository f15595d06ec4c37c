----------------------------- MODULE WindowClose -----------------------------
(***************************************************************************)
(* Closing a main window (src/app/startup.rs, src/app/config_sync.rs): the *)
(* confirmation dialog and a last synchronization run side by side, and    *)
(* both interleave with full commits of the configuration, with automatic  *)
(* and manual synchronization, and with local changes.                     *)
(*                                                                         *)
(* The coordinator is the one of SyncCoordinator without its data: what a  *)
(* handler decides from configurations is a choice here.                   *)
(***************************************************************************)
EXTENDS Naturals

CONSTANTS
  CommitKinds,  \* the variants of commit_staged_config_async in use
  MaxChanges    \* bound: commits and other local changes

ASSUME CloseAssumption == CommitKinds \subseteq {"plain", "inWindow"} /\ MaxChanges \in Nat

VARIABLES
  settings,  \* [webdav, enabled]: the backend is WebDAV; sync_enabled
  window,    \* "open", or "closed" once finalize_main_window_close has run
  dialog,    \* close_prompt_open
  pending,   \* pending_close_window.is_some()
  close,     \* close_sync_requested, close_sync_running, close_sync_completed
  rt,        \* SyncRuntimeState
  task,      \* the current task of the supervisor's entry "sync-operation"
  commit,    \* the full commit in flight, or "none"
  changes,   \* counter for the bound
  gaps       \* auxiliary: why a queued close synchronization has no driver

vars == <<settings, window, dialog, pending, close, rt, task, commit, changes, gaps>>

Kinds == {"none", "preflight", "upload", "restore", "other"}

\* active: active_reconciliation_generation is absent, the newest local
\* generation, or an older one.
Runtime ==
  [inProgress : BOOLEAN, pendingAutomatic : BOOLEAN, conflicts : BOOLEAN,
   active : {"none", "newest", "older"}, unsynced : BOOLEAN]

CloseSync == [requested : BOOLEAN, running : BOOLEAN, completed : BOOLEAN]

\* What a handler of this module may change.
Machine ==
  [window : {"open", "closed"}, dialog : BOOLEAN, pending : BOOLEAN,
   close : CloseSync, rt : Runtime, task : Kinds, commit : CommitKinds \cup {"none"}]

Here ==
  [window |-> window, dialog |-> dialog, pending |-> pending, close |-> close,
   rt |-> rt, task |-> task, commit |-> commit]

Become(m) ==
  /\ window' = m.window /\ dialog' = m.dialog /\ pending' = m.pending
  /\ close' = m.close /\ rt' = m.rt /\ task' = m.task /\ commit' = m.commit
-----------------------------------------------------------------------------
(* SyncRuntimeState.                                                       *)

\* note_local_config_saved.
NoteLocalChange(r) ==
  [r EXCEPT !.conflicts = FALSE,
            !.active = IF r.active = "none" THEN "none" ELSE "older",
            !.unsynced = TRUE,
            !.pendingAutomatic = r.pendingAutomatic \/ r.inProgress]

Abandon(r) == [r EXCEPT !.active = "none", !.pendingAutomatic = TRUE]

RecordSuccess(r) ==
  LET unsynced == r.unsynced /\ r.active # "newest"
  IN  [r EXCEPT !.active = "none",
                !.unsynced = unsynced,
                !.pendingAutomatic = r.pendingAutomatic \/ unsynced]

RecordFailure(r) == [r EXCEPT !.active = "none"]
-----------------------------------------------------------------------------
(* The close synchronization.                                              *)

\* How the start of an operation goes: automatic_sync_form fails, begin_sync
\* refuses the credentials or cannot save, the privacy password is missing,
\* or the task is spawned.
Starts == {"unformed", "refused", "short", "spawned"}

\* A mutant of Begin: the task is not accounted for.
BeginUnmarked(m, kind, start) ==
  IF m.rt.inProgress \/ start \in {"unformed", "refused"} THEN m
  ELSE IF kind = "preflight" /\ start = "short" THEN [m EXCEPT !.rt.active = "newest"]
  ELSE [m EXCEPT !.rt.inProgress = TRUE, !.rt.active = "newest"]

\* begin_sync, begin_reconciliation and the task of an operation.
Begin(m, kind, start) ==
  IF m.rt.inProgress \/ start \in {"unformed", "refused"} THEN m
  ELSE IF kind = "preflight" /\ start = "short" THEN [m EXCEPT !.rt.active = "newest"]
  ELSE [m EXCEPT !.rt.inProgress = TRUE,
                 !.rt.active = IF kind = "other" THEN m.rt.active ELSE "newest",
                 !.task = kind]

Closed(m) == [m EXCEPT !.window = "closed", !.dialog = FALSE, !.task = "none"]

\* A mutant of ApprovePending: any completed synchronization closes.
ApproveAlways(m, inWindow) ==
  IF inWindow THEN [m EXCEPT !.pending = FALSE, !.dialog = FALSE]
  ELSE Closed([m EXCEPT !.pending = FALSE])

\* approve_pending_close.  The update of a window that is already being
\* updated fails, and takes the confirmation with it.
ApprovePending(m, inWindow) ==
  IF ~m.pending THEN m
  ELSE IF inWindow THEN [m EXCEPT !.pending = FALSE, !.dialog = FALSE]
  ELSE Closed([m EXCEPT !.pending = FALSE])

CompleteClose(m, inWindow) ==
  ApprovePending([m EXCEPT !.close.running = FALSE, !.close.completed = TRUE], inWindow)

\* run_close_sync.
RunClose(m, start, inWindow) ==
  LET started == Begin([m EXCEPT !.close.running = TRUE], "preflight", start)
  IN  IF ~m.close.requested \/ m.close.running \/ m.close.completed \/ m.commit # "none" THEN m
      ELSE IF ~settings.webdav THEN CompleteClose(m, inWindow)
      ELSE IF started.rt.inProgress THEN started
      ELSE CompleteClose(started, inWindow)

\* A mutant of ContinueQueued: it does not look for a queued close.
ContinueNothing(m, start, inWindow) == m

\* continue_queued_close_sync.
ContinueQueued(m, start, inWindow) ==
  IF m.close.requested /\ ~m.close.running /\ ~m.close.completed /\ ~m.rt.inProgress
    THEN RunClose(m, start, inWindow) ELSE m

\* request_automatic_sync.
RequestAutomatic(m, start) ==
  IF ~settings.enabled \/ ~settings.webdav \/ m.rt.conflicts THEN m
  ELSE IF m.rt.inProgress THEN [m EXCEPT !.rt.pendingAutomatic = TRUE]
  ELSE IF start = "unformed" THEN m
  ELSE Begin([m EXCEPT !.rt.active = "newest"], "preflight", start)
-----------------------------------------------------------------------------
(* The result handlers.                                                    *)

\* handle_sync_upload_preflight_ready: a stale plan is abandoned; otherwise
\* the merge equals the remote and is adopted, is not adopted because it
\* cannot be stored or compared ("lost"), is to be uploaded but gives no
\* payload ("unsealed"), or is uploaded.
PlanOutcomes == {"adopted", "lost", "unsealed", "uploads"}

PreflightReady(m, outcome, start) ==
  IF m.rt.active = "older" THEN [m EXCEPT !.rt = Abandon(m.rt)]
  ELSE CASE outcome = "adopted"  -> [m EXCEPT !.rt = RecordSuccess(m.rt)]
         [] outcome = "lost"     -> m
         [] outcome = "uploads"  -> [m EXCEPT !.rt.inProgress = TRUE, !.task = "upload"]
         [] outcome = "unsealed" ->
              LET idle == [m EXCEPT !.rt.inProgress = FALSE]
              IN  IF m.close.running THEN CompleteClose(idle, FALSE)
                  ELSE ContinueQueued(idle, start, FALSE)

Results(kind) ==
  CASE kind = "preflight" -> {"ready", "conflicts", "blocked", "failed"}
    [] kind = "upload"    -> {"uploaded", "failed"}
    [] kind = "restore"   -> {"downloaded", "failed"}
    [] kind = "other"     -> {"checked", "initialized", "failed"}

\* A result is stored unless its outcome is "lost".
Dispatched(m, result, outcome, start) ==
  CASE result = "ready" -> PreflightReady(m, outcome, start)
    [] result \in {"conflicts", "downloaded"} /\ m.rt.active = "older" ->
         [m EXCEPT !.rt = Abandon(m.rt)]
    [] result = "conflicts" /\ m.rt.active # "older" -> [m EXCEPT !.rt.conflicts = TRUE]
    [] result = "uploaded" \/ (result = "downloaded" /\ m.rt.active # "older") ->
         IF outcome # "lost" THEN [m EXCEPT !.rt = RecordSuccess(m.rt)] ELSE m
    [] result \in {"blocked", "checked"} -> m
    [] result = "initialized" -> Begin(m, "preflight", start)
    [] result = "failed" -> [m EXCEPT !.rt = RecordFailure(m.rt)]

\* A mutant of Driven: only an upload completes the close synchronization.
DrivenByUpload(m, wasRunning, result, start) ==
  IF m.rt.inProgress THEN m
  ELSE IF wasRunning
    THEN IF result = "uploaded" THEN CompleteClose(m, FALSE) ELSE m
  ELSE ContinueQueued(m, start, FALSE)

\* The end of handle_sync_finished, after the result is dispatched: first the
\* close synchronization, then the automatic one that waited.
Driven(m, wasRunning, result, start) ==
  IF m.rt.inProgress THEN m
  ELSE IF wasRunning
    THEN IF result # "ready" THEN CompleteClose(m, FALSE) ELSE m
  ELSE ContinueQueued(m, start, FALSE)

ServePending(m, start) ==
  IF m.rt.inProgress \/ ~m.rt.pendingAutomatic THEN m
  ELSE RequestAutomatic([m EXCEPT !.rt.pendingAutomatic = FALSE], start)

\* Why a close may be left without a driver: the plan of its upload was not
\* uploaded, or an in-window commit that held it back has failed.
GapsAfter(found) ==
  gaps' = {g \in gaps \cup found :
             \/ g = "plan" /\ close'.running
             \/ g = "commit" /\ ~close'.running /\ ~close'.completed}
-----------------------------------------------------------------------------
(* Actions.                                                                *)

\* request_main_window_close, with begin_close_sync.
RequestClose ==
  /\ ~dialog /\ ~pending
  /\ \E start \in Starts :
       LET asked == [Here EXCEPT !.dialog = TRUE,
                                 !.close.requested = TRUE,
                                 !.close.completed = FALSE]
       IN  Become(IF rt.inProgress THEN asked ELSE RunClose(asked, start, TRUE))
  /\ GapsAfter({})
  /\ UNCHANGED <<settings, changes>>

CancelClose ==
  /\ dialog
  /\ dialog' = FALSE /\ pending' = FALSE
  /\ UNCHANGED <<settings, window, close, rt, task, commit, changes, gaps>>

\* confirm_close_after_sync_in_window.
ConfirmClose ==
  /\ dialog
  /\ \E start \in Starts :
       LET confirmed == [Here EXCEPT !.dialog = FALSE, !.pending = TRUE]
       IN  Become(IF close.completed
                    THEN Closed([confirmed EXCEPT !.pending = FALSE])
                    ELSE ContinueQueued(confirmed, start, TRUE))
  /\ GapsAfter({})
  /\ UNCHANGED <<settings, changes>>

\* commit_staged_config_async and commit_staged_config_in_window_async.
BeginCommit ==
  /\ commit = "none"
  /\ changes < MaxChanges
  /\ commit' \in CommitKinds
  /\ changes' = changes + 1
  /\ UNCHANGED <<settings, window, dialog, pending, close, rt, task, gaps>>

\* Their completion.  The in-window variant does not look for a queued close
\* when the save has failed.
FinishCommit ==
  /\ commit # "none"
  /\ \E saved \in BOOLEAN, start \in Starts :
       LET noted == [Here EXCEPT !.commit = "none",
                                 !.rt = IF saved THEN NoteLocalChange(rt) ELSE rt]
       IN  IF saved \/ commit = "plain"
             THEN Become(ContinueQueued(noted, start, FALSE)) /\ GapsAfter({})
             ELSE Become(noted) /\ GapsAfter({"commit"})
  /\ UNCHANGED <<settings, changes>>

\* A saved preference or recorded command usage.
LocalChange ==
  /\ changes < MaxChanges
  /\ rt' = NoteLocalChange(rt)
  /\ changes' = changes + 1
  /\ UNCHANGED <<settings, window, dialog, pending, close, task, commit, gaps>>

\* The debounce, retry and interval timers and the activation of the window.
AutomaticTrigger ==
  /\ \E start \in Starts : Become(RequestAutomatic(Here, start))
  /\ UNCHANGED <<settings, changes, gaps>>

\* Upload, restore, password check and reset from the settings.
ManualOperation ==
  /\ ~rt.inProgress
  /\ \E kind \in Kinds \ {"none", "upload"}, start \in Starts : Become(Begin(Here, kind, start))
  /\ UNCHANGED <<settings, changes, gaps>>

\* The user takes the last decision of a conflict dialog.
ResolveLast ==
  /\ rt.conflicts
  /\ UNCHANGED <<settings, changes>>
  /\ \E outcome \in PlanOutcomes, start \in Starts :
       Become(PreflightReady([Here EXCEPT !.rt.conflicts = FALSE], outcome, start))
  /\ GapsAfter({})

\* handle_sync_finished.
TaskFinished ==
  /\ task # "none"
  /\ UNCHANGED <<settings, changes>>
  /\ \E result \in Results(task), outcome \in PlanOutcomes, start, next \in Starts :
       LET idle  == [Here EXCEPT !.rt.inProgress = FALSE, !.task = "none"]
           shown == Dispatched(idle, result, outcome, start)
           done  == Driven(shown, close.running, result, start)
       IN  /\ Become(ServePending(done, next))
           /\ GapsAfter(IF close.running /\ result = "ready" /\ ~shown.rt.inProgress
                          THEN {"plan"} ELSE {})
-----------------------------------------------------------------------------
Init ==
  /\ settings \in [webdav : BOOLEAN, enabled : BOOLEAN]
  /\ window = "open" /\ dialog = FALSE /\ pending = FALSE
  /\ close = [requested |-> FALSE, running |-> FALSE, completed |-> FALSE]
  /\ rt = [inProgress |-> FALSE, pendingAutomatic |-> FALSE, conflicts |-> FALSE,
           active |-> "none", unsynced |-> FALSE]
  /\ task = "none" /\ commit = "none" /\ changes = 0 /\ gaps = {}

Next ==
  /\ window = "open"
  /\ \/ RequestClose \/ CancelClose \/ ConfirmClose
     \/ BeginCommit \/ FinishCommit \/ LocalChange
     \/ AutomaticTrigger \/ ManualOperation \/ ResolveLast \/ TaskFinished

Spec == Init /\ [][Next]_vars

\* A task ends (requests time out) and its result is delivered; the worker
\* answers a commit or the wait for it times out.
Fairness ==
  /\ WF_vars(window = "open" /\ TaskFinished)
  /\ WF_vars(window = "open" /\ FinishCommit)

FairSpec == Spec /\ Fairness
-----------------------------------------------------------------------------
TypeOK ==
  /\ settings \in [webdav : BOOLEAN, enabled : BOOLEAN]
  /\ Here \in Machine
  /\ changes \in Nat
  /\ gaps \subseteq {"plan", "commit"}

\* in_progress always has a task that will clear it, and the flags of the
\* close agree: a synchronization is running or completed, and a dialog or a
\* confirmation is there, only on request; it is never both running and
\* completed; and while a confirmation waits, no dialog is open and the
\* synchronization is not over.
Consistent ==
  /\ TypeOK
  /\ window = "open" /\ rt.inProgress => task # "none"
  /\ close.running \/ close.completed \/ dialog \/ pending => close.requested
  /\ ~(close.running /\ close.completed)
  /\ pending => ~close.completed /\ ~dialog

\* The close is what CloseProtocol promises: however the dialog, commits and
\* results of synchronizations interleave, the window closes only after a
\* confirmation that was not cancelled, and never before the cycle is over.
Phase ==
  CASE window = "closed"                -> "closed"
    [] window = "open" /\ pending       -> "confirmed"
    [] window = "open" /\ ~pending /\ dialog  -> "asking"
    [] window = "open" /\ ~pending /\ ~dialog -> "open"

Cycle ==
  CASE ~close.requested                    -> "idle"
    [] close.requested /\ close.completed  -> "over"
    [] close.requested /\ ~close.completed -> "due"

Protocol == INSTANCE CloseProtocol WITH phase <- Phase, cycle <- Cycle

ImplementsProtocol == Protocol!Spec

\* A confirmed close waits for an operation or a commit in progress: the
\* dialog is never "closed but the main window still open when sync had
\* already completed" (request_main_window_close), with nobody left to close it.
Driver == rt.inProgress \/ commit # "none"

ConfirmedIsDriven == pending => Driver

\* The same but for two known gaps: a plan that needs no upload, or is
\* abandoned, ends the close synchronization without completing it, and a
\* failed in-window commit does not continue the one it held back.
DrivenUnlessGap == pending /\ gaps = {} => Driver

\* A confirmed close ends, once the user makes no more changes, unless it met
\* one of the gaps.
ConfirmedEnds == pending ~> (~pending \/ gaps # {})
=============================================================================
