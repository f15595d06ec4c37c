------------------------- MODULE WindowClose_proofs -------------------------
(***************************************************************************)
(* Consistent is inductive, and closing a window implements CloseProtocol. *)
(*                                                                         *)
(* A handler composes functions on a record, so there is a lemma for each  *)
(* of those functions: it keeps the record Fine, which is Consistent of a  *)
(* record, and the protocol sees nothing of it (Same) or the end of the    *)
(* close synchronization (Over).  A lemma per action composes them.        *)
(*                                                                         *)
(* In the same way CloseHeld, on top of Consistent, gives DrivenUnlessGap: *)
(* a requested close has an operation or a commit that will drive it.      *)
(***************************************************************************)
EXTENDS WindowClose, TLAPS

\* Consistent, of the record a handler works on.
Fine(m) ==
  /\ m \in Machine
  /\ m.window = "open" /\ m.rt.inProgress => m.task # "none"
  /\ m.close.running \/ m.close.completed \/ m.dialog \/ m.pending => m.close.requested
  /\ ~(m.close.running /\ m.close.completed)
  /\ m.pending => ~m.close.completed /\ ~m.dialog

\* The protocol does not see the difference between m and n.
Same(m, n) ==
  /\ n.window = m.window /\ n.dialog = m.dialog /\ n.pending = m.pending
  /\ n.close.requested = m.close.requested /\ n.close.completed = m.close.completed

\* From m to n the close synchronization ends, and with it the window if that
\* is confirmed; in a handler of the window itself the confirmation is void.
Over(m, n, inWindow) ==
  /\ m.close.requested /\ ~m.close.completed
  /\ n.close.requested /\ n.close.completed /\ ~n.pending
  /\ IF m.pending /\ ~inWindow THEN n.window = "closed" ELSE n.window = m.window
  /\ IF m.pending THEN ~n.dialog ELSE n.dialog = m.dialog

\* From m to n neither the window nor its close moves.
Frame(m, n) ==
  /\ n.window = m.window /\ n.dialog = m.dialog /\ n.pending = m.pending
  /\ n.close = m.close

\* A record of the coordinator with another value in a field is one.
LEMMA RuntimeUpdates ==
  ASSUME NEW r \in Runtime
  PROVE  /\ \A b \in BOOLEAN : [r EXCEPT !.inProgress = b] \in Runtime
         /\ \A b \in BOOLEAN : [r EXCEPT !.pendingAutomatic = b] \in Runtime
         /\ \A b \in BOOLEAN : [r EXCEPT !.conflicts = b] \in Runtime
         /\ \A a \in {"none", "newest", "older"} : [r EXCEPT !.active = a] \in Runtime
BY DEF Runtime

\* So is the record that a handler works on.
LEMMA MachineUpdates ==
  ASSUME NEW m \in Machine
  PROVE  /\ m.rt \in Runtime /\ m.close \in CloseSync
         /\ \A r \in Runtime : [m EXCEPT !.rt = r] \in Machine
         /\ \A c \in CloseSync : [m EXCEPT !.close = c] \in Machine
         /\ \A k \in Kinds : [m EXCEPT !.task = k] \in Machine
         /\ \A b \in BOOLEAN : [m EXCEPT !.pending = b] \in Machine
         /\ \A b \in BOOLEAN : [m EXCEPT !.dialog = b] \in Machine
BY DEF Machine

\* The transitions of SyncRuntimeState leave in_progress alone.
LEMMA RuntimeSteps ==
  ASSUME NEW r \in Runtime
  PROVE  /\ NoteLocalChange(r) \in Runtime /\ NoteLocalChange(r).inProgress = r.inProgress
         /\ Abandon(r) \in Runtime /\ Abandon(r).inProgress = r.inProgress
         /\ RecordSuccess(r) \in Runtime /\ RecordSuccess(r).inProgress = r.inProgress
         /\ RecordFailure(r) \in Runtime /\ RecordFailure(r).inProgress = r.inProgress
<1>1. NoteLocalChange(r) \in Runtime /\ NoteLocalChange(r).inProgress = r.inProgress
  <2> DEFINE a == IF r.active = "none" THEN "none" ELSE "older"
             p == r.pendingAutomatic \/ r.inProgress
  <2>1. a \in {"none", "older"} /\ p \in BOOLEAN
    OBVIOUS
  <2>2. NoteLocalChange(r) = [r EXCEPT !.conflicts = FALSE, !.active = a, !.unsynced = TRUE,
                                       !.pendingAutomatic = p]
    BY DEF NoteLocalChange
  <2> HIDE DEF a, p
  <2> QED
    BY <2>1, <2>2 DEF Runtime
<1>2. RecordSuccess(r) \in Runtime /\ RecordSuccess(r).inProgress = r.inProgress
  <2> DEFINE u == r.unsynced /\ r.active # "newest"
             p == r.pendingAutomatic \/ u
  <2>1. u \in BOOLEAN /\ p \in BOOLEAN
    OBVIOUS
  <2>2. RecordSuccess(r) = [r EXCEPT !.active = "none", !.unsynced = u, !.pendingAutomatic = p]
    BY DEF RecordSuccess
  <2> HIDE DEF u, p
  <2> QED
    BY <2>1, <2>2 DEF Runtime
<1>3. /\ Abandon(r) \in Runtime /\ Abandon(r).inProgress = r.inProgress
      /\ RecordFailure(r) \in Runtime /\ RecordFailure(r).inProgress = r.inProgress
  BY DEF Runtime, Abandon, RecordFailure
<1> QED
  BY <1>1, <1>2, <1>3

\* Starting an operation leaves the close alone, and what is in progress has a
\* task.
LEMMA BeginStep ==
  ASSUME NEW m, Fine(m), NEW kind \in Kinds \ {"none", "upload"}, NEW start \in Starts
  PROVE  LET n == Begin(m, kind, start)
         IN  /\ Fine(n)
             /\ n.window = m.window /\ n.dialog = m.dialog /\ n.pending = m.pending
             /\ n.close = m.close
<1> DEFINE a == IF kind = "other" THEN m.rt.active ELSE "newest"
           r == [m.rt EXCEPT !.inProgress = TRUE, !.active = a]
           s == [m.rt EXCEPT !.active = "newest"]
<1>1. m \in Machine /\ m.rt \in Runtime
  BY DEF Fine, Machine
<1>2. r \in Runtime /\ s \in Runtime /\ r.inProgress = TRUE /\ s.inProgress = m.rt.inProgress
  BY <1>1 DEF Runtime
<1>3. \/ Begin(m, kind, start) = m
      \/ Begin(m, kind, start) = [m EXCEPT !.rt = s]
      \/ Begin(m, kind, start) = [m EXCEPT !.rt = r, !.task = kind]
  BY <1>1 DEF Begin, Machine
<1> HIDE DEF r, s
<1>4. /\ [m EXCEPT !.rt = s] \in Machine /\ [m EXCEPT !.rt = r, !.task = kind] \in Machine
      /\ kind # "none"
  BY <1>1, <1>2 DEF Machine, Kinds
<1>5. CASE Begin(m, kind, start) = [m EXCEPT !.rt = s]
  BY <1>1, <1>2, <1>4, <1>5 DEF Fine, Machine
<1>6. CASE Begin(m, kind, start) = [m EXCEPT !.rt = r, !.task = kind]
  BY <1>1, <1>2, <1>4, <1>6 DEF Fine, Machine
<1> QED
  BY <1>3, <1>5, <1>6

\* complete_close_sync, of a close that was asked for and is not over.
LEMMA CompleteStep ==
  ASSUME NEW m, Fine(m), m.window = "open", m.close.requested, ~m.close.completed,
         NEW inWindow \in BOOLEAN
  PROVE  LET n == CompleteClose(m, inWindow) IN Fine(n) /\ Over(m, n, inWindow)
<1> DEFINE c == [m.close EXCEPT !.running = FALSE, !.completed = TRUE]
           done == [m EXCEPT !.close = c]
<1>1. m \in Machine /\ m.close \in CloseSync /\ m.rt \in Runtime
  BY DEF Fine, Machine
<1>2. c \in CloseSync /\ c.requested /\ ~c.running /\ c.completed
  BY <1>1 DEF CloseSync
<1>3. [m EXCEPT !.close.running = FALSE, !.close.completed = TRUE] = done
  BY <1>1 DEF Machine, CloseSync
<1> HIDE DEF c
<1>4. /\ done \in Machine /\ done.close = c /\ done.window = m.window /\ done.dialog = m.dialog
      /\ done.pending = m.pending /\ done.rt = m.rt /\ done.task = m.task
  BY <1>1, <1>2 DEF Machine
<1> HIDE DEF done
<1>5. CompleteClose(m, inWindow) = ApprovePending(done, inWindow)
  BY <1>3 DEF CompleteClose
<1>6. CASE ~m.pending
  <2>1. CompleteClose(m, inWindow) = done
    BY <1>4, <1>5, <1>6 DEF ApprovePending
  <2> QED
    BY <1>2, <1>4, <1>6, <2>1 DEF Fine, Over
<1>7. CASE m.pending /\ inWindow
  <2> DEFINE n == [done EXCEPT !.pending = FALSE, !.dialog = FALSE]
  <2>1. CompleteClose(m, inWindow) = n
    BY <1>4, <1>5, <1>7 DEF ApprovePending
  <2>2. /\ n \in Machine /\ n.close = c /\ n.window = m.window /\ n.dialog = FALSE
        /\ n.pending = FALSE /\ n.rt = m.rt /\ n.task = m.task
    BY <1>4 DEF Machine
  <2> HIDE DEF n
  <2> QED
    BY <1>2, <1>7, <2>1, <2>2 DEF Fine, Over
<1>8. CASE m.pending /\ ~inWindow
  <2> DEFINE k == [done EXCEPT !.pending = FALSE]
             n == [k EXCEPT !.window = "closed", !.dialog = FALSE, !.task = "none"]
  <2>1. CompleteClose(m, inWindow) = n
    BY <1>4, <1>5, <1>8 DEF ApprovePending, Closed
  <2>2. k \in Machine /\ k.close = c /\ k.pending = FALSE /\ k.rt = m.rt
    BY <1>4 DEF Machine
  <2> HIDE DEF k
  <2>3. /\ n \in Machine /\ n.close = c /\ n.window = "closed" /\ n.dialog = FALSE
        /\ n.pending = FALSE /\ n.rt = m.rt
    BY <2>2 DEF Machine, Kinds
  <2> HIDE DEF n
  <2> QED
    BY <1>2, <1>8, <2>1, <2>3 DEF Fine, Over
<1> QED
  BY <1>6, <1>7, <1>8

\* run_close_sync starts the synchronization or completes the close.
LEMMA RunStep ==
  ASSUME NEW m, Fine(m), m.window = "open", NEW start \in Starts, NEW inWindow \in BOOLEAN
  PROVE  LET n == RunClose(m, start, inWindow)
         IN  Fine(n) /\ (Same(m, n) \/ Over(m, n, inWindow))
<1> DEFINE n == RunClose(m, start, inWindow)
           c == [m.close EXCEPT !.running = TRUE]
           running == [m EXCEPT !.close = c]
           started == Begin(running, "preflight", start)
<1> SUFFICES Fine(n) /\ (Same(m, n) \/ Over(m, n, inWindow))
  OBVIOUS
<1>1. m \in Machine /\ m.close \in CloseSync
  BY DEF Fine, Machine
<1>2. CASE ~m.close.requested \/ m.close.running \/ m.close.completed \/ m.commit # "none"
  <2>1. n = m
    BY <1>2 DEF RunClose
  <2> QED
    BY <2>1 DEF Same
<1>3. CASE m.close.requested /\ ~m.close.running /\ ~m.close.completed /\ m.commit = "none"
  <2>1. CASE ~settings.webdav
    <3>1. n = CompleteClose(m, inWindow)
      BY <1>3, <2>1 DEF RunClose
    <3> QED
      BY <1>3, <3>1, CompleteStep
  <2>2. CASE settings.webdav
    <3>1. [m EXCEPT !.close.running = TRUE] = running
      BY <1>1 DEF Machine, CloseSync
    <3>2. c \in CloseSync /\ c.requested = m.close.requested /\ c.running
          /\ c.completed = m.close.completed
      BY <1>1 DEF CloseSync
    <3> HIDE DEF c
    <3>3. /\ running \in Machine /\ running.close = c /\ running.window = m.window
          /\ running.dialog = m.dialog /\ running.pending = m.pending
          /\ running.rt = m.rt /\ running.task = m.task
      BY <1>1, <3>2 DEF Machine
    <3>4. n = IF started.rt.inProgress THEN started ELSE CompleteClose(started, inWindow)
      BY <1>3, <2>2, <3>1 DEF RunClose
    <3> HIDE DEF running
    <3>5. Fine(running)
      BY <1>3, <3>2, <3>3 DEF Fine
    <3>6. "preflight" \in Kinds \ {"none", "upload"}
      BY DEF Kinds
    <3>7. /\ Fine(started) /\ started.window = m.window /\ started.dialog = m.dialog
          /\ started.pending = m.pending /\ started.close = c
      BY <3>3, <3>5, <3>6, BeginStep
    <3> HIDE DEF started
    <3>8. CASE started.rt.inProgress
      BY <3>2, <3>4, <3>7, <3>8 DEF Same
    <3>9. CASE ~started.rt.inProgress
      <4>1. n = CompleteClose(started, inWindow)
        BY <3>4, <3>9
      <4>2. Fine(n) /\ Over(started, n, inWindow)
        BY <1>3, <3>2, <3>7, <4>1, CompleteStep
      <4> HIDE DEF n
      <4> QED
        BY <1>3, <3>2, <3>7, <4>2 DEF Over
    <3> QED
      BY <3>8, <3>9
  <2> QED
    BY <2>1, <2>2
<1> QED
  BY <1>2, <1>3

\* continue_queued_close_sync.
LEMMA ContinueStep ==
  ASSUME NEW m, Fine(m), m.window = "open" \/ m.close.completed,
         NEW start \in Starts, NEW inWindow \in BOOLEAN
  PROVE  LET n == ContinueQueued(m, start, inWindow)
         IN  /\ Fine(n) /\ (Same(m, n) \/ Over(m, n, inWindow))
             /\ m.close.completed => n = m
<1>1. CASE m.close.completed
  BY <1>1 DEF ContinueQueued, Same
<1>2. CASE ~m.close.completed
  <2>1. \/ ContinueQueued(m, start, inWindow) = m
        \/ ContinueQueued(m, start, inWindow) = RunClose(m, start, inWindow)
    BY DEF ContinueQueued
  <2> QED
    BY <1>2, <2>1, RunStep DEF Same
<1> QED
  BY <1>1, <1>2

\* A new record of the coordinator in which no more is in progress.
LEMMA RuntimeStep ==
  ASSUME NEW m, Fine(m), NEW r \in Runtime, r.inProgress => m.rt.inProgress
  PROVE  LET n == [m EXCEPT !.rt = r]
         IN  Fine(n) /\ Frame(m, n) /\ n.rt = r /\ n.task = m.task
<1>1. m \in Machine
  BY DEF Fine
<1> DEFINE n == [m EXCEPT !.rt = r]
<1>2. n \in Machine /\ Frame(m, n) /\ n.rt = r /\ n.task = m.task
  BY <1>1 DEF Machine, Frame
<1> HIDE DEF n
<1>3. Fine(n)
  BY <1>2 DEF Fine, Frame
<1> QED
  BY <1>2, <1>3 DEF n

\* request_automatic_sync does not touch the close.
LEMMA AutomaticStep ==
  ASSUME NEW m, Fine(m), NEW start \in Starts
  PROVE  LET n == RequestAutomatic(m, start) IN Fine(n) /\ Frame(m, n)
<1> DEFINE q == [m.rt EXCEPT !.pendingAutomatic = TRUE]
           a == [m.rt EXCEPT !.active = "newest"]
           waits == [m EXCEPT !.rt = q]
           begun == [m EXCEPT !.rt = a]
<1>1. m \in Machine /\ m.rt \in Runtime
  BY DEF Fine, Machine
<1>2. /\ q \in Runtime /\ q.inProgress = m.rt.inProgress
      /\ a \in Runtime /\ a.inProgress = m.rt.inProgress
  BY <1>1 DEF Runtime
<1>3. /\ [m EXCEPT !.rt.pendingAutomatic = TRUE] = waits
      /\ [m EXCEPT !.rt.active = "newest"] = begun
  BY <1>1 DEF Machine
<1> HIDE DEF q, a
<1>4. Fine(waits) /\ Frame(m, waits) /\ Fine(begun) /\ Frame(m, begun)
  BY <1>2, RuntimeStep
<1> HIDE DEF waits, begun
<1>5. \/ RequestAutomatic(m, start) = m
      \/ RequestAutomatic(m, start) = waits
      \/ RequestAutomatic(m, start) = Begin(begun, "preflight", start)
  BY <1>3 DEF RequestAutomatic
<1>6. "preflight" \in Kinds \ {"none", "upload"}
  BY DEF Kinds
<1>7. LET n == Begin(begun, "preflight", start) IN Fine(n) /\ Frame(begun, n)
  BY <1>4, <1>6, BeginStep DEF Frame
<1> QED
  BY <1>4, <1>5, <1>7 DEF Frame

\* Nor does the automatic synchronization that waited.
LEMMA PendingStep ==
  ASSUME NEW m, Fine(m), NEW start \in Starts
  PROVE  LET n == ServePending(m, start) IN Fine(n) /\ Frame(m, n)
<1> DEFINE r == [m.rt EXCEPT !.pendingAutomatic = FALSE]
           served == [m EXCEPT !.rt = r]
<1>1. m \in Machine /\ m.rt \in Runtime
  BY DEF Fine, Machine
<1>2. r \in Runtime /\ r.inProgress = m.rt.inProgress
  BY <1>1 DEF Runtime
<1>3. [m EXCEPT !.rt.pendingAutomatic = FALSE] = served
  BY <1>1 DEF Machine
<1> HIDE DEF r
<1>4. Fine(served) /\ Frame(m, served)
  BY <1>2, RuntimeStep
<1> HIDE DEF served
<1>5. ServePending(m, start) = m \/ ServePending(m, start) = RequestAutomatic(served, start)
  BY <1>3 DEF ServePending
<1>6. LET n == RequestAutomatic(served, start) IN Fine(n) /\ Frame(served, n)
  BY <1>4, AutomaticStep
<1> QED
  BY <1>4, <1>5, <1>6 DEF Frame

\* handle_sync_upload_preflight_ready ends the close synchronization at most
\* when an upload gives no payload.
LEMMA PreflightStep ==
  ASSUME NEW m, Fine(m), m.window = "open", NEW outcome \in PlanOutcomes, NEW start \in Starts
  PROVE  LET n == PreflightReady(m, outcome, start)
         IN  Fine(n) /\ (Same(m, n) \/ Over(m, n, FALSE))
<1> DEFINE n == PreflightReady(m, outcome, start)
<1> SUFFICES Fine(n) /\ (Same(m, n) \/ Over(m, n, FALSE))
  OBVIOUS
<1>1. m \in Machine /\ m.rt \in Runtime /\ m.close \in CloseSync
  BY DEF Fine, Machine
<1>2. CASE m.rt.active = "older"
  <2>1. n = [m EXCEPT !.rt = Abandon(m.rt)]
    BY <1>2 DEF PreflightReady
  <2>2. Fine(n) /\ Frame(m, n)
    BY <1>1, <2>1, RuntimeSteps, RuntimeStep
  <2> QED
    BY <2>2 DEF Frame, Same
<1>3. CASE m.rt.active # "older" /\ outcome = "adopted"
  <2>1. n = [m EXCEPT !.rt = RecordSuccess(m.rt)]
    BY <1>3 DEF PreflightReady
  <2>2. Fine(n) /\ Frame(m, n)
    BY <1>1, <2>1, RuntimeSteps, RuntimeStep
  <2> QED
    BY <2>2 DEF Frame, Same
<1>4. CASE m.rt.active # "older" /\ outcome = "lost"
  <2>1. n = m
    BY <1>4 DEF PreflightReady
  <2> QED
    BY <2>1 DEF Same
<1>5. CASE m.rt.active # "older" /\ outcome = "uploads"
  <2> DEFINE r == [m.rt EXCEPT !.inProgress = TRUE]
             up == [m EXCEPT !.rt = r, !.task = "upload"]
  <2>1. r \in Runtime
    BY <1>1 DEF Runtime
  <2>2. n = up
    BY <1>1, <1>5 DEF PreflightReady, Machine
  <2> HIDE DEF r
  <2>3. up \in Machine /\ Frame(m, up) /\ up.task = "upload"
    BY <1>1, <2>1 DEF Machine, Kinds, Frame
  <2> HIDE DEF up, n
  <2> QED
    BY <2>2, <2>3 DEF Fine, Frame, Same
<1>6. CASE m.rt.active # "older" /\ outcome = "unsealed"
  <2> DEFINE r == [m.rt EXCEPT !.inProgress = FALSE]
             idle == [m EXCEPT !.rt = r]
  <2>1. r \in Runtime /\ ~r.inProgress
    BY <1>1 DEF Runtime
  <2>2. [m EXCEPT !.rt.inProgress = FALSE] = idle
    BY <1>1 DEF Machine
  <2> HIDE DEF r
  <2>3. Fine(idle) /\ Frame(m, idle)
    BY <2>1, RuntimeStep
  <2>4. n = IF m.close.running THEN CompleteClose(idle, FALSE)
            ELSE ContinueQueued(idle, start, FALSE)
    BY <1>6, <2>2 DEF PreflightReady
  <2> HIDE DEF idle, n
  <2>5. CASE m.close.running
    <3>1. idle.window = "open" /\ idle.close.requested /\ ~idle.close.completed
      BY <2>3, <2>5 DEF Fine, Frame
    <3>2. LET k == CompleteClose(idle, FALSE) IN Fine(k) /\ Over(idle, k, FALSE)
      BY <2>3, <3>1, CompleteStep
    <3> QED
      BY <2>3, <2>4, <2>5, <3>2 DEF Frame, Over
  <2>6. CASE ~m.close.running
    <3>1. idle.window = "open"
      BY <2>3 DEF Frame
    <3>2. LET k == ContinueQueued(idle, start, FALSE)
          IN  Fine(k) /\ (Same(idle, k) \/ Over(idle, k, FALSE))
      BY <2>3, <3>1, ContinueStep
    <3> QED
      BY <2>3, <2>4, <2>6, <3>2 DEF Frame, Same, Over
  <2> QED
    BY <2>5, <2>6
<1> QED
  BY <1>2, <1>3, <1>4, <1>5, <1>6 DEF PlanOutcomes

AllResults ==
  {"ready", "conflicts", "blocked", "failed", "uploaded", "downloaded", "checked",
   "initialized"}

\* Only the plan of an upload can end the close before its time; the handlers
\* of all other results leave it to the end of handle_sync_finished.
LEMMA DispatchStep ==
  ASSUME NEW m, Fine(m), m.window = "open", NEW result \in AllResults,
         NEW outcome \in PlanOutcomes, NEW start \in Starts
  PROVE  LET n == Dispatched(m, result, outcome, start)
         IN  /\ Fine(n)
             /\ IF result = "ready" THEN Same(m, n) \/ Over(m, n, FALSE) ELSE Frame(m, n)
<1> DEFINE n == Dispatched(m, result, outcome, start)
           r == [m.rt EXCEPT !.conflicts = TRUE]
           shown == [m EXCEPT !.rt = r]
<1>1. m \in Machine /\ m.rt \in Runtime
  BY DEF Fine, Machine
<1>2. CASE result = "ready"
  <2>1. n = PreflightReady(m, outcome, start)
    BY <1>2 DEF Dispatched
  <2> HIDE DEF n
  <2>2. Fine(n) /\ (Same(m, n) \/ Over(m, n, FALSE))
    BY <2>1, PreflightStep
  <2> QED
    BY <1>2, <2>2 DEF n
<1>3. CASE result = "initialized"
  <2>1. n = Begin(m, "preflight", start)
    BY <1>3 DEF Dispatched
  <2>2. "preflight" \in Kinds \ {"none", "upload"}
    BY DEF Kinds
  <2> HIDE DEF n
  <2>3. Fine(n) /\ Frame(m, n)
    BY <2>1, <2>2, BeginStep DEF Frame
  <2> QED
    BY <1>3, <2>3 DEF n
<1>4. CASE result \notin {"ready", "initialized"}
  <2>1. r \in Runtime /\ r.inProgress = m.rt.inProgress
    BY <1>1 DEF Runtime
  <2>2. [m EXCEPT !.rt.conflicts = TRUE] = shown
    BY <1>1 DEF Machine
  <2> HIDE DEF r
  <2>3. \/ n = m \/ n = shown
        \/ n = [m EXCEPT !.rt = Abandon(m.rt)]
        \/ n = [m EXCEPT !.rt = RecordSuccess(m.rt)]
        \/ n = [m EXCEPT !.rt = RecordFailure(m.rt)]
    BY <1>4, <2>2 DEF Dispatched, AllResults
  <2> HIDE DEF n
  <2>4. Fine(n) /\ Frame(m, n)
    <3>1. CASE n = m
      BY <3>1 DEF Frame
    <3>2. CASE n = shown
      BY <2>1, <3>2, RuntimeStep
    <3>3. CASE n = [m EXCEPT !.rt = Abandon(m.rt)]
      BY <1>1, <3>3, RuntimeSteps, RuntimeStep
    <3>4. CASE n = [m EXCEPT !.rt = RecordSuccess(m.rt)]
      BY <1>1, <3>4, RuntimeSteps, RuntimeStep
    <3>5. CASE n = [m EXCEPT !.rt = RecordFailure(m.rt)]
      BY <1>1, <3>5, RuntimeSteps, RuntimeStep
    <3> QED
      BY <2>3, <3>1, <3>2, <3>3, <3>4, <3>5
  <2> QED
    BY <1>4, <2>4 DEF n
<1> QED
  BY <1>2, <1>3, <1>4

\* The whole of handle_sync_finished, from the moment in_progress is reset,
\* ends the close synchronization at most once.
LEMMA FinishedStep ==
  ASSUME NEW m, Fine(m), m.window = "open", NEW result \in AllResults,
         NEW outcome \in PlanOutcomes, NEW start \in Starts, NEW next \in Starts
  PROVE  LET shown == Dispatched(m, result, outcome, start)
             done  == Driven(shown, m.close.running, result, start)
             n     == ServePending(done, next)
         IN  Fine(n) /\ (Same(m, n) \/ Over(m, n, FALSE))
<1> DEFINE shown == Dispatched(m, result, outcome, start)
           done == Driven(shown, m.close.running, result, start)
           n == ServePending(done, next)
<1> SUFFICES Fine(n) /\ (Same(m, n) \/ Over(m, n, FALSE))
  OBVIOUS
<1>1. /\ Fine(shown)
      /\ IF result = "ready" THEN Same(m, shown) \/ Over(m, shown, FALSE) ELSE Frame(m, shown)
  BY DispatchStep
<1> HIDE DEF shown
<1>2. Fine(done) /\ (Same(m, done) \/ Over(m, done, FALSE))
  <2>1. CASE shown.rt.inProgress
    <3>1. done = shown
      BY <2>1 DEF Driven
    <3> QED
      BY <1>1, <3>1 DEF Frame, Same
  <2>2. CASE ~shown.rt.inProgress /\ m.close.running /\ result = "ready"
    <3>1. done = shown
      BY <2>2 DEF Driven
    <3> QED
      BY <1>1, <2>2, <3>1
  <2>3. CASE ~shown.rt.inProgress /\ m.close.running /\ result # "ready"
    <3>1. done = CompleteClose(shown, FALSE)
      BY <2>3 DEF Driven
    <3>2. shown.window = "open" /\ shown.close.requested /\ ~shown.close.completed
      BY <1>1, <2>3 DEF Fine, Frame
    <3> HIDE DEF done
    <3>3. Fine(done) /\ Over(shown, done, FALSE)
      BY <1>1, <3>1, <3>2, CompleteStep
    <3> QED
      BY <1>1, <2>3, <3>3 DEF Frame, Over
  <2>4. CASE ~shown.rt.inProgress /\ ~m.close.running
    <3>1. done = ContinueQueued(shown, start, FALSE)
      BY <2>4 DEF Driven
    <3>2. shown.window = "open" \/ shown.close.completed
      BY <1>1 DEF Frame, Same, Over
    <3> HIDE DEF done
    <3>3. /\ Fine(done) /\ (Same(shown, done) \/ Over(shown, done, FALSE))
          /\ shown.close.completed => done = shown
      BY <1>1, <3>1, <3>2, ContinueStep
    <3> QED
      BY <1>1, <3>3 DEF Frame, Same, Over
  <2> QED
    BY <2>1, <2>2, <2>3, <2>4
<1> HIDE DEF done
<1>3. Fine(n) /\ Frame(done, n)
  BY <1>2, PendingStep
<1> HIDE DEF n
<1> QED
  BY <1>2, <1>3 DEF Frame, Same, Over
-----------------------------------------------------------------------------
(* What the protocol sees of a record, and of a step between two.          *)

PhaseOf(m) ==
  CASE m.window = "closed"                    -> "closed"
    [] m.window = "open" /\ m.pending         -> "confirmed"
    [] m.window = "open" /\ ~m.pending /\ m.dialog  -> "asking"
    [] m.window = "open" /\ ~m.pending /\ ~m.dialog -> "open"

CycleOf(m) ==
  CASE ~m.close.requested                      -> "idle"
    [] m.close.requested /\ m.close.completed  -> "over"
    [] m.close.requested /\ ~m.close.completed -> "due"

Simulated == Consistent' /\ [Protocol!Next]_<<Phase, Cycle>>

\* The fields of the record every handler starts from.
LEMMA HereFields ==
  /\ Here.window = window /\ Here.dialog = dialog /\ Here.pending = pending
  /\ Here.close = close /\ Here.rt = rt /\ Here.task = task /\ Here.commit = commit
BY DEF Here

\* Consistent is Fine of the current state.
LEMMA ConsistentIsFine ==
  Consistent <=>
    /\ settings \in [webdav : BOOLEAN, enabled : BOOLEAN]
    /\ changes \in Nat /\ gaps \subseteq {"plan", "commit"}
    /\ Fine(Here)
<1>1. ASSUME Consistent PROVE Fine(Here)
  <2>1. Here \in Machine
    BY <1>1 DEF Consistent, TypeOK
  <2> QED
    BY <1>1, <2>1, HereFields DEF Consistent, Fine
<1>2. ASSUME Fine(Here), changes \in Nat, gaps \subseteq {"plan", "commit"},
             settings \in [webdav : BOOLEAN, enabled : BOOLEAN]
      PROVE  Consistent
  BY <1>2, HereFields DEF Consistent, TypeOK, Fine
<1>3. Consistent => TypeOK
  BY DEF Consistent
<1> QED
  BY <1>1, <1>2, <1>3 DEF TypeOK

\* The refinement mapping, read off that record.
LEMMA View == Phase = PhaseOf(Here) /\ Cycle = CycleOf(Here)
BY HereFields DEF Phase, PhaseOf, Cycle, CycleOf

\* A handler that leaves n leaves the system in n.
LEMMA AfterHandler ==
  ASSUME NEW n, Become(n), Fine(n), settings \in [webdav : BOOLEAN, enabled : BOOLEAN],
         settings' = settings, changes' \in Nat, gaps' \subseteq {"plan", "commit"}
  PROVE  Consistent' /\ Phase' = PhaseOf(n) /\ Cycle' = CycleOf(n)
<1>1. n \in Machine
  BY DEF Fine
<1>2. Here' = n
  BY <1>1 DEF Here, Become, Machine
<1>3. Fine(Here)' <=> Fine(n)
  BY <1>2 DEF Fine
<1>4. Phase' = PhaseOf(n) /\ Cycle' = CycleOf(n)
  BY DEF Become, Phase, PhaseOf, Cycle, CycleOf
<1>5. Consistent'
  <2>1. Here' \in Machine
    BY <1>1, <1>2
  <2> QED
    BY <2>1 DEF Consistent, TypeOK, Become, Fine
<1> QED
  BY <1>4, <1>5

\* What the protocol does not see does not move its variables.
LEMMA SameView ==
  ASSUME NEW m, NEW n, Same(m, n)
  PROVE  PhaseOf(n) = PhaseOf(m) /\ CycleOf(n) = CycleOf(m)
BY DEF Same, PhaseOf, CycleOf

\* The end of the close synchronization is CycleEnds or Close.
LEMMA OverView ==
  ASSUME NEW m, NEW n, Fine(m), m.window = "open", Over(m, n, FALSE)
  PROVE  /\ CycleOf(m) = "due" /\ CycleOf(n) = "over"
         /\ \/ PhaseOf(m) \in {"open", "asking"} /\ PhaseOf(n) = PhaseOf(m)
            \/ PhaseOf(m) = "confirmed" /\ PhaseOf(n) = "closed"
<1>1. CycleOf(m) = "due" /\ CycleOf(n) = "over"
  BY DEF Over, CycleOf
<1>2. CASE m.pending
  BY <1>1, <1>2 DEF Over, PhaseOf
<1>3. CASE ~m.pending
  <2>1. n.window = "open" /\ ~n.pending /\ n.dialog = m.dialog
    BY <1>3 DEF Over
  <2>2. m.dialog \in BOOLEAN
    BY DEF Fine, Machine
  <2>3. CASE m.dialog
    BY <1>1, <1>3, <2>1, <2>3 DEF PhaseOf
  <2>4. CASE ~m.dialog
    BY <1>1, <1>3, <2>1, <2>4 DEF PhaseOf
  <2> QED
    BY <2>2, <2>3, <2>4
<1> QED
  BY <1>1, <1>2, <1>3

\* A handler that shows the protocol no more than the end of a cycle.
LEMMA QuietStep ==
  ASSUME Consistent, window = "open",
         NEW m, Same(Here, m), NEW n, Same(m, n) \/ Over(m, n, FALSE), Fine(n), Become(n),
         settings' = settings, changes' \in Nat, gaps' \subseteq {"plan", "commit"}
  PROVE  Simulated
<1>1. Fine(Here) /\ settings \in [webdav : BOOLEAN, enabled : BOOLEAN]
  BY ConsistentIsFine
<1>2. Consistent' /\ Phase' = PhaseOf(n) /\ Cycle' = CycleOf(n)
  BY <1>1, AfterHandler
<1>3. CASE Same(m, n)
  <2>1. Phase' = Phase /\ Cycle' = Cycle
    BY <1>2, <1>3, SameView, View
  <2> QED
    BY <1>2, <2>1 DEF Simulated
<1>4. CASE Over(m, n, FALSE)
  <2>1. Over(Here, n, FALSE)
    BY <1>4 DEF Over, Same
  <2>2. Here.window = "open"
    BY HereFields
  <2>3. /\ Cycle = "due" /\ Cycle' = "over"
        /\ \/ Phase \in {"open", "asking"} /\ Phase' = Phase
           \/ Phase = "confirmed" /\ Phase' = "closed"
    BY <1>1, <1>2, <2>1, <2>2, OverView, View
  <2>4. Protocol!CycleEnds \/ Protocol!Close
    BY <2>3 DEF Protocol!CycleEnds, Protocol!Close
  <2> QED
    BY <1>2, <2>4 DEF Simulated, Protocol!Next
<1> QED
  BY <1>3, <1>4

\* GapsAfter keeps the type of gaps.
LEMMA GapsTyped ==
  ASSUME NEW found \in SUBSET {"plan", "commit"}, gaps \subseteq {"plan", "commit"},
         GapsAfter(found)
  PROVE  gaps' \subseteq {"plan", "commit"}
BY DEF GapsAfter
-----------------------------------------------------------------------------
(* One step per action.                                                    *)

\* request_main_window_close opens the dialog and makes a cycle due, which may
\* be over at once.
LEMMA RequestStep ==
  ASSUME Consistent, window = "open", RequestClose
  PROVE  Simulated
<1> DEFINE c == [close EXCEPT !.requested = TRUE, !.completed = FALSE]
           asked == [Here EXCEPT !.dialog = TRUE, !.close = c]
<1>1. /\ Fine(Here) /\ Here \in Machine /\ close \in CloseSync /\ gaps \subseteq {"plan", "commit"}
      /\ changes \in Nat /\ settings \in [webdav : BOOLEAN, enabled : BOOLEAN]
  BY ConsistentIsFine, HereFields DEF Fine, Machine
<1>2. /\ c \in CloseSync /\ c.requested /\ ~c.completed /\ c.running = close.running
  BY <1>1 DEF CloseSync
<1>3. [Here EXCEPT !.dialog = TRUE, !.close.requested = TRUE, !.close.completed = FALSE] = asked
  BY <1>1, HereFields DEF Machine, CloseSync
<1>4. PICK start \in Starts :
        Become(IF rt.inProgress THEN asked ELSE RunClose(asked, start, TRUE))
  BY <1>3 DEF RequestClose
<1> DEFINE n == IF rt.inProgress THEN asked ELSE RunClose(asked, start, TRUE)
<1> HIDE DEF c
<1>5. /\ asked \in Machine /\ asked.window = "open" /\ asked.dialog = TRUE
      /\ asked.pending = pending /\ asked.close = c /\ asked.rt = rt /\ asked.task = task
  BY <1>1, <1>2, HereFields DEF Machine
<1> HIDE DEF asked
<1>6. ~dialog /\ ~pending
  BY DEF RequestClose
<1>7. Fine(asked)
  BY <1>1, <1>2, <1>5, <1>6, HereFields DEF Fine
<1>8. Fine(n) /\ (Same(asked, n) \/ Over(asked, n, TRUE))
  <2>1. CASE rt.inProgress
    BY <1>7, <2>1 DEF Same
  <2>2. CASE ~rt.inProgress
    <3>1. n = RunClose(asked, start, TRUE)
      BY <2>2
    <3> HIDE DEF n
    <3> QED
      BY <1>5, <1>7, <3>1, RunStep
  <2> QED
    BY <2>1, <2>2
<1> HIDE DEF n
<1>9. PhaseOf(n) = "asking" /\ CycleOf(n) \in {"due", "over"}
  BY <1>2, <1>5, <1>6, <1>8 DEF Same, Over, PhaseOf, CycleOf
<1>10. Phase = "open"
  BY <1>6 DEF Phase
<1>11. settings' = settings /\ changes' = changes /\ gaps' \subseteq {"plan", "commit"}
  <2>1. GapsAfter({}) /\ settings' = settings /\ changes' = changes
    BY DEF RequestClose
  <2> QED
    BY <1>1, <2>1, GapsTyped
<1>12. Consistent' /\ Phase' = PhaseOf(n) /\ Cycle' = CycleOf(n)
  <2>1. Become(n)
    BY <1>4 DEF n
  <2> QED
    BY <1>1, <1>8, <1>11, <2>1, AfterHandler
<1>13. Protocol!Ask
  BY <1>9, <1>10, <1>12 DEF Protocol!Ask
<1> QED
  BY <1>12, <1>13 DEF Simulated, Protocol!Next

\* Cancelling takes the dialog back, and the cycle goes on.
LEMMA CancelStep ==
  ASSUME Consistent, window = "open", CancelClose
  PROVE  Simulated
<1>1. dialog /\ ~pending
  BY DEF CancelClose, Consistent
<1>2. Consistent'
  <2> DEFINE n == [Here EXCEPT !.dialog = FALSE, !.pending = FALSE]
  <2>1. /\ Fine(Here) /\ Here \in Machine /\ gaps \subseteq {"plan", "commit"}
        /\ changes \in Nat /\ settings \in [webdav : BOOLEAN, enabled : BOOLEAN]
    BY ConsistentIsFine DEF Fine
  <2>2. /\ n \in Machine /\ n.dialog = FALSE /\ n.pending = FALSE /\ n.window = window
        /\ n.close = close /\ n.rt = rt /\ n.task = task /\ n.commit = commit
    BY <2>1, HereFields DEF Machine
  <2> HIDE DEF n
  <2>3. Fine(n)
    BY <2>1, <2>2, HereFields DEF Fine
  <2>4. Become(n)
    BY <2>2 DEF CancelClose, Become
  <2> QED
    BY <2>1, <2>3, <2>4, AfterHandler DEF CancelClose
<1>3. Phase = "asking" /\ Phase' = "open" /\ Cycle' = Cycle
  BY <1>1 DEF CancelClose, Phase, Cycle
<1>4. Protocol!Cancel
  BY <1>3 DEF Protocol!Cancel
<1> QED
  BY <1>2, <1>4 DEF Simulated, Protocol!Next

\* confirm_close_after_sync_in_window closes the window when the cycle is
\* over, otherwise it waits for the end of the cycle or meets it at once.
LEMMA ConfirmStep ==
  ASSUME Consistent, window = "open", ConfirmClose
  PROVE  Simulated
<1> DEFINE confirmed == [Here EXCEPT !.dialog = FALSE, !.pending = TRUE]
           closing == [confirmed EXCEPT !.pending = FALSE]
           closed == [closing EXCEPT !.window = "closed", !.dialog = FALSE, !.task = "none"]
<1>1. /\ Fine(Here) /\ Here \in Machine /\ close \in CloseSync /\ gaps \subseteq {"plan", "commit"}
      /\ changes \in Nat /\ settings \in [webdav : BOOLEAN, enabled : BOOLEAN]
  BY ConsistentIsFine, HereFields DEF Fine, Machine
<1>2. dialog /\ ~pending /\ close.requested
  BY DEF ConfirmClose, Consistent
<1>3. PICK start \in Starts :
        Become(IF close.completed THEN Closed(closing) ELSE ContinueQueued(confirmed, start, TRUE))
  BY DEF ConfirmClose
<1>4. settings' = settings /\ changes' = changes /\ gaps' \subseteq {"plan", "commit"}
  <2>1. GapsAfter({}) /\ settings' = settings /\ changes' = changes
    BY DEF ConfirmClose
  <2> QED
    BY <1>1, <2>1, GapsTyped
<1>5. Phase = "asking"
  BY <1>2 DEF Phase
<1>6. /\ confirmed \in Machine /\ confirmed.window = "open" /\ confirmed.dialog = FALSE
      /\ confirmed.pending = TRUE /\ confirmed.close = close /\ confirmed.rt = rt
      /\ confirmed.task = task
  BY <1>1, HereFields DEF Machine
<1> HIDE DEF confirmed
<1>7. CASE close.completed
  <2>1. closing \in Machine /\ closing.close = close
    BY <1>6 DEF Machine
  <2> HIDE DEF closing
  <2>2. /\ closed \in Machine /\ closed.window = "closed" /\ closed.dialog = FALSE
        /\ closed.close = close
    BY <2>1 DEF Machine, Kinds
  <2>3. closed.pending = FALSE
    BY <1>6 DEF closing, Machine
  <2>4. Become(closed)
    BY <1>3, <1>7 DEF Closed
  <2> HIDE DEF closed
  <2>5. Fine(closed) /\ PhaseOf(closed) = "closed" /\ CycleOf(closed) = "over"
    BY <1>1, <1>2, <1>7, <2>2, <2>3, HereFields DEF Fine, PhaseOf, CycleOf
  <2>6. Consistent' /\ Phase' = "closed" /\ Cycle' = "over"
    BY <1>1, <1>4, <2>4, <2>5, AfterHandler
  <2>7. Cycle = "over"
    BY <1>2, <1>7 DEF Cycle
  <2>8. Protocol!Close
    BY <1>5, <2>6, <2>7 DEF Protocol!Close
  <2> QED
    BY <2>6, <2>8 DEF Simulated, Protocol!Next
<1>8. CASE ~close.completed
  <2> DEFINE n == ContinueQueued(confirmed, start, TRUE)
  <2>1. Fine(confirmed)
    BY <1>1, <1>2, <1>6, <1>8, HereFields DEF Fine
  <2>2. Fine(n) /\ (Same(confirmed, n) \/ Over(confirmed, n, TRUE))
    BY <1>6, <2>1, ContinueStep
  <2>3. Become(n)
    BY <1>3, <1>8
  <2> HIDE DEF n
  <2>4. Consistent' /\ Phase' = PhaseOf(n) /\ Cycle' = CycleOf(n)
    BY <1>1, <1>4, <2>2, <2>3, AfterHandler
  <2>5. Cycle = "due"
    BY <1>2, <1>8 DEF Cycle
  <2>6. CASE Same(confirmed, n)
    <3>1. PhaseOf(n) = "confirmed" /\ CycleOf(n) = "due"
      BY <1>2, <1>6, <1>8, <2>6 DEF Same, PhaseOf, CycleOf
    <3>2. Protocol!Confirm
      BY <1>5, <2>4, <2>5, <3>1 DEF Protocol!Confirm
    <3> QED
      BY <2>4, <3>2 DEF Simulated, Protocol!Next
  <2>7. CASE Over(confirmed, n, TRUE)
    <3>1. PhaseOf(n) = "open" /\ CycleOf(n) = "over"
      BY <1>6, <2>7 DEF Over, PhaseOf, CycleOf
    <3>2. Protocol!Refused
      BY <1>5, <2>4, <2>5, <3>1 DEF Protocol!Refused
    <3> QED
      BY <2>4, <3>2 DEF Simulated, Protocol!Next
  <2> QED
    BY <2>2, <2>6, <2>7
<1> QED
  BY <1>1, <1>7, <1>8 DEF CloseSync

\* The start of a full commit, and a local change, concern nothing of the close.
LEMMA ChangeStep ==
  ASSUME Consistent, window = "open", BeginCommit \/ LocalChange
  PROVE  Simulated
<1>1. /\ Fine(Here) /\ Here \in Machine /\ gaps \subseteq {"plan", "commit"}
      /\ changes \in Nat /\ rt \in Runtime
  BY ConsistentIsFine, HereFields DEF Fine, Machine
<1>2. CASE BeginCommit
  <2> DEFINE n == [Here EXCEPT !.commit = commit']
  <2>1. commit' \in CommitKinds
    BY <1>2 DEF BeginCommit
  <2>2. /\ n \in Machine /\ n.dialog = dialog /\ n.pending = pending /\ n.window = window
        /\ n.close = close /\ n.rt = rt /\ n.task = task /\ n.commit = commit'
    BY <1>1, <2>1, HereFields DEF Machine
  <2> HIDE DEF n
  <2>3. Fine(n) /\ Same(Here, n)
    BY <1>1, <2>2, HereFields DEF Fine, Same
  <2>4. Become(n)
    BY <1>2, <2>2 DEF BeginCommit, Become
  <2>5. settings' = settings /\ gaps' = gaps /\ changes' \in Nat
    BY <1>1, <1>2 DEF BeginCommit
  <2>6. Same(Here, Here)
    BY DEF Same
  <2> QED
    BY <1>1, <2>3, <2>4, <2>5, <2>6, QuietStep
<1>3. CASE LocalChange
  <2> DEFINE r == NoteLocalChange(rt)
             n == [Here EXCEPT !.rt = r]
  <2>1. r \in Runtime /\ r.inProgress = Here.rt.inProgress
    BY <1>1, RuntimeSteps, HereFields
  <2>2. Fine(n) /\ Frame(Here, n)
    BY <1>1, <2>1, RuntimeStep
  <2>3. n.rt = r /\ n.task = task /\ n.commit = commit
    BY <1>1, HereFields DEF Machine
  <2>4. rt' = r
    BY <1>3 DEF LocalChange
  <2> HIDE DEF n, r
  <2>5. Become(n)
    BY <1>3, <2>2, <2>3, <2>4, HereFields DEF LocalChange, Become, Frame
  <2>6. settings' = settings /\ gaps' = gaps /\ changes' \in Nat
    BY <1>1, <1>3 DEF LocalChange
  <2>7. Same(Here, n) /\ Same(Here, Here)
    BY <2>2 DEF Frame, Same
  <2> QED
    BY <1>1, <2>2, <2>5, <2>6, <2>7, QuietStep
<1> QED
  BY <1>2, <1>3

\* A full commit that is done may run the close synchronization it held back.
LEMMA FinishStep ==
  ASSUME Consistent, window = "open", FinishCommit
  PROVE  Simulated
<1>1. /\ Fine(Here) /\ Here \in Machine /\ rt \in Runtime /\ gaps \subseteq {"plan", "commit"}
      /\ changes \in Nat
  BY ConsistentIsFine, HereFields DEF Fine, Machine
<1>2. PICK saved \in BOOLEAN, start \in Starts :
        LET noted == [Here EXCEPT !.commit = "none",
                                  !.rt = IF saved THEN NoteLocalChange(rt) ELSE rt]
        IN  IF saved \/ commit = "plain"
              THEN Become(ContinueQueued(noted, start, FALSE)) /\ GapsAfter({})
              ELSE Become(noted) /\ GapsAfter({"commit"})
  BY DEF FinishCommit
<1> DEFINE r == IF saved THEN NoteLocalChange(rt) ELSE rt
           noted == [Here EXCEPT !.commit = "none", !.rt = r]
<1>3. r \in Runtime /\ r.inProgress = rt.inProgress
  BY <1>1, RuntimeSteps
<1>4. \/ Become(ContinueQueued(noted, start, FALSE)) /\ GapsAfter({})
      \/ Become(noted) /\ GapsAfter({"commit"})
  BY <1>2
<1> HIDE DEF r
<1>5. /\ noted \in Machine /\ noted.window = window /\ noted.dialog = dialog
      /\ noted.pending = pending /\ noted.close = close /\ noted.rt = r /\ noted.task = task
  BY <1>1, <1>3, HereFields DEF Machine
<1> HIDE DEF noted
<1>6. Fine(noted) /\ Same(Here, noted) /\ noted.window = "open"
  BY <1>1, <1>3, <1>5, HereFields DEF Fine, Same
<1>7. settings' = settings /\ changes' = changes /\ gaps' \subseteq {"plan", "commit"}
  <2>1. settings' = settings /\ changes' = changes
    BY DEF FinishCommit
  <2> QED
    BY <1>1, <1>4, <2>1, GapsTyped
<1>8. CASE Become(noted)
  <2>1. Same(noted, noted)
    BY DEF Same
  <2> QED
    BY <1>1, <1>6, <1>7, <1>8, <2>1, QuietStep
<1>9. CASE Become(ContinueQueued(noted, start, FALSE))
  <2> DEFINE n == ContinueQueued(noted, start, FALSE)
  <2>1. Fine(n) /\ (Same(noted, n) \/ Over(noted, n, FALSE))
    BY <1>6, ContinueStep
  <2> HIDE DEF n
  <2>2. Become(n)
    BY <1>9 DEF n
  <2> QED
    BY <1>1, <1>6, <1>7, <2>1, <2>2, QuietStep
<1> QED
  BY <1>4, <1>8, <1>9

\* Automatic triggers and operations from the settings leave the close alone.
LEMMA OperationStep ==
  ASSUME Consistent, window = "open", AutomaticTrigger \/ ManualOperation
  PROVE  Simulated
<1>1. /\ Fine(Here) /\ gaps \subseteq {"plan", "commit"} /\ changes \in Nat
  BY ConsistentIsFine
<1>2. settings' = settings /\ changes' = changes /\ gaps' = gaps
  BY DEF AutomaticTrigger, ManualOperation
<1>3. \E n : Become(n) /\ Fine(n) /\ Frame(Here, n)
  <2>1. CASE AutomaticTrigger
    <3>1. PICK start \in Starts : Become(RequestAutomatic(Here, start))
      BY <2>1 DEF AutomaticTrigger
    <3>2. LET n == RequestAutomatic(Here, start) IN Fine(n) /\ Frame(Here, n)
      BY <1>1, AutomaticStep
    <3> QED
      BY <3>1, <3>2
  <2>2. CASE ManualOperation
    <3>1. PICK kind \in Kinds \ {"none", "upload"}, start \in Starts :
            Become(Begin(Here, kind, start))
      BY <2>2 DEF ManualOperation
    <3>2. LET n == Begin(Here, kind, start) IN Fine(n) /\ Frame(Here, n)
      BY <1>1, BeginStep DEF Frame
    <3> QED
      BY <3>1, <3>2
  <2> QED
    BY <2>1, <2>2
<1>4. PICK n : Become(n) /\ Fine(n) /\ Frame(Here, n)
  BY <1>3
<1>5. Same(Here, n) /\ Same(Here, Here)
  BY <1>4 DEF Frame, Same
<1> QED
  BY <1>1, <1>2, <1>4, <1>5, QuietStep

\* The last decision of a conflict dialog goes through the same checks as a
\* plan.
LEMMA ResolveStep ==
  ASSUME Consistent, window = "open", ResolveLast
  PROVE  Simulated
<1>1. /\ Fine(Here) /\ Here \in Machine /\ rt \in Runtime /\ gaps \subseteq {"plan", "commit"}
      /\ changes \in Nat
  BY ConsistentIsFine, HereFields DEF Fine, Machine
<1> DEFINE r == [rt EXCEPT !.conflicts = FALSE]
           decided == [Here EXCEPT !.rt = r]
<1>2. r \in Runtime /\ r.inProgress = Here.rt.inProgress
  BY <1>1, HereFields DEF Runtime
<1>3. [Here EXCEPT !.rt.conflicts = FALSE] = decided
  BY <1>1, HereFields DEF Machine
<1>4. PICK outcome \in PlanOutcomes, start \in Starts :
        Become(PreflightReady(decided, outcome, start))
  BY <1>3 DEF ResolveLast
<1> HIDE DEF r
<1>5. Fine(decided) /\ Frame(Here, decided)
  BY <1>1, <1>2, RuntimeStep
<1> DEFINE n == PreflightReady(decided, outcome, start)
<1> HIDE DEF decided
<1>6. Same(Here, decided) /\ decided.window = "open"
  BY <1>5, HereFields DEF Frame, Same
<1>7. Fine(n) /\ (Same(decided, n) \/ Over(decided, n, FALSE))
  BY <1>5, <1>6, PreflightStep
<1>8. settings' = settings /\ changes' = changes /\ gaps' \subseteq {"plan", "commit"}
  <2>1. GapsAfter({}) /\ settings' = settings /\ changes' = changes
    BY DEF ResolveLast
  <2> QED
    BY <1>1, <2>1, GapsTyped
<1> HIDE DEF n
<1> QED
  BY <1>1, <1>4, <1>6, <1>7, <1>8, QuietStep DEF n

\* handle_sync_finished.
LEMMA TaskStep ==
  ASSUME Consistent, window = "open", TaskFinished
  PROVE  Simulated
<1>1. /\ Fine(Here) /\ Here \in Machine /\ rt \in Runtime /\ gaps \subseteq {"plan", "commit"}
      /\ changes \in Nat /\ task \in Kinds
  BY ConsistentIsFine, HereFields DEF Fine, Machine
<1> DEFINE r == [rt EXCEPT !.inProgress = FALSE]
           idle == [Here EXCEPT !.rt = r, !.task = "none"]
<1>2. r \in Runtime /\ ~r.inProgress
  BY <1>1 DEF Runtime
<1>3. [Here EXCEPT !.rt.inProgress = FALSE, !.task = "none"] = idle
  BY <1>1, HereFields DEF Machine
<1>4. PICK result \in Results(task), outcome \in PlanOutcomes, start \in Starts, next \in Starts :
        LET shown == Dispatched(idle, result, outcome, start)
            done  == Driven(shown, close.running, result, start)
        IN  /\ Become(ServePending(done, next))
            /\ GapsAfter(IF close.running /\ result = "ready" /\ ~shown.rt.inProgress
                           THEN {"plan"} ELSE {})
  BY <1>3 DEF TaskFinished
<1> HIDE DEF r
<1>5. /\ idle \in Machine /\ idle.window = window /\ idle.dialog = dialog
      /\ idle.pending = pending /\ idle.close = close /\ idle.rt = r
  BY <1>1, <1>2, HereFields DEF Machine, Kinds
<1> HIDE DEF idle
<1>6. Fine(idle) /\ Same(Here, idle) /\ idle.window = "open"
  BY <1>1, <1>2, <1>5, HereFields DEF Fine, Same
<1>7. result \in AllResults
  BY <1>1 DEF Results, AllResults, Kinds, TaskFinished
<1> DEFINE n == ServePending(
                  Driven(Dispatched(idle, result, outcome, start), close.running, result, start),
                  next)
<1>8. Fine(n) /\ (Same(idle, n) \/ Over(idle, n, FALSE))
  BY <1>5, <1>6, <1>7, FinishedStep
<1>9. Become(n)
  BY <1>4
<1>10. settings' = settings /\ changes' = changes /\ gaps' \subseteq {"plan", "commit"}
  <2>1. settings' = settings /\ changes' = changes
    BY DEF TaskFinished
  <2>2. \E found \in SUBSET {"plan", "commit"} : GapsAfter(found)
    BY <1>4
  <2> QED
    BY <1>1, <2>1, <2>2, GapsTyped
<1> HIDE DEF n
<1> QED
  BY <1>1, <1>6, <1>8, <1>9, <1>10, QuietStep
-----------------------------------------------------------------------------
\* The window starts open, with nothing under way.
LEMMA InitiallyConsistent == Init => Consistent
<1> SUFFICES ASSUME Init PROVE Consistent
  OBVIOUS
<1>1. /\ window = "open" /\ dialog = FALSE /\ pending = FALSE /\ task = "none"
      /\ commit = "none" /\ changes \in Nat /\ gaps = {}
      /\ settings \in [webdav : BOOLEAN, enabled : BOOLEAN]
  BY DEF Init
<1>2. rt \in Runtime /\ rt.inProgress = FALSE
  BY DEF Init, Runtime
<1>3. close \in CloseSync /\ close.running = FALSE /\ close.completed = FALSE
  BY DEF Init, CloseSync
<1>4. Here \in Machine
  BY <1>1, <1>2, <1>3 DEF Here, Machine, Kinds
<1> QED
  BY <1>1, <1>2, <1>3, <1>4 DEF Consistent, TypeOK

\* Every step keeps Consistent and is one of the protocol, or none.
LEMMA EveryStep ==
  ASSUME Consistent, [Next]_vars
  PROVE  Simulated
<1>1. CASE Next
  BY <1>1, RequestStep, CancelStep, ConfirmStep, ChangeStep, FinishStep, OperationStep,
     ResolveStep, TaskStep DEF Next
<1>2. CASE UNCHANGED vars
  <2>1. Consistent'
    BY <1>2 DEF vars, Consistent, TypeOK, Here
  <2>2. Phase' = Phase /\ Cycle' = Cycle
    BY <1>2 DEF vars, Phase, Cycle
  <2> QED
    BY <2>1, <2>2 DEF Simulated
<1> QED
  BY <1>1, <1>2

\* For every bound and every use of the commit variants, in_progress has a
\* task, and the flags of a close agree: Consistent, which the run close
\* checks, is inductive as it stands.
THEOREM CloseStateConsistent == Spec => []Consistent
<1>1. Consistent /\ [Next]_vars => Consistent'
  BY EveryStep DEF Simulated
<1> QED
  BY InitiallyConsistent, <1>1, PTL DEF Spec

\* The close of a window implements CloseProtocol: it never happens without a
\* confirmation that was not cancelled, nor before the cycle that the request
\* made due is over.
THEOREM CloseImplementsProtocol == Spec => ImplementsProtocol
<1>1. Init => Protocol!Init
  BY DEF Init, Protocol!Init, Phase, Cycle
<1>2. Consistent /\ [Next]_vars => [Protocol!Next]_<<Phase, Cycle>>
  BY EveryStep DEF Simulated
<1> QED
  BY <1>1, <1>2, CloseStateConsistent, PTL DEF Spec, ImplementsProtocol, Protocol!Spec
-----------------------------------------------------------------------------
(* A close that is not over has somebody to end it.                        *)

\* Of a record and the known gaps: until a requested close synchronization is
\* over, an operation is in progress, or a commit that holds it back, or a gap
\* says why not.
Held(m, g) ==
  m.close.requested /\ ~m.close.completed =>
    \/ m.rt.inProgress
    \/ m.close.running /\ "plan" \in g
    \/ ~m.close.running /\ (m.commit # "none" \/ "commit" \in g)

\* From m to n what holds the close does not move.
Still(m, n) ==
  /\ n.close = m.close /\ n.commit = m.commit
  /\ m.rt.inProgress => n.rt.inProgress

\* What does not move still holds.
LEMMA StillHeld ==
  ASSUME NEW m, NEW n, Still(m, n), NEW g, Held(m, g)
  PROVE  Held(n, g)
BY DEF Still, Held

\* A new record of the coordinator moves no commit and no close.
LEMMA RuntimeStill ==
  ASSUME NEW m, Fine(m), NEW r \in Runtime
  PROVE  LET n == [m EXCEPT !.rt = r]
         IN  n.close = m.close /\ n.commit = m.commit /\ n.rt = r
BY DEF Fine, Machine

\* Nor does the start of an operation.
LEMMA BeginStill ==
  ASSUME NEW m, Fine(m), NEW kind \in Kinds, NEW start \in Starts
  PROVE  Still(m, Begin(m, kind, start))
<1> DEFINE a == IF kind = "other" THEN m.rt.active ELSE "newest"
           r == [m.rt EXCEPT !.inProgress = TRUE, !.active = a]
           s == [m.rt EXCEPT !.active = "newest"]
<1>1. m \in Machine /\ m.rt \in Runtime
  BY DEF Fine, Machine
<1>2. r.inProgress = TRUE /\ s.inProgress = m.rt.inProgress
  BY <1>1 DEF Runtime
<1>3. \/ Begin(m, kind, start) = m
      \/ Begin(m, kind, start) = [m EXCEPT !.rt = s]
      \/ Begin(m, kind, start) = [m EXCEPT !.rt = r, !.task = kind]
  BY <1>1 DEF Begin, Machine
<1> HIDE DEF r, s
<1> QED
  BY <1>1, <1>2, <1>3 DEF Still, Machine

\* complete_close_sync leaves the close synchronization over.
LEMMA CompleteEnds ==
  ASSUME NEW m, Fine(m), NEW inWindow \in BOOLEAN
  PROVE  CompleteClose(m, inWindow).close.completed
<1> DEFINE done == [m EXCEPT !.close.running = FALSE, !.close.completed = TRUE]
<1>1. done \in Machine /\ done.close.completed
  BY DEF Fine, Machine, CloseSync
<1> HIDE DEF done
<1>2. \/ CompleteClose(m, inWindow) = done
      \/ CompleteClose(m, inWindow) = [done EXCEPT !.pending = FALSE, !.dialog = FALSE]
      \/ CompleteClose(m, inWindow)
           = [[done EXCEPT !.pending = FALSE] EXCEPT !.window = "closed", !.dialog = FALSE,
                                                     !.task = "none"]
  BY DEF CompleteClose, ApprovePending, Closed, done
<1> QED
  BY <1>1, <1>2 DEF Machine

\* run_close_sync of a queued close starts it or ends it, unless a commit
\* holds it back.
LEMMA RunDrives ==
  ASSUME NEW m, Fine(m), m.window = "open", NEW start \in Starts, NEW inWindow \in BOOLEAN
  PROVE  LET n == RunClose(m, start, inWindow)
         IN  \/ n.rt.inProgress
             \/ n.close.completed
             \/ n = m /\ (~m.close.requested \/ m.close.running \/ m.commit # "none")
<1> DEFINE n == RunClose(m, start, inWindow)
           c == [m.close EXCEPT !.running = TRUE]
           running == [m EXCEPT !.close = c]
           started == Begin(running, "preflight", start)
<1>1. m \in Machine /\ m.close \in CloseSync
  BY DEF Fine, Machine
<1>2. CASE ~m.close.requested \/ m.close.running \/ m.close.completed \/ m.commit # "none"
  <2>1. n = m
    BY <1>2 DEF RunClose
  <2> QED
    BY <1>2, <2>1
<1>3. CASE m.close.requested /\ ~m.close.running /\ ~m.close.completed /\ m.commit = "none"
  <2>1. CASE ~settings.webdav
    <3>1. n = CompleteClose(m, inWindow)
      BY <1>3, <2>1 DEF RunClose
    <3>2. CompleteClose(m, inWindow).close.completed
      BY CompleteEnds
    <3> QED
      BY <3>1, <3>2
  <2>2. CASE settings.webdav
    <3>1. [m EXCEPT !.close.running = TRUE] = running
      BY <1>1 DEF Machine, CloseSync
    <3>2. n = IF started.rt.inProgress THEN started ELSE CompleteClose(started, inWindow)
      BY <1>3, <2>2, <3>1 DEF RunClose
    <3>3. c \in CloseSync /\ c.requested /\ ~c.completed
      BY <1>1, <1>3 DEF CloseSync
    <3> HIDE DEF c
    <3>4. /\ running \in Machine /\ running.close = c /\ running.window = m.window
          /\ running.dialog = m.dialog /\ running.pending = m.pending
          /\ running.rt = m.rt /\ running.task = m.task
      BY <1>1, <3>3 DEF Machine
    <3> HIDE DEF running
    <3>5. Fine(running)
      BY <1>3, <3>3, <3>4 DEF Fine
    <3>6. "preflight" \in Kinds \ {"none", "upload"}
      BY DEF Kinds
    <3>7. Fine(started)
      BY <3>5, <3>6, BeginStep
    <3> HIDE DEF started, n
    <3>8. CompleteClose(started, inWindow).close.completed
      BY <3>7, CompleteEnds
    <3> QED
      BY <3>2, <3>8 DEF n
  <2> QED
    BY <2>1, <2>2
<1> QED
  BY <1>2, <1>3

\* After continue_queued_close_sync a close that was not running is held by an
\* operation or a commit, or is over.
LEMMA ContinueDrives ==
  ASSUME NEW m, Fine(m), m.window = "open" \/ m.close.completed,
         NEW start \in Starts, NEW inWindow \in BOOLEAN,
         m.close.running => m.rt.inProgress
  PROVE  Held(ContinueQueued(m, start, inWindow), {})
<1> DEFINE n == ContinueQueued(m, start, inWindow)
<1>1. CASE m.close.requested /\ ~m.close.running /\ ~m.close.completed /\ ~m.rt.inProgress
  <2>1. n = RunClose(m, start, inWindow)
    BY <1>1 DEF ContinueQueued
  <2>2. \/ n.rt.inProgress
        \/ n.close.completed
        \/ n = m /\ (~m.close.requested \/ m.close.running \/ m.commit # "none")
    BY <1>1, <2>1, RunDrives
  <2> HIDE DEF n
  <2>3. Held(n, {})
    BY <1>1, <2>2 DEF Held
  <2> QED
    BY <2>3 DEF n
<1>2. CASE ~(m.close.requested /\ ~m.close.running /\ ~m.close.completed /\ ~m.rt.inProgress)
  <2>1. n = m
    BY <1>2 DEF ContinueQueued
  <2> QED
    BY <1>2, <2>1 DEF Held
<1> QED
  BY <1>1, <1>2

\* request_automatic_sync, and the automatic synchronization that waited, move
\* no close.
LEMMA AutomaticStill ==
  ASSUME NEW m, Fine(m), NEW start \in Starts
  PROVE  Still(m, RequestAutomatic(m, start))
<1> DEFINE q == [m.rt EXCEPT !.pendingAutomatic = TRUE]
           a == [m.rt EXCEPT !.active = "newest"]
           waits == [m EXCEPT !.rt = q]
           begun == [m EXCEPT !.rt = a]
<1>1. m \in Machine /\ m.rt \in Runtime
  BY DEF Fine, Machine
<1>2. /\ q \in Runtime /\ q.inProgress = m.rt.inProgress
      /\ a \in Runtime /\ a.inProgress = m.rt.inProgress
  BY <1>1 DEF Runtime
<1>3. /\ [m EXCEPT !.rt.pendingAutomatic = TRUE] = waits
      /\ [m EXCEPT !.rt.active = "newest"] = begun
  BY <1>1 DEF Machine
<1> HIDE DEF q, a
<1>4. Fine(begun) /\ Still(m, waits) /\ Still(m, begun)
  <2>1. Fine(begun)
    BY <1>2, RuntimeStep
  <2> QED
    BY <1>2, <2>1, RuntimeStill DEF Still
<1> HIDE DEF waits, begun
<1>5. \/ RequestAutomatic(m, start) = m
      \/ RequestAutomatic(m, start) = waits
      \/ RequestAutomatic(m, start) = Begin(begun, "preflight", start)
  BY <1>3 DEF RequestAutomatic
<1>6. Still(begun, Begin(begun, "preflight", start))
  BY <1>4, BeginStill DEF Kinds
<1> QED
  BY <1>4, <1>5, <1>6 DEF Still

\* The same of the automatic synchronization that waited.
LEMMA PendingStill ==
  ASSUME NEW m, Fine(m), NEW start \in Starts
  PROVE  Still(m, ServePending(m, start))
<1> DEFINE r == [m.rt EXCEPT !.pendingAutomatic = FALSE]
           served == [m EXCEPT !.rt = r]
<1>1. m \in Machine /\ m.rt \in Runtime
  BY DEF Fine, Machine
<1>2. r \in Runtime /\ r.inProgress = m.rt.inProgress
  BY <1>1 DEF Runtime
<1>3. [m EXCEPT !.rt.pendingAutomatic = FALSE] = served
  BY <1>1 DEF Machine
<1> HIDE DEF r
<1>4. Fine(served) /\ Still(m, served)
  <2>1. Fine(served)
    BY <1>2, RuntimeStep
  <2> QED
    BY <1>2, <2>1, RuntimeStill DEF Still
<1> HIDE DEF served
<1>5. ServePending(m, start) = m \/ ServePending(m, start) = RequestAutomatic(served, start)
  BY <1>3 DEF ServePending
<1>6. Still(served, RequestAutomatic(served, start))
  BY <1>4, AutomaticStill
<1> QED
  BY <1>4, <1>5, <1>6 DEF Still

\* handle_sync_upload_preflight_ready leaves the close alone, or leaves an
\* operation in progress, or leaves the close over or held by a commit.
LEMMA PreflightDrives ==
  ASSUME NEW m, Fine(m), m.window = "open", NEW outcome \in PlanOutcomes, NEW start \in Starts
  PROVE  LET n == PreflightReady(m, outcome, start)
         IN  Still(m, n) \/ n.rt.inProgress \/ n.close.completed
               \/ (~m.close.running /\ Held(n, {}))
<1> DEFINE n == PreflightReady(m, outcome, start)
<1> SUFFICES Still(m, n) \/ n.rt.inProgress \/ n.close.completed
               \/ (~m.close.running /\ Held(n, {}))
  OBVIOUS
<1>1. m \in Machine /\ m.rt \in Runtime
  BY DEF Fine, Machine
<1>2. CASE m.rt.active = "older"
  <2>1. n = [m EXCEPT !.rt = Abandon(m.rt)]
    BY <1>2 DEF PreflightReady
  <2> QED
    BY <1>1, <2>1, RuntimeSteps, RuntimeStill DEF Still
<1>3. CASE m.rt.active # "older" /\ outcome = "adopted"
  <2>1. n = [m EXCEPT !.rt = RecordSuccess(m.rt)]
    BY <1>3 DEF PreflightReady
  <2> QED
    BY <1>1, <2>1, RuntimeSteps, RuntimeStill DEF Still
<1>4. CASE m.rt.active # "older" /\ outcome = "lost"
  BY <1>4 DEF PreflightReady, Still
<1>5. CASE m.rt.active # "older" /\ outcome = "uploads"
  <2>1. n = [m EXCEPT !.rt.inProgress = TRUE, !.task = "upload"]
    BY <1>5 DEF PreflightReady
  <2>2. n.rt.inProgress
    BY <1>1, <2>1 DEF Machine, Runtime
  <2> QED
    BY <2>2
<1>6. CASE m.rt.active # "older" /\ outcome = "unsealed"
  <2> DEFINE r == [m.rt EXCEPT !.inProgress = FALSE]
             idle == [m EXCEPT !.rt = r]
  <2>1. r \in Runtime /\ ~r.inProgress
    BY <1>1 DEF Runtime
  <2>2. [m EXCEPT !.rt.inProgress = FALSE] = idle
    BY <1>1 DEF Machine
  <2> HIDE DEF r
  <2>3. Fine(idle) /\ Frame(m, idle)
    BY <2>1, RuntimeStep
  <2>4. n = IF m.close.running THEN CompleteClose(idle, FALSE)
            ELSE ContinueQueued(idle, start, FALSE)
    BY <1>6, <2>2 DEF PreflightReady
  <2> HIDE DEF idle, n
  <2>5. CASE m.close.running
    BY <2>3, <2>4, <2>5, CompleteEnds
  <2>6. CASE ~m.close.running
    <3>1. idle.window = "open" /\ ~idle.close.running
      BY <2>3, <2>6 DEF Frame
    <3>2. Held(ContinueQueued(idle, start, FALSE), {})
      BY <2>3, <3>1, ContinueDrives
    <3> QED
      BY <2>4, <2>6, <3>2
  <2> QED
    BY <2>5, <2>6
<1> QED
  BY <1>2, <1>3, <1>4, <1>5, <1>6 DEF PlanOutcomes

\* The handlers of the other results leave it alone.
LEMMA DispatchStill ==
  ASSUME NEW m, Fine(m), m.window = "open", NEW result \in AllResults \ {"ready"},
         NEW outcome \in PlanOutcomes, NEW start \in Starts
  PROVE  Still(m, Dispatched(m, result, outcome, start))
<1> DEFINE n == Dispatched(m, result, outcome, start)
           r == [m.rt EXCEPT !.conflicts = TRUE]
           shown == [m EXCEPT !.rt = r]
<1>1. m \in Machine /\ m.rt \in Runtime
  BY DEF Fine, Machine
<1>2. CASE result = "initialized"
  <2>1. n = Begin(m, "preflight", start)
    BY <1>2 DEF Dispatched
  <2> QED
    BY <2>1, BeginStill DEF Kinds
<1>3. CASE result # "initialized"
  <2>1. r \in Runtime /\ r.inProgress = m.rt.inProgress
    BY <1>1 DEF Runtime
  <2>2. [m EXCEPT !.rt.conflicts = TRUE] = shown
    BY <1>1 DEF Machine
  <2> HIDE DEF r
  <2>3. \/ n = m \/ n = shown
        \/ n = [m EXCEPT !.rt = Abandon(m.rt)]
        \/ n = [m EXCEPT !.rt = RecordSuccess(m.rt)]
        \/ n = [m EXCEPT !.rt = RecordFailure(m.rt)]
    BY <1>3, <2>2 DEF Dispatched, AllResults
  <2> HIDE DEF n
  <2>4. PICK s \in Runtime : s.inProgress = m.rt.inProgress /\ (n = m \/ n = [m EXCEPT !.rt = s])
    BY <1>1, <2>1, <2>3, RuntimeSteps
  <2>5. CASE n = m
    BY <2>5 DEF Still, n
  <2>6. CASE n = [m EXCEPT !.rt = s]
    <3>1. n.close = m.close /\ n.commit = m.commit /\ n.rt = s
      BY <2>6, RuntimeStill
    <3>2. Still(m, n)
      BY <2>4, <3>1 DEF Still
    <3> QED
      BY <3>2 DEF n
  <2> QED
    BY <2>4, <2>5, <2>6
<1> QED
  BY <1>2, <1>3

\* After the whole of handle_sync_finished the close is over or held, unless
\* the plan of its own upload was not uploaded.
LEMMA FinishedDrives ==
  ASSUME NEW m, Fine(m), m.window = "open", NEW result \in AllResults,
         NEW outcome \in PlanOutcomes, NEW start \in Starts, NEW next \in Starts
  PROVE  LET shown == Dispatched(m, result, outcome, start)
             done  == Driven(shown, m.close.running, result, start)
             n     == ServePending(done, next)
         IN  Held(n, IF m.close.running /\ result = "ready" /\ ~shown.rt.inProgress
                       THEN {"plan"} ELSE {})
<1> DEFINE shown == Dispatched(m, result, outcome, start)
           done == Driven(shown, m.close.running, result, start)
           n == ServePending(done, next)
           g == IF m.close.running /\ result = "ready" /\ ~shown.rt.inProgress
                  THEN {"plan"} ELSE {}
<1> SUFFICES Held(n, g)
  OBVIOUS
<1>1. /\ Fine(shown)
      /\ IF result = "ready" THEN Same(m, shown) \/ Over(m, shown, FALSE) ELSE Frame(m, shown)
  BY DispatchStep
<1>2. \/ Still(m, shown) \/ shown.rt.inProgress \/ shown.close.completed
      \/ (~m.close.running /\ Held(shown, {}))
  <2>1. CASE result = "ready"
    <3>1. shown = PreflightReady(m, outcome, start)
      BY <2>1 DEF Dispatched
    <3> QED
      BY <3>1, PreflightDrives
  <2>2. CASE result # "ready"
    BY <2>2, DispatchStill
  <2> QED
    BY <2>1, <2>2
<1>3. Fine(done)
  <2>1. shown.window = "open" \/ shown.close.completed
    BY <1>1 DEF Frame, Same, Over
  <2>2. CASE done = shown
    BY <1>1, <2>2
  <2>3. CASE done = CompleteClose(shown, FALSE) /\ m.close.running /\ result # "ready"
    <3>1. shown.window = "open" /\ shown.close.requested /\ ~shown.close.completed
      BY <1>1, <2>3 DEF Fine, Frame
    <3> QED
      BY <1>1, <2>3, <3>1, CompleteStep
  <2>4. CASE done = ContinueQueued(shown, start, FALSE)
    BY <1>1, <2>1, <2>4, ContinueStep
  <2> QED
    BY <2>2, <2>3, <2>4 DEF Driven
<1>4. Held(done, g)
  <2>1. CASE shown.rt.inProgress
    <3>1. done = shown
      BY <2>1 DEF Driven
    <3> QED
      BY <2>1, <3>1 DEF Held
  <2>2. CASE ~shown.rt.inProgress /\ m.close.running /\ result = "ready"
    <3>1. done = shown /\ g = {"plan"}
      BY <2>2 DEF Driven
    <3>2. shown.close.completed \/ shown.close = m.close
      BY <1>2, <2>2 DEF Still
    <3> HIDE DEF done, shown, g
    <3> QED
      BY <2>2, <3>1, <3>2 DEF Held
  <2>3. CASE ~shown.rt.inProgress /\ m.close.running /\ result # "ready"
    <3>1. done = CompleteClose(shown, FALSE)
      BY <2>3 DEF Driven
    <3>2. CompleteClose(shown, FALSE).close.completed
      BY <1>1, CompleteEnds
    <3> QED
      BY <3>1, <3>2 DEF Held
  <2>4. CASE ~shown.rt.inProgress /\ ~m.close.running
    <3>1. done = ContinueQueued(shown, start, FALSE)
      BY <2>4 DEF Driven
    <3>2. shown.window = "open" \/ shown.close.completed
      BY <1>1 DEF Frame, Same, Over
    <3>3. CASE shown.close.running
      <4>1. done = shown
        BY <3>1, <3>3 DEF ContinueQueued
      <4>2. shown.close.completed \/ Held(shown, {})
        BY <1>2, <2>4, <3>3 DEF Still
      <4>3. shown.close.completed \/ ~shown.close.requested
        BY <2>4, <3>3, <4>2 DEF Held
      <4> HIDE DEF done, shown
      <4> QED
        BY <4>1, <4>3 DEF Held
    <3>4. CASE ~shown.close.running
      <4>1. Held(ContinueQueued(shown, start, FALSE), {})
        BY <1>1, <3>2, <3>4, ContinueDrives
      <4> QED
        BY <3>1, <4>1 DEF Held
    <3> QED
      BY <3>3, <3>4
  <2> QED
    BY <2>1, <2>2, <2>3, <2>4
<1> HIDE DEF done, shown, g
<1>5. Still(done, n)
  BY <1>3, PendingStill
<1> HIDE DEF n
<1> QED
  BY <1>4, <1>5, StillHeld

\* The close of the current state is over, held, or left to a known gap.
CloseHeld == Held(Here, gaps)

\* A handler that leaves n, held but for the gaps it found, leaves the close
\* held but for the gaps then known.
LEMMA HeldAfter ==
  ASSUME NEW n \in Machine, Become(n), NEW found, GapsAfter(found), Held(n, gaps \cup found)
  PROVE  CloseHeld'
<1>1. Here' = n
  BY DEF Here, Become, Machine
<1>2. CloseHeld' <=> Held(n, gaps')
  BY <1>1 DEF CloseHeld, Held
<1>3. close' = n.close
  BY DEF Become
<1>4. "plan" \in gaps \cup found /\ n.close.running => "plan" \in gaps'
  BY <1>3 DEF GapsAfter
<1>5. "commit" \in gaps \cup found /\ ~n.close.running /\ ~n.close.completed => "commit" \in gaps'
  BY <1>3 DEF GapsAfter
<1>6. Held(n, gaps')
  BY <1>4, <1>5 DEF Held
<1> QED
  BY <1>2, <1>6

\* The same of a step that finds nothing of the close to have moved.
LEMMA HeldStill ==
  ASSUME CloseHeld, NEW n \in Machine, Become(n), Still(Here, n), gaps' = gaps
  PROVE  CloseHeld'
<1>1. Here' = n
  BY DEF Here, Become, Machine
<1>2. CloseHeld' <=> Held(n, gaps)
  BY <1>1 DEF CloseHeld, Held
<1>3. Held(n, gaps)
  BY StillHeld DEF CloseHeld
<1> QED
  BY <1>2, <1>3

\* What is held without a gap is held with any.
LEMMA HeldAnyway ==
  ASSUME NEW m, NEW g, Held(m, {})
  PROVE  Held(m, g)
BY DEF Held

\* request_main_window_close runs the close synchronization, or meets one that
\* is running already, or an operation that will run it.
LEMMA RequestHeld ==
  ASSUME Consistent, window = "open", CloseHeld, RequestClose
  PROVE  CloseHeld'
<1> DEFINE c == [close EXCEPT !.requested = TRUE, !.completed = FALSE]
           asked == [Here EXCEPT !.dialog = TRUE, !.close = c]
<1>1. Fine(Here) /\ Here \in Machine /\ close \in CloseSync
  BY ConsistentIsFine, HereFields DEF Fine, Machine
<1>2. /\ c \in CloseSync /\ c.requested /\ ~c.completed /\ c.running = close.running
  BY <1>1 DEF CloseSync
<1>3. [Here EXCEPT !.dialog = TRUE, !.close.requested = TRUE, !.close.completed = FALSE] = asked
  BY <1>1, HereFields DEF Machine, CloseSync
<1>4. PICK start \in Starts :
        Become(IF rt.inProgress THEN asked ELSE RunClose(asked, start, TRUE))
  BY <1>3 DEF RequestClose
<1> DEFINE n == IF rt.inProgress THEN asked ELSE RunClose(asked, start, TRUE)
<1> HIDE DEF c
<1>5. /\ asked \in Machine /\ asked.window = "open" /\ asked.dialog = TRUE
      /\ asked.pending = pending /\ asked.close = c /\ asked.rt = rt /\ asked.task = task
      /\ asked.commit = commit
  BY <1>1, <1>2, HereFields DEF Machine
<1> HIDE DEF asked
<1>6. Fine(asked)
  <2>1. ~dialog /\ ~pending
    BY DEF RequestClose
  <2> QED
    BY <1>1, <1>2, <1>5, <2>1, HereFields DEF Fine
<1>7. close.running => close.requested /\ ~close.completed
  BY DEF Consistent
<1>8. n \in Machine /\ Held(n, gaps)
  <2>1. CASE rt.inProgress
    BY <1>5, <2>1 DEF Held
  <2>2. CASE ~rt.inProgress
    <3>1. n = RunClose(asked, start, TRUE)
      BY <2>2
    <3>2. \/ n.rt.inProgress
          \/ n.close.completed
          \/ n = asked /\ (~asked.close.requested \/ asked.close.running \/ asked.commit # "none")
      BY <1>5, <1>6, <3>1, RunDrives
    <3>3. n \in Machine
      BY <1>5, <1>6, <3>1, RunStep DEF Fine
    <3> HIDE DEF n
    <3>4. CASE n = asked /\ asked.close.running
      <4>1. "plan" \in gaps
        BY <1>2, <1>5, <1>7, <2>2, <3>4, HereFields DEF CloseHeld, Held
      <4> QED
        BY <3>3, <3>4, <4>1 DEF Held
    <3>5. CASE ~(n = asked /\ asked.close.running)
      BY <1>2, <1>5, <3>2, <3>3, <3>5 DEF Held
    <3> QED
      BY <3>4, <3>5
  <2> QED
    BY <2>1, <2>2
<1>9. Become(n) /\ GapsAfter({})
  BY <1>4 DEF RequestClose
<1> HIDE DEF n
<1> QED
  BY <1>8, <1>9, HeldAfter

\* Confirming a close that is not over continues one that is queued.
LEMMA ConfirmHeld ==
  ASSUME Consistent, window = "open", CloseHeld, ConfirmClose
  PROVE  CloseHeld'
<1> DEFINE confirmed == [Here EXCEPT !.dialog = FALSE, !.pending = TRUE]
           closing == [confirmed EXCEPT !.pending = FALSE]
<1>1. Fine(Here) /\ Here \in Machine
  BY ConsistentIsFine DEF Fine
<1>2. PICK start \in Starts :
        Become(IF close.completed THEN Closed(closing) ELSE ContinueQueued(confirmed, start, TRUE))
  BY DEF ConfirmClose
<1>3. /\ confirmed \in Machine /\ confirmed.window = "open" /\ confirmed.dialog = FALSE
      /\ confirmed.pending = TRUE /\ confirmed.close = close /\ confirmed.rt = rt
      /\ confirmed.task = task /\ confirmed.commit = commit
  BY <1>1, HereFields DEF Machine
<1> HIDE DEF confirmed
<1>4. CASE close.completed
  <2> DEFINE n == [closing EXCEPT !.window = "closed", !.dialog = FALSE, !.task = "none"]
  <2>1. closing \in Machine /\ closing.close = close
    BY <1>3 DEF Machine
  <2> HIDE DEF closing
  <2>2. n \in Machine /\ n.close = close
    BY <2>1 DEF Machine, Kinds
  <2>3. Become(n) /\ GapsAfter({})
    BY <1>2, <1>4 DEF Closed, ConfirmClose
  <2> HIDE DEF n
  <2>4. Held(n, gaps \cup {})
    BY <1>4, <2>2 DEF Held
  <2> QED
    BY <2>2, <2>3, <2>4, HeldAfter
<1>5. CASE ~close.completed
  <2> DEFINE n == ContinueQueued(confirmed, start, TRUE)
  <2>1. Fine(confirmed)
    <3>1. dialog
      BY DEF ConfirmClose
    <3> QED
      BY <1>1, <1>3, <1>5, <3>1, HereFields DEF Fine
  <2>2. Fine(n)
    BY <1>3, <2>1, ContinueStep
  <2>3. Become(n) /\ GapsAfter({})
    BY <1>2, <1>5 DEF ConfirmClose
  <2>4. Held(n, gaps)
    <3>1. CASE close.running /\ ~rt.inProgress
      <4>1. n = confirmed
        BY <1>3, <3>1 DEF ContinueQueued
      <4>2. Held(confirmed, gaps)
        BY <1>3, HereFields DEF CloseHeld, Held
      <4> QED
        BY <4>1, <4>2
    <3>2. CASE ~(close.running /\ ~rt.inProgress)
      <4>1. confirmed.close.running => confirmed.rt.inProgress
        BY <1>3, <3>2
      <4>2. Held(n, {})
        BY <1>3, <2>1, <4>1, ContinueDrives
      <4> HIDE DEF n
      <4> QED
        BY <4>2, HeldAnyway
    <3> QED
      BY <3>1, <3>2
  <2>5. n \in Machine
    BY <2>2 DEF Fine
  <2> HIDE DEF n
  <2> QED
    BY <2>3, <2>4, <2>5, HeldAfter
<1> QED
  BY <1>1, <1>4, <1>5, HereFields DEF Machine, CloseSync

\* A full commit that is done continues the close it held back, or leaves a gap.
LEMMA FinishHeld ==
  ASSUME Consistent, window = "open", CloseHeld, FinishCommit
  PROVE  CloseHeld'
<1>1. Fine(Here) /\ Here \in Machine /\ rt \in Runtime
  BY ConsistentIsFine, HereFields DEF Fine, Machine
<1>2. PICK saved \in BOOLEAN, start \in Starts :
        LET noted == [Here EXCEPT !.commit = "none",
                                  !.rt = IF saved THEN NoteLocalChange(rt) ELSE rt]
        IN  IF saved \/ commit = "plain"
              THEN Become(ContinueQueued(noted, start, FALSE)) /\ GapsAfter({})
              ELSE Become(noted) /\ GapsAfter({"commit"})
  BY DEF FinishCommit
<1> DEFINE r == IF saved THEN NoteLocalChange(rt) ELSE rt
           noted == [Here EXCEPT !.commit = "none", !.rt = r]
<1>3. r \in Runtime /\ r.inProgress = rt.inProgress
  BY <1>1, RuntimeSteps
<1>4. \/ Become(ContinueQueued(noted, start, FALSE)) /\ GapsAfter({})
      \/ Become(noted) /\ GapsAfter({"commit"})
  BY <1>2
<1> HIDE DEF r
<1>5. /\ noted \in Machine /\ noted.window = window /\ noted.dialog = dialog
      /\ noted.pending = pending /\ noted.close = close /\ noted.rt = r /\ noted.task = task
      /\ noted.commit = "none"
  BY <1>1, <1>3, HereFields DEF Machine
<1> HIDE DEF noted
<1>6. Fine(noted)
  BY <1>1, <1>3, <1>5, HereFields DEF Fine
<1>7. CASE Become(noted) /\ GapsAfter({"commit"})
  <2>1. Held(noted, gaps \cup {"commit"})
    BY <1>3, <1>5, HereFields DEF CloseHeld, Held
  <2> QED
    BY <1>5, <1>7, <2>1, HeldAfter
<1>8. CASE Become(ContinueQueued(noted, start, FALSE)) /\ GapsAfter({})
  <2> DEFINE n == ContinueQueued(noted, start, FALSE)
  <2>1. n \in Machine
    BY <1>5, <1>6, ContinueStep DEF Fine
  <2>2. Held(n, gaps)
    <3>1. CASE close.running /\ ~rt.inProgress
      <4>1. n = noted
        BY <1>5, <3>1 DEF ContinueQueued
      <4>2. Held(noted, gaps)
        BY <1>3, <1>5, <3>1, HereFields DEF CloseHeld, Held
      <4> QED
        BY <4>1, <4>2
    <3>2. CASE ~(close.running /\ ~rt.inProgress)
      <4>1. noted.close.running => noted.rt.inProgress
        BY <1>3, <1>5, <3>2
      <4>2. Held(n, {})
        BY <1>5, <1>6, <4>1, ContinueDrives
      <4> HIDE DEF n
      <4> QED
        BY <4>2, HeldAnyway
    <3> QED
      BY <3>1, <3>2
  <2>3. Become(n) /\ GapsAfter({})
    BY <1>8
  <2> HIDE DEF n
  <2> QED
    BY <2>1, <2>2, <2>3, HeldAfter
<1> QED
  BY <1>4, <1>7, <1>8

\* The last decision of a conflict dialog may end an operation in progress, but
\* then it ends or continues the close as well.
LEMMA ResolveHeld ==
  ASSUME Consistent, window = "open", CloseHeld, ResolveLast
  PROVE  CloseHeld'
<1>1. Fine(Here) /\ Here \in Machine /\ rt \in Runtime
  BY ConsistentIsFine, HereFields DEF Fine, Machine
<1> DEFINE r == [rt EXCEPT !.conflicts = FALSE]
           decided == [Here EXCEPT !.rt = r]
<1>2. r \in Runtime /\ r.inProgress = Here.rt.inProgress
  BY <1>1, HereFields DEF Runtime
<1>3. [Here EXCEPT !.rt.conflicts = FALSE] = decided
  BY <1>1, HereFields DEF Machine
<1>4. PICK outcome \in PlanOutcomes, start \in Starts :
        Become(PreflightReady(decided, outcome, start))
  BY <1>3 DEF ResolveLast
<1> HIDE DEF r
<1>5. Fine(decided) /\ Still(Here, decided)
  <2>1. Fine(decided)
    BY <1>1, <1>2, RuntimeStep
  <2> QED
    BY <1>1, <1>2, <2>1, RuntimeStill DEF Still
<1>6. decided.window = "open"
  BY <1>1, HereFields DEF Machine
<1> DEFINE n == PreflightReady(decided, outcome, start)
<1> HIDE DEF decided
<1>7. Fine(n) /\ n \in Machine
  BY <1>5, <1>6, PreflightStep DEF Fine
<1>8. \/ Still(decided, n) \/ n.rt.inProgress \/ n.close.completed
      \/ (~decided.close.running /\ Held(n, {}))
  BY <1>5, <1>6, PreflightDrives
<1>9. Become(n) /\ GapsAfter({})
  BY <1>4 DEF ResolveLast
<1> HIDE DEF n
<1>10. Held(decided, gaps)
  BY <1>5, StillHeld DEF CloseHeld
<1>11. Held(n, gaps)
  <2>1. CASE Still(decided, n)
    BY <1>10, <2>1, StillHeld
  <2>2. CASE n.rt.inProgress \/ n.close.completed
    BY <2>2 DEF Held
  <2>3. CASE Held(n, {})
    BY <2>3, HeldAnyway
  <2> QED
    BY <1>8, <2>1, <2>2, <2>3
<1> QED
  BY <1>7, <1>9, <1>11, HeldAfter

\* handle_sync_finished ends the operation that held the close, and finds the
\* gap if it is one.
LEMMA TaskHeld ==
  ASSUME Consistent, window = "open", CloseHeld, TaskFinished
  PROVE  CloseHeld'
<1>1. Fine(Here) /\ Here \in Machine /\ rt \in Runtime /\ task \in Kinds
  BY ConsistentIsFine, HereFields DEF Fine, Machine
<1> DEFINE r == [rt EXCEPT !.inProgress = FALSE]
           idle == [Here EXCEPT !.rt = r, !.task = "none"]
<1>2. r \in Runtime /\ ~r.inProgress
  BY <1>1 DEF Runtime
<1>3. [Here EXCEPT !.rt.inProgress = FALSE, !.task = "none"] = idle
  BY <1>1, HereFields DEF Machine
<1>4. PICK result \in Results(task), outcome \in PlanOutcomes, start \in Starts, next \in Starts :
        LET shown == Dispatched(idle, result, outcome, start)
            done  == Driven(shown, close.running, result, start)
        IN  /\ Become(ServePending(done, next))
            /\ GapsAfter(IF close.running /\ result = "ready" /\ ~shown.rt.inProgress
                           THEN {"plan"} ELSE {})
  BY <1>3 DEF TaskFinished
<1> HIDE DEF r
<1>5. /\ idle \in Machine /\ idle.window = window /\ idle.dialog = dialog
      /\ idle.pending = pending /\ idle.close = close /\ idle.rt = r
  BY <1>1, <1>2, HereFields DEF Machine, Kinds
<1> HIDE DEF idle
<1>6. Fine(idle) /\ idle.window = "open"
  BY <1>1, <1>2, <1>5, HereFields DEF Fine
<1>7. result \in AllResults
  BY <1>1 DEF Results, AllResults, Kinds, TaskFinished
<1> DEFINE shown == Dispatched(idle, result, outcome, start)
           n == ServePending(Driven(shown, close.running, result, start), next)
           found == IF close.running /\ result = "ready" /\ ~shown.rt.inProgress
                      THEN {"plan"} ELSE {}
<1>8. Fine(n)
  BY <1>5, <1>6, <1>7, FinishedStep
<1>9. Held(n, found)
  BY <1>5, <1>6, <1>7, FinishedDrives
<1>10. Become(n) /\ GapsAfter(found)
  BY <1>4
<1> HIDE DEF n, found
<1>11. Held(n, gaps \cup found)
  BY <1>9 DEF Held
<1>12. n \in Machine
  BY <1>8 DEF Fine
<1> QED
  BY <1>10, <1>11, <1>12, HeldAfter

\* Cancelling, the start of a commit, a local change, and the start of an
\* automatic or manual operation leave the close as it is held.
LEMMA OthersHeld ==
  ASSUME Consistent, window = "open", CloseHeld,
         CancelClose \/ BeginCommit \/ LocalChange \/ AutomaticTrigger \/ ManualOperation
  PROVE  CloseHeld'
<1>1. Fine(Here) /\ Here \in Machine /\ rt \in Runtime
  BY ConsistentIsFine, HereFields DEF Fine, Machine
<1>2. CASE CancelClose
  <2>1. close' = close /\ rt' = rt /\ commit' = commit /\ gaps' = gaps
    BY <1>2 DEF CancelClose
  <2> QED
    BY <2>1 DEF CloseHeld, Held, Here
<1>3. CASE BeginCommit
  <2>1. /\ close' = close /\ rt' = rt /\ gaps' = gaps
        /\ commit = "none" /\ commit' \in CommitKinds
    BY <1>3 DEF BeginCommit
  <2> QED
    BY <2>1 DEF CloseHeld, Held, Here
<1>4. CASE LocalChange
  <2>1. /\ close' = close /\ rt' = NoteLocalChange(rt) /\ commit' = commit /\ gaps' = gaps
    BY <1>4 DEF LocalChange
  <2>2. rt'.inProgress = rt.inProgress
    BY <1>1, <2>1, RuntimeSteps
  <2> QED
    BY <2>1, <2>2 DEF CloseHeld, Held, Here
<1>5. CASE AutomaticTrigger
  <2>1. PICK start \in Starts : Become(RequestAutomatic(Here, start))
    BY <1>5 DEF AutomaticTrigger
  <2>2. Still(Here, RequestAutomatic(Here, start)) /\ RequestAutomatic(Here, start) \in Machine
    BY <1>1, AutomaticStill, AutomaticStep DEF Fine
  <2>3. gaps' = gaps
    BY <1>5 DEF AutomaticTrigger
  <2> QED
    BY <2>1, <2>2, <2>3, HeldStill
<1>6. CASE ManualOperation
  <2>1. PICK kind \in Kinds \ {"none", "upload"}, start \in Starts : Become(Begin(Here, kind, start))
    BY <1>6 DEF ManualOperation
  <2>2. Still(Here, Begin(Here, kind, start)) /\ Begin(Here, kind, start) \in Machine
    BY <1>1, BeginStill, BeginStep DEF Fine
  <2>3. gaps' = gaps
    BY <1>6 DEF ManualOperation
  <2> QED
    BY <2>1, <2>2, <2>3, HeldStill
<1> QED
  BY <1>2, <1>3, <1>4, <1>5, <1>6

\* Every step keeps the close held.
LEMMA EveryStepHeld ==
  ASSUME Consistent, CloseHeld, [Next]_vars
  PROVE  CloseHeld'
<1>1. CASE Next
  BY <1>1, RequestHeld, ConfirmHeld, FinishHeld, ResolveHeld, TaskHeld, OthersHeld DEF Next
<1>2. CASE UNCHANGED vars
  BY <1>2 DEF vars, CloseHeld, Held, Here
<1> QED
  BY <1>1, <1>2

\* A confirmed close always waits for something: an operation in progress, or a
\* full commit that holds it back, unless it met one of the two known gaps.
\* The invariant it rests on speaks of every requested close, confirmed or not:
\* a running one needs an operation, a queued one an operation or a commit.
THEOREM ConfirmedDriven == Spec => []DrivenUnlessGap
<1>1. Init => CloseHeld
  BY DEF Init, CloseHeld, Held, Here
<1>2. Consistent /\ CloseHeld /\ [Next]_vars => CloseHeld'
  BY EveryStepHeld
<1>3. Consistent /\ CloseHeld => DrivenUnlessGap
  <2> SUFFICES ASSUME Consistent, CloseHeld, pending, gaps = {} PROVE Driver
    BY DEF DrivenUnlessGap
  <2>1. close.requested /\ ~close.completed
    BY DEF Consistent
  <2> QED
    BY <2>1, HereFields DEF CloseHeld, Held, Driver
<1> QED
  BY <1>1, <1>2, <1>3, CloseStateConsistent, PTL DEF Spec
=============================================================================
