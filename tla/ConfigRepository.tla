-------------------------- MODULE ConfigRepository --------------------------
(***************************************************************************)
(* The configuration file and the windows that share it: one save worker   *)
(* behind a bounded queue (src/app/config_persistence.rs), and per window  *)
(* a copy of the configuration, the generations of its preferences         *)
(* (ConfigPersistenceState in src/app/runtime_state.rs), full commits      *)
(* (src/app/mod.rs) and the last saves at close (src/app/startup.rs).      *)
(*                                                                         *)
(* One thread, the user interface, runs the handlers of every window; it   *)
(* stands still while a blocking save waits for the worker.                *)
(***************************************************************************)
EXTENDS Naturals, Sequences, FiniteSets

CONSTANTS
  Windows,      \* main windows over the life of the process
  First,        \* the one that is open from the start
  Capacity,     \* SAVE_QUEUE_CAPACITY
  LargeWindows, \* FALSE: too small, or reset, for save_layout_state_checked
  MaxEdits,     \* bound: changed preferences and layouts, counted commands
  MaxEntries,   \* bound: catalog entries added
  MaxFailures   \* bound: writes that fail

ASSUME RepositoryAssumption ==
  /\ First \in Windows
  /\ Capacity \in Nat \ {0}
  /\ LargeWindows \in BOOLEAN
  /\ {MaxEdits, MaxEntries, MaxFailures} \subseteq Nat

VARIABLES
  disk,       \* the configuration file
  lastSaved,  \* the worker's last_saved
  lastError,  \* the worker's last_error.is_some()
  working,    \* the worker has not exited
  queue,      \* requests on their way to the worker
  open,       \* windows with a lease
  opened,     \* windows that are or were open
  mem,        \* per window, its configuration
  persist,    \* per window, ConfigPersistenceState without the commit
  commit,     \* per window, the full commit in flight
  call,       \* what the user interface waits for
  report,     \* per window, the stages in its CloseErrorReport
  edits, entries, failures,  \* counters for the bounds
  written,    \* auxiliary: preferences and layouts that have been on disk
  acked,      \* auxiliary: entries reported to the user as saved
  crossed,    \* auxiliary: a blocking save was made during a full commit
  unseen      \* auxiliary: a write failed and no close path has reported it

windowVars == <<open, opened, mem, persist, commit>>
workerVars == <<disk, lastSaved, lastError, working, failures, written>>
vars == <<workerVars, windowVars, queue, call, report, edits, entries, acked, crossed, unseen>>

\* A preference, or a layout, is the number of the edit that chose it; usage
\* counts the use of a quick command by each window.
Config == [prefs : Nat, layout : Nat, catalog : SUBSET Nat, usage : [Windows -> Nat]]

Blank == [prefs |-> 0, layout |-> 0, catalog |-> {}, usage |-> [w \in Windows |-> 0]]

Answers == {"waiting", "ok", "failed"}

\* answer "idle": there is none.
Save == [answer : Answers \cup {"idle"}, generation : Nat, layout : BOOLEAN]
Commit == [answer : Answers \cup {"idle"}, staged : Config, generation : Nat, layout : BOOLEAN]
NoSave == [answer |-> "idle", generation |-> 0, layout |-> FALSE]
NoCommit == [answer |-> "idle", staged |-> Blank, generation |-> 0, layout |-> FALSE]

Persistence ==
  [generation : Nat, persisted : Nat, layoutGeneration : Nat, persistedLayout : Nat,
   inFlight : Save]
FreshPersistence ==
  [generation |-> 0, persisted |-> 0, layoutGeneration |-> 0, persistedLayout |-> 0,
   inFlight |-> NoSave]

\* layout: a preference save that includes the body panels.  to: whose reply
\* channel it carries; "nobody" once the receiver is gone.
Request ==
  [kind : {"preferences", "full", "flush", "shutdown"}, window : Windows,
   to : {"save", "commit", "call", "nobody"}, config : Config, layout : BOOLEAN]

\* answer "due": the step of a close that comes next.
Call ==
  [what : {"none", "edit", "preferences", "layout", "release"}, window : Windows,
   answer : Answers \cup {"due"}, config : Config]
NoCall == [what |-> "none", window |-> First, answer |-> "ok", config |-> Blank]

Free == call = NoCall
-----------------------------------------------------------------------------
(* ConfigStore.                                                            *)

\* CommandUsage::merge.
MergedUsage(a, b) == [w \in Windows |-> IF a[w] >= b[w] THEN a[w] ELSE b[w]]

\* merge_interactive_preferences_from, and the body panels if included.
MergedPreferences(config, source, layout) ==
  [config EXCEPT !.prefs = source.prefs,
                 !.usage = MergedUsage(source.usage, config.usage),
                 !.layout = IF layout THEN source.layout ELSE config.layout]

\* A mutant of MergedFull: the snapshot is stored as it was staged.
MergedFullAsStaged(source, current) == source

\* merge_quick_command_usage_from, at the beginning of a full save.
MergedFull(source, current) ==
  [source EXCEPT !.usage = MergedUsage(source.usage, current.usage)]
-----------------------------------------------------------------------------
(* ConfigPersistenceState.                                                 *)

LayoutRequired(p) == p.persistedLayout < p.layoutGeneration
IsDirty(p) == p.persisted < p.generation \/ LayoutRequired(p)

MarkDirty(p) == [p EXCEPT !.generation = @ + 1]
MarkLayoutDirty(p) ==
  [p EXCEPT !.generation = @ + 1, !.layoutGeneration = p.generation + 1]

Later(a, b) == IF a >= b THEN a ELSE b

\* A mutant of MarkSaved: what is saved is taken to be the newest.
MarkSavedNewest(p, generation, layout) ==
  [p EXCEPT !.persisted = p.generation,
            !.persistedLayout = IF layout THEN p.layoutGeneration ELSE @]

MarkSaved(p, generation, layout) ==
  [p EXCEPT !.persisted = Later(@, generation),
            !.persistedLayout = IF layout THEN Later(@, generation) ELSE @]
-----------------------------------------------------------------------------
(* The save worker.                                                        *)

\* save_full_with_revision refuses to overwrite a change it has not made.
Refused(source) ==
  lastSaved.known /\ disk # lastSaved.config /\ disk # source

\* What a request writes.
Written(r) ==
  IF r.kind = "preferences" THEN MergedPreferences(disk, r.config, r.layout)
  ELSE MergedFull(r.config, disk)

\* The reply reaches a receiver that still waits.
Reply(r, answer) ==
  /\ persist' = IF r.to = "save" THEN [persist EXCEPT ![r.window].inFlight.answer = answer]
                ELSE persist
  /\ commit' = IF r.to = "commit" THEN [commit EXCEPT ![r.window].answer = answer] ELSE commit
  /\ call' = IF r.to = "call" THEN [call EXCEPT !.answer = answer] ELSE call

\* A mutant of ErrorAfter: a later success forgets the failure.
ErrorAfterSuccess(ok) == ~ok

\* last_error after a save.
ErrorAfter(ok) == lastError \/ ~ok

\* Preferences and Full in worker_loop.
WorkerSaves ==
  /\ working /\ queue # <<>>
  /\ Head(queue).kind \in {"preferences", "full"}
  /\ \E stored \in BOOLEAN :
       LET r  == Head(queue)
           ok == stored /\ ~(r.kind = "full" /\ Refused(Written(r)))
       IN  /\ stored \/ failures < MaxFailures
           /\ failures' = IF stored THEN failures ELSE failures + 1
           /\ disk' = IF ok THEN Written(r) ELSE disk
           /\ lastSaved' = IF ok THEN [known |-> TRUE, config |-> Written(r)] ELSE lastSaved
           /\ written' = [prefs |-> written.prefs \cup {disk'.prefs},
                          layout |-> written.layout \cup {disk'.layout}]
           /\ lastError' = ErrorAfter(ok)
           /\ unseen' = (unseen \/ ~ok)
           /\ Reply(r, IF ok THEN "ok" ELSE "failed")
  /\ queue' = Tail(queue)
  /\ UNCHANGED <<working, open, opened, mem, report, edits, entries, acked, crossed>>

\* Flush and Shutdown in worker_loop.
WorkerReports ==
  /\ working /\ queue # <<>>
  /\ Head(queue).kind \in {"flush", "shutdown"}
  /\ Reply(Head(queue), IF lastError THEN "failed" ELSE "ok")
  /\ lastError' = FALSE
  /\ working' = (Head(queue).kind = "flush")
  /\ queue' = Tail(queue)
  /\ UNCHANGED <<disk, lastSaved, failures, written, open, opened, mem, report, edits,
                 entries, acked, crossed, unseen>>
-----------------------------------------------------------------------------
(* The handlers of a window.                                               *)

\* A mutant of HasRoom: one request too many.
RoomForOneMore == Len(queue) <= Capacity

\* try_send in enqueue_async.
HasRoom == Len(queue) < Capacity

Asked(kind, w, to, config, layout) ==
  [kind |-> kind, window |-> w, to |-> to, config |-> config, layout |-> layout]

UiKeeps == UNCHANGED <<workerVars, report, unseen>>

\* open_window_with_initializer and TinyShell::new.
OpenWindow(w) ==
  /\ Free /\ open # {} /\ w \notin opened
  /\ open' = open \cup {w} /\ opened' = opened \cup {w}
  /\ mem' = [mem EXCEPT ![w] = disk]
  /\ UNCHANGED <<persist, commit, queue, call, edits, entries, acked, crossed>> /\ UiKeeps

\* mark_config_preferences_dirty after a preference changed.
EditPreference(w) ==
  /\ Free /\ w \in open /\ edits < MaxEdits
  /\ edits' = edits + 1
  /\ mem' = [mem EXCEPT ![w].prefs = edits + 1]
  /\ persist' = [persist EXCEPT ![w] = MarkDirty(persist[w])]
  /\ UNCHANGED <<open, opened, commit, queue, call, entries, acked, crossed>> /\ UiKeeps

\* mark_workspace_layout_preferences_dirty.
EditLayout(w) ==
  /\ Free /\ w \in open /\ edits < MaxEdits
  /\ edits' = edits + 1
  /\ mem' = [mem EXCEPT ![w].layout = edits + 1]
  /\ persist' = [persist EXCEPT ![w] = MarkLayoutDirty(persist[w])]
  /\ UNCHANGED <<open, opened, commit, queue, call, entries, acked, crossed>> /\ UiKeeps

\* submit_terminal_completion: each window counts under its own writer.
RecordUsage(w) ==
  /\ Free /\ w \in open /\ edits < MaxEdits
  /\ edits' = edits + 1
  /\ mem' = [mem EXCEPT ![w].usage[w] = @ + 1]
  /\ persist' = [persist EXCEPT ![w] = MarkDirty(persist[w])]
  /\ UNCHANGED <<open, opened, commit, queue, call, entries, acked, crossed>> /\ UiKeeps

\* A mutant of Polled: a failed save stays in flight.
PolledOnce(p) == IF p.inFlight.answer = "ok"
  THEN [MarkSaved(p, p.inFlight.generation, p.inFlight.layout) EXCEPT !.inFlight = NoSave] ELSE p

\* poll_result and its outcome.
Polled(p) ==
  CASE p.inFlight.answer = "ok" ->
         [MarkSaved(p, p.inFlight.generation, p.inFlight.layout) EXCEPT !.inFlight = NoSave]
    [] p.inFlight.answer = "failed" -> [p EXCEPT !.inFlight = NoSave]
    [] OTHER -> p

\* drive_config_preferences_save; ready: the debounce or the delay of a retry
\* is over, which it cannot be when a save has just failed.
Drive(w, ready) ==
  /\ Free /\ w \in open
  /\ LET p == Polled(persist[w])
         sends == ready /\ persist[w].inFlight.answer # "failed" /\ IsDirty(p)
                  /\ p.inFlight = NoSave /\ HasRoom
         layout == LayoutRequired(p)
     IN  /\ persist' = [persist EXCEPT ![w] =
              IF sends THEN [p EXCEPT !.inFlight = [answer |-> "waiting",
                                                    generation |-> p.generation,
                                                    layout |-> layout]]
              ELSE p]
         /\ queue' = IF sends THEN Append(queue, Asked("preferences", w, "save", mem[w], layout))
                     ELSE queue
  /\ UNCHANGED <<open, opened, mem, commit, call, edits, entries, acked, crossed>> /\ UiKeeps

\* The user adds an entry to the catalog.
Staged(w) == [mem[w] EXCEPT !.catalog = @ \cup {entries + 1}]

\* commit_staged_config_async.
BeginCommit(w) ==
  /\ Free /\ w \in open /\ entries < MaxEntries
  /\ commit[w] = NoCommit /\ HasRoom
  /\ entries' = entries + 1
  /\ commit' = [commit EXCEPT ![w] =
       [answer |-> "waiting", staged |-> Staged(w), generation |-> persist[w].generation,
        layout |-> LayoutRequired(persist[w])]]
  /\ queue' = Append(queue, Asked("full", w, "commit", Staged(w), FALSE))
  /\ UNCHANGED <<open, opened, mem, persist, call, edits, acked, crossed>> /\ UiKeeps

\* A mutant of Committed: the window keeps the configuration it had.
CommittedNothing(c, now, p) == now

\* The configuration of a window after its commit: what was staged, with the
\* preferences and the layout that have changed meanwhile.
Committed(c, now, p) == MergedPreferences(c.staged, now, p.layoutGeneration > c.generation)

\* The completion of a commit.
FinishCommit(w) ==
  /\ Free /\ w \in open
  /\ commit[w].answer \in {"ok", "failed"}
  /\ LET c == commit[w]
     IN  IF c.answer = "failed" THEN UNCHANGED <<mem, persist, acked>>
         ELSE /\ mem' = [mem EXCEPT ![w] = Committed(c, mem[w], persist[w])]
              /\ persist' = [persist EXCEPT ![w] = MarkSaved(persist[w], c.generation, c.layout)]
              /\ acked' = acked \cup (c.staged.catalog \ mem[w].catalog)
  /\ commit' = [commit EXCEPT ![w] = NoCommit]
  /\ UNCHANGED <<open, opened, queue, call, edits, entries, crossed>> /\ UiKeeps

\* A mutant of Unheard: the answer comes all the same.
UnheardNot(w, to) == queue

\* The requests of w that carry the reply channel "to", without a receiver.
Unheard(w, to) ==
  [i \in DOMAIN queue |->
     IF queue[i].window = w /\ queue[i].to = to THEN [queue[i] EXCEPT !.to = "nobody"]
     ELSE queue[i]]

\* SaveReceipt::wait gives up after OPERATION_TIMEOUT: the commit counts as
\* failed although its request is still queued.
CommitTimesOut(w) ==
  /\ Free /\ w \in open
  /\ commit[w].answer = "waiting"
  /\ commit' = [commit EXCEPT ![w] = NoCommit]
  /\ queue' = Unheard(w, "commit")
  /\ UNCHANGED <<open, opened, mem, persist, call, edits, entries, acked, crossed>> /\ UiKeeps
-----------------------------------------------------------------------------
(* Blocking calls.  A send to a full queue waits, and with it everything   *)
(* else on this thread, so the request may as well be in the queue.        *)

Calls(what, w, kind, config, layout) ==
  /\ call' = [what |-> what, window |-> w, answer |-> "waiting", config |-> config]
  /\ queue' = Append(queue, Asked(kind, w, "call", config, layout))

Due(what, w) == [what |-> what, window |-> w, answer |-> "due", config |-> Blank]

\* commit_catalog_change, and the other saves that block: also while a full
\* commit is in flight.
BeginEdit(w) ==
  /\ Free /\ w \in open /\ entries < MaxEntries
  /\ entries' = entries + 1
  /\ Calls("edit", w, "full", Staged(w), FALSE)
  /\ crossed' = (crossed \/ commit[w] # NoCommit)
  /\ UNCHANGED <<windowVars, edits, acked>> /\ UiKeeps

\* finalize_main_window_close.
BeginClose(w) ==
  /\ Free /\ w \in open
  /\ call' = Due("preferences", w)
  /\ UNCHANGED <<windowVars, queue, edits, entries, acked, crossed>> /\ UiKeeps

\* A mutant of MustPersist: a save in flight is trusted.
MustPersistIdle(p) == IsDirty(p) /\ p.inFlight = NoSave

MustPersist(p) == IsDirty(p)

\* persist_config_preferences_checked.
ClosePreferences(w) ==
  /\ call = Due("preferences", w)
  /\ IF MustPersist(persist[w])
       THEN Calls("preferences", w, "preferences", mem[w], LayoutRequired(persist[w]))
       ELSE call' = Due("layout", w) /\ UNCHANGED queue
  /\ UNCHANGED <<windowVars, edits, entries, acked, crossed>> /\ UiKeeps

\* save_layout_state_checked: the file is read here, not by the worker.
CloseLayout(w) ==
  /\ call = Due("layout", w)
  /\ IF LargeWindows THEN Calls("layout", w, "full", [disk EXCEPT !.layout = mem[w].layout], FALSE)
     ELSE call' = Due("release", w) /\ UNCHANGED queue
  /\ UNCHANGED <<windowVars, edits, entries, acked, crossed>> /\ UiKeeps

\* close_window: the last one shuts the worker down.
CloseRelease(w) ==
  /\ call = Due("release", w)
  /\ open' = open \ {w}
  /\ Calls("release", w, IF open = {w} THEN "shutdown" ELSE "flush", Blank, FALSE)
  /\ UNCHANGED <<opened, mem, persist, commit, edits, entries, acked, crossed>> /\ UiKeeps

\* How the user interface goes on after a call.
AfterCall(what, w) ==
  CASE what = "preferences" -> Due("layout", w)
    [] what = "layout"      -> Due("release", w)
    [] what \in {"edit", "release"} -> NoCall

Reported(what, w) ==
  report' = IF what \in {"preferences", "layout", "release"}
              THEN [report EXCEPT ![w] = @ \cup {what}] ELSE report

CallReturns ==
  /\ call.what # "none" /\ call.answer = "ok"
  /\ LET w == call.window
     IN  /\ mem' = IF call.what = "edit" THEN [mem EXCEPT ![w] = call.config] ELSE mem
         /\ acked' = IF call.what = "edit"
                       THEN acked \cup (call.config.catalog \ mem[w].catalog) ELSE acked
         /\ persist' = IF call.what = "preferences"
              THEN [persist EXCEPT ![w] =
                     MarkSaved(persist[w], persist[w].generation, LayoutRequired(persist[w]))]
              ELSE persist
         /\ call' = AfterCall(call.what, w)
  /\ UNCHANGED <<open, opened, commit, queue, edits, entries, crossed>> /\ UiKeeps

\* The call fails, or is given up after OPERATION_TIMEOUT; its request stays
\* in the queue.
CallFails ==
  /\ call.what # "none" /\ call.answer \in {"failed", "waiting"}
  /\ call.answer = "waiting" => Len(queue) <= Capacity
  /\ queue' = Unheard(call.window, "call")
  /\ Reported(call.what, call.window)
  /\ unseen' = (unseen /\ call.what # "release")
  /\ call' = AfterCall(call.what, call.window)
  /\ UNCHANGED <<workerVars, windowVars, edits, entries, acked, crossed>>
-----------------------------------------------------------------------------
\* Another process of the program, or the user, changes the file.
OutsideWrite ==
  /\ entries < MaxEntries
  /\ entries' = entries + 1
  /\ disk' = [disk EXCEPT !.catalog = @ \cup {entries + 1}]
  /\ UNCHANGED <<lastSaved, lastError, working, failures, written, windowVars, queue, call,
                 report, edits, acked, crossed, unseen>>

Init ==
  /\ disk = Blank /\ lastSaved = [known |-> FALSE, config |-> Blank] /\ lastError = FALSE
  /\ working = TRUE /\ queue = <<>>
  /\ open = {First} /\ opened = {First}
  /\ mem = [w \in Windows |-> Blank]
  /\ persist = [w \in Windows |-> FreshPersistence]
  /\ commit = [w \in Windows |-> NoCommit]
  /\ call = NoCall /\ report = [w \in Windows |-> {}]
  /\ edits = 0 /\ entries = 0 /\ failures = 0
  /\ written = [prefs |-> {0}, layout |-> {0}]
  /\ acked = {} /\ crossed = FALSE /\ unseen = FALSE

Handler(w) ==
  \/ OpenWindow(w) \/ EditPreference(w) \/ EditLayout(w) \/ RecordUsage(w)
  \/ \E ready \in BOOLEAN : Drive(w, ready)
  \/ BeginCommit(w) \/ FinishCommit(w) \/ CommitTimesOut(w)
  \/ BeginEdit(w) \/ BeginClose(w) \/ ClosePreferences(w) \/ CloseLayout(w) \/ CloseRelease(w)

Next ==
  \/ WorkerSaves \/ WorkerReports
  \/ \E w \in Windows : Handler(w)
  \/ CallReturns \/ CallFails
  \/ OutsideWrite

Spec == Init /\ [][Next]_vars

\* The event loop of a window drives its saves whenever its timer wakes it, the
\* worker takes its requests, and a blocking call goes on: the channel answers
\* it, or its time is over.
Fairness ==
  /\ WF_vars(WorkerSaves) /\ WF_vars(WorkerReports)
  /\ WF_vars(CallReturns \/ CallFails)
  /\ \A w \in Windows :
       /\ WF_vars(Drive(w, TRUE))
       /\ WF_vars(ClosePreferences(w) \/ CloseLayout(w) \/ CloseRelease(w))

FairSpec == Spec /\ Fairness
-----------------------------------------------------------------------------
(* Properties.                                                             *)

\* w waits for the answer of a request with the reply channel "to".
Awaited(to, w) ==
  CASE to = "save"   -> persist[w].inFlight.answer = "waiting"
    [] to = "commit" -> commit[w].answer = "waiting"
    [] to = "call"   -> call.window = w /\ call.answer = "waiting"

\* The state is well typed, and the queue holds its capacity and at most the
\* request of one blocking call more (enqueue_async, enqueue_blocking).
TypeOK ==
  /\ disk \in Config /\ mem \in [Windows -> Config]
  /\ lastSaved \in [known : BOOLEAN, config : Config]
  /\ {lastError, working, crossed, unseen} \subseteq BOOLEAN
  /\ queue \in Seq(Request)
  /\ Len(queue) <= IF call.answer = "waiting" THEN Capacity + 1 ELSE Capacity
  /\ open \subseteq opened /\ opened \subseteq Windows
  /\ persist \in [Windows -> Persistence] /\ commit \in [Windows -> Commit]
  /\ call \in Call /\ report \in [Windows -> SUBSET {"preferences", "layout", "release"}]
  /\ {edits, entries, failures} \subseteq Nat /\ acked \subseteq Nat
  /\ written \in [prefs : SUBSET Nat, layout : SUBSET Nat]

\* Every receipt is connected: who waits for an answer has a single request
\* under way, and no answer comes to one who has given up (SaveReceipt,
\* receive_reply).
Connected ==
  \A w \in Windows, to \in {"save", "commit", "call"} :
    LET sent == {i \in DOMAIN queue : queue[i].window = w /\ queue[i].to = to}
    IN  IF Awaited(to, w) THEN Cardinality(sent) = 1 ELSE sent = {}

\* The use of a quick command that a window has counted is never lost: not in
\* the file, whatever snapshots of other windows are stored later, and not in
\* memory when a commit completes (the merges in save_full_with_revision and
\* merge_interactive_preferences_from).
UsageNeverErased == [][
  \A v \in Windows :
    /\ disk'.usage[v] >= disk.usage[v]
    /\ \A w \in opened : mem'[w].usage[v] >= mem[w].usage[v]]_vars

Stored(w) ==
  /\ mem[w].prefs \in written.prefs /\ mem[w].layout \in written.layout
  /\ \A v \in Windows : disk.usage[v] >= mem[w].usage[v]

\* A window whose generations say that nothing is to be saved has its newest
\* preferences and layout stored, also when they changed while a save or a full
\* commit of older ones was under way (mark_saved).
CleanIsStored == \A w \in opened : ~IsDirty(persist[w]) => Stored(w)

\* While there has been one window, and it has made no blocking save during a
\* full commit, each entry the user was told is saved stays in the file:
\* saves of preferences, timed-out commits and outside changes do not remove it.
SoleWindowKeepsAcked == opened = {First} /\ ~crossed => acked \subseteq disk.catalog

\* A window that closed and reported no failed stage has left nothing behind:
\* its preferences are stored and none of its requests is still under way
\* (finalize_main_window_close, and the queue as the barrier of a flush).
CleanCloseLeavesNothing ==
  \A w \in opened \ open :
    (report[w] = {} /\ ~(call.what = "release" /\ call.window = w)) =>
      /\ Stored(w)
      /\ \A i \in DOMAIN queue : queue[i].window # w

\* When the last window has closed, a write that failed while any was open has
\* been reported by the close of one of them: a later success does not hide it
\* (last_error in worker_loop).
FailureReported ==
  open = {} /\ Free /\ (\A w \in Windows : report[w] = {}) => ~unseen

\* A changed preference is stored in the end, also when a save of it failed or
\* the queue was full, or the window closes (the retries of
\* drive_config_preferences_save).
DirtyEventuallySaved ==
  \A w \in Windows : w \in open /\ IsDirty(persist[w]) ~> w \notin open \/ ~IsDirty(persist[w])

\* What the comment in save_full_with_revision states: a full save of a stale
\* window does not overwrite newer preferences of another window.
FullNeverRevertsPreferences == [][
  (WorkerSaves /\ Head(queue).kind = "full") => disk'.prefs >= disk.prefs]_vars
=============================================================================
