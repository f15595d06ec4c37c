---------------------------- MODULE SftpTransfer ----------------------------
(***************************************************************************)
(* One download of an SFTP session (sftp/mod.rs, sftp/transfer.rs,         *)
(* sftp/command.rs): the window that shows it, the session's loop, which   *)
(* takes controls before commands, and the tasks that copy, one step from  *)
(* one await to the next.  The same transfer may be started again after a  *)
(* restart, or twice by two clicks, and then has two tasks on one partial  *)
(* file.  An upload differs only in which side is the source.              *)
(***************************************************************************)
EXTENDS Naturals, Sequences, SequencesExt, FiniteSets

CONSTANTS
  Size,         \* bound: chunks in the source, one at least
  MaxVersions,  \* bound: versions of the source
  MaxRuns,      \* bound: tasks
  MaxRequests,  \* bound: what the user asks for
  Slots,        \* permits of channel_slots
  MaxControls,  \* CONTROL_QUEUE_CAPACITY of sftp/command.rs
  MaxNews       \* bound: events on their way to the window

ASSUME TransferSizes ==
  {Size, MaxVersions, MaxRuns, Slots, MaxControls, MaxNews} \subseteq Nat \ {0}

VARIABLES
  session,    \* "open", "closing" or "closed"
  controls,   \* SftpControlQueue
  starts,     \* download and resume commands not yet taken
  entry,      \* the run active_transfers holds for the transfer, or 0
  joined,     \* the run active_tasks holds, or 0
  others,     \* permits that other transfers of the session hold
  runs,       \* the tasks
  flags,      \* TransferStateFlag of each run: 0 runs, 1 paused, 2 cancelled
  contents,   \* the chunks in the file each run created, by their version
  partial,    \* the file at the partial path, by the run that created it, or 0
  final,      \* the same of the finished file
  versions,   \* what the metadata of each version of the source says
  expected,   \* the fingerprint the transfer started with
  news,       \* states on their way to the window
  shown,      \* the state the window shows, "none" if not listed
  saved,      \* the state in the configuration
  requests,   \* what the user asked for so far, up to MaxRequests
  touched,    \* history: the source changed while a task was copying it
  swapped,    \* history: a partial file became final that was not the one checked
  length,     \* history: the length the finished file was found to have
  late        \* history: the chunks each run wrote after it was cancelled

trQueues  == <<controls, starts>>
trTables  == <<session, entry, joined>>
trFiles   == <<contents, partial, final>>
trSource  == <<versions, expected>>
trUser    == <<shown, saved, requests>>
trHistory == <<touched, swapped, length, late>>
trVars    == <<trTables, trQueues, others, runs, flags, trFiles, trSource, news,
               trUser, trHistory>>

Runs == 1..MaxRuns
NoRun == [stage |-> "none", at |-> 0, total |-> 0, got |-> 0, file |-> 0, told |-> FALSE,
          result |-> "none"]
Settled == {"Paused", "Completed", "Failed", "Interrupted"}

(* SourceFingerprint: a size and a time in seconds.  On a server that      *)
(* tells no time, all versions have the same.  What is not known has no    *)
(* size, whatever else is known (is_resumable).                            *)
Unknown == [size |-> 0, time |-> 0]
source  == Len(versions)
Now     == versions[source]

(* The transfer begins, or an earlier life of the program left it: then it *)
(* is offered for recovery, with a beginning of the file.                  *)
Begins ==
  /\ starts = 1 /\ shown = "none" /\ saved = "none"
  /\ runs = [r \in Runs |-> NoRun]
  /\ contents = [r \in Runs |-> <<>>] /\ partial = 0 /\ expected = Unknown
WasLeft ==
  /\ starts = 0 /\ shown = "Recoverable" /\ saved = "Running"
  /\ runs = [r \in Runs |-> IF r = 1 THEN [NoRun EXCEPT !.stage = "ended"] ELSE NoRun]
  /\ \E n \in 0..Size : contents = [r \in Runs |-> IF r = 1 THEN [k \in 1..n |-> 1] ELSE <<>>]
  /\ partial = 1 /\ expected = Now
TrInit ==
  /\ versions = <<[size |-> Size, time |-> 1]>>
  /\ Begins \/ WasLeft
  /\ session = "open" /\ controls = <<>> /\ entry = 0 /\ joined = 0 /\ others = 0
  /\ flags = [r \in Runs |-> 0] /\ final = 0 /\ news = <<>> /\ requests = 0
  /\ touched = FALSE /\ swapped = FALSE /\ length = 0 /\ late = [r \in Runs |-> 0]

(* Progress may find the event queue full; what settles a transfer waits   *)
(* for room (is_reliable_lifecycle).                                       *)
\* A mutant of Told: nothing waits for room.
ToldIfRoom(state) == IF Len(news) >= MaxNews THEN news ELSE Append(news, state)
Told(state) ==
  IF state = "Running" /\ Len(news) >= MaxNews THEN news ELSE Append(news, state)

-----------------------------------------------------------------------------
(* SftpControlQueue::send: a pause or resume replaces the one before; a    *)
(* full queue gives up a pause or resume, or else the new control.         *)
Gentle(c) == c \in {"pause", "resume"}
Sent(queue, c) ==
  LET twin  == SelectLastInSeq(queue, Gentle)
      q     == IF Gentle(c) /\ twin # 0 THEN RemoveAt(queue, twin) ELSE queue
      spare == SelectInSeq(q, Gentle)
  IN  IF Len(q) < MaxControls THEN Append(q, c)
      ELSE IF spare # 0 THEN Append(RemoveAt(q, spare), c)
      ELSE q

(* The buttons of the transfer list, and closing the session.              *)
Ask(c) ==
  /\ requests < MaxRequests
  /\ CASE c = "pause"  -> shown = "Running"
       [] c = "resume" -> shown = "Paused"
       [] c = "cancel" -> shown \in {"Running", "Paused"}
       [] OTHER        -> session = "open"
  /\ controls' = Sent(controls, c)
  /\ requests' = requests + 1
  /\ UNCHANGED <<trTables, starts, others, runs, flags, trFiles, trSource, news,
                 shown, saved, trHistory>>

(* resume_download, offered as long as the list says so.                   *)
AskRecover ==
  /\ requests < MaxRequests
  /\ shown = "Recoverable"
  /\ starts' = starts + 1
  /\ requests' = requests + 1
  /\ UNCHANGED <<trTables, controls, others, runs, flags, trFiles, trSource, news,
                 shown, saved, trHistory>>

(* remove_transfer takes the partial file along.                           *)
RemoveTransfer ==
  /\ requests < MaxRequests
  /\ shown \in {"Recoverable", "Zombie", "Interrupted", "Failed", "Completed"}
  /\ shown' = "none" /\ saved' = "none" /\ partial' = 0
  /\ requests' = requests + 1
  /\ UNCHANGED <<trTables, trQueues, others, runs, flags, contents, final,
                 trSource, news, trHistory>>

(* handle_transfer_started, handle_transfer_progress and what is persisted *)
(* of them: at once when the transfer settles, else every two seconds.     *)
Show ==
  /\ news # <<>>
  /\ LET state == Head(news)
         now   == IF state = "Started" THEN "Running"
                  ELSE IF shown = "none" THEN "none" ELSE state
     IN  /\ shown' = now
         /\ saved' \in (IF now \in Settled THEN {now} ELSE {saved, now})
  /\ news' = Tail(news)
  /\ UNCHANGED <<trTables, trQueues, others, runs, flags, trFiles, trSource,
                 requests, trHistory>>

(* Other transfers of the session come and go.  Permits are handed out in  *)
(* the order they are waited for; a paused transfer keeps its permit.      *)
HeldPermits == Cardinality({r \in Runs : runs[r].stage \notin {"none", "waiting", "ended"}})
OtherStarts ==
  /\ requests < MaxRequests /\ requests' = requests + 1
  /\ session = "open"
  /\ HeldPermits + others < Slots /\ \A r \in Runs : runs[r].stage # "waiting"
  /\ others' = others + 1
  /\ UNCHANGED <<trTables, trQueues, runs, flags, trFiles, trSource, news, shown,
                 saved, trHistory>>
OtherEnds ==
  /\ others > 0 /\ others' = others - 1
  /\ UNCHANGED <<trTables, trQueues, runs, flags, trFiles, trSource, news, trUser,
                 trHistory>>

-----------------------------------------------------------------------------
(* The session's loop (run_sftp).                                          *)

Control(c) ==
  /\ session = "open"
  /\ controls # <<>> /\ Head(controls) = c
  /\ controls' = Tail(controls)

HandleFlag ==
  \/ /\ Control("pause")
     /\ flags' = IF entry # 0 THEN [flags EXCEPT ![entry] = 1] ELSE flags
     /\ UNCHANGED <<entry, joined, session, news>>
  \/ /\ Control("resume")
     /\ flags' = IF entry # 0 THEN [flags EXCEPT ![entry] = 0] ELSE flags
     /\ UNCHANGED <<entry, joined, session, news>>

\* A mutant of HandleCancel: the flag stays within reach.
CancelAndKeep ==
  /\ Control("cancel")
  /\ flags' = IF entry # 0 THEN [flags EXCEPT ![entry] = 2] ELSE flags
  /\ UNCHANGED <<entry, joined, session, news>>

(* handle_cancel_transfer forgets the flag it sets: nothing resets it.     *)
HandleCancel ==
  /\ Control("cancel")
  /\ flags' = IF entry # 0 THEN [flags EXCEPT ![entry] = 2] ELSE flags
  /\ entry' = 0
  /\ UNCHANGED <<joined, session, news>>

(* handle_transfer_finished goes by the transfer, whichever run ended.     *)
HandleFinished ==
  /\ Control("finished")
  /\ entry' = 0 /\ joined' = 0
  /\ UNCHANGED <<flags, session, news>>

(* handle_close reports before it aborts.                                  *)
HandleClose ==
  /\ Control("close")
  /\ session' = "closing"
  /\ entry' = 0
  /\ news' = IF entry # 0 THEN Told("Interrupted") ELSE news
  /\ UNCHANGED <<flags, joined>>

HandleControl ==
  /\ HandleFlag \/ HandleCancel \/ HandleFinished \/ HandleClose
  /\ UNCHANGED <<starts, others, runs, trFiles, trSource, trUser, trHistory>>

AbortTasks ==
  /\ session = "closing"
  /\ session' = "closed"
  /\ runs' = IF joined # 0 THEN [runs EXCEPT ![joined] = [NoRun EXCEPT !.stage = "ended"]]
             ELSE runs
  /\ joined' = 0 /\ others' = 0
  /\ UNCHANGED <<trQueues, entry, flags, trFiles, trSource, news, trUser, trHistory>>

(* start_download: a new flag and a new task in the place of those before. *)
(* The fingerprint is the one a resumption hands on, or else what the      *)
(* metadata says now, if they can be had.                                  *)
StartDownload ==
  /\ session = "open"
  /\ controls = <<>> /\ starts > 0
  /\ \E r \in Runs :
       /\ runs[r].stage = "none"
       /\ \A s \in 1..(r - 1) : runs[s].stage # "none"
       /\ runs' = [runs EXCEPT ![r].stage = "waiting"]
       /\ entry' = r /\ joined' = r
  /\ starts' = starts - 1
  /\ expected' \in IF expected = Unknown THEN {Unknown, Now} ELSE {expected}
  /\ news' = Append(news, "Started")
  /\ UNCHANGED <<session, controls, others, flags, trFiles, versions, trUser, trHistory>>

-----------------------------------------------------------------------------
(* A task (start_download, download_path_impl, download_file_impl).        *)

Step(r, from) == runs[r].stage = from
Becomes(r, stage, result) ==
  runs' = [runs EXCEPT ![r].stage = stage, ![r].result = result]
trStays == <<trTables, trQueues, others, flags, trSource, trUser, touched>>
trRest  == <<trStays, swapped, length, late>>

(* A permit of channel_slots; with none to be had the task waits, and the  *)
(* window shows it as running.                                             *)
TakePermit(r) ==
  /\ Step(r, "waiting") /\ \A s \in 1..(r - 1) : ~Step(s, "waiting")
  /\ HeldPermits + others < Slots
  /\ Becomes(r, "opening", "none")
  /\ UNCHANGED <<trRest, trFiles, news>>

(* The channel is open: the flag is looked at, once before the checks.     *)
Open(r) ==
  /\ Step(r, "opening")
  /\ IF flags[r] = 2 THEN Becomes(r, "failing", "Interrupted")
     ELSE Becomes(r, "checking", "none")
  /\ UNCHANGED <<trRest, trFiles, news>>

\* A mutant of Refused: the fingerprint is not looked at.
TooLong(had) == had > Now.size
Refused(had) == (expected # Unknown /\ Now # expected) \/ had > Now.size

(* The checks before the first byte: the source still has the fingerprint  *)
(* it started with, as far as one is known, and the partial file is no     *)
(* longer than it.  The source is opened behind them, which is taken for a *)
(* part of copying.  `file` is what the task writes, and then what it      *)
(* found to be whole.                                                      *)
Found(r, total) ==
  runs' = [runs EXCEPT ![r].stage = "verified", ![r].file = partial, ![r].total = total]
Check(r) ==
  /\ Step(r, "checking")
  /\ LET had == IF partial = 0 THEN 0 ELSE Len(contents[partial])
     IN  \/ /\ Refused(had)
            /\ Becomes(r, "failing", "Failed") /\ UNCHANGED <<news, trFiles>>
         \/ /\ ~Refused(had) /\ had = Now.size
            /\ Found(r, had) /\ UNCHANGED <<news, trFiles>>
         \/ /\ ~Refused(had) /\ had < Now.size
            /\ runs' = [runs EXCEPT ![r].stage = "copying", ![r].at = had,
                          ![r].total = Now.size,
                          ![r].file = IF partial = 0 THEN r ELSE partial]
            /\ partial' = IF partial = 0 THEN r ELSE partial
            /\ news' = Told("Running")
            /\ UNCHANGED <<contents, final>>
  /\ UNCHANGED trRest

(* yield_if_paused, the only place where a copying task sees its flag.     *)
Pause(r) ==
  /\ Step(r, "copying") /\ flags[r] = 1 /\ ~runs[r].told
  /\ runs' = [runs EXCEPT ![r].told = TRUE]
  /\ news' = Told("Paused")
  /\ UNCHANGED <<trRest, trFiles>>

Cancelled(r) ==
  /\ Step(r, "copying") /\ flags[r] = 2
  /\ Becomes(r, "failing", "Interrupted")
  /\ UNCHANGED <<trRest, trFiles, news>>

Proceed(r) ==
  /\ Step(r, "copying") /\ flags[r] = 0
  /\ runs' = [runs EXCEPT ![r].stage = "reading", ![r].told = FALSE]
  /\ news' = IF runs[r].told THEN Told("Running") ELSE news
  /\ UNCHANGED <<trRest, trFiles>>

(* The read and the write behind it are awaited with no look at the flag.  *)
Read(r) ==
  /\ Step(r, "reading")
  /\ IF runs[r].at < Now.size
     THEN runs' = [runs EXCEPT ![r].stage = "writing", ![r].got = source]
     ELSE Becomes(r, "flushed", "none")
  /\ UNCHANGED <<trRest, trFiles, news>>

Written(file, at, version) ==
  IF at < Len(file) THEN [file EXCEPT ![at + 1] = version] ELSE Append(file, version)

Write(r) ==
  /\ Step(r, "writing")
  /\ contents' = [contents EXCEPT ![runs[r].file] = Written(@, runs[r].at, runs[r].got)]
  /\ runs' = [runs EXCEPT ![r].stage = "copying", ![r].at = @ + 1, ![r].got = 0]
  /\ news' \in {news, Told("Running")}
  /\ late' = IF flags[r] = 2 THEN [late EXCEPT ![r] = @ + 1] ELSE late
  /\ UNCHANGED <<trStays, swapped, length, partial, final>>

(* The sizes agree, in the task and at the partial path.                   *)
VerifyCopy(r) ==
  /\ Step(r, "flushed")
  /\ IF /\ runs[r].at = runs[r].total
        /\ partial # 0 /\ Len(contents[partial]) = runs[r].total
     THEN Found(r, runs[r].total)
     ELSE Becomes(r, "failing", "Failed")
  /\ UNCHANGED <<trRest, trFiles, news>>

Finalize(r) ==
  /\ Step(r, "verified")
  /\ IF partial # 0
     THEN /\ final' = partial /\ partial' = 0
          /\ Becomes(r, "renamed", "none")
          /\ length' = runs[r].total
          /\ swapped' = (swapped \/ partial # runs[r].file)
     ELSE /\ Becomes(r, "failing", "Failed")
          /\ UNCHANGED <<partial, final, swapped, length>>
  /\ UNCHANGED <<trStays, contents, news, late>>

(* The connection or a file fails.                                         *)
Breaks(r) ==
  /\ runs[r].stage \in {"opening", "checking", "reading", "writing", "flushed", "verified"}
  /\ Becomes(r, "failing", "Failed")
  /\ UNCHANGED <<trRest, trFiles, news>>

(* The last report, and TransferCleanup behind it.                         *)
Report(r) ==
  /\ runs[r].stage \in {"renamed", "failing"}
  /\ runs' = [runs EXCEPT ![r] = [NoRun EXCEPT !.stage = "ended"]]
  /\ news' = Told(IF runs[r].stage = "renamed" THEN "Completed" ELSE runs[r].result)
  /\ controls' = Sent(controls, "finished")
  /\ UNCHANGED <<trTables, starts, others, flags, trFiles, trSource, trUser, trHistory>>

Task(r) ==
  \/ TakePermit(r) \/ Open(r) \/ Check(r) \/ Pause(r) \/ Cancelled(r) \/ Proceed(r)
  \/ Read(r) \/ Write(r) \/ VerifyCopy(r) \/ Finalize(r) \/ Report(r)

-----------------------------------------------------------------------------
(* A version may say the same as the one before it: of the same size, and  *)
(* written within a second or on a server that tells no time.              *)
Copying == {"copying", "reading", "writing"}
SourceChanges ==
  /\ source < MaxVersions
  /\ requests < MaxRequests /\ requests' = requests + 1
  /\ \E size \in 1..Size, time \in {Now.time, Now.time + 1} :
       versions' = Append(versions, [size |-> size, time |-> time])
  /\ touched' = (touched \/ \E r \in Runs : runs[r].stage \in Copying)
  /\ UNCHANGED <<trTables, trQueues, others, runs, flags, trFiles, expected, news,
                 shown, saved, swapped, length, late>>

(* The program ends at any moment and starts again with a session of its   *)
(* own; what ran then is offered for recovery, if it is_resumable.         *)
Restart ==
  /\ requests < MaxRequests
  /\ requests' = requests + 1
  /\ session' = "open" /\ controls' = <<>> /\ starts' = 0
  /\ entry' = 0 /\ joined' = 0 /\ others' = 0 /\ news' = <<>>
  /\ runs' = [r \in Runs |-> IF runs[r].stage = "none" THEN runs[r]
                             ELSE [NoRun EXCEPT !.stage = "ended"]]
  /\ shown' = IF saved \in {"Running", "Paused"}
              THEN IF expected = Unknown THEN "Zombie" ELSE "Recoverable"
              ELSE saved
  /\ UNCHANGED <<flags, trFiles, trSource, saved, trHistory>>

TrNext ==
  \/ \E c \in {"pause", "resume", "cancel", "close"} : Ask(c)
  \/ AskRecover \/ RemoveTransfer \/ Show \/ OtherStarts \/ OtherEnds
  \/ HandleControl \/ AbortTasks \/ StartDownload
  \/ \E r \in Runs : Task(r) \/ Breaks(r)
  \/ SourceChanges \/ Restart

(* The loop of the session, the tasks and the windows' pump all run on; a  *)
(* task only while it has a permit or one is free.  That other transfers   *)
(* end is not assumed: the user may leave them paused.                     *)
Loop == HandleControl \/ AbortTasks \/ StartDownload
TrFairness ==
  /\ WF_trVars(Loop) /\ WF_trVars(Show)
  /\ \A r \in Runs : WF_trVars(Task(r))

TrSpec == TrInit /\ [][TrNext]_trVars /\ TrFairness

-----------------------------------------------------------------------------
TrTypeOK ==
  /\ Len(controls) <= MaxControls
  /\ entry \in 0..MaxRuns /\ joined \in 0..MaxRuns
  /\ partial \in 0..MaxRuns /\ final \in 0..MaxRuns
  /\ HeldPermits + others <= Slots
  /\ \A r \in Runs : flags[r] \in 0..2 /\ runs[r].at \in 0..Size

(* A finished file holds every chunk the task that finished it found the   *)
(* source to have, unless it took the place of the one that was checked    *)
(* (the transfer was removed and begun again between the check and the     *)
(* rename).  Through pauses, restarts and tasks that share the partial     *)
(* file, all its chunks come from versions of one size and, on a server    *)
(* that tells it, of one time, and it has that size, unless the source     *)
(* changed under a task that was copying it: a change that shows in        *)
(* neither is not noticed.                                                 *)
OneFingerprint ==
  final # 0 =>
    LET file == contents[final] IN
    /\ swapped \/ Len(file) >= length
    /\ touched \/ \A i, j \in DOMAIN file :
         /\ versions[file[i]] = versions[file[j]]
         /\ swapped \/ Len(file) = versions[file[i]].size

(* A task that was cancelled stays so, whatever is asked after, and writes *)
(* one chunk more at most: the one it was reading or writing.              *)
CancelSticks ==
  [][\A r \in Runs : flags[r] = 2 => flags'[r] = 2 /\ late'[r] <= 1]_trVars

\* Every permit is held, and a task of this transfer waits for one.
Starved == HeldPermits + others = Slots /\ \E r \in Runs : Step(r, "waiting")

(* In a session that stays open a transfer does not run forever: it is     *)
(* shown to pause or to end, unless it waits for a permit while all are    *)
(* held, by transfers that may be paused for as long as the user likes.    *)
TransferSettles ==
  shown = "Running" ~> shown # "Running" \/ session # "open" \/ Starved
=============================================================================
