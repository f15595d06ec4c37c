---------------------------- MODULE FrameMailbox ----------------------------
(***************************************************************************)
(* The frames of a remote desktop (backend/remote_desktop.rs): a mailbox   *)
(* that holds the newest one, and one wake-up event at a time, sent        *)
(* through the lifecycle queue without waiting for room there              *)
(* (terminal/mod.rs), routed to the queue of the window and handled.       *)
(***************************************************************************)
EXTENDS Naturals, Sequences

CONSTANTS
  QueueCapacity,   \* LIFECYCLE_QUEUE_CAPACITY
  WindowCapacity   \* MAX_PENDING_EVENTS_PER_OWNER

ASSUME MailboxAssumption == {QueueCapacity, WindowCapacity} \subseteq Nat \ {0}

VARIABLES
  latest,   \* the mailbox holds a frame
  wake,     \* wake_pending
  painter,  \* FreeRDP's thread: "idle", "sending" or "refused"
  queue,    \* the lifecycle queue
  waiting,  \* the events of the window; all of them reliable
  dropped   \* history: a wake-up found the window's queue full

fmVars == <<latest, wake, painter, queue, waiting, dropped>>

FmInit ==
  /\ latest = FALSE /\ wake = FALSE /\ painter = "idle"
  /\ queue = <<>> /\ waiting = <<>> /\ dropped = FALSE

(* publish, at the end of a paint.                                         *)
Publish ==
  /\ painter = "idle"
  /\ latest' = TRUE /\ wake' = TRUE
  /\ painter' = IF wake THEN "idle" ELSE "sending"
  /\ UNCHANGED <<queue, waiting, dropped>>

(* send_with_generation, for a frame.                                      *)
SendFrameReady ==
  /\ painter = "sending"
  /\ IF Len(queue) < QueueCapacity
     THEN queue' = Append(queue, "frame") /\ painter' = "idle"
     ELSE painter' = "refused" /\ UNCHANGED queue
  /\ UNCHANGED <<latest, wake, waiting, dropped>>

\* A mutant of WakeupFailed: the mailbox is not armed again.
WakeupForgotten ==
  /\ painter = "refused"
  /\ painter' = "idle"
  /\ UNCHANGED <<latest, wake, queue, waiting, dropped>>

WakeupFailed ==
  /\ painter = "refused"
  /\ wake' = FALSE /\ painter' = "idle"
  /\ UNCHANGED <<latest, queue, waiting, dropped>>

(* The other connections use the same queue.                               *)
OthersSend ==
  /\ Len(queue) < QueueCapacity
  /\ queue' = Append(queue, "other")
  /\ UNCHANGED <<latest, wake, painter, waiting, dropped>>

(* push_bounded finds no room among reliable events.                       *)
RouteToWindow ==
  /\ queue # <<>>
  /\ queue' = Tail(queue)
  /\ IF Len(waiting) < WindowCapacity
     THEN waiting' = Append(waiting, Head(queue)) /\ UNCHANGED dropped
     ELSE dropped' = (dropped \/ Head(queue) = "frame") /\ UNCHANGED waiting
  /\ UNCHANGED <<latest, wake, painter>>

(* handle_remote_desktop_frame_ready and take_latest.                      *)
HandleFrameReady ==
  /\ waiting # <<>>
  /\ waiting' = Tail(waiting)
  /\ IF Head(waiting) = "frame" /\ latest
     THEN latest' = FALSE /\ wake' = FALSE
     ELSE UNCHANGED <<latest, wake>>
  /\ UNCHANGED <<painter, queue, dropped>>

FmNext ==
  \/ Publish \/ SendFrameReady \/ WakeupFailed \/ OthersSend
  \/ RouteToWindow \/ HandleFrameReady

FmSpec == FmInit /\ [][FmNext]_fmVars

-----------------------------------------------------------------------------
FmTypeOK ==
  /\ latest \in BOOLEAN /\ wake \in BOOLEAN /\ dropped \in BOOLEAN
  /\ painter \in {"idle", "sending", "refused"}
  /\ Len(queue) <= QueueCapacity /\ Len(waiting) <= WindowCapacity

(* A wake-up that is thought to be under way is: in a queue, or in the     *)
(* hands of the thread that sends it.  Else no later frame would send one  *)
(* and the picture would stand still for good, which only a window with a  *)
(* full queue of reliable events can bring about.                          *)
FrameNotStuck ==
  wake /\ ~dropped =>
    \/ painter # "idle"
    \/ \E i \in DOMAIN queue : queue[i] = "frame"
    \/ \E i \in DOMAIN waiting : waiting[i] = "frame"
=============================================================================
