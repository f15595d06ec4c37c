---------------------------- MODULE CloseProtocol ----------------------------
(***************************************************************************)
(* What closing a main window promises: "Queue one pull/merge/upload cycle *)
(* as soon as a window-close gesture is received.  Confirmation is tracked *)
(* separately, so cancelling the dialog never turns a completed background *)
(* sync into an implicit window close." (src/app/config_sync.rs)           *)
(***************************************************************************)
VARIABLES
  phase,  \* of the window: "open", "asking", "confirmed" or "closed"
  cycle   \* of the synchronization before the close: "idle", "due" or "over"

Init == phase = "open" /\ cycle = "idle"

\* The user asks to close, which makes a cycle due; it may end at once.
Ask ==
  /\ phase = "open" /\ phase' = "asking"
  /\ cycle' \in {"due", "over"}

Cancel ==
  /\ phase = "asking" /\ phase' = "open"
  /\ UNCHANGED cycle

Confirm ==
  /\ phase = "asking" /\ phase' = "confirmed"
  /\ cycle = "due"
  /\ UNCHANGED cycle

\* The end of the cycle closes nothing that is not confirmed.
CycleEnds ==
  /\ phase \in {"open", "asking"}
  /\ cycle = "due" /\ cycle' = "over"
  /\ UNCHANGED phase

\* A confirmed window closes with the end of the cycle, or at the
\* confirmation when the cycle is over already.
Close ==
  /\ \/ phase = "confirmed" /\ cycle = "due"
     \/ phase = "asking" /\ cycle = "over"
  /\ phase' = "closed" /\ cycle' = "over"

\* The window system refuses to remove a window that is handling an event:
\* the confirmation is void and the user may ask again.
Refused ==
  /\ phase = "asking" /\ phase' = "open"
  /\ cycle = "due" /\ cycle' = "over"

Next == Ask \/ Cancel \/ Confirm \/ CycleEnds \/ Close \/ Refused

Spec == Init /\ [][Next]_<<phase, cycle>>
=============================================================================
