--------------------------- MODULE BackendEvents ---------------------------
(***************************************************************************)
(* The event channel between the connections of terminal tabs and the      *)
(* windows that show them (terminal/mod.rs, session/store.rs, and the      *)
(* drain in app/mod.rs).  Connections run on threads of their own; all     *)
(* windows share one user interface thread, and a window drains events in  *)
(* one go: while it does, only the connections move.                       *)
(***************************************************************************)
EXTENDS SessionStore

CONSTANTS
  None,              \* no event, no tab or no group
  Terminals,         \* the terminal tabs
  MaxGen,            \* bound: connections of a tab, counting its retries
  MaxWork,           \* bound: what connections send and the user asks for, in all
  MaxCoalesced,      \* MAX_COALESCED_OUTPUT_BYTES, in chunks
  OutputCapacity,    \* OUTPUT_QUEUE_EVENT_CAPACITY
  LifecycleCapacity, \* LIFECYCLE_QUEUE_CAPACITY
  ControlCapacity,   \* CONTROL_QUEUE_CAPACITY
  ControlBurst,      \* CONTROL_BURST
  MaxTick            \* MAX_ROUTED_EVENTS_PER_TICK and MAX_EVENTS_PER_TICK

ASSUME EventsAssumption ==
  /\ Terminals \subseteq Routes
  /\ {MaxGen, OutputCapacity, LifecycleCapacity, ControlCapacity, ControlBurst,
      MaxTick} \subseteq Nat \ {0}
  /\ MaxWork \in Nat
ASSUME NoneAssumption ==
  None \notin [kind : Kinds, route : Terminals, gen : Nat, title : BOOLEAN, seq : Nat,
               chunks : Seq([gen : Nat, seq : Nat])]

VARIABLES
  outputs, lifecycle, control, \* the three queues
  pendingLifecycle, pendingControl, \* events taken out but not yet returned
  streak,    \* control_streak, saturated at ControlBurst
  blocked,   \* the event whose sender waits for room, holding send_order
  sequence,  \* the next sequence number
  store,     \* SessionStore
  pump,      \* the window that drains, or Nobody
  phase,     \* what it is about to do
  ticked,    \* events routed in this drain
  batch,     \* the coalesced events it still has to handle
  home,      \* the window that holds a tab
  gen,       \* TerminalTab::backend_generation; 0 before the tab is opened
  link,      \* "connecting", "connected", or "down" with a reason shown
  conns,     \* the connections: "none", "starting", "up", "done"
  work,      \* how much the connections and the user have done, up to MaxWork
  last,      \* history: the event shown last, by tab and generation
  crowded    \* history: a queue of the store was full of reliable events

chanVars == <<outputs, lifecycle, control, pendingLifecycle, pendingControl,
              streak, blocked, sequence>>
pumpVars == <<pump, phase, ticked, batch>>
tabVars  == <<home, gen, link, work>>
evVars   == <<chanVars, store, pumpVars, tabVars, conns, last, crowded>>

Gens   == 1..MaxGen
Bodies == [kind : Kinds, route : Terminals, gen : 0..MaxGen, title : BOOLEAN]
Event(body) ==
  [kind   |-> body.kind,  route |-> body.route, gen |-> body.gen, title |-> body.title,
   seq    |-> sequence,
   chunks |-> IF body.kind = "Output" THEN <<[gen |-> body.gen, seq |-> sequence]>> ELSE <<>>]

EvInit ==
  /\ outputs = <<>> /\ lifecycle = <<>> /\ control = <<>>
  /\ pendingLifecycle = <<>> /\ pendingControl = <<>>
  /\ streak = 0 /\ blocked = None /\ sequence = 1
  /\ store = EmptyStore
  /\ pump = Nobody /\ phase = "idle" /\ ticked = 0 /\ batch = <<>>
  /\ home = [t \in Terminals |-> Nobody]
  /\ gen = [t \in Terminals |-> 0]
  /\ link = [t \in Terminals |-> "connecting"]
  /\ work = 0
  /\ conns = [t \in Terminals |-> [g \in Gens |-> "none"]]
  /\ last = [t \in Terminals |-> [g \in Gens |-> 0]]
  /\ crowded = FALSE

-----------------------------------------------------------------------------
(* Sending.  send_order is held from the sequence number to the end of the *)
(* push; only a reliable event may wait there for room.                    *)

PushOutput(q, e) ==
  IF ChunksOf(q) + Len(e.chunks) > MaxChunks THEN q
  ELSE IF Joins(q, e, MaxCoalesced) THEN MergedLast(q, e)
  ELSE IF Len(q) < OutputCapacity THEN Append(q, e)
  ELSE q

(* send_with_generation                                                    *)
Send(body) ==
  /\ blocked = None
  /\ sequence' = sequence + 1
  /\ LET e == Event(body) IN
       \/ /\ e.kind = "Output"
          /\ outputs' = PushOutput(outputs, e)
          /\ UNCHANGED <<lifecycle, control, blocked>>
       \/ /\ Reliable(e)
          /\ IF Len(lifecycle) < LifecycleCapacity
             THEN lifecycle' = Append(lifecycle, e) /\ UNCHANGED blocked
             ELSE blocked' = e /\ UNCHANGED lifecycle
          /\ UNCHANGED <<outputs, control>>
       \/ /\ e.kind = "Status"
          /\ control' = IF Len(control) < ControlCapacity THEN Append(control, e) ELSE control
          /\ UNCHANGED <<outputs, lifecycle, blocked>>
  /\ UNCHANGED <<pendingLifecycle, pendingControl, streak>>

(* A blocked sender gets its room and gives send_order back.               *)
Unblock ==
  /\ blocked # None
  /\ Len(lifecycle) < LifecycleCapacity
  /\ lifecycle' = Append(lifecycle, blocked)
  /\ blocked' = None
  /\ UNCHANGED <<outputs, control, pendingLifecycle, pendingControl, streak, sequence,
                 store, pumpVars, tabVars, conns, last>>

Works == work < MaxWork /\ work' = work + 1

(* What a connection sends: Connected first, output and status while it    *)
(* runs, Closed last, whatever was asked of it meanwhile.  A connection    *)
(* told to close may still have output on its way.                         *)
ConnectionSends(t, g) ==
  /\ Works
  /\ \E kind \in Kinds, title \in BOOLEAN :
       /\ conns[t][g] = "starting" => kind \in {"Connected", "Closed"}
       /\ conns[t][g] = "up" => kind \notin {"Connected"}
       /\ conns[t][g] \in {"starting", "up"}
       /\ title => kind = "Output"
       /\ Send([kind |-> kind, route |-> t, gen |-> g, title |-> title])
       /\ conns' = [conns EXCEPT ![t][g] =
            CASE kind = "Connected" -> "up"
              [] kind \in {"Closed", "Exited"} -> "done"
              [] OTHER -> @]
  /\ UNCHANGED <<store, pumpVars, home, gen, link, last>>

-----------------------------------------------------------------------------
(* Receiving (BackendEventReceiver::try_recv) and routing.  Between the    *)
(* look at the lifecycle queue and the rest of try_recv senders may move.  *)

BeginDrain(w) ==
  /\ phase = "idle"
  /\ \E n \in 0..Len(store.seen) : store' = Pruned(store, n)
  /\ pump' = w /\ phase' = "poll" /\ ticked' = 0
  /\ UNCHANGED <<chanVars, batch, tabVars, conns, last>>

PollLifecycle ==
  /\ phase = "poll"
  /\ ticked < MaxTick
  /\ phase' = "receive"
  /\ IF pendingLifecycle = <<>> /\ lifecycle # <<>>
     THEN pendingLifecycle' = <<Head(lifecycle)>> /\ lifecycle' = Tail(lifecycle)
     ELSE UNCHANGED <<pendingLifecycle, lifecycle>>
  /\ UNCHANGED <<outputs, control, pendingControl, streak, blocked, sequence,
                 store, pump, ticked, batch, tabVars, conns, last>>

TakeControl ==
  IF pendingControl = <<>> /\ control # <<>> THEN <<Head(control)>> ELSE pendingControl
RestOfControl ==
  IF pendingControl = <<>> /\ control # <<>> THEN Tail(control) ELSE control

(* coalesce_earlier_for: the output of a connection that a Closed must not *)
(* overtake.                                                               *)
Earlier(c, e) ==
  /\ c.kind \in {"Closed", "Exited"}
  /\ e.route = c.route /\ e.gen = c.gen /\ e.seq < c.seq
\* A mutant of EarlierOutput: a close does not wait for any.
EarlierIgnored(c) == <<>>
EarlierOutput(c) == Those(outputs, {e \in ToSet(outputs) : Earlier(c, e)})
LaterOutput(c)   == Those(outputs, {e \in ToSet(outputs) : ~Earlier(c, e)})
Together(es) == FoldLeft(Merged, Head(es), Tail(es))

Deliver(e) ==
  /\ store' = Routed(store, e)
  /\ ticked' = ticked + 1
  /\ phase' = "poll"

MoreControl == streak' = IF streak < ControlBurst THEN streak + 1 ELSE streak

ReceiveLifecycle ==
  /\ phase = "receive"
  /\ pendingLifecycle # <<>>
  /\ LET c     == pendingLifecycle[1]
         first == TakeControl
         older == IF first = <<>> THEN FALSE ELSE first[1].seq < c.seq
     IN  /\ control' = RestOfControl
         /\ \/ /\ older
               /\ Deliver(first[1])
               /\ pendingControl' = <<>>
               /\ MoreControl
               /\ UNCHANGED <<pendingLifecycle, outputs>>
            \/ /\ ~older
               /\ pendingControl' = first
               /\ IF EarlierOutput(c) # <<>>
                  THEN /\ Deliver(Together(EarlierOutput(c)))
                       /\ outputs' = LaterOutput(c)
                       /\ streak' = 0
                       /\ UNCHANGED pendingLifecycle
                  ELSE /\ Deliver(c)
                       /\ pendingLifecycle' = <<>>
                       /\ MoreControl
                       /\ UNCHANGED outputs
  /\ UNCHANGED <<lifecycle, blocked, sequence, pump, batch, tabVars, conns, last>>

ReceiveOutput ==
  /\ phase = "receive"
  /\ pendingLifecycle = <<>>
  /\ outputs # <<>>
  /\ streak >= ControlBurst \/ TakeControl = <<>>
  /\ Deliver(Head(outputs))
  /\ outputs' = Tail(outputs)
  /\ streak' = 0
  /\ UNCHANGED <<lifecycle, control, pendingLifecycle, pendingControl, blocked, sequence,
                 pump, batch, tabVars, conns, last>>

ReceiveControl ==
  /\ phase = "receive"
  /\ pendingLifecycle = <<>>
  /\ TakeControl # <<>>
  /\ streak < ControlBurst \/ outputs = <<>>
  /\ Deliver(TakeControl[1])
  /\ control' = RestOfControl
  /\ pendingControl' = <<>>
  /\ MoreControl
  /\ UNCHANGED <<outputs, lifecycle, pendingLifecycle, blocked, sequence,
                 pump, batch, tabVars, conns, last>>

-----------------------------------------------------------------------------
(* Handling a batch (coalesce_backend_events, drain_backend_events).       *)

(* Output joins the last output of its tab if nothing but output came in   *)
(* between, whatever the generation of either; then all are put back in    *)
(* the order of their sequence numbers.                                    *)
JoinOutput(es, e) ==
  LET barrier == {i \in DOMAIN es : es[i].kind # "Output"}
      same    == {i \in DOMAIN es : /\ es[i].kind = "Output" /\ es[i].route = e.route
                                    /\ \A b \in barrier : b < i}
  IN  IF e.kind = "Output" /\ same # {}
      THEN [es EXCEPT ![CHOOSE i \in same : TRUE] = Merged(@, e)]
      ELSE Append(es, e)

\* e in its place among events that are in order, behind its equals.
Inserted(es, e) ==
  InsertAt(es, Cardinality({i \in DOMAIN es : es[i].seq <= e.seq}) + 1, e)

CoalesceEvents(es) == FoldLeft(Inserted, <<>>, FoldLeft(JoinOutput, <<>>, es))

(* The window takes its share once the channel is empty or the tick is     *)
(* used up.                                                                *)
DrainPending ==
  /\ \/ phase = "poll" /\ ticked >= MaxTick
     \/ /\ phase = "receive" /\ pendingLifecycle = <<>>
        /\ TakeControl = <<>> /\ outputs = <<>>
  /\ LET mine == store.pending[pump]
         n    == IF Len(mine) < MaxTick THEN Len(mine) ELSE MaxTick
     IN  /\ batch' = CoalesceEvents(SubSeq(mine, 1, n))
         /\ store' = [store EXCEPT !.pending[pump] = SubSeq(mine, n + 1, Len(mine))]
  /\ phase' = "handle"
  /\ UNCHANGED <<chanVars, pump, ticked, tabVars, conns, last>>

(* An event of a tab of this window, from a connection before the present. *)
Stale(e) == home[e.route] = pump /\ e.gen # 0 /\ e.gen # gen[e.route]

HandleStale ==
  /\ phase = "handle" /\ batch # <<>> /\ Stale(Head(batch))
  /\ batch' = Tail(batch)
  /\ UNCHANGED <<chanVars, store, pump, phase, ticked, tabVars, conns, last>>

Shown(e) ==
  [last EXCEPT ![e.route] =
    [g \in Gens |->
      LET own == Those(e.chunks, {c \in ToSet(e.chunks) : c.gen = g})
      IN  IF own # <<>> THEN own[Len(own)].seq ELSE @[g]]]

(* handle_terminal_output.  A chunk that sets the title makes the terminal *)
(* send an event from the user interface thread, which needs send_order.   *)
HandleOutput ==
  /\ phase = "handle" /\ batch # <<>>
  /\ LET e == Head(batch) IN
       /\ e.kind = "Output" /\ ~Stale(e)
       /\ IF home[e.route] = pump
          THEN /\ last' = Shown(e)
               /\ IF e.title
                  THEN Send([kind |-> "Status", route |-> e.route, gen |-> 0, title |-> FALSE])
                  ELSE UNCHANGED chanVars
          ELSE UNCHANGED <<last, chanVars>>
  /\ batch' = Tail(batch)
  /\ UNCHANGED <<store, pump, phase, ticked, tabVars, conns>>

(* handle_terminal_connected, handle_terminal_status.                      *)
HandleNews ==
  /\ phase = "handle" /\ batch # <<>>
  /\ LET e == Head(batch) IN
       /\ e.kind \in {"Connected", "Status"} /\ ~Stale(e)
       /\ link' = IF e.kind = "Connected" /\ home[e.route] = pump
                  THEN [link EXCEPT ![e.route] = "connected"] ELSE link
  /\ batch' = Tail(batch)
  /\ UNCHANGED <<chanVars, store, pump, phase, ticked, home, gen, work, conns, last>>

(* handle_terminal_closed: a tab that exits gracefully is closed, one that *)
(* was disconnected by hand keeps its reason.                              *)
HandleClosed ==
  /\ phase = "handle" /\ batch # <<>>
  /\ LET e    == Head(batch)
         mine == home[e.route] = pump
         exit == e.kind = "Exited" /\ link[e.route] # "down"
     IN  /\ e.kind \in {"Closed", "Exited"} /\ ~Stale(e)
         /\ home' = IF mine /\ exit THEN [home EXCEPT ![e.route] = Nobody] ELSE home
         /\ link' = IF mine /\ ~exit THEN [link EXCEPT ![e.route] = "down"] ELSE link
         /\ last' = IF mine /\ e.gen # 0 THEN [last EXCEPT ![e.route][e.gen] = e.seq] ELSE last
  /\ batch' = Tail(batch)
  /\ UNCHANGED <<chanVars, store, pump, phase, ticked, gen, work, conns>>

EndDrain ==
  /\ phase = "handle" /\ batch = <<>>
  /\ phase' = "idle" /\ pump' = Nobody /\ ticked' = 0
  /\ UNCHANGED <<chanVars, store, batch, tabVars, conns, last>>

-----------------------------------------------------------------------------
(* What the user does with tabs.                                           *)

Asks == phase = "idle" /\ Works

(* register_event_route, behind the expiry of unrouted events.             *)
Registers(t, w) ==
  \E n \in 0..Len(store.seen) : store' = RegisterRoute(Pruned(store, n), t, w)

(* open_local and its like: a tab, a connection and a route.  Tabs are     *)
(* alike, so it does not matter which is opened first.                     *)
OpenedTabs == {t \in Terminals : gen[t] # 0}
OpenTab(w) ==
  /\ phase = "idle"
  /\ OpenedTabs # Terminals
  /\ LET t == CHOOSE u \in Terminals \ OpenedTabs : TRUE IN
       /\ gen' = [gen EXCEPT ![t] = 1]
       /\ home' = [home EXCEPT ![t] = w]
       /\ conns' = [conns EXCEPT ![t][1] = "starting"]
       /\ Registers(t, w)
  /\ UNCHANGED <<chanVars, pumpVars, link, work, last>>

CloseTab(t) ==
  /\ Asks
  /\ home[t] # Nobody
  /\ store' = UnregisterRoute(store, t, home[t])
  /\ home' = [home EXCEPT ![t] = Nobody]
  /\ UNCHANGED <<chanVars, pumpVars, gen, link, conns, last>>

(* disconnect_tab_group                                                    *)
Disconnect(t) ==
  /\ Asks
  /\ home[t] # Nobody
  /\ store' = UnregisterRoute(store, t, home[t])
  /\ link' = [link EXCEPT ![t] = "down"]
  /\ UNCHANGED <<chanVars, pumpVars, home, gen, conns, last>>

(* retry_disconnected_tab_impl: the tab stays, its connection is replaced. *)
Retry(t) ==
  /\ Asks
  /\ home[t] # Nobody
  /\ link[t] = "down"
  /\ gen[t] < MaxGen
  /\ Registers(t, home[t])
  /\ gen' = [gen EXCEPT ![t] = @ + 1]
  /\ link' = [link EXCEPT ![t] = "connecting"]
  /\ conns' = [conns EXCEPT ![t][gen[t] + 1] = "starting"]
  /\ UNCHANGED <<chanVars, pumpVars, home, last>>

(* A tab goes to another window with its route; without a route the move   *)
(* fails, and putting the tab back registers the route again.              *)
MoveTab(t, target) ==
  /\ Asks
  /\ home[t] \notin {Nobody, target}
  /\ IF CanMoveRoutes(store, {t}, home[t])
     THEN /\ store' = MoveRoutes(store, {t}, home[t], target)
          /\ home' = [home EXCEPT ![t] = target]
     ELSE Registers(t, home[t]) /\ UNCHANGED home
  /\ UNCHANGED <<chanVars, pumpVars, gen, link, conns, last>>

-----------------------------------------------------------------------------
Drain ==
  \/ PollLifecycle \/ ReceiveLifecycle \/ ReceiveOutput \/ ReceiveControl
  \/ DrainPending
  \/ HandleStale \/ HandleOutput \/ HandleNews \/ HandleClosed \/ EndDrain

(* A queue of the store that refuses the next reliable event.              *)
FullOfReliable(q, max) == Len(q) >= max /\ \A i \in DOMAIN q : Reliable(q[i])
Crowded(st) ==
  \/ \E w \in Owners : FullOfReliable(st.pending[w], MaxPending)
  \/ \E r \in Routes : FullOfReliable(st.unrouted[r], MaxUnrouted)

Moves ==
  \/ \E t \in Terminals, g \in Gens : ConnectionSends(t, g)
  \/ Unblock
  \/ Drain
  \/ \E w \in Owners : BeginDrain(w) \/ OpenTab(w)
  \/ \E w \in Owners, t \in Terminals : MoveTab(t, w)
  \/ \E t \in Terminals : CloseTab(t) \/ Disconnect(t) \/ Retry(t)

Noted(A) == A /\ crowded' = (crowded \/ Crowded(store'))
EvNext == Noted(Moves)

(* The pump of every window wakes up at least every 250 ms                 *)
(* (start_event_pump); a drain once begun runs to its end; the standard    *)
(* library wakes a sender when there is room.                              *)
EvFairness ==
  /\ WF_evVars(Noted(Drain)) /\ WF_evVars(Noted(Unblock))
  /\ \A w \in Owners : SF_evVars(Noted(BeginDrain(w)))

EvSpec == EvInit /\ [][EvNext]_evVars /\ EvFairness

-----------------------------------------------------------------------------
EvTypeOK ==
  /\ blocked # None => Reliable(blocked) /\ Len(lifecycle) <= LifecycleCapacity
  /\ Len(outputs) <= OutputCapacity /\ Len(control) <= ControlCapacity
  /\ Len(lifecycle) <= LifecycleCapacity
  /\ streak \in 0..ControlBurst
  /\ pump \in Owners \cup {Nobody} /\ (pump = Nobody) = (phase = "idle")
  /\ \A w \in Owners : Len(store.pending[w]) <= MaxPending
  /\ Len(store.tombstones) <= MaxTombstones
  /\ \A t \in Terminals : gen[t] \in 0..MaxGen /\ home[t] \in Owners \cup {Nobody}

(* What a window shows of one connection comes in the order it was sent,   *)
(* and nothing that was sent before the connection closed comes after the  *)
(* close: through three queues, the routing, moves between windows, and    *)
(* the two places that join chunks of output.                              *)
Mixed(e) == \E c, d \in ToSet(e.chunks) : c.gen # d.gen
InSendOrder ==
  [][\/ \A t \in Terminals, g \in Gens : last'[t][g] >= last[t][g]
     \/ phase = "handle" /\ batch # <<>> /\ Mixed(Head(batch))]_evVars

(* A tab that is not disconnected always has its route, to the window that *)
(* holds it, and what is pending for a route waits at its owner: no event  *)
(* goes to a window that gave the tab away or closed it.                   *)
RoutesFollowTabs ==
  /\ EventsFollowRoutes(store)
  /\ \A t \in Terminals :
       home[t] # Nobody =>
         \/ store.routes[t] = home[t]
         \/ store.routes[t] = Nobody /\ link[t] = "down"

Unnoticed(t) ==
  /\ home[t] # Nobody /\ link[t] # "down"
  /\ gen[t] # 0 /\ conns[t][gen[t]] = "done"

(* The end of a connection is never lost: once nothing is under way, in a  *)
(* queue, in the routing or at a window, the tab of every connection that  *)
(* ended shows it or is closed, over retries, moves and full queues.       *)
UnderWay ==
  \/ blocked # None \/ phase # "idle"
  \/ outputs \o lifecycle \o control \o pendingLifecycle \o pendingControl # <<>>
  \/ \E w \in Owners : store.pending[w] # <<>>
NoCloseLost == UnderWay \/ crowded \/ \A t \in Terminals : ~Unnoticed(t)

(* And it is noticed in the end (docs/upgrade/v1.4.0/README.md:42: when    *)
(* output is refused for long, events such as a close are still handled).  *)
(* It is not if a handler of the user interface waits for send_order, and  *)
(* its holder for room in the queue that only the user interface empties.  *)
CloseIsHandled == \A t \in Terminals : Unnoticed(t) ~> ~Unnoticed(t)
=============================================================================
