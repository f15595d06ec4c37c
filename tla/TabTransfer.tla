---------------------------- MODULE TabTransfer ----------------------------
(***************************************************************************)
(* Tab groups and the windows that hold them: opening, splitting, closing  *)
(* and disconnecting tabs (app/session_actions.rs), and moving groups to   *)
(* another window or to a new one (app/tab_transfer.rs).  A move takes the *)
(* groups out of the source one by one, checks them against the target,    *)
(* hands their event routes over, and puts everything back if any of that  *)
(* fails.  All windows share one thread: an operation is one step.         *)
(***************************************************************************)
EXTENDS SessionStore

CONSTANTS
  Tabs,      \* identifiers of terminal tabs; each is used once
  Groups,    \* identifiers of tab groups, and of their SFTP sessions
  Absent,    \* no tab, no group
  MaxOps     \* bound: operations

ASSUME TransferAssumption ==
  /\ Tabs \cup Groups \subseteq Routes /\ Tabs \cap Groups = {}
  /\ Absent \notin Tabs \cup Groups

VARIABLES
  windows,   \* what each window holds
  routing,   \* SessionStore
  ssh,       \* the tabs that are SSH connections
  down,      \* the tabs that were disconnected by hand
  cut,       \* history: the routes a window removed, as long as nobody has them
  fresh,     \* the identifiers not used yet
  ops,       \* operations so far, up to MaxOps
  outcome    \* of the last operation: "failed", a move undone, or "other"

ttVars == <<windows, routing, ssh, down, cut, fresh, ops, outcome>>

(* A window has groups in the order of the tab bar, the panes of a group   *)
(* in the order of its layout, the tabs in an order of their own, the SFTP *)
(* handles by identifier, and the group and tab that are active.           *)
EmptyWindow ==
  [groups |-> <<>>, tabs |-> <<>>, handles |-> {}, active |-> Absent, focus |-> Absent]

GroupAt(win, g)  == SelectInSeq(win.groups, LAMBDA x : x.id = g)
GroupOf(win, t)  == SelectInSeq(win.groups, LAMBDA x : t \in ToSet(x.panes))
HasGroup(win, g) == GroupAt(win, g) # 0
ActiveAt(win)    == GroupAt(win, win.active)
AnyOf(S)         == CHOOSE x \in S : TRUE

TTInit ==
  /\ windows = [w \in Owners |-> EmptyWindow]
  /\ routing = EmptyStore
  /\ ssh = {} /\ down = {} /\ cut = {}
  /\ fresh = [tabs |-> Tabs, groups |-> Groups]
  /\ ops = 0
  /\ outcome = "other"

RegisterAll(st, rs, w) ==
  FoldSet(LAMBDA r, acc : RegisterRoute(acc, r, w), st, rs)
UnregisterAll(st, rs, w) ==
  FoldSet(LAMBDA r, acc : UnregisterRoute(acc, r, w), st, rs)

\* The window removes these routes.
CutOff(removed) == cut' = {r \in cut \cup removed : routing'.routes[r] = Nobody}

-----------------------------------------------------------------------------
(* open_local and the opening of an SSH session: a tab and its group.      *)
OpenGroup(w, isSsh) ==
  /\ fresh.tabs # {} /\ fresh.groups # {}
  /\ LET t   == AnyOf(fresh.tabs)
         g   == AnyOf(fresh.groups)
         own == IF isSsh THEN {g} ELSE {}
     IN  /\ windows' = [windows EXCEPT ![w] =
              [groups  |-> Append(@.groups, [id |-> g, panes |-> <<t>>]),
               tabs    |-> Append(@.tabs, t),
               handles |-> @.handles \cup own,
               active  |-> g, focus |-> t]]
         /\ routing' = RegisterAll(routing, {t} \cup own, w)
         /\ ssh' = IF isSsh THEN ssh \cup {t} ELSE ssh
         /\ fresh' = [tabs |-> fresh.tabs \ {t}, groups |-> fresh.groups \ {g}]
  /\ CutOff({}) /\ outcome' = "other"
  /\ UNCHANGED down

(* split_pane_at: a pane beside the focused one, of the same kind.  The    *)
(* SFTP handle of an SSH pane goes by the name of the pane.                *)
SplitPane(w, before) ==
  /\ fresh.tabs # {}
  /\ windows[w].focus # Absent
  /\ LET win == windows[w]
         t   == AnyOf(fresh.tabs)
         i   == ActiveAt(win)
         k   == SelectInSeq(win.groups[i].panes, LAMBDA x : x = win.focus)
     IN  /\ windows' = [windows EXCEPT ![w] =
              [win EXCEPT !.groups[i].panes = InsertAt(@, IF before THEN k ELSE k + 1, t),
                          !.tabs = Append(@, t),
                          !.handles = IF win.focus \in ssh THEN @ \cup {t} ELSE @,
                          !.focus = t]]
         /\ ssh' = IF win.focus \in ssh THEN ssh \cup {t} ELSE ssh
         /\ routing' = RegisterRoute(routing, t, w)
         /\ fresh' = [fresh EXCEPT !.tabs = @ \ {t}]
  /\ CutOff({}) /\ outcome' = "other"
  /\ UNCHANGED down

-----------------------------------------------------------------------------
(* Closing.                                                                *)

(* resolve_next_active: the neighbour in the group, or else the first tab  *)
(* of the neighbouring group; Absent leaves it to what is left.            *)
NextActive(win, i, t) ==
  LET panes == win.groups[i].panes
      k     == SelectInSeq(panes, LAMBDA x : x = t)
  IN  IF k > 1 THEN panes[k - 1]
      ELSE IF k < Len(panes) THEN panes[k + 1]
      ELSE IF i > 1 THEN win.groups[i - 1].panes[1]
      ELSE IF i < Len(win.groups) THEN win.groups[i + 1].panes[1]
      ELSE Absent

(* close_tab_at: the last pane takes its group and the group's handle      *)
(* along.                                                                  *)
WithoutTab(win, i, t) ==
  LET g    == win.groups[i]
      left == Those(g.panes, Tabs \ {t})
  IN  IF left = <<>>
      THEN [win EXCEPT !.groups = RemoveAt(@, i),
                       !.tabs = Those(@, Tabs \ {t}),
                       !.handles = @ \ {g.id}]
      ELSE [win EXCEPT !.groups[i].panes = left,
                       !.tabs = Those(@, Tabs \ {t})]

(* handle_tab_close                                                        *)
TabClosed(win, t) ==
  LET i    == GroupOf(win, t)
      rest == WithoutTab(win, i, t)
      next == NextActive(win, i, t)
  IN  IF rest.tabs = <<>> THEN EmptyWindow
      ELSE IF win.focus # t THEN rest
      ELSE [rest EXCEPT !.focus = next, !.active = rest.groups[GroupOf(rest, next)].id]

(* close_tab removes the routes of what goes, if no editor of the group's  *)
(* SFTP session objects; a shell that exits keeps them.                    *)
ClosePane(w, t, asked) ==
  /\ t \in ToSet(windows[w].tabs)
  /\ LET g    == windows[w].groups[GroupOf(windows[w], t)]
         gone == {t} \cup (IF Len(g.panes) = 1 THEN {g.id} ELSE {})
     IN  IF asked THEN routing' = UnregisterAll(routing, gone, w) /\ CutOff(gone)
         ELSE UNCHANGED <<routing, cut>>
  /\ windows' = [windows EXCEPT ![w] = TabClosed(@, t)]
  /\ outcome' = "other"
  /\ UNCHANGED <<ssh, down, fresh>>

(* disconnect_tab_group, offered for a group with a live SSH tab: every    *)
(* route of the group goes, but only its SSH tabs are marked.              *)
DisconnectGroup(w, i) ==
  /\ i \in DOMAIN windows[w].groups
  /\ LET win   == windows[w]
         g     == win.groups[i]
         panes == ToSet(g.panes)
     IN  /\ (panes \cap ssh) \ down # {}
         /\ windows' = [windows EXCEPT ![w] = [win EXCEPT !.handles = @ \ {g.id}]]
         /\ routing' = UnregisterAll(routing, panes \cup {g.id}, w)
         /\ CutOff(panes \cup {g.id})
         /\ down' = down \cup (panes \cap ssh)
  /\ outcome' = "other"
  /\ UNCHANGED <<ssh, fresh>>

(* retry_disconnected_tab_impl, for SSH: the tab gets its route and the    *)
(* group a new SFTP session.                                               *)
ReconnectTab(w, t) ==
  /\ t \in ToSet(windows[w].tabs) \cap down
  /\ LET win == windows[w]
         g   == win.groups[GroupOf(win, t)].id
     IN  /\ windows' = [windows EXCEPT ![w] = [win EXCEPT !.handles = @ \cup {g}]]
         /\ routing' = RegisterAll(routing, {t, g}, w)
  /\ CutOff({}) /\ down' = down \ {t}
  /\ outcome' = "other"
  /\ UNCHANGED <<ssh, fresh>>

-----------------------------------------------------------------------------
(* Taking a group out of a window, and putting it back.                    *)

(* activate_after_group_extraction: the group now at the place of the one  *)
(* that left, or the last one.                                             *)
Refocused(win, i) ==
  IF win.groups = <<>> THEN [win EXCEPT !.active = Absent, !.focus = Absent]
  ELSE LET next == win.groups[IF i <= Len(win.groups) THEN i ELSE Len(win.groups)]
       IN  [win EXCEPT !.active = next.id, !.focus = next.panes[1]]

\* The tabs of a window with their places.
Places(win) == [k \in 1..Len(win.tabs) |-> [at |-> k, tab |-> win.tabs[k]]]

(* prepare_group_for_transfer, with the places the tabs had.               *)
Payload(win, g) ==
  LET i    == GroupAt(win, g)
      mine == ToSet(win.groups[i].panes)
      own  == win.handles \cap (mine \cup {g})
  IN  [group   |-> win.groups[i],
       index   |-> i,
       tabs    |-> Those(Places(win), {x \in ToSet(Places(win)) : x.tab \in mine}),
       handles |-> own,
       focus   |-> IF win.focus \in mine THEN win.focus ELSE Absent,
       active  |-> win.active = g]

\* A mutant of RoutesOf: the tabs only.
TabRoutesOf(load) == ToSet(load.group.panes)
RoutesOf(load) == ToSet(load.group.panes) \cup load.handles

(* take_group_transfer                                                     *)
Taken(win, load) ==
  LET rest == [win EXCEPT !.groups  = RemoveAt(@, load.index),
                          !.tabs    = Those(@, Tabs \ ToSet(load.group.panes)),
                          !.handles = @ \ load.handles]
  IN  IF load.active THEN Refocused(rest, load.index) ELSE rest

TakeNext(acc, g) ==
  IF acc.missing \/ ~HasGroup(acc.win, g) THEN [acc EXCEPT !.missing = TRUE]
  ELSE LET load == Payload(acc.win, g)
       IN  [acc EXCEPT !.win = Taken(@, load), !.loads = Append(@, load)]
TakeAll(win, batch) ==
  FoldLeft(TakeNext, [win |-> win, loads |-> <<>>, missing |-> FALSE], batch)

AtMost(i, n) == IF i <= n THEN i ELSE n

(* restore_group_transfer, but for the routes.                             *)
Restored(win, load) ==
  LET back == [win EXCEPT
        !.groups  = InsertAt(@, AtMost(load.index, Len(@) + 1), load.group),
        !.tabs    = FoldLeft(LAMBDA q, x : InsertAt(q, AtMost(x.at, Len(q) + 1), x.tab),
                             @, load.tabs),
        !.handles = @ \cup load.handles]
  IN  IF load.active
      THEN [back EXCEPT !.active = load.group.id,
                        !.focus = IF load.focus # Absent THEN load.focus
                                  ELSE load.group.panes[1]]
      ELSE back
\* A mutant of RestoredAll: in the order they were taken.
RestoredInOrder(win, loads) == FoldLeft(Restored, win, loads)
RestoredAll(win, loads) == FoldLeft(Restored, win, Reverse(loads))

RoutesRestored(st, load, w) ==
  IF CanMoveRoutes(st, RoutesOf(load), w) THEN MoveRoutes(st, RoutesOf(load), w, w)
  ELSE RegisterAll(st, RoutesOf(load), w)
RoutesRestoredAll(st, loads, w) ==
  FoldLeft(LAMBDA acc, load : RoutesRestored(acc, load, w), st, Reverse(loads))

-----------------------------------------------------------------------------
(* Receiving groups (receive_group_transfers).                             *)

(* validate_transfer_batch_for_target                                      *)
Accepts(target, loads, splits) ==
  \A k \in DOMAIN loads :
    LET load == loads[k]
        tabs == {x.tab : x \in ToSet(load.tabs)}
    IN  /\ tabs = ToSet(load.group.panes) /\ tabs # {}
        /\ splits \/ ~HasGroup(target, load.group.id)
        /\ tabs \cap ToSet(target.tabs) = {}
        /\ load.handles \cap target.handles = {}

\* A mutant of ChosenFocus: the tab that had the focus, if any.
FocusTaken(load) == load.focus
(* choose_transfer_active_tab                                              *)
ChosenFocus(load) ==
  IF load.focus \in ToSet(load.group.panes) THEN load.focus ELSE load.group.panes[1]

(* commit_received_group: the tabs are appended in the order of the panes. *)
Received(win, load) ==
  [groups  |-> Append(win.groups, load.group),
   tabs    |-> win.tabs \o load.group.panes,
   handles |-> win.handles \cup load.handles,
   active  |-> load.group.id,
   focus   |-> ChosenFocus(load)]

ReceivedAll(win, loads) == FoldLeft(Received, win, loads)

(* commit_received_docked: the panes join the active group, whose          *)
(* identifier stays; the tabs keep the order they had.                     *)
Docked(win, load, zone) ==
  LET i == ActiveAt(win) IN
  [win EXCEPT
     !.groups[i].panes = IF zone = "before" THEN load.group.panes \o @ ELSE @ \o load.group.panes,
     !.tabs = @ \o [k \in DOMAIN load.tabs |-> load.tabs[k].tab],
     !.handles = @ \cup load.handles,
     !.focus = ChosenFocus(load)]

(* commit_groups_merge and detach_groups_to_new_window: `zone` is where    *)
(* the groups were dropped, "before" or "after" the panes of the target or *)
(* in the "center", where more than one group always goes                  *)
(* (effective_batch_drop_zone); `opened` is whether the target exists.     *)
Transfer(w, target, batch, zone, opened) ==
  LET took   == TakeAll(windows[w], batch)
      loads  == took.loads
      routes == UNION {RoutesOf(loads[k]) : k \in DOMAIN loads}
      splits == zone # "center" /\ windows[target].active # Absent
      valid  == /\ ~took.missing /\ opened
                /\ Accepts(windows[target], loads, splits)
                /\ CanMoveRoutes(routing, routes, w)
  IN  /\ w # target
      /\ IF valid
         THEN /\ windows' = [windows EXCEPT
                   ![w] = took.win,
                   ![target] = IF splits THEN Docked(@, loads[1], zone)
                               ELSE ReceivedAll(@, loads)]
              /\ routing' = MoveRoutes(routing, routes, w, target)
              /\ outcome' = "other"
         ELSE /\ windows' = [windows EXCEPT ![w] = RestoredAll(took.win, loads)]
              /\ routing' = RoutesRestoredAll(routing, loads, w)
              /\ outcome' = "failed"
      /\ CutOff({}) /\ UNCHANGED <<ssh, down, fresh>>

(* A new window takes the place of one that holds nothing.                 *)
Batches == {s \in Groups \X Groups : s[1] # s[2]} \cup {<<g>> : g \in Groups}
Zones(batch) == IF Len(batch) = 1 THEN {"before", "after", "center"} ELSE {"center"}
MergeGroups(w, target, batch, zone) ==
  /\ HasGroup(windows[w], batch[1])
  /\ Transfer(w, target, batch, zone, TRUE)
DetachGroups(w, target, batch, opened) ==
  /\ HasGroup(windows[w], batch[1])
  /\ windows[target] = EmptyWindow
  /\ Transfer(w, target, batch, "center", opened)

(* reorder_tab_groups: the selected groups, as they stand, go to a place   *)
(* among the others, and the first of them becomes active.                 *)
Reorder(w, selected, place) ==
  LET win    == windows[w]
      moving == Those(win.groups, {g \in ToSet(win.groups) : g.id \in selected})
      others == Those(win.groups, {g \in ToSet(win.groups) : g.id \notin selected})
      k      == AtMost(place, Len(others))
  IN  /\ moving # <<>>
      /\ windows' = [windows EXCEPT ![w] =
           [@ EXCEPT !.groups = SubSeq(others, 1, k) \o moving \o SubSeq(others, k + 1, Len(others)),
                     !.active = moving[1].id, !.focus = moving[1].panes[1]]]
      /\ outcome' = "other"
      /\ UNCHANGED <<routing, ssh, down, cut, fresh>>

TTNext ==
  /\ ops < MaxOps /\ ops' = ops + 1
  /\ \E w \in Owners :
       \/ \E isSsh \in BOOLEAN : OpenGroup(w, isSsh)
       \/ \E before \in BOOLEAN : SplitPane(w, before)
       \/ \E t \in Tabs, asked \in BOOLEAN : ClosePane(w, t, asked)
       \/ \E i \in 1..Cardinality(Groups) : DisconnectGroup(w, i)
       \/ \E t \in Tabs : ReconnectTab(w, t)
       \/ \E target \in Owners, batch \in Batches :
            \/ \E zone \in Zones(batch) : MergeGroups(w, target, batch, zone)
            \/ \E opened \in BOOLEAN : DetachGroups(w, target, batch, opened)
       \/ \E selected \in SUBSET Groups, place \in {0, 1} : Reorder(w, selected, place)

TTSpec == TTInit /\ [][TTNext]_ttVars

-----------------------------------------------------------------------------
Panes(win) == FoldLeft(LAMBDA q, g : q \o g.panes, <<>>, win.groups)

TTTypeOK ==
  /\ \A w \in Owners :
       /\ windows[w].handles \subseteq Tabs \cup Groups
       /\ windows[w].active \in Groups \cup {Absent}
       /\ windows[w].focus \in Tabs \cup {Absent}
  /\ down \subseteq ssh /\ ssh \subseteq Tabs
  /\ fresh.tabs \subseteq Tabs /\ fresh.groups \subseteq Groups

(* A tab is held by one window, in one pane of one of its groups; a window *)
(* shows a pane of its active group, and nothing only if it holds nothing. *)
TabsConserved ==
  /\ \A w \in Owners :
       LET win == windows[w]
           all == Panes(win)
       IN  /\ ToSet(all) = ToSet(win.tabs)
           /\ IsInjective(all) /\ IsInjective(win.tabs)
           /\ IF win.groups = <<>> THEN win.active = Absent /\ win.focus = Absent
              ELSE /\ HasGroup(win, win.active)
                   /\ win.focus \in ToSet(win.groups[ActiveAt(win)].panes)
  /\ \A v, w \in Owners : v # w =>
       /\ ToSet(windows[v].tabs) \cap ToSet(windows[w].tabs) = {}
       /\ windows[v].handles \cap windows[w].handles = {}
       /\ \A g \in Groups : ~(HasGroup(windows[v], g) /\ HasGroup(windows[w], g))

(* A move that fails leaves every window as it was: the groups and tabs in *)
(* their places, what is active, and the handles (tab_transfer.rs: any     *)
(* failure restores the original group in place).                          *)
RollbackExact == [][outcome' = "failed" => windows' = windows]_ttVars

(* The events of a tab, and of the SFTP session that goes by a handle, go  *)
(* to the window that holds it.  They go nowhere only if a window itself   *)
(* removed the route and nobody put it back: its group was disconnected,   *)
(* which takes the routes of panes that are no SSH connections along, or   *)
(* an SSH pane of several was closed, whose handle stays.  No move, done   *)
(* or undone, loses a route.                                               *)
RoutesTravel ==
  \A w \in Owners :
    \A r \in ToSet(windows[w].tabs) \cup windows[w].handles :
      routing.routes[r] = w \/ (routing.routes[r] = Nobody /\ r \in cut)
=============================================================================
