-------------------------- MODULE ConnectionCatalog --------------------------
(***************************************************************************)
(* The saved connections, their groups and the recycle bin (session/       *)
(* config.rs, session/connection_catalog.rs), on devices that synchronize  *)
(* them (sync/reconcile.rs, sync/merge.rs).  A group is known by its path, *)
(* also in the bin and to the synchronization.  A synchronization is one   *)
(* step here; SyncCoordinator has what happens during one.                 *)
(***************************************************************************)
EXTENDS Naturals, Sequences, SequencesExt, FiniteSets

CONSTANTS
  Devices,
  Sessions,  \* identifiers of connections; each is created once
  Names,     \* names of groups, without suffix
  MaxDepth,  \* bound: groups in groups
  MaxEdits   \* bound: edits, on all devices

ASSUME CatalogAssumption == {MaxDepth, MaxEdits} \subseteq Nat \ {0}

VARIABLES
  local,   \* the configuration of each device
  base,    \* its baseline
  remote,  \* the remote object
  made,    \* the connections that were created
  edits    \* edits so far, up to MaxEdits

ctVars == <<local, base, remote, made, edits>>

(* A configuration has groups, the connections in use with the group each  *)
(* is in, and in the bin connections and groups, a group under its name    *)
(* with everything that was in it.  A path is a sequence of names with     *)
(* suffixes; the empty one is no group.                                    *)
NoConnections == [groups |-> {}, live |-> {}, binned |-> {}, binnedGroups |-> {}]

CtInit ==
  /\ local = [d \in Devices |-> NoConnections]
  /\ base = [d \in Devices |-> NoConnections]
  /\ remote = NoConnections
  /\ made = {} /\ edits = 0

Inside(path, group) == IsPrefix(group, path)
Rebased(path, old, new) ==
  IF Inside(path, old) THEN new \o SubSeq(path, Len(old) + 1, Len(path)) ELSE path
InGroup(c, g) == {x \in c.live : Inside(x.at, g)}

(* unique_connection_group_name, unique_group_name                         *)
Suffixed(path, n) == [path EXCEPT ![Len(path)].suffix = n]
UniqueGroup(c, path) ==
  IF path \notin c.groups THEN path
  ELSE LET free == {n \in 2..(Cardinality(c.groups) + 2) : Suffixed(path, n) \notin c.groups}
       IN  Suffixed(path, CHOOSE n \in free : \A k \in free : n <= k)

-----------------------------------------------------------------------------
(* Edits of a configuration.                                               *)

AddGroup(c, path) == [c EXCEPT !.groups = @ \cup {path}]

Upsert(c, id, at) ==
  [c EXCEPT !.live = {x \in @ : x.id # id} \cup {[id |-> id, at |-> at]}]

RenameGroup(c, old, new) ==
  IF new \in c.groups THEN c
  ELSE [c EXCEPT !.groups = {Rebased(g, old, new) : g \in @},
                 !.live = {[x EXCEPT !.at = Rebased(@, old, new)] : x \in @}]

MoveGroup(c, g, parent) ==
  LET requested == Append(parent, g[Len(g)])
  IN  IF requested = g THEN c ELSE RenameGroup(c, g, UniqueGroup(c, requested))

(* remove_connection_group: the connections stay, outside of any group.    *)
Ungroup(c, g) ==
  [c EXCEPT !.groups = {x \in @ : ~Inside(x, g)},
            !.live = {IF Inside(x.at, g) THEN [x EXCEPT !.at = <<>>] ELSE x : x \in @}]

SoftDeleteSession(c, x) ==
  [c EXCEPT !.live = @ \ {x}, !.binned = {y \in @ : y.id # x.id} \cup {x}]

\* A mutant of SoftDeleteGroup: the bin gets the connections of the group
\* itself only.
SoftDeleteGroupFlat(c, g) ==
  [c EXCEPT !.groups = {x \in @ : ~Inside(x, g)},
            !.live = @ \ InGroup(c, g),
            !.binnedGroups = {t \in @ : t.name # g} \cup
              {[name |-> g, groups |-> {x \in c.groups : Inside(x, g)},
                sessions |-> {x \in c.live : x.at = g}]}]
SoftDeleteGroup(c, g) ==
  [c EXCEPT !.groups = {x \in @ : ~Inside(x, g)},
            !.live = @ \ InGroup(c, g),
            !.binnedGroups = {t \in @ : t.name # g} \cup
              {[name |-> g, groups |-> {x \in c.groups : Inside(x, g)},
                sessions |-> InGroup(c, g)]}]

(* restore_deleted_session, with the groups on the way to it.              *)
RestoreSession(c, x) ==
  LET out == [c EXCEPT !.binned = @ \ {x}]
  IN  IF \E y \in c.live : y.id = x.id THEN out
      ELSE [out EXCEPT !.live = @ \cup {x},
                       !.groups = @ \cup {SubSeq(x.at, 1, n) : n \in 1..Len(x.at)}]

RestoreGroup(c, t) ==
  LET name == UniqueGroup(c, t.name)
      back == {[x EXCEPT !.at = Rebased(@, t.name, name)] : x \in t.sessions}
  IN  [c EXCEPT !.binnedGroups = @ \ {t},
                !.groups = @ \cup {Rebased(g, t.name, name) : g \in t.groups},
                !.live = @ \cup {x \in back : \A y \in @ : y.id # x.id}]

-----------------------------------------------------------------------------
(* Synchronization.  What a configuration says of a connection or a group: *)
(* its content while it is in use; else "gone", deleted or unknown.  The   *)
(* bin has the last word (EntityCatalog::from_config).                     *)

SessionIn(c, id) ==
  LET here == {x \in c.live : x.id = id}
  IN  IF here = {} \/ \E x \in c.binned : x.id = id THEN [gone |-> TRUE, at |-> <<>>]
      ELSE [gone |-> FALSE, at |-> (CHOOSE x \in here : TRUE).at]
GroupGone(c, g) == g \notin c.groups \/ \E t \in c.binnedGroups : t.name = g

\* A mutant of Side: each side is taken when it is the unchanged one.
SideSwapped(own, before, other, kept, l, r) ==
  IF own = before THEN l ELSE IF other = before \/ own = other \/ kept THEN r ELSE l

(* reconcile_three_way: `keep` are the conflicts the user settles for the  *)
(* local side.                                                             *)
Side(own, before, other, kept, l, r) ==
  IF own = before THEN r ELSE IF other = before \/ own = other \/ kept THEN l ELSE r

Reconcile(l, b, r, keep) ==
  LET From(id)  == Side(SessionIn(l, id), SessionIn(b, id), SessionIn(r, id), id \in keep, l, r)
      FromG(g)  == Side(GroupGone(l, g), GroupGone(b, g), GroupGone(r, g), FALSE, l, r)
  IN  [groups |-> {g \in l.groups \cup r.groups : ~GroupGone(FromG(g), g)},
       live   |-> {x \in l.live \cup r.live :
                     x \in From(x.id).live /\ ~SessionIn(From(x.id), x.id).gone},
       binned |-> {x \in l.binned \cup r.binned : x \in From(x.id).binned},
       binnedGroups |-> {t \in l.binnedGroups \cup r.binnedGroups :
                           t \in FromG(t.name).binnedGroups}]

(* apply_deleted_projection, in group_is_deleted                           *)
Hidden(c, at) == \E t \in c.binnedGroups : \E g \in t.groups : Inside(at, g)
Normalized(c) ==
  [c EXCEPT !.live = {x \in @ : ~Hidden(c, x.at) /\ \A y \in c.binned : y.id # x.id},
            !.groups = {g \in @ : ~Hidden(c, g)}]

Synchronize(d) ==
  \E keep \in SUBSET Sessions :
    LET merged == Normalized(Reconcile(local[d], base[d], remote, keep))
    IN  /\ local' = [local EXCEPT ![d] = merged]
        /\ base' = [base EXCEPT ![d] = merged]
        /\ remote' = merged
        /\ UNCHANGED <<made, edits>>

-----------------------------------------------------------------------------
EditTo(d, c) ==
  /\ local' = [local EXCEPT ![d] = c]
  /\ edits < MaxEdits /\ edits' = edits + 1
  /\ UNCHANGED <<base, remote>>

Parents(d) == {g \in local[d].groups : Len(g) < MaxDepth} \cup {<<>>}
Segment(name) == [name |-> name, suffix |-> 1]

(* submit_group, the actions of the connection manager and of the home     *)
(* page.                                                                   *)
EditConnections(d) ==
  \E at \in local[d].groups \cup {<<>>}, id \in Sessions :
    LET x == [id |-> id, at |-> at] IN
    \/ id \notin made /\ made' = made \cup {id} /\ EditTo(d, Upsert(local[d], id, at))
    \/ /\ \E y \in local[d].live : y.id = id
       /\ EditTo(d, Upsert(local[d], id, at)) /\ UNCHANGED made
    \/ x \in local[d].live /\ EditTo(d, SoftDeleteSession(local[d], x)) /\ UNCHANGED made
RestoreConnection(d) ==
  /\ \E x \in local[d].binned : EditTo(d, RestoreSession(local[d], x))
  /\ UNCHANGED made
EditGroups(d) ==
  /\ \/ \E parent \in Parents(d), name \in Names :
          EditTo(d, AddGroup(local[d], Append(parent, Segment(name))))
     \/ \E g \in local[d].groups :
          \/ \E name \in Names : EditTo(d, RenameGroup(local[d], g, [g EXCEPT ![Len(g)] = Segment(name)]))
          \/ \E parent \in Parents(d) : ~Inside(parent, g) /\ EditTo(d, MoveGroup(local[d], g, parent))
          \/ EditTo(d, Ungroup(local[d], g))
          \/ EditTo(d, SoftDeleteGroup(local[d], g))
     \/ \E t \in local[d].binnedGroups : EditTo(d, RestoreGroup(local[d], t))
  /\ UNCHANGED made

CtNext ==
  \E d \in Devices :
    EditConnections(d) \/ RestoreConnection(d) \/ EditGroups(d) \/ Synchronize(d)

CtSpec == CtInit /\ [][CtNext]_ctVars

-----------------------------------------------------------------------------
Holds(c, id) ==
  \/ \E x \in c.live \cup c.binned : x.id = id
  \/ \E t \in c.binnedGroups : \E x \in t.sessions : x.id = id

CtTypeOK ==
  \A d \in Devices :
    /\ \A x, y \in local[d].live : x.id = y.id => x = y
    /\ \A x, y \in local[d].binned : x.id = y.id => x = y
    /\ \A t, u \in local[d].binnedGroups : t.name = u.name => t = u
    /\ \A t \in local[d].binnedGroups : t.name \in t.groups
    /\ \A id \in Sessions : Holds(local[d], id) => id \in made

(* A group that is deleted and at once restored is back with all its       *)
(* groups and connections, and nothing else has changed but the bin, in    *)
(* whatever catalog renames, moves, deletions, restorations and            *)
(* synchronizations have left.                                             *)
RestoreUndoesDelete ==
  \A d \in Devices : \A g \in local[d].groups :
    LET gone == SoftDeleteGroup(local[d], g)
        bin  == CHOOSE t \in gone.binnedGroups : t.name = g
        back == RestoreGroup(gone, bin)
    IN  back.groups = local[d].groups /\ back.live = local[d].live

(* A connection in use that is deleted on this device goes to its bin, and *)
(* nothing but a deletion on another device takes it away else: not an     *)
(* edit of the groups, nor a synchronization, after any changes on any     *)
(* device.  Unless the user settles a conflict about it, or the bin has it *)
(* as well (a group was restored that held an older copy), or it is, here  *)
(* or on the remote, in a group of a name the bin has.                     *)
Conflicting(d, id) ==
  LET l == SessionIn(local[d], id)  b == SessionIn(base[d], id)  r == SessionIn(remote, id)
  IN  l # b /\ r # b /\ l # r
InUseNotLost ==
  [][\A d \in Devices : \A x \in local[d].live :
       ~SessionIn(local[d], x.id).gone /\ ~Holds(local'[d], x.id) =>
         \/ Conflicting(d, x.id)
         \/ ~SessionIn(base[d], x.id).gone /\ SessionIn(remote, x.id).gone
         \/ \E y \in local[d].live \cup remote.live :
              y.id = x.id /\ Hidden(local'[d], y.at)]_ctVars
=============================================================================
