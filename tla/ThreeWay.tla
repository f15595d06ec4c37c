------------------------------ MODULE ThreeWay ------------------------------
(***************************************************************************)
(* The comparison of one configuration against another, entity by entity,  *)
(* as src/sync/reconcile.rs and src/sync/merge.rs do it.  An entity is a   *)
(* connection, key, group, command category or command under its stable    *)
(* identifier; its content is one of a few values, because the merge only  *)
(* ever asks whether two contents are equal.  Deleted is a tombstone,      *)
(* Missing the absence of both the entity and a tombstone for it.          *)
(***************************************************************************)
CONSTANTS
  Entity,   \* stable identifiers
  Value,    \* contents of an active entity
  Deleted,  \* a tombstone
  Missing   \* nothing known of the entity

ASSUME SnapshotAssumption ==
  /\ Deleted # Missing
  /\ Deleted \notin Value
  /\ Missing \notin Value

Snapshot == Value \cup {Deleted, Missing}

\* EntityCatalog: what one configuration says of every entity.
Catalog == [Entity -> Snapshot]

EmptyCatalog == [e \in Entity |-> Missing]

\* EntitySnapshot::same_content: a tombstone and an absence are the same.
SameContent(a, b) == a = b \/ (a \notin Value /\ b \notin Value)

\* A mutant of Selected: the sides are swapped.
SelectedSwapped(base, local, remote) ==
  IF SameContent(remote, base) THEN remote ELSE local

\* The rule reconcile_three_way applies to each entity.  In a conflict the
\* local side stands in until the user decides.
Selected(base, local, remote) ==
  IF SameContent(local, base) THEN remote ELSE local

IsConflict(base, local, remote) ==
  /\ ~SameContent(local, base)
  /\ ~SameContent(remote, base)
  /\ ~SameContent(local, remote)

Reconciled(base, local, remote) ==
  [e \in Entity |-> Selected(base[e], local[e], remote[e])]

Conflicts(base, local, remote) ==
  {e \in Entity : IsConflict(base[e], local[e], remote[e])}

\* merge_projected_payload on a connection, when there is no baseline: a
\* tombstone of either side wins, a side that knows nothing yields, and two
\* active versions are settled by the preference of the caller.
Preferred(preference, local, remote) ==
  CASE Deleted \in {local, remote} -> Deleted
    [] Missing = local -> remote
    [] Missing = remote -> local
    [] OTHER -> IF preference = "Local" THEN local ELSE remote

Merged(preference, local, remote) ==
  [e \in Entity |-> Preferred(preference, local[e], remote[e])]
=============================================================================
