---------------------------- MODULE SessionStore ----------------------------
(***************************************************************************)
(* The routing of backend events to windows (session/store.rs) as          *)
(* operators on a record: `routes` says which window owns a route,         *)
(* `pending` holds the events routed to each window, `unrouted` those of   *)
(* routes nobody has registered, `seen` the unrouted routes from the one   *)
(* seen longest ago to the last, and `tombstones` the routes that were     *)
(* removed, oldest first.  BackendEvents and TabTransfer build on it.      *)
(***************************************************************************)
EXTENDS Naturals, Sequences, SequencesExt, FiniteSets

CONSTANTS
  Routes,          \* identifiers of terminal tabs and SFTP groups
  Owners,          \* windows
  Nobody,          \* the owner of a route that is not registered
  MaxPending,      \* MAX_PENDING_EVENTS_PER_OWNER
  MaxChunks,       \* the byte limits of the queues, in chunks of output
  MaxUnrouted,     \* MAX_UNROUTED_EVENTS_PER_ROUTE
  MaxUnroutedAll,  \* MAX_UNROUTED_EVENTS
  MaxUnroutedRoutes,
  MaxTombstones,   \* MAX_ROUTE_TOMBSTONES
  MaxMerged        \* MAX_COALESCED_PENDING_OUTPUT_BYTES, in chunks

ASSUME StoreAssumption ==
  /\ Nobody \notin Owners
  /\ {MaxPending, MaxUnrouted, MaxUnroutedAll, MaxUnroutedRoutes, MaxTombstones} \subseteq Nat \ {0}

(* An event: its kind, route, connection generation and sequence number.   *)
(* `chunks` are the chunks of output it carries, each known by the         *)
(* generation and the number of the event that brought it; `title` says    *)
(* that one of them changes the title of the terminal.  "Exited" is a      *)
(* Closed event whose reason is a graceful exit; "Status" stands for every *)
(* event that is neither output nor reliable.                              *)
Kinds == {"Output", "Status", "Connected", "Closed", "Exited"}
Reliable(e) == e.kind \in {"Connected", "Closed", "Exited"}

\* The elements of a sequence that are in a set.  (SelectSeq as a fold: TLAPS
\* has no facts about SelectSeq.)
Those(q, S) == FoldLeft(LAMBDA acc, x : IF x \in S THEN Append(acc, x) ELSE acc, <<>>, q)

ChunksOf(q) == FoldLeft(LAMBDA n, e : n + Len(e.chunks), 0, q)

Joins(q, e, limit) ==
  /\ q # <<>>
  /\ LET last == q[Len(q)] IN
       /\ e.kind = "Output" /\ last.kind = "Output"
       /\ last.route = e.route
       /\ last.gen = e.gen
       /\ last.seq + 1 = e.seq
       /\ Len(last.chunks) + Len(e.chunks) <= limit

Merged(first, e) ==
  [first EXCEPT !.chunks = @ \o e.chunks, !.seq = e.seq, !.title = @ \/ e.title]

MergedLast(q, e) == [q EXCEPT ![Len(q)] = Merged(@, e)]

(* The queue after an event was offered to it; an ordinary event finds no  *)
(* room in a full queue, a reliable one takes the place of the oldest      *)
(* ordinary one.                                                           *)
PushBounded(q, e, maxEvents, maxChunks) ==
  LET ordinary == {i \in DOMAIN q : ~Reliable(q[i])}
      oldest   == CHOOSE i \in ordinary : \A j \in ordinary : i <= j
  IN  IF e.chunks # <<>> /\ ChunksOf(q) + Len(e.chunks) > maxChunks
      THEN q
      ELSE IF Joins(q, e, MaxMerged) THEN MergedLast(q, e)
      ELSE IF Len(q) < maxEvents THEN Append(q, e)
      ELSE IF Reliable(e) /\ ordinary # {} THEN Append(RemoveAt(q, oldest), e)
      ELSE q

PushPreserving(q, e) ==
  IF Joins(q, e, MaxMerged) THEN MergedLast(q, e) ELSE Append(q, e)

Pushed(q, es) ==
  FoldLeft(LAMBDA acc, e : PushBounded(acc, e, MaxPending, MaxChunks), q, es)

\* What a queue keeps when only the events of the routes rs may stay.
Kept(q, rs) ==
  FoldLeft(LAMBDA acc, e : IF e.route \in rs THEN PushPreserving(acc, e) ELSE acc, <<>>, q)

EmptyStore ==
  [routes     |-> [r \in Routes |-> Nobody],
   pending    |-> [w \in Owners |-> <<>>],
   unrouted   |-> [r \in Routes |-> <<>>],
   seen       |-> <<>>,
   tombstones |-> <<>>]

ForgetUnrouted(st, gone) ==
  [st EXCEPT !.unrouted = [r \in Routes |-> IF r \in gone THEN <<>> ELSE @[r]],
             !.seen = Those(@, Routes \ gone)]

(* UNROUTED_EVENT_TTL: a prefix of the unrouted routes, the ones seen      *)
(* longest ago, may be too old.                                            *)
Pruned(st, n) == ForgetUnrouted(st, {st.seen[i] : i \in 1..n})

RegisterRoute(st, r, w) ==
  ForgetUnrouted(
    [st EXCEPT !.tombstones = Those(@, Routes \ {r}),
               !.routes[r] = w,
               !.pending[w] = Pushed(@, st.unrouted[r])], {r})

\* A mutant of TrimTombstones: it does not.
TrimNothing(ts) == ts

TrimTombstones(ts) ==
  SubSeq(ts, 1 + (IF Len(ts) > MaxTombstones THEN Len(ts) - MaxTombstones ELSE 0), Len(ts))

\* A mutant of UnregisterRoute: what is pending stays.
UnregisterKeepingEvents(st, r, w) ==
  IF st.routes[r] # w THEN st
  ELSE [st EXCEPT !.routes[r] = Nobody,
                  !.tombstones = TrimTombstones(Append(Those(@, Routes \ {r}), r))]

UnregisterRoute(st, r, w) ==
  IF st.routes[r] # w THEN st
  ELSE ForgetUnrouted(
         [st EXCEPT !.routes[r] = Nobody,
                    !.tombstones = TrimTombstones(Append(Those(@, Routes \ {r}), r)),
                    !.pending = [o \in Owners |-> Kept(@[o], Routes \ {r})]], {r})

CanMoveRoutes(st, rs, source) == \A r \in rs : st.routes[r] = source

\* A mutant of MoveRoutes: what is pending is dropped.
MoveRoutesOnly(st, rs, source, target) ==
  [st EXCEPT !.routes = [r \in Routes |-> IF r \in rs THEN target ELSE @[r]],
             !.pending[source] = Kept(@, Routes \ rs)]

MoveRoutes(st, rs, source, target) ==
  LET stays == Kept(st.pending[source], Routes \ rs)
      moved == Kept(st.pending[source], rs)
      left  == [st.pending EXCEPT ![source] = stays]
  IN  [st EXCEPT !.routes = [r \in Routes |-> IF r \in rs THEN target ELSE @[r]],
                 !.pending = [left EXCEPT ![target] = Pushed(@, moved)]]

UnroutedCount(st)  == FoldLeft(LAMBDA n, r : n + Len(st.unrouted[r]), 0, st.seen)
UnroutedChunks(st) == FoldLeft(LAMBDA n, r : n + ChunksOf(st.unrouted[r]), 0, st.seen)

EvictOldest(st) == ForgetUnrouted(st, {st.seen[1]})

HasRoomFor(st, e) ==
  /\ UnroutedCount(st) < MaxUnroutedAll
  /\ e.chunks = <<>> \/ UnroutedChunks(st) + Len(e.chunks) <= MaxChunks
MakeRoom(st, e) ==
  LET enough == {n \in 0..Len(st.seen) : HasRoomFor(Pruned(st, n), e)} \cup {Len(st.seen)}
  IN  Pruned(st, CHOOSE n \in enough : \A k \in enough : n <= k)

EnqueueUnrouted(st, e) ==
  LET r     == e.route
      known == \E i \in DOMAIN st.seen : st.seen[i] = r
      fewer == IF ~known /\ Len(st.seen) >= MaxUnroutedRoutes THEN EvictOldest(st) ELSE st
      roomy == MakeRoom(fewer, e)
  IN  [roomy EXCEPT
         !.unrouted[r] = PushBounded(@, e, MaxUnrouted, MaxChunks),
         !.seen = Append(Those(@, Routes \ {r}), r)]

(* One event on its way out of the channel (drain_events_for).             *)
Routed(st, e) ==
  LET w == st.routes[e.route] IN
  IF w # Nobody
  THEN [st EXCEPT !.pending[w] = PushBounded(@, e, MaxPending, MaxChunks)]
  ELSE IF \E i \in DOMAIN st.tombstones : st.tombstones[i] = e.route THEN st
  ELSE EnqueueUnrouted(st, e)

(* No window has an event of a route that another one owns, or none: what  *)
(* a moved or closed tab had pending left with it.                         *)
EventsFollowRoutes(st) ==
  \A w \in Owners : \A i \in DOMAIN st.pending[w] :
    st.routes[st.pending[w][i].route] = w
=============================================================================
