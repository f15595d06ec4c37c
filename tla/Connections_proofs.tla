------------------------- MODULE Connections_proofs -------------------------
(***************************************************************************)
(* The saved connections and their groups: what a deletion takes it can    *)
(* give back, and no edit or synchronization loses a connection in use.    *)
(*                                                                         *)
(* Both rest on the shape of a configuration (Configs): paths are          *)
(* sequences, and in each part of it there is one entry for an identifier  *)
(* or a name.  A lemma per operation of the configuration shows that it    *)
(* keeps the shape, and what it holds on to.                               *)
(***************************************************************************)
EXTENDS ConnectionCatalog, FiniteSetTheorems, SequenceTheorems, TLAPS

Segments    == [name : Names, suffix : Nat]
GroupPlaces == Seq(Segments)
Paths       == GroupPlaces \ {<<>>}
Saved       == [id : Sessions, at : GroupPlaces]
Bins        == [name : Paths, groups : SUBSET Paths, sessions : SUBSET Saved]

OneEach(S) == \A x, y \in S : x.id = y.id => x = y
OneName(T) == \A t, u \in T : t.name = u.name => t = u

Configs ==
  {c \in [groups : SUBSET Paths, live : SUBSET Saved, binned : SUBSET Saved,
          binnedGroups : SUBSET Bins] :
     /\ IsFiniteSet(c.groups)
     /\ OneEach(c.live) /\ OneEach(c.binned) /\ OneName(c.binnedGroups)
     /\ \A t \in c.binnedGroups :
          t.name \in t.groups /\ IsFiniteSet(t.groups) /\ OneEach(t.sessions)}
-----------------------------------------------------------------------------
(* Paths.                                                                  *)

\* The length of a path, and its segments.
LEMMA PlaceFacts ==
  ASSUME NEW p \in GroupPlaces
  PROVE  /\ Len(p) \in Nat
         /\ \A i \in 1..Len(p) : p[i] \in Segments
         /\ p \in Paths => Len(p) \in 1..Len(p)
BY EmptySeq, LenProperties, ElementOfSeq DEF GroupPlaces, Paths

\* A group is inside itself.
LEMMA InsideItself ==
  ASSUME NEW p \in GroupPlaces
  PROVE  Inside(p, p)
BY PlaceFacts DEF Inside, IsPrefix

\* To rebase a path from a group to the same group changes nothing.
LEMMA RebasedHome ==
  ASSUME NEW p \in GroupPlaces, NEW g \in GroupPlaces
  PROVE  Rebased(p, g, g) = p
<1> SUFFICES ASSUME Inside(p, g) PROVE g \o SubSeq(p, Len(g) + 1, Len(p)) = p
  BY DEF Rebased
<1>1. Len(g) <= Len(p) /\ SubSeq(g, 1, Len(g)) = SubSeq(p, 1, Len(g))
  BY DEF Inside, IsPrefix
<1>2. SubSeq(g, 1, Len(g)) = g /\ SubSeq(p, 1, Len(p)) = p
  BY SubSeqFull DEF GroupPlaces
<1>3. /\ Len(g) \in (1 - 1)..Len(p) /\ Len(p) \in Len(g)..Len(p)
      /\ 1 \in 1..(Len(p) + 1) /\ p \in Seq(Segments)
  BY <1>1, PlaceFacts DEF GroupPlaces
<1>4. SubSeq(p, 1, Len(g)) \o SubSeq(p, Len(g) + 1, Len(p)) = SubSeq(p, 1, Len(p))
  BY ONLY <1>3, ConcatAdjacentSubSeq
<1> QED
  BY <1>1, <1>2, <1>4

\* A rebased path is one, and a path to a group stays one.
LEMMA RebasedPlace ==
  ASSUME NEW p \in GroupPlaces, NEW old \in GroupPlaces, NEW new \in GroupPlaces
  PROVE  /\ Rebased(p, old, new) \in GroupPlaces
         /\ p \in Paths /\ new \in Paths => Rebased(p, old, new) \in Paths
<1>1. CASE Inside(p, old)
  <2> DEFINE rest == SubSeq(p, Len(old) + 1, Len(p))
  <2>1. Len(old) \in Nat /\ Len(p) \in Nat
    BY PlaceFacts
  <2>2. \A i \in Len(old) + 1 .. Len(p) : p[i] \in Segments
    BY <2>1, PlaceFacts
  <2>3. rest \in Seq(Segments)
    BY <2>1, <2>2, SubSeqProperties
  <2>4. Rebased(p, old, new) = new \o rest
    BY <1>1 DEF Rebased
  <2> HIDE DEF rest
  <2>5. new \o rest \in Seq(Segments) /\ (new \o rest = <<>> => new = <<>>)
    BY <2>3, ConcatProperties, ConcatEqualIffEmpty DEF GroupPlaces
  <2> QED
    BY <2>4, <2>5 DEF GroupPlaces, Paths
<1>2. CASE ~Inside(p, old)
  BY <1>2 DEF Rebased
<1> QED
  BY <1>1, <1>2

\* A path with another last segment is one.
LEMMA LastSegment ==
  ASSUME NEW p \in Paths, NEW s \in Segments
  PROVE  /\ [p EXCEPT ![Len(p)] = s] \in Paths
         /\ [p EXCEPT ![Len(p)] = s][Len(p)] = s
<1>1. p \in GroupPlaces /\ p \in Seq(Segments) /\ Len(p) \in 1..Len(p)
  BY PlaceFacts DEF Paths, GroupPlaces
<1>2. /\ [p EXCEPT ![Len(p)] = s] \in Seq(Segments)
      /\ Len([p EXCEPT ![Len(p)] = s]) = Len(p)
      /\ [p EXCEPT ![Len(p)] = s][Len(p)] = s
  BY <1>1, ExceptSeq
<1> QED
  BY <1>1, <1>2, EmptySeq DEF GroupPlaces, Paths

\* So is one with another suffix, and different suffixes give different paths.
LEMMA SuffixedPath ==
  ASSUME NEW p \in Paths, NEW n \in Nat
  PROVE  /\ Suffixed(p, n) \in Paths
         /\ \A k \in Nat : Suffixed(p, n) = Suffixed(p, k) => n = k
<1>1. p[Len(p)] \in Segments
  BY PlaceFacts DEF Paths
<1>2. ASSUME NEW k \in Nat
      PROVE  Suffixed(p, k) \in Paths /\ Suffixed(p, k)[Len(p)].suffix = k
  <2> DEFINE s == [p[Len(p)] EXCEPT !.suffix = k]
  <2>1. s \in Segments /\ s.suffix = k
    BY <1>1 DEF Segments
  <2>2. Suffixed(p, k) = [p EXCEPT ![Len(p)] = s]
    BY DEF Suffixed
  <2> HIDE DEF s
  <2> QED
    BY <2>1, <2>2, LastSegment
<1> QED
  BY <1>2

\* A path longer by a segment is one.
LEMMA AppendedPath ==
  ASSUME NEW p \in GroupPlaces, NEW s \in Segments
  PROVE  Append(p, s) \in Paths
BY AppendProperties DEF GroupPlaces, Paths

\* Among natural numbers there is a least one.
LEMMA LeastNumber ==
  ASSUME NEW T \in SUBSET Nat, T # {}
  PROVE  \E x \in T : \A y \in T : x <= y
<1> DEFINE R == OpToRel(<, Nat)
<1>1. IsWellFoundedOn(R, Nat)
  BY NatLessThanWellFounded
<1>2. \A x, y \in Nat : <<y, x>> \in R <=> y < x
  BY DEF OpToRel
<1> HIDE DEF R
<1>3. PICK x \in T : \A y \in T : ~(<<y, x>> \in R)
  BY <1>1, WFMin
<1>4. ASSUME NEW y \in T PROVE x <= y
  <2>1. x \in Nat /\ y \in Nat
    OBVIOUS
  <2>2. ~(y < x)
    BY <1>2, <1>3, <2>1
  <2> QED
    BY <2>1, <2>2
<1> QED
  BY <1>4

\* unique_group_name: the suffix chosen gives a group that is not there yet,
\* since there are more suffixes to choose from than there are groups.
LEMMA UniqueIsNew ==
  ASSUME NEW c \in Configs, NEW path \in Paths
  PROVE  UniqueGroup(c, path) \in Paths \ c.groups
<1> DEFINE n == Cardinality(c.groups)
           tried == 2..(n + 2)
           free == {k \in tried : Suffixed(path, k) \notin c.groups}
<1>1. IsFiniteSet(c.groups) /\ n \in Nat
  BY FS_CardinalityType DEF Configs
<1>2. CASE path \notin c.groups
  BY <1>2 DEF UniqueGroup
<1>3. CASE path \in c.groups
  <2>1. free # {}
    <3> SUFFICES ASSUME free = {} PROVE FALSE
      OBVIOUS
    <3> DEFINE f == [k \in tried |-> Suffixed(path, k)]
    <3> HIDE DEF n
    <3>1. f \in [tried -> c.groups]
      OBVIOUS
    <3>2. IsFiniteSet(tried) /\ Cardinality(tried) = n + 1
      BY <1>1, FS_Interval
    <3>3. PICK j \in tried, k \in tried : j # k /\ f[j] = f[k]
      <4> HIDE DEF f, tried
      <4>1. n < Cardinality(tried)
        BY <1>1, <3>2
      <4> QED
        BY <1>1, <3>1, <3>2, <4>1, FS_PigeonHole DEF n
    <3>4. j \in Nat /\ k \in Nat /\ Suffixed(path, j) = Suffixed(path, k)
      BY <1>1, <3>3
    <3> QED
      BY <3>3, <3>4, SuffixedPath
  <2> HIDE DEF n
  <2>2. free \subseteq Nat
    BY <1>1
  <2> HIDE DEF free
  <2>3. PICK k \in free : \A j \in free : k <= j
    BY <2>1, <2>2, LeastNumber
  <2> DEFINE best == CHOOSE m \in free : \A j \in free : m <= j
  <2>4. best \in free
    BY <2>3
  <2>5. UniqueGroup(c, path) = Suffixed(path, best)
    BY <1>3 DEF UniqueGroup, free, n
  <2> HIDE DEF best
  <2> QED
    BY <2>2, <2>4, <2>5, SuffixedPath DEF free
<1> QED
  BY <1>2, <1>3
-----------------------------------------------------------------------------
(* The shape of a configuration.                                           *)

\* A set that is the image of a finite one is finite.
LEMMA FiniteImage ==
  ASSUME NEW S, IsFiniteSet(S), NEW T, NEW f \in [S -> T],
         \A y \in T : \E x \in S : f[x] = y
  PROVE  IsFiniteSet(T)
<1>1. f \in Surjection(S, T)
  BY DEF Surjection
<1> QED
  BY <1>1, FS_Surjection

\* The parts of a configuration.
LEMMA ConfigParts ==
  ASSUME NEW c \in Configs
  PROVE  /\ c.groups \in SUBSET Paths /\ IsFiniteSet(c.groups)
         /\ c.live \in SUBSET Saved /\ OneEach(c.live)
         /\ c.binned \in SUBSET Saved /\ OneEach(c.binned)
         /\ c.binnedGroups \in SUBSET Bins /\ OneName(c.binnedGroups)
         /\ \A t \in c.binnedGroups :
              t.name \in t.groups /\ IsFiniteSet(t.groups) /\ OneEach(t.sessions)
         /\ c = [groups |-> c.groups, live |-> c.live, binned |-> c.binned,
                 binnedGroups |-> c.binnedGroups]
BY DEF Configs

\* Such parts make a configuration.
LEMMA PartsConfig ==
  ASSUME NEW g \in SUBSET Paths, IsFiniteSet(g),
         NEW l \in SUBSET Saved, OneEach(l),
         NEW b \in SUBSET Saved, OneEach(b),
         NEW t \in SUBSET Bins, OneName(t),
         \A u \in t : u.name \in u.groups /\ IsFiniteSet(u.groups) /\ OneEach(u.sessions)
  PROVE  [groups |-> g, live |-> l, binned |-> b, binnedGroups |-> t] \in Configs
BY DEF Configs

\* A configuration with other parts.
LEMMA OtherParts ==
  ASSUME NEW c \in Configs, NEW g, NEW l, NEW b, NEW t
  PROVE  /\ [c EXCEPT !.groups = g] =
              [groups |-> g, live |-> c.live, binned |-> c.binned, binnedGroups |-> c.binnedGroups]
         /\ [c EXCEPT !.live = l] =
              [groups |-> c.groups, live |-> l, binned |-> c.binned, binnedGroups |-> c.binnedGroups]
         /\ [c EXCEPT !.groups = g, !.live = l] =
              [groups |-> g, live |-> l, binned |-> c.binned, binnedGroups |-> c.binnedGroups]
         /\ [c EXCEPT !.live = l, !.groups = g] =
              [groups |-> g, live |-> l, binned |-> c.binned, binnedGroups |-> c.binnedGroups]
         /\ [c EXCEPT !.binned = b] =
              [groups |-> c.groups, live |-> c.live, binned |-> b, binnedGroups |-> c.binnedGroups]
         /\ [c EXCEPT !.live = l, !.binned = b] =
              [groups |-> c.groups, live |-> l, binned |-> b, binnedGroups |-> c.binnedGroups]
         /\ [c EXCEPT !.groups = g, !.live = l, !.binnedGroups = t] =
              [groups |-> g, live |-> l, binned |-> c.binned, binnedGroups |-> t]
         /\ [c EXCEPT !.binnedGroups = t, !.groups = g, !.live = l] =
              [groups |-> g, live |-> l, binned |-> c.binned, binnedGroups |-> t]
<1>1. c = [groups |-> c.groups, live |-> c.live, binned |-> c.binned,
           binnedGroups |-> c.binnedGroups]
  BY ConfigParts
<1>2. [c EXCEPT !.groups = g] =
       [groups |-> g, live |-> c.live, binned |-> c.binned, binnedGroups |-> c.binnedGroups]
  BY <1>1
<1>3. [c EXCEPT !.live = l] =
       [groups |-> c.groups, live |-> l, binned |-> c.binned, binnedGroups |-> c.binnedGroups]
  BY <1>1
<1>4. [c EXCEPT !.groups = g, !.live = l] =
       [groups |-> g, live |-> l, binned |-> c.binned, binnedGroups |-> c.binnedGroups]
  <2> DEFINE d == [c EXCEPT !.groups = g]
  <2>1. PICK e : e = [c EXCEPT !.groups = g, !.live = l]
    OBVIOUS
  <2>2. d = [groups |-> g, live |-> c.live, binned |-> c.binned, binnedGroups |-> c.binnedGroups]
    BY <1>1
  <2>3. e = [d EXCEPT !.live = l]
    BY <2>1
  <2> HIDE DEF d
  <2>4. [d EXCEPT !.live = l] = [groups |-> d.groups, live |-> l, binned |-> d.binned, binnedGroups |-> d.binnedGroups]
    BY <2>2
  <2>5. e = [groups |-> g, live |-> l, binned |-> c.binned, binnedGroups |-> c.binnedGroups]
    BY <2>2, <2>3, <2>4
  <2> QED
    BY <2>1, <2>5
<1>5. [c EXCEPT !.live = l, !.groups = g] =
       [groups |-> g, live |-> l, binned |-> c.binned, binnedGroups |-> c.binnedGroups]
  <2> DEFINE d == [c EXCEPT !.live = l]
  <2>1. PICK e : e = [c EXCEPT !.live = l, !.groups = g]
    OBVIOUS
  <2>2. d = [groups |-> c.groups, live |-> l, binned |-> c.binned, binnedGroups |-> c.binnedGroups]
    BY <1>1
  <2>3. e = [d EXCEPT !.groups = g]
    BY <2>1
  <2> HIDE DEF d
  <2>4. [d EXCEPT !.groups = g] = [groups |-> g, live |-> d.live, binned |-> d.binned, binnedGroups |-> d.binnedGroups]
    BY <2>2
  <2>5. e = [groups |-> g, live |-> l, binned |-> c.binned, binnedGroups |-> c.binnedGroups]
    BY <2>2, <2>3, <2>4
  <2> QED
    BY <2>1, <2>5
<1>6. [c EXCEPT !.binned = b] =
       [groups |-> c.groups, live |-> c.live, binned |-> b, binnedGroups |-> c.binnedGroups]
  BY <1>1
<1>7. [c EXCEPT !.live = l, !.binned = b] =
       [groups |-> c.groups, live |-> l, binned |-> b, binnedGroups |-> c.binnedGroups]
  <2> DEFINE d == [c EXCEPT !.live = l]
  <2>1. PICK e : e = [c EXCEPT !.live = l, !.binned = b]
    OBVIOUS
  <2>2. d = [groups |-> c.groups, live |-> l, binned |-> c.binned, binnedGroups |-> c.binnedGroups]
    BY <1>1
  <2>3. e = [d EXCEPT !.binned = b]
    BY <2>1
  <2> HIDE DEF d
  <2>4. [d EXCEPT !.binned = b] = [groups |-> d.groups, live |-> d.live, binned |-> b, binnedGroups |-> d.binnedGroups]
    BY <2>2
  <2>5. e = [groups |-> c.groups, live |-> l, binned |-> b, binnedGroups |-> c.binnedGroups]
    BY <2>2, <2>3, <2>4
  <2> QED
    BY <2>1, <2>5
<1>8. [c EXCEPT !.groups = g, !.live = l, !.binnedGroups = t] =
       [groups |-> g, live |-> l, binned |-> c.binned, binnedGroups |-> t]
  <2> DEFINE d == [c EXCEPT !.groups = g]
             f == [d EXCEPT !.live = l]
  <2>1. PICK e : e = [c EXCEPT !.groups = g, !.live = l, !.binnedGroups = t]
    OBVIOUS
  <2>2. d = [groups |-> g, live |-> c.live, binned |-> c.binned, binnedGroups |-> c.binnedGroups]
    BY <1>1
  <2>3. e = [f EXCEPT !.binnedGroups = t]
    BY <2>1
  <2> HIDE DEF d
  <2>4. f = [groups |-> d.groups, live |-> l, binned |-> d.binned, binnedGroups |-> d.binnedGroups]
    BY <2>2
  <2> HIDE DEF f
  <2>5. [f EXCEPT !.binnedGroups = t] = [groups |-> f.groups, live |-> f.live, binned |-> f.binned, binnedGroups |-> t]
    BY <2>4
  <2>6. e = [groups |-> g, live |-> l, binned |-> c.binned, binnedGroups |-> t]
    BY <2>2, <2>3, <2>4, <2>5
  <2> QED
    BY <2>1, <2>6
<1>9. [c EXCEPT !.binnedGroups = t, !.groups = g, !.live = l] =
       [groups |-> g, live |-> l, binned |-> c.binned, binnedGroups |-> t]
  <2> DEFINE d == [c EXCEPT !.binnedGroups = t]
             f == [d EXCEPT !.groups = g]
  <2>1. PICK e : e = [c EXCEPT !.binnedGroups = t, !.groups = g, !.live = l]
    OBVIOUS
  <2>2. d = [groups |-> c.groups, live |-> c.live, binned |-> c.binned, binnedGroups |-> t]
    BY <1>1
  <2>3. e = [f EXCEPT !.live = l]
    BY <2>1
  <2> HIDE DEF d
  <2>4. f = [groups |-> g, live |-> d.live, binned |-> d.binned, binnedGroups |-> d.binnedGroups]
    BY <2>2
  <2> HIDE DEF f
  <2>5. [f EXCEPT !.live = l] = [groups |-> f.groups, live |-> l, binned |-> f.binned, binnedGroups |-> f.binnedGroups]
    BY <2>4
  <2>6. e = [groups |-> g, live |-> l, binned |-> c.binned, binnedGroups |-> t]
    BY <2>2, <2>3, <2>4, <2>5
  <2> QED
    BY <2>1, <2>6
<1> QED
  BY <1>2, <1>3, <1>4, <1>5, <1>6, <1>7, <1>8, <1>9

\* What an operation on the connections of a device does not do: lose one in
\* use, or find one that was not there.
Keeps(c, n) ==
  /\ \A x \in c.live : Holds(n, x.id)
  /\ \A id \in Sessions : Holds(n, id) => Holds(c, id)

\* A new group.
LEMMA AddGroupConfig ==
  ASSUME NEW c \in Configs, NEW path \in Paths
  PROVE  AddGroup(c, path) \in Configs /\ Keeps(c, AddGroup(c, path))
<1> DEFINE g == c.groups \cup {path}
<1>1. AddGroup(c, path) = [c EXCEPT !.groups = g]
  BY DEF AddGroup
<1>2. g \in SUBSET Paths /\ IsFiniteSet(g)
  BY ConfigParts, FS_AddElement
<1> HIDE DEF g
<1>3. AddGroup(c, path) = [groups |-> g, live |-> c.live, binned |-> c.binned,
                           binnedGroups |-> c.binnedGroups]
  BY <1>1, OtherParts
<1>4. AddGroup(c, path) \in Configs
  BY <1>2, <1>3, ConfigParts, PartsConfig
<1>5. Keeps(c, AddGroup(c, path))
  BY <1>3 DEF Keeps, Holds
<1> QED
  BY <1>4, <1>5

\* A connection that is saved anew, or in another group.
LEMMA UpsertConfig ==
  ASSUME NEW c \in Configs, NEW id \in Sessions, NEW at \in GroupPlaces
  PROVE  LET n == Upsert(c, id, at)
         IN  /\ n \in Configs
             /\ \A x \in c.live : Holds(n, x.id)
             /\ \A k \in Sessions : Holds(n, k) => k = id \/ Holds(c, k)
<1> DEFINE new == [id |-> id, at |-> at]
           l == {x \in c.live : x.id # id} \cup {new}
           n == Upsert(c, id, at)
<1>1. n = [c EXCEPT !.live = l]
  BY DEF Upsert
<1>2. new \in Saved /\ new.id = id
  BY DEF Saved
<1>3. \A x \in l : x = new \/ (x \in c.live /\ x.id # id)
  OBVIOUS
<1>4. \A x \in c.live : x.id = id \/ x \in l
  OBVIOUS
<1>5. new \in l
  OBVIOUS
<1> HIDE DEF new, l, n
<1>6. n = [groups |-> c.groups, live |-> l, binned |-> c.binned, binnedGroups |-> c.binnedGroups]
  BY <1>1, OtherParts
<1>7. l \in SUBSET Saved
  BY <1>2, <1>3, ConfigParts
<1>8. OneEach(l)
  BY <1>2, <1>3, ConfigParts DEF OneEach
<1>9. n \in Configs
  BY <1>6, <1>7, <1>8, ConfigParts, PartsConfig
<1>10. \A x \in c.live : Holds(n, x.id)
  BY <1>2, <1>4, <1>5, <1>6 DEF Holds
<1>11. \A k \in Sessions : Holds(n, k) => k = id \/ Holds(c, k)
  BY <1>2, <1>3, <1>6 DEF Holds
<1> QED
  BY <1>9, <1>10, <1>11 DEF n

\* A connection in another group.
LEMMA Relocated ==
  ASSUME NEW x \in Saved, NEW at \in GroupPlaces
  PROVE  [x EXCEPT !.at = at] \in Saved /\ [x EXCEPT !.at = at].id = x.id
BY DEF Saved

\* A group renamed, with all that is in it.
LEMMA RenameConfig ==
  ASSUME NEW c \in Configs, NEW old \in Paths, NEW new \in Paths
  PROVE  RenameGroup(c, old, new) \in Configs /\ Keeps(c, RenameGroup(c, old, new))
<1> DEFINE n == RenameGroup(c, old, new)
           g == {Rebased(p, old, new) : p \in c.groups}
           l == {[x EXCEPT !.at = Rebased(@, old, new)] : x \in c.live}
<1>1. CASE new \in c.groups
  BY <1>1 DEF RenameGroup, Keeps, Holds
<1>2. CASE new \notin c.groups
  <2>1. n = [groups |-> g, live |-> l, binned |-> c.binned, binnedGroups |-> c.binnedGroups]
    <3>1. n = [c EXCEPT !.groups = g, !.live = l]
      BY <1>2 DEF RenameGroup
    <3> HIDE DEF n, g, l
    <3> QED
      BY <3>1, OtherParts
  <2>2. old \in GroupPlaces /\ new \in GroupPlaces /\ c.groups \in SUBSET GroupPlaces
    BY ConfigParts DEF Paths
  <2>3. g \in SUBSET Paths
    BY <2>2, RebasedPlace, ConfigParts
  <2>4. IsFiniteSet(g)
    <3> DEFINE f == [p \in c.groups |-> Rebased(p, old, new)]
    <3>1. f \in [c.groups -> g] /\ \A y \in g : \E p \in c.groups : f[p] = y
      OBVIOUS
    <3> HIDE DEF f, g
    <3> QED
      BY <3>1, ConfigParts, FiniteImage
  <2>5. \A y \in l : \E x \in c.live : y = [x EXCEPT !.at = Rebased(x.at, old, new)]
    OBVIOUS
  <2>6. \A x \in c.live : [x EXCEPT !.at = Rebased(x.at, old, new)] \in l
    OBVIOUS
  <2>7. \A x \in c.live : x \in Saved /\ x.at \in GroupPlaces /\ Rebased(x.at, old, new) \in GroupPlaces
    BY <2>2, ConfigParts, RebasedPlace DEF Saved
  <2> HIDE DEF g, l, n
  <2>8. \A y \in l : \E x \in c.live : /\ y = [x EXCEPT !.at = Rebased(x.at, old, new)]
                                       /\ y \in Saved /\ y.id = x.id
    <3> TAKE y \in l
    <3>1. PICK x \in c.live : y = [x EXCEPT !.at = Rebased(x.at, old, new)]
      BY <2>5
    <3>2. y \in Saved /\ y.id = x.id
      BY <2>7, <3>1, Relocated
    <3> QED
      BY <3>1, <3>2
  <2>9. \A x \in c.live : \E y \in l : y.id = x.id
    BY <2>6, <2>7, Relocated
  <2>10. OneEach(l)
    <3> SUFFICES ASSUME NEW y \in l, NEW z \in l, y.id = z.id PROVE y = z
      BY DEF OneEach
    <3>1. PICK x \in c.live : y = [x EXCEPT !.at = Rebased(x.at, old, new)] /\ y.id = x.id
      BY <2>8
    <3>2. PICK v \in c.live : z = [v EXCEPT !.at = Rebased(v.at, old, new)] /\ z.id = v.id
      BY <2>8
    <3>3. x = v
      BY <3>1, <3>2, ConfigParts DEF OneEach
    <3> QED
      BY <3>1, <3>2, <3>3
  <2>11. n \in Configs
    <3>1. l \in SUBSET Saved
      BY <2>8
    <3> QED
      BY <2>1, <2>3, <2>4, <2>10, <3>1, ConfigParts, PartsConfig
  <2>12. Keeps(c, n)
    BY <2>1, <2>8, <2>9 DEF Keeps, Holds
  <2> QED
    BY <2>11, <2>12 DEF n
<1> QED
  BY <1>1, <1>2

\* A group moved into another one.
LEMMA MoveConfig ==
  ASSUME NEW c \in Configs, NEW g \in Paths, NEW parent \in GroupPlaces
  PROVE  MoveGroup(c, g, parent) \in Configs /\ Keeps(c, MoveGroup(c, g, parent))
<1> DEFINE requested == Append(parent, g[Len(g)])
<1>1. g[Len(g)] \in Segments
  BY PlaceFacts DEF Paths
<1>2. requested \in Paths
  BY <1>1, AppendedPath
<1> HIDE DEF requested
<1>3. UniqueGroup(c, requested) \in Paths
  BY <1>2, UniqueIsNew
<1>4. \/ MoveGroup(c, g, parent) = c
      \/ MoveGroup(c, g, parent) = RenameGroup(c, g, UniqueGroup(c, requested))
  BY DEF MoveGroup, requested
<1>5. Keeps(c, c)
  BY DEF Keeps, Holds
<1> QED
  BY <1>3, <1>4, <1>5, RenameConfig

\* A group dissolved: its connections stay, outside of any group.
LEMMA UngroupConfig ==
  ASSUME NEW c \in Configs, NEW g \in Paths
  PROVE  Ungroup(c, g) \in Configs /\ Keeps(c, Ungroup(c, g))
<1> DEFINE n == Ungroup(c, g)
           left == {x \in c.groups : ~Inside(x, g)}
           Out(x) == IF Inside(x.at, g) THEN [x EXCEPT !.at = <<>>] ELSE x
           l == {Out(x) : x \in c.live}
<1>1. n = [groups |-> left, live |-> l, binned |-> c.binned, binnedGroups |-> c.binnedGroups]
  <2>1. n = [c EXCEPT !.groups = left, !.live = l]
    BY DEF Ungroup
  <2> HIDE DEF n, left, l
  <2> QED
    BY <2>1, OtherParts
<1>2. left \in SUBSET Paths /\ IsFiniteSet(left)
  BY ConfigParts, FS_Subset
<1>3. \A x \in c.live : Out(x) \in Saved /\ Out(x).id = x.id
  <2> TAKE x \in c.live
  <2>1. x \in Saved /\ <<>> \in GroupPlaces
    BY ConfigParts, EmptySeq DEF GroupPlaces
  <2> QED
    BY <2>1, Relocated
<1>4. (\A y \in l : \E x \in c.live : y = Out(x)) /\ (\A x \in c.live : Out(x) \in l)
  OBVIOUS
<1> HIDE DEF n, left, l, Out
<1>5. l \in SUBSET Saved /\ OneEach(l)
  BY <1>3, <1>4, ConfigParts DEF OneEach
<1>6. n \in Configs
  BY <1>1, <1>2, <1>5, ConfigParts, PartsConfig
<1>7. Keeps(c, n)
  BY <1>1, <1>3, <1>4 DEF Keeps, Holds
<1> QED
  BY <1>6, <1>7 DEF n

\* A connection put into the bin.
LEMMA BinSessionConfig ==
  ASSUME NEW c \in Configs, NEW x \in c.live
  PROVE  SoftDeleteSession(c, x) \in Configs /\ Keeps(c, SoftDeleteSession(c, x))
<1> DEFINE n == SoftDeleteSession(c, x)
           l == c.live \ {x}
           b == {y \in c.binned : y.id # x.id} \cup {x}
<1>1. n = [groups |-> c.groups, live |-> l, binned |-> b, binnedGroups |-> c.binnedGroups]
  <2>1. n = [c EXCEPT !.live = l, !.binned = b]
    BY DEF SoftDeleteSession
  <2> HIDE DEF n, l, b
  <2> QED
    BY <2>1, OtherParts
<1>2. /\ \A y \in b : y = x \/ (y \in c.binned /\ y.id # x.id)
      /\ \A y \in c.binned : y.id # x.id => y \in b
      /\ x \in b
  OBVIOUS
<1>3. l \subseteq c.live /\ \A y \in c.live : y = x \/ y \in l
  OBVIOUS
<1> HIDE DEF n, l, b
<1>4. l \in SUBSET Saved /\ OneEach(l) /\ b \in SUBSET Saved /\ OneEach(b)
  BY <1>2, <1>3, ConfigParts DEF OneEach
<1>5. n \in Configs
  BY <1>1, <1>4, ConfigParts, PartsConfig
<1>6. Keeps(c, n)
  BY <1>1, <1>2, <1>3 DEF Keeps, Holds
<1> QED
  BY <1>5, <1>6 DEF n

\* What a group takes into the bin.
BinOf(c, g) ==
  [name |-> g, groups |-> {x \in c.groups : Inside(x, g)}, sessions |-> InGroup(c, g)]

\* A group put into the bin.
LEMMA BinGroupParts ==
  ASSUME NEW c \in Configs, NEW g \in c.groups
  PROVE  /\ SoftDeleteGroup(c, g)
              = [groups |-> {x \in c.groups : ~Inside(x, g)}, live |-> c.live \ InGroup(c, g),
                 binned |-> c.binned,
                 binnedGroups |-> {t \in c.binnedGroups : t.name # g} \cup {BinOf(c, g)}]
         /\ BinOf(c, g) \in Bins /\ BinOf(c, g).name = g /\ g \in BinOf(c, g).groups
         /\ IsFiniteSet(BinOf(c, g).groups) /\ OneEach(BinOf(c, g).sessions)
<1> DEFINE left == {x \in c.groups : ~Inside(x, g)}
           l == c.live \ InGroup(c, g)
           t == {u \in c.binnedGroups : u.name # g} \cup {BinOf(c, g)}
           inside == {x \in c.groups : Inside(x, g)}
<1>1. SoftDeleteGroup(c, g) = [c EXCEPT !.groups = left, !.live = l, !.binnedGroups = t]
  BY DEF SoftDeleteGroup, BinOf
<1>2. g \in Paths /\ g \in GroupPlaces
  BY ConfigParts DEF Paths
<1>3. inside \in SUBSET Paths /\ IsFiniteSet(inside) /\ g \in inside
  BY <1>2, ConfigParts, FS_Subset, InsideItself
<1>4. InGroup(c, g) \subseteq c.live
  BY DEF InGroup
<1>5. InGroup(c, g) \in SUBSET Saved /\ OneEach(InGroup(c, g))
  BY <1>4, ConfigParts DEF OneEach
<1>6. /\ BinOf(c, g).name = g /\ BinOf(c, g).groups = inside
      /\ BinOf(c, g).sessions = InGroup(c, g)
  BY DEF BinOf
<1>7. BinOf(c, g) \in Bins
  <2> HIDE DEF inside
  <2>1. BinOf(c, g) = [name |-> g, groups |-> inside, sessions |-> InGroup(c, g)]
    BY DEF BinOf, inside
  <2> QED
    BY <1>2, <1>3, <1>5, <2>1 DEF Bins
<1> HIDE DEF left, l, t, inside
<1>8. SoftDeleteGroup(c, g) = [groups |-> left, live |-> l, binned |-> c.binned, binnedGroups |-> t]
  BY <1>1, OtherParts
<1> QED
  BY <1>3, <1>5, <1>6, <1>7, <1>8 DEF left, l, t

\* So a configuration without the group is one, and loses no connection.
LEMMA BinGroupConfig ==
  ASSUME NEW c \in Configs, NEW g \in c.groups
  PROVE  SoftDeleteGroup(c, g) \in Configs /\ Keeps(c, SoftDeleteGroup(c, g))
<1> DEFINE n == SoftDeleteGroup(c, g)
           left == {x \in c.groups : ~Inside(x, g)}
           l == c.live \ InGroup(c, g)
           bin == BinOf(c, g)
           t == {u \in c.binnedGroups : u.name # g} \cup {bin}
<1>1. n = [groups |-> left, live |-> l, binned |-> c.binned, binnedGroups |-> t]
  BY BinGroupParts
<1>2. /\ bin \in Bins /\ bin.name = g /\ g \in bin.groups
      /\ IsFiniteSet(bin.groups) /\ OneEach(bin.sessions)
  BY BinGroupParts
<1>3. bin.sessions = InGroup(c, g) /\ InGroup(c, g) \subseteq c.live
  BY DEF BinOf, InGroup
<1>4. left \in SUBSET Paths /\ IsFiniteSet(left)
  BY ConfigParts, FS_Subset
<1>5. /\ \A u \in t : u = bin \/ (u \in c.binnedGroups /\ u.name # g)
      /\ bin \in t
  OBVIOUS
<1>6. l \subseteq c.live /\ \A x \in c.live : x \in l \/ x \in InGroup(c, g)
  OBVIOUS
<1> HIDE DEF n, left, l, bin, t
<1>7. l \in SUBSET Saved /\ OneEach(l)
  BY <1>6, ConfigParts DEF OneEach
<1>8. /\ t \in SUBSET Bins /\ OneName(t)
      /\ \A u \in t : u.name \in u.groups /\ IsFiniteSet(u.groups) /\ OneEach(u.sessions)
  BY <1>2, <1>5, ConfigParts DEF OneName
<1>9. n \in Configs
  BY <1>1, <1>4, <1>7, <1>8, ConfigParts, PartsConfig
<1>10. Keeps(c, n)
  BY <1>1, <1>3, <1>5, <1>6 DEF Keeps, Holds
<1> QED
  BY <1>9, <1>10 DEF n

\* A connection taken out of the bin, with the groups on the way to it.
LEMMA RestoreSessionConfig ==
  ASSUME NEW c \in Configs, NEW x \in c.binned
  PROVE  RestoreSession(c, x) \in Configs /\ Keeps(c, RestoreSession(c, x))
<1> DEFINE n == RestoreSession(c, x)
           b == c.binned \ {x}
           out == [c EXCEPT !.binned = b]
           way == {SubSeq(x.at, 1, k) : k \in 1..Len(x.at)}
           g == c.groups \cup way
           l == c.live \cup {x}
<1>1. x \in Saved /\ x.at \in GroupPlaces
  BY ConfigParts DEF Saved
<1>2. b \in SUBSET Saved /\ OneEach(b)
  BY ConfigParts DEF OneEach
<1>3. out = [groups |-> c.groups, live |-> c.live, binned |-> b, binnedGroups |-> c.binnedGroups]
  <2> HIDE DEF b
  <2> QED
    BY OtherParts
<1>4. out \in Configs
  <2> HIDE DEF out, b
  <2> QED
    BY <1>2, <1>3, ConfigParts, PartsConfig
<1>5. CASE \E y \in c.live : y.id = x.id
  <2>1. n = out
    BY <1>5 DEF RestoreSession
  <2>2. Keeps(c, out)
    BY <1>3, <1>5 DEF Keeps, Holds
  <2> QED
    BY <1>4, <2>1, <2>2
<1>6. CASE \A y \in c.live : y.id # x.id
  <2>1. n = [groups |-> g, live |-> l, binned |-> b, binnedGroups |-> c.binnedGroups]
    <3>1. n = [out EXCEPT !.live = out.live \cup {x}, !.groups = out.groups \cup way]
      BY <1>6 DEF RestoreSession
    <3>2. n = [out EXCEPT !.live = l, !.groups = g]
      BY <1>3, <3>1
    <3> HIDE DEF n, out, l, g, b
    <3> QED
      BY <1>3, <1>4, <3>2, OtherParts
  <2>2. way \in SUBSET Paths
    <3> SUFFICES ASSUME NEW k \in 1..Len(x.at) PROVE SubSeq(x.at, 1, k) \in Paths
      OBVIOUS
    <3>1. Len(x.at) \in Nat /\ \A i \in 1..k : x.at[i] \in Segments
      BY <1>1, PlaceFacts
    <3>2. SubSeq(x.at, 1, k) \in Seq(Segments) /\ Len(SubSeq(x.at, 1, k)) = k
      BY <3>1, SubSeqProperties
    <3> QED
      BY <3>1, <3>2, EmptySeq DEF Paths, GroupPlaces
  <2>3. IsFiniteSet(way)
    <3> DEFINE f == [k \in 1..Len(x.at) |-> SubSeq(x.at, 1, k)]
    <3>1. f \in [1..Len(x.at) -> way] /\ \A y \in way : \E k \in 1..Len(x.at) : f[k] = y
      OBVIOUS
    <3>2. IsFiniteSet(1..Len(x.at))
      BY <1>1, PlaceFacts, FS_Interval
    <3> HIDE DEF f, way
    <3> QED
      BY <3>1, <3>2, FiniteImage
  <2>4. g \in SUBSET Paths /\ IsFiniteSet(g)
    <3> HIDE DEF way
    <3> QED
      BY <2>2, <2>3, ConfigParts, FS_Union
  <2>5. l \in SUBSET Saved /\ OneEach(l)
    BY <1>1, <1>6, ConfigParts DEF OneEach
  <2>6. n \in Configs
    <3> HIDE DEF n, g, l, b
    <3> QED
      BY <1>2, <2>1, <2>4, <2>5, ConfigParts, PartsConfig
  <2>7. Keeps(c, n)
    BY <2>1 DEF Keeps, Holds
  <2> QED
    BY <2>6, <2>7
<1> QED
  BY <1>5, <1>6

\* A group taken out of the bin, under a name of its own, with all its groups,
\* and with its connections but for those in use under the same identifier.
LEMMA RestoreGroupConfig ==
  ASSUME NEW c \in Configs, NEW t \in c.binnedGroups
  PROVE  RestoreGroup(c, t) \in Configs /\ Keeps(c, RestoreGroup(c, t))
<1> DEFINE n == RestoreGroup(c, t)
           name == UniqueGroup(c, t.name)
           Moved(x) == [x EXCEPT !.at = Rebased(@, t.name, name)]
           back == {Moved(x) : x \in t.sessions}
           more == {Rebased(p, t.name, name) : p \in t.groups}
           g == c.groups \cup more
           l == c.live \cup {x \in back : \A y \in c.live : y.id # x.id}
           bins == c.binnedGroups \ {t}
<1>1. n = [groups |-> g, live |-> l, binned |-> c.binned, binnedGroups |-> bins]
  <2>1. n = [c EXCEPT !.binnedGroups = bins, !.groups = g, !.live = l]
    BY DEF RestoreGroup
  <2> HIDE DEF n, g, l, bins
  <2> QED
    BY <2>1, OtherParts
<1>2. /\ t.name \in Paths /\ t.groups \in SUBSET Paths /\ t.sessions \in SUBSET Saved
      /\ IsFiniteSet(t.groups) /\ OneEach(t.sessions)
  BY ConfigParts DEF Bins
<1>3. name \in Paths /\ name \in GroupPlaces /\ t.name \in GroupPlaces
  BY <1>2, UniqueIsNew DEF Paths
<1> HIDE DEF name
<1>4. more \in SUBSET Paths
  <2>1. \A p \in t.groups : p \in Paths /\ p \in GroupPlaces
    BY <1>2 DEF Paths
  <2> QED
    BY <1>3, <2>1, RebasedPlace
<1>5. IsFiniteSet(more)
  <2> DEFINE f == [p \in t.groups |-> Rebased(p, t.name, name)]
  <2>1. f \in [t.groups -> more] /\ \A y \in more : \E p \in t.groups : f[p] = y
    OBVIOUS
  <2> HIDE DEF f, more
  <2> QED
    BY <1>2, <2>1, FiniteImage
<1>6. g \in SUBSET Paths /\ IsFiniteSet(g)
  <2> HIDE DEF more
  <2> QED
    BY <1>4, <1>5, ConfigParts, FS_Union
<1>7. \A x \in t.sessions : Moved(x) \in Saved /\ Moved(x).id = x.id
  <2> TAKE x \in t.sessions
  <2>1. x \in Saved /\ x.at \in GroupPlaces
    BY <1>2 DEF Saved
  <2>2. Rebased(x.at, t.name, name) \in GroupPlaces
    BY <1>3, <2>1, RebasedPlace
  <2>3. Moved(x) = [x EXCEPT !.at = Rebased(x.at, t.name, name)]
    OBVIOUS
  <2> QED
    BY <2>1, <2>2, <2>3, Relocated
<1>8. \A y \in back : \E x \in t.sessions : y = Moved(x)
  OBVIOUS
<1>9. \A y \in back : \E x \in t.sessions : y.id = x.id
  BY <1>7, <1>8
<1>10. back \in SUBSET Saved /\ OneEach(back)
  <2> HIDE DEF Moved, back
  <2> QED
    BY <1>2, <1>7, <1>8 DEF OneEach
<1>11. /\ c.live \subseteq l
       /\ \A x \in l : x \in c.live \/ (x \in back /\ \A y \in c.live : y.id # x.id)
  OBVIOUS
<1> HIDE DEF n, g, l, back, Moved
<1>12. l \in SUBSET Saved /\ OneEach(l)
  BY <1>10, <1>11, ConfigParts DEF OneEach
<1>13. /\ bins \in SUBSET Bins /\ OneName(bins)
       /\ \A u \in bins : u.name \in u.groups /\ IsFiniteSet(u.groups) /\ OneEach(u.sessions)
  BY ConfigParts DEF OneName
<1>14. n \in Configs
  <2> HIDE DEF bins
  <2> QED
    BY <1>1, <1>6, <1>12, <1>13, ConfigParts, PartsConfig
<1>15. Keeps(c, n)
  <2>1. \A x \in c.live : Holds(n, x.id)
    BY <1>1, <1>11 DEF Holds
  <2>2. ASSUME NEW id \in Sessions, Holds(n, id) PROVE Holds(c, id)
    <3>1. CASE \E x \in l : x.id = id
      BY <1>9, <1>11, <3>1 DEF Holds
    <3>2. CASE \E x \in c.binned : x.id = id
      BY <3>2 DEF Holds
    <3>3. CASE \E u \in bins : \E x \in u.sessions : x.id = id
      BY <3>3 DEF Holds
    <3> QED
      BY <1>1, <2>2, <3>1, <3>2, <3>3 DEF Holds
  <2> QED
    BY <2>1, <2>2 DEF Keeps
<1> QED
  BY <1>14, <1>15 DEF n

\* Restoring a group right after its deletion gives back what was there.
LEMMA RestoreAfterDelete ==
  ASSUME NEW c \in Configs, NEW g \in c.groups
  PROVE  LET gone == SoftDeleteGroup(c, g)
             bin  == CHOOSE t \in gone.binnedGroups : t.name = g
             back == RestoreGroup(gone, bin)
         IN  back.groups = c.groups /\ back.live = c.live
<1> DEFINE gone == SoftDeleteGroup(c, g)
           bin == CHOOSE t \in gone.binnedGroups : t.name = g
           n == RestoreGroup(gone, bin)
           own == BinOf(c, g)
<1>1. /\ gone.groups = {x \in c.groups : ~Inside(x, g)}
      /\ gone.live = c.live \ InGroup(c, g)
      /\ gone.binnedGroups = {t \in c.binnedGroups : t.name # g} \cup {own}
      /\ own.name = g
  BY BinGroupParts
<1>2. /\ own.groups = {x \in c.groups : Inside(x, g)}
      /\ own.sessions = InGroup(c, g)
  BY DEF BinOf
<1>3. gone \in Configs
  BY BinGroupConfig
<1> HIDE DEF gone, own
<1>4. \A t \in gone.binnedGroups : t.name = g => t = own
  BY <1>1
<1>5. bin = own
  BY <1>1, <1>4
<1> HIDE DEF bin
<1>6. g \in Paths /\ g \in GroupPlaces /\ Inside(g, g) /\ c.groups \subseteq GroupPlaces
  BY ConfigParts, InsideItself DEF Paths
<1>7. UniqueGroup(gone, g) = g
  BY <1>1, <1>6 DEF UniqueGroup
<1>8. \A p \in own.groups : Rebased(p, g, g) = p
  BY <1>2, <1>6, RebasedHome
<1>9. \A x \in InGroup(c, g) : x \in c.live /\ [x EXCEPT !.at = Rebased(@, g, g)] = x
  <2> TAKE x \in InGroup(c, g)
  <2>1. x \in c.live /\ x \in Saved /\ x.at \in GroupPlaces
    BY ConfigParts DEF InGroup, Saved
  <2>2. Rebased(x.at, g, g) = x.at
    BY <1>6, <2>1, RebasedHome
  <2> QED
    BY <2>1, <2>2 DEF Saved
<1> DEFINE more == {Rebased(p, own.name, UniqueGroup(gone, own.name)) : p \in own.groups}
           back == {[x EXCEPT !.at = Rebased(@, own.name, UniqueGroup(gone, own.name))] :
                      x \in own.sessions}
<1>10. more = own.groups
  BY <1>1, <1>7, <1>8
<1>11. back = InGroup(c, g)
  BY <1>1, <1>2, <1>7, <1>9
<1>12. /\ n.groups = gone.groups \cup more
       /\ n.live = gone.live \cup {x \in back : \A y \in gone.live : y.id # x.id}
  <2> DEFINE r == gone.groups \cup more
             l == gone.live \cup {x \in back : \A y \in gone.live : y.id # x.id}
             b == gone.binnedGroups \ {own}
  <2>1. n = [gone EXCEPT !.binnedGroups = b, !.groups = r, !.live = l]
    BY <1>5 DEF RestoreGroup
  <2> HIDE DEF n, r, l, b
  <2>2. n.groups = r /\ n.live = l
    BY <1>3, <2>1, OtherParts
  <2> QED
    BY <2>2 DEF r, l
<1> HIDE DEF n, more, back
<1>13. n.groups = c.groups
  BY <1>1, <1>2, <1>10, <1>12
<1>14. \A x \in InGroup(c, g) : \A y \in gone.live : y.id # x.id
  BY <1>1, <1>9, ConfigParts DEF OneEach
<1>15. n.live = c.live
  BY <1>1, <1>9, <1>11, <1>12, <1>14
<1> QED
  BY <1>13, <1>15 DEF n, bin, gone
-----------------------------------------------------------------------------
(* Synchronization.                                                        *)

\* What a merge of two configurations may take from either: for each
\* identifier, and for each name, one of the two decides.
LEMMA ReconcileConfig ==
  ASSUME NEW l \in Configs, NEW b, NEW r \in Configs, NEW keep
  PROVE  LET n == Reconcile(l, b, r, keep)
         IN  /\ n \in Configs
             /\ \A id \in Sessions : Holds(n, id) => Holds(l, id) \/ Holds(r, id)
<1> DEFINE From(id) == Side(SessionIn(l, id), SessionIn(b, id), SessionIn(r, id), id \in keep, l, r)
           FromG(g) == Side(GroupGone(l, g), GroupGone(b, g), GroupGone(r, g), FALSE, l, r)
           g == {p \in l.groups \cup r.groups : ~GroupGone(FromG(p), p)}
           v == {x \in l.live \cup r.live :
                   x \in From(x.id).live /\ ~SessionIn(From(x.id), x.id).gone}
           k == {x \in l.binned \cup r.binned : x \in From(x.id).binned}
           t == {u \in l.binnedGroups \cup r.binnedGroups : u \in FromG(u.name).binnedGroups}
           n == Reconcile(l, b, r, keep)
<1>1. n = [groups |-> g, live |-> v, binned |-> k, binnedGroups |-> t]
  BY DEF Reconcile
<1>2. \A id : From(id) \in {l, r}
  BY DEF Side
<1>3. \A p : FromG(p) \in {l, r}
  BY DEF Side
<1>4. /\ g \subseteq l.groups \cup r.groups
      /\ v \subseteq l.live \cup r.live /\ \A x \in v : x \in From(x.id).live
      /\ k \subseteq l.binned \cup r.binned /\ \A x \in k : x \in From(x.id).binned
      /\ t \subseteq l.binnedGroups \cup r.binnedGroups
      /\ \A u \in t : u \in FromG(u.name).binnedGroups
  OBVIOUS
<1> HIDE DEF n, g, v, k, t, From, FromG
<1>5. g \in SUBSET Paths /\ IsFiniteSet(g)
  <2>1. IsFiniteSet(l.groups \cup r.groups)
    BY ConfigParts, FS_Union
  <2> QED
    BY <1>4, <2>1, ConfigParts, FS_Subset
<1>6. v \in SUBSET Saved /\ OneEach(v)
  <2>1. OneEach(v)
    <3> SUFFICES ASSUME NEW x \in v, NEW y \in v, x.id = y.id PROVE x = y
      BY DEF OneEach
    <3>1. x \in From(x.id).live /\ y \in From(x.id).live
      BY <1>4
    <3> QED
      BY <1>2, <3>1, ConfigParts DEF OneEach
  <2> QED
    BY <1>4, <2>1, ConfigParts
<1>7. k \in SUBSET Saved /\ OneEach(k)
  <2>1. OneEach(k)
    <3> SUFFICES ASSUME NEW x \in k, NEW y \in k, x.id = y.id PROVE x = y
      BY DEF OneEach
    <3>1. x \in From(x.id).binned /\ y \in From(x.id).binned
      BY <1>4
    <3> QED
      BY <1>2, <3>1, ConfigParts DEF OneEach
  <2> QED
    BY <1>4, <2>1, ConfigParts
<1>8. /\ t \in SUBSET Bins /\ OneName(t)
      /\ \A u \in t : u.name \in u.groups /\ IsFiniteSet(u.groups) /\ OneEach(u.sessions)
  <2>1. OneName(t)
    <3> SUFFICES ASSUME NEW x \in t, NEW y \in t, x.name = y.name PROVE x = y
      BY DEF OneName
    <3>1. x \in FromG(x.name).binnedGroups /\ y \in FromG(x.name).binnedGroups
      BY <1>4
    <3> QED
      BY <1>3, <3>1, ConfigParts DEF OneName
  <2> QED
    BY <1>4, <2>1, ConfigParts
<1>9. n \in Configs
  BY <1>1, <1>5, <1>6, <1>7, <1>8, PartsConfig
<1>10. \A id \in Sessions : Holds(n, id) => Holds(l, id) \/ Holds(r, id)
  BY <1>1, <1>4 DEF Holds
<1> QED
  BY <1>9, <1>10 DEF n

\* apply_deleted_projection only takes away.
LEMMA NormalizedConfig ==
  ASSUME NEW c \in Configs
  PROVE  /\ Normalized(c) \in Configs
         /\ Normalized(c).live = {x \in c.live : ~Hidden(c, x.at) /\ \A y \in c.binned : y.id # x.id}
         /\ Normalized(c).binned = c.binned /\ Normalized(c).binnedGroups = c.binnedGroups
         /\ \A id \in Sessions : Holds(Normalized(c), id) => Holds(c, id)
<1> DEFINE n == Normalized(c)
           l == {x \in c.live : ~Hidden(c, x.at) /\ \A y \in c.binned : y.id # x.id}
           g == {p \in c.groups : ~Hidden(c, p)}
<1>1. n = [groups |-> g, live |-> l, binned |-> c.binned, binnedGroups |-> c.binnedGroups]
  <2>1. n = [c EXCEPT !.live = l, !.groups = g]
    BY DEF Normalized
  <2> HIDE DEF n, g, l
  <2> QED
    BY <2>1, OtherParts
<1>2. g \in SUBSET Paths /\ IsFiniteSet(g)
  BY ConfigParts, FS_Subset
<1>3. l \subseteq c.live
  OBVIOUS
<1> HIDE DEF n, g
<1>4. n \in Configs
  <2> HIDE DEF l
  <2>1. l \in SUBSET Saved /\ OneEach(l)
    BY <1>3, ConfigParts DEF OneEach
  <2> QED
    BY <1>1, <1>2, <2>1, ConfigParts, PartsConfig
<1>5. \A id \in Sessions : Holds(n, id) => Holds(c, id)
  <2> HIDE DEF l
  <2> QED
    BY <1>1, <1>3 DEF Holds
<1> QED
  BY <1>1, <1>4, <1>5 DEF n
-----------------------------------------------------------------------------
(* The devices.                                                            *)

\* The invariant: configurations have their shape, and hold no connection
\* that was not created.
CtIInv ==
  /\ local \in [Devices -> Configs] /\ remote \in Configs
  /\ made \in SUBSET Sessions
  /\ \A id \in Sessions :
       Holds(remote, id) \/ (\E d \in Devices : Holds(local[d], id)) => id \in made

\* The excuses of InUseNotLost, for a connection x that device d has lost.
Excused(d, x) ==
  \/ Conflicting(d, x.id)
  \/ ~SessionIn(base[d], x.id).gone /\ SessionIn(remote, x.id).gone
  \/ \E y \in local[d].live \cup remote.live : y.id = x.id /\ Hidden(local'[d], y.at)

\* InUseNotLost, of a step.
NoneLost ==
  \A d \in Devices : \A x \in local[d].live :
    ~SessionIn(local[d], x.id).gone /\ ~Holds(local'[d], x.id) => Excused(d, x)

\* An edit that loses no connection and finds none keeps the invariant.
LEMMA EditKeeps ==
  ASSUME CtIInv, NEW d \in Devices, NEW n \in Configs, EditTo(d, n),
         \A x \in local[d].live : Holds(n, x.id),
         made' \in SUBSET Sessions, made \subseteq made',
         \A id \in Sessions : Holds(n, id) => Holds(local[d], id) \/ id \in made'
  PROVE  CtIInv' /\ NoneLost
<1>1. local' = [local EXCEPT ![d] = n] /\ remote' = remote
  BY DEF EditTo
<1>2. \A e \in Devices : local'[e] = IF e = d THEN n ELSE local[e]
  BY <1>1 DEF CtIInv
<1>3. local' \in [Devices -> Configs]
  BY <1>1 DEF CtIInv
<1>4. CtIInv'
  <2>1. \A id \in Sessions : Holds(remote, id) => id \in made'
    BY DEF CtIInv
  <2>2. ASSUME NEW id \in Sessions, NEW e \in Devices, Holds(local'[e], id) PROVE id \in made'
    BY <1>2, <2>2 DEF CtIInv
  <2> QED
    BY <1>1, <1>3, <2>1, <2>2 DEF CtIInv, Holds
<1>5. NoneLost
  <2> SUFFICES ASSUME NEW e \in Devices, NEW x \in local[e].live PROVE Holds(local'[e], x.id)
    BY DEF NoneLost
  <2> QED
    BY <1>2 DEF Holds
<1> QED
  BY <1>4, <1>5

\* An edit that is one of the operations above.
LEMMA OperationKeeps ==
  ASSUME CtIInv, NEW d \in Devices, NEW n \in Configs, Keeps(local[d], n),
         EditTo(d, n), made' = made
  PROVE  CtIInv' /\ NoneLost
BY EditKeeps DEF Keeps, CtIInv

\* A connection is created, changed or deleted.
LEMMA ConnectionStep ==
  ASSUME CtIInv, NEW d \in Devices, EditConnections(d)
  PROVE  CtIInv' /\ NoneLost
<1>1. PICK at \in local[d].groups \cup {<<>>}, id \in Sessions :
        LET x == [id |-> id, at |-> at] IN
        \/ id \notin made /\ made' = made \cup {id} /\ EditTo(d, Upsert(local[d], id, at))
        \/ /\ \E y \in local[d].live : y.id = id
           /\ EditTo(d, Upsert(local[d], id, at)) /\ UNCHANGED made
        \/ x \in local[d].live /\ EditTo(d, SoftDeleteSession(local[d], x)) /\ UNCHANGED made
  BY DEF EditConnections
<1>2. local[d] \in Configs /\ made \in SUBSET Sessions
  BY DEF CtIInv
<1>3. at \in GroupPlaces
  <2>1. local[d].groups \subseteq GroupPlaces
    BY <1>2, ConfigParts DEF Paths
  <2>2. <<>> \in GroupPlaces
    BY EmptySeq DEF GroupPlaces
  <2> QED
    BY <1>1, <2>1, <2>2
<1> DEFINE n == Upsert(local[d], id, at)
<1>4. /\ n \in Configs
      /\ \A x \in local[d].live : Holds(n, x.id)
      /\ \A k \in Sessions : Holds(n, k) => k = id \/ Holds(local[d], k)
  BY <1>2, <1>3, UpsertConfig
<1> HIDE DEF n
<1>5. CASE made' = made \cup {id} /\ EditTo(d, n)
  <2>1. made' \in SUBSET Sessions /\ made \subseteq made' /\ id \in made'
    BY <1>2, <1>5
  <2> QED
    BY <1>4, <1>5, <2>1, EditKeeps
<1>6. CASE (\E y \in local[d].live : y.id = id) /\ EditTo(d, n) /\ made' = made
  <2>1. Holds(local[d], id)
    BY <1>6 DEF Holds
  <2> QED
    BY <1>2, <1>4, <1>6, <2>1, EditKeeps
<1>7. ASSUME NEW x \in local[d].live, EditTo(d, SoftDeleteSession(local[d], x)), made' = made
      PROVE  CtIInv' /\ NoneLost
  BY <1>2, <1>7, BinSessionConfig, OperationKeeps
<1> QED
  BY <1>1, <1>5, <1>6, <1>7 DEF n

\* A connection is taken out of the bin.
LEMMA RestoreStep ==
  ASSUME CtIInv, NEW d \in Devices, RestoreConnection(d)
  PROVE  CtIInv' /\ NoneLost
<1>1. PICK x \in local[d].binned : EditTo(d, RestoreSession(local[d], x)) /\ made' = made
  BY DEF RestoreConnection
<1>2. local[d] \in Configs
  BY DEF CtIInv
<1> QED
  BY <1>1, <1>2, RestoreSessionConfig, OperationKeeps

\* The groups are edited.
LEMMA GroupStep ==
  ASSUME CtIInv, NEW d \in Devices, EditGroups(d)
  PROVE  CtIInv' /\ NoneLost
<1>1. local[d] \in Configs /\ made' = made
  BY DEF CtIInv, EditGroups
<1>2. \A name \in Names : Segment(name) \in Segments
  BY DEF Segment, Segments
<1>3. Parents(d) \subseteq GroupPlaces /\ local[d].groups \subseteq Paths
  <2>1. <<>> \in GroupPlaces
    BY EmptySeq DEF GroupPlaces
  <2> QED
    BY <1>1, <2>1, ConfigParts DEF Parents, Paths
<1>4. ASSUME NEW parent \in Parents(d), NEW name \in Names,
             EditTo(d, AddGroup(local[d], Append(parent, Segment(name))))
      PROVE  CtIInv' /\ NoneLost
  <2>1. Append(parent, Segment(name)) \in Paths
    BY <1>2, <1>3, AppendedPath
  <2> QED
    BY <1>1, <1>4, <2>1, AddGroupConfig, OperationKeeps
<1>5. ASSUME NEW g \in local[d].groups, NEW name \in Names,
             EditTo(d, RenameGroup(local[d], g, [g EXCEPT ![Len(g)] = Segment(name)]))
      PROVE  CtIInv' /\ NoneLost
  <2>1. g \in Paths /\ [g EXCEPT ![Len(g)] = Segment(name)] \in Paths
    BY <1>2, <1>3, LastSegment
  <2> QED
    BY <1>1, <1>5, <2>1, RenameConfig, OperationKeeps
<1>6. ASSUME NEW g \in local[d].groups, NEW parent \in Parents(d),
             EditTo(d, MoveGroup(local[d], g, parent))
      PROVE  CtIInv' /\ NoneLost
  BY <1>1, <1>3, <1>6, MoveConfig, OperationKeeps
<1>7. ASSUME NEW g \in local[d].groups,
             EditTo(d, Ungroup(local[d], g)) \/ EditTo(d, SoftDeleteGroup(local[d], g))
      PROVE  CtIInv' /\ NoneLost
  BY <1>1, <1>3, <1>7, UngroupConfig, BinGroupConfig, OperationKeeps
<1>8. ASSUME NEW t \in local[d].binnedGroups, EditTo(d, RestoreGroup(local[d], t))
      PROVE  CtIInv' /\ NoneLost
  BY <1>1, <1>8, RestoreGroupConfig, OperationKeeps
<1> QED
  BY <1>4, <1>5, <1>6, <1>7, <1>8 DEF EditGroups

\* What a merge does with a connection that is in use here and not in the bin:
\* the side that decides about it has it too, or has deleted it; and nothing
\* but the bin takes it from there.
LEMMA MergeExcused ==
  ASSUME NEW l \in Configs, NEW b, NEW r \in Configs, NEW keep,
         NEW x \in l.live, ~SessionIn(l, x.id).gone,
         ~Holds(Normalized(Reconcile(l, b, r, keep)), x.id)
  PROVE  \/ /\ SessionIn(l, x.id) # SessionIn(b, x.id)
            /\ SessionIn(r, x.id) # SessionIn(b, x.id)
            /\ SessionIn(l, x.id) # SessionIn(r, x.id)
         \/ ~SessionIn(b, x.id).gone /\ SessionIn(r, x.id).gone
         \/ \E y \in l.live \cup r.live :
              y.id = x.id /\ Hidden(Normalized(Reconcile(l, b, r, keep)), y.at)
<1> DEFINE From(id) == Side(SessionIn(l, id), SessionIn(b, id), SessionIn(r, id), id \in keep, l, r)
           FromG(g) == Side(GroupGone(l, g), GroupGone(b, g), GroupGone(r, g), FALSE, l, r)
           m == Reconcile(l, b, r, keep)
           n == Normalized(m)
           s == From(x.id)
<1>1. m.live = {y \in l.live \cup r.live :
                  y \in From(y.id).live /\ ~SessionIn(From(y.id), y.id).gone}
  BY DEF Reconcile
<1>2. m \in Configs
  BY ReconcileConfig
<1>3. s \in {l, r}
  BY DEF Side
<1> HIDE DEF m
<1>4. /\ n.live = {y \in m.live : ~Hidden(m, y.at) /\ \A z \in m.binned : z.id # y.id}
      /\ n.binned = m.binned /\ n.binnedGroups = m.binnedGroups
  BY <1>2, NormalizedConfig
<1>5. ASSUME NEW y \in s.live, y.id = x.id, ~SessionIn(s, x.id).gone
      PROVE  \E z \in l.live \cup r.live : z.id = x.id /\ Hidden(n, z.at)
  <2>1. y \in l.live \cup r.live /\ y \in m.live
    BY <1>1, <1>3, <1>5
  <2>2. y \notin n.live /\ \A z \in n.binned : z.id # x.id
    <3>1. ~Holds(n, x.id)
      BY DEF m
    <3> QED
      BY <1>5, <3>1 DEF Holds
  <2>3. Hidden(m, y.at)
    BY <1>4, <1>5, <2>1, <2>2
  <2>4. Hidden(n, y.at)
    BY <1>4, <2>3 DEF Hidden
  <2> QED
    BY <1>5, <2>1, <2>4
<1>6. CASE s = l
  <2>1. \E z \in l.live \cup r.live : z.id = x.id /\ Hidden(n, z.at)
    BY <1>5, <1>6
  <2> QED
    BY <2>1 DEF n, m
<1>7. CASE s = r /\ ~SessionIn(r, x.id).gone
  <2>1. \E y \in r.live : y.id = x.id
    BY <1>7 DEF SessionIn
  <2>2. \E z \in l.live \cup r.live : z.id = x.id /\ Hidden(n, z.at)
    BY <1>5, <1>7, <2>1
  <2> QED
    BY <2>2 DEF n, m
<1>8. CASE s = r /\ s # l /\ SessionIn(r, x.id).gone
  <2>1. \/ SessionIn(l, x.id) = SessionIn(b, x.id)
        \/ /\ SessionIn(r, x.id) # SessionIn(b, x.id)
           /\ SessionIn(l, x.id) # SessionIn(r, x.id)
    BY <1>8 DEF Side
  <2> QED
    BY <1>8, <2>1
<1> QED
  BY <1>3, <1>6, <1>7, <1>8

\* A synchronization of device d.
LEMMA SynchronizeStep ==
  ASSUME CtIInv, NEW d \in Devices, Synchronize(d)
  PROVE  CtIInv' /\ NoneLost
<1> DEFINE Merge(keep) == Normalized(Reconcile(local[d], base[d], remote, keep))
<1>1. PICK keep \in SUBSET Sessions :
        /\ local' = [local EXCEPT ![d] = Merge(keep)]
        /\ remote' = Merge(keep) /\ made' = made
  BY DEF Synchronize
<1>2. local[d] \in Configs /\ remote \in Configs
  BY DEF CtIInv
<1>3. /\ Merge(keep) \in Configs
      /\ \A id \in Sessions : Holds(Merge(keep), id) => Holds(local[d], id) \/ Holds(remote, id)
  <2> DEFINE m == Reconcile(local[d], base[d], remote, keep)
  <2>1. /\ m \in Configs
        /\ \A id \in Sessions : Holds(m, id) => Holds(local[d], id) \/ Holds(remote, id)
    BY <1>2, ReconcileConfig
  <2> HIDE DEF m
  <2>2. Normalized(m) \in Configs /\ \A id \in Sessions : Holds(Normalized(m), id) => Holds(m, id)
    BY <2>1, NormalizedConfig
  <2>3. \A id \in Sessions : Holds(Normalized(m), id) => Holds(local[d], id) \/ Holds(remote, id)
    BY <2>1, <2>2
  <2> QED
    BY <2>2, <2>3 DEF m
<1>4. \A e \in Devices : local'[e] = IF e = d THEN Merge(keep) ELSE local[e]
  BY <1>1 DEF CtIInv
<1>5. CtIInv'
  <2>1. local' \in [Devices -> Configs] /\ remote' \in Configs /\ made' \in SUBSET Sessions
    BY <1>1, <1>3 DEF CtIInv
  <2>2. \A id \in Sessions : Holds(Merge(keep), id) => id \in made
    BY <1>3 DEF CtIInv
  <2>3. ASSUME NEW id \in Sessions, NEW e \in Devices, Holds(local'[e], id) PROVE id \in made
    BY <1>4, <2>2, <2>3 DEF CtIInv
  <2> HIDE DEF Merge
  <2> QED
    BY <1>1, <2>1, <2>2, <2>3 DEF CtIInv, Holds
<1>6. NoneLost
  <2> SUFFICES ASSUME NEW e \in Devices, NEW x \in local[e].live,
                      ~SessionIn(local[e], x.id).gone, ~Holds(local'[e], x.id)
               PROVE  Excused(e, x)
    BY DEF NoneLost
  <2>1. e = d
    BY <1>4 DEF Holds
  <2>2. local'[d] = Merge(keep)
    BY <1>4
  <2>3. \/ Conflicting(d, x.id)
        \/ ~SessionIn(base[d], x.id).gone /\ SessionIn(remote, x.id).gone
        \/ \E y \in local[d].live \cup remote.live : y.id = x.id /\ Hidden(Merge(keep), y.at)
    BY <1>2, <2>1, <2>2, MergeExcused DEF Conflicting
  <2> HIDE DEF Merge
  <2> QED
    BY <2>1, <2>2, <2>3 DEF Excused
<1> QED
  BY <1>5, <1>6

\* Every step.
LEMMA CatalogStep ==
  ASSUME CtIInv, [CtNext]_ctVars
  PROVE  CtIInv' /\ (CtNext => NoneLost)
<1>1. CASE CtNext
  BY <1>1, ConnectionStep, RestoreStep, GroupStep, SynchronizeStep DEF CtNext
<1>2. CASE UNCHANGED ctVars
  <2>1. CtIInv'
    BY <1>2 DEF ctVars, CtIInv, Holds
  <2> QED
    BY <1>1, <2>1
<1> QED
  BY <1>1, <1>2

\* Nothing is saved at first.
LEMMA CatalogInit == CtInit => CtIInv
<1>1. NoConnections \in Configs
  <2>1. IsFiniteSet({})
    BY FS_EmptySet
  <2> QED
    BY <2>1 DEF NoConnections, Configs, OneEach, OneName
<1>2. \A id : ~Holds(NoConnections, id)
  BY DEF NoConnections, Holds
<1> SUFFICES ASSUME CtInit PROVE CtIInv
  OBVIOUS
<1>3. /\ local \in [Devices -> Configs] /\ remote \in Configs /\ made \in SUBSET Sessions
      /\ remote = NoConnections /\ \A d \in Devices : local[d] = NoConnections
  BY <1>1 DEF CtInit
<1> QED
  BY <1>2, <1>3 DEF CtIInv

\* The shape of the configurations is an invariant.
LEMMA CatalogInductive == CtSpec => []CtIInv
<1>1. CtIInv /\ [CtNext]_ctVars => CtIInv'
  BY CatalogStep
<1> QED
  BY CatalogInit, <1>1, PTL DEF CtSpec

\* On every device, after any edits and synchronizations, a group that is
\* deleted and restored at once is back with its groups and connections, and
\* nothing else has changed but the bin: whatever groups, connections and
\* nesting there are.  It needs that there is one connection in use for an
\* identifier (or the restore would drop the other), which merges must keep.
THEOREM GroupsComeBack == CtSpec => []RestoreUndoesDelete
<1>1. CtIInv => RestoreUndoesDelete
  BY RestoreAfterDelete DEF CtIInv, RestoreUndoesDelete
<1> QED
  BY <1>1, CatalogInductive, PTL

\* For any number of devices, groups and connections: a connection in use is
\* not lost on a device by an edit of its groups or by a synchronization,
\* unless a conflict was settled, the other side deleted it, or a group of the
\* bin hides it.
THEOREM ConnectionsNotLost == CtSpec => InUseNotLost
<1>1. CtIInv /\ [CtNext]_ctVars =>
        [\A d \in Devices : \A x \in local[d].live :
           ~SessionIn(local[d], x.id).gone /\ ~Holds(local'[d], x.id) =>
             \/ Conflicting(d, x.id)
             \/ ~SessionIn(base[d], x.id).gone /\ SessionIn(remote, x.id).gone
             \/ \E y \in local[d].live \cup remote.live :
                  y.id = x.id /\ Hidden(local'[d], y.at)]_ctVars
  BY CatalogStep DEF NoneLost, Excused
<1> QED
  BY <1>1, CatalogInductive, PTL DEF CtSpec, InUseNotLost

\* The identifiers of connections and the names of groups in the bin are
\* unique on every device, and no connection is there that was not created.
THEOREM SavedConnectionsTyped == CtSpec => []CtTypeOK
<1>1. CtIInv => CtTypeOK
  BY ConfigParts DEF CtIInv, CtTypeOK, OneEach, OneName
<1> QED
  BY <1>1, CatalogInductive, PTL
=============================================================================
