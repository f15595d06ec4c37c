-------------------------- MODULE TabTransfer_proofs --------------------------
(***************************************************************************)
(* The windows and their tabs, for every number of windows, tabs, groups   *)
(* and operations: no tab is lost or shown twice, a move that fails leaves *)
(* nothing behind, and the routes go where the tabs go.  The proof follows *)
(* a group: what leaves a window with it (Payload, Taken), what comes back *)
(* (Restored) and what arrives (Received, Docked); then every operation    *)
(* keeps what the windows hold apart.                                      *)
(***************************************************************************)
EXTENDS Events_proofs, TabTransfer

-----------------------------------------------------------------------------
(* Sequences as the sets of their elements.                                *)

(* p is q without the element at place i.                                  *)
Gap(p, q, i) ==
  /\ Len(q) = Len(p) + 1
  /\ \A k \in 1..Len(p) : k < i => q[k] = p[k]
  /\ \A k \in 1..Len(p) : k >= i => q[k + 1] = p[k]

\* What is at the places when an element was removed,
LEMMA RemovedIs ==
  ASSUME NEW E, NEW q \in Seq(E), NEW i \in 1..Len(q)
  PROVE  RemoveAt(q, i) \in Seq(E) /\ Gap(RemoveAt(q, i), q, i)
<1> DEFINE n == Len(q)
           a == SubSeq(q, 1, i - 1)
           b == SubSeq(q, i + 1, n)
<1>1. n \in Nat /\ i \in 1..n
  OBVIOUS
<1>2. a \in Seq(E) /\ Len(a) = i - 1 /\ \A k \in 1..(i - 1) : a[k] = q[k]
  BY <1>1
<1>3. b \in Seq(E) /\ Len(b) = n - i /\ \A k \in 1..(n - i) : b[k] = q[i + k]
  BY <1>1
<1>4. RemoveAt(q, i) = a \o b
  BY DEF RemoveAt
<1> HIDE DEF a, b, n
<1>5. a \o b \in Seq(E) /\ Len(a \o b) = n - 1
  <2>1. a \o b \in Seq(E) /\ Len(a \o b) = Len(a) + Len(b)
    BY <1>2, <1>3, ConcatProperties
  <2> QED
    BY <1>1, <1>2, <1>3, <2>1
<1>6. ASSUME NEW k \in 1..(n - 1), k < i PROVE (a \o b)[k] = q[k]
  BY <1>1, <1>2, <1>3, <1>6
<1>7. ASSUME NEW k \in 1..(n - 1), k >= i PROVE (a \o b)[k] = q[k + 1]
  <2>1. k - (i - 1) \in 1..(n - i) /\ i + (k - (i - 1)) = k + 1
    BY <1>1, <1>7
  <2>2. (a \o b)[k] = b[k - (i - 1)]
    BY <1>1, <1>2, <1>3, <1>7
  <2> QED
    BY <1>3, <2>1, <2>2
<1> QED
  BY <1>1, <1>4, <1>5, <1>6, <1>7 DEF n, Gap

\* and when one was inserted.
LEMMA InsertedIs ==
  ASSUME NEW E, NEW q \in Seq(E), NEW e \in E, NEW i \in 1..(Len(q) + 1)
  PROVE  /\ InsertAt(q, i, e) \in Seq(E) /\ InsertAt(q, i, e)[i] = e
         /\ Gap(q, InsertAt(q, i, e), i)
<1> DEFINE n == Len(q)
           a == SubSeq(q, 1, i - 1)
           b == SubSeq(q, i, n)
           c == a \o <<e>>
<1>1. n \in Nat /\ i \in 1..(n + 1) /\ n = Len(q)
  OBVIOUS
<1>2. a \in Seq(E) /\ Len(a) = i - 1 /\ \A k \in 1..(i - 1) : a[k] = q[k]
  BY <1>1
<1>3. b \in Seq(E) /\ Len(b) = n + 1 - i /\ \A k \in 1..(n + 1 - i) : b[k] = q[i + k - 1]
  BY <1>1
<1>4. InsertAt(q, i, e) = c \o b
  BY DEF InsertAt
<1> HIDE DEF a, b, n
<1>5. c \in Seq(E) /\ Len(c) = i /\ c[i] = e /\ \A k \in 1..(i - 1) : c[k] = q[k]
  BY <1>1, <1>2
<1> HIDE DEF c
<1>6. c \o b \in Seq(E) /\ Len(c \o b) = n + 1 /\ \A k \in 1..i : (c \o b)[k] = c[k]
  <2>1. c \o b \in Seq(E) /\ Len(c \o b) = Len(c) + Len(b)
    BY <1>3, <1>5, ConcatProperties
  <2>2. \A k \in 1..Len(c) : (c \o b)[k] = c[k]
    BY <1>3, <1>5, ConcatProperties
  <2> QED
    BY <2>1, <2>2, <1>1, <1>3, <1>5
<1>7. ASSUME NEW k \in 1..(n + 1), k > i PROVE (c \o b)[k] = q[k - 1]
  <2>1. k - i \in 1..(n + 1 - i) /\ i + (k - i) - 1 = k - 1
    BY <1>1, <1>7
  <2>2. (c \o b)[k] = b[k - i]
    BY <1>1, <1>3, <1>5, <1>7
  <2> QED
    BY <1>3, <2>1, <2>2
<1>8. \A k \in 1..(n + 1) : k < i => (c \o b)[k] = q[k]
  BY <1>1, <1>5, <1>6
<1>9. (c \o b)[i] = e
  BY <1>1, <1>5, <1>6
<1> QED
  <2> DEFINE d == c \o b
  <2>0. /\ \A k \in 1..(n + 1) : k > i => d[k] = q[k - 1]
        /\ \A k \in 1..(n + 1) : k < i => d[k] = q[k]
    BY <1>7, <1>8
  <2> HIDE DEF d
  <2>1. ASSUME NEW k \in 1..n, k >= i PROVE d[k + 1] = q[k]
    <3>1. k + 1 \in 1..(n + 1) /\ k + 1 > i /\ (k + 1) - 1 = k
      BY <1>1, <2>1
    <3> QED
      BY <2>0, <3>1
  <2>2. ASSUME NEW k \in 1..n, k < i PROVE d[k] = q[k]
    BY <1>1, <2>0, <2>2
  <2>3. Gap(q, d, i)
    BY <1>1, <1>6, <2>1, <2>2 DEF Gap, d
  <2> QED
    BY <1>4, <1>6, <1>9, <2>3 DEF d

\* Removing the element at a place.
LEMMA RemovedAt ==
  ASSUME NEW E, NEW q \in Seq(E), NEW i \in DOMAIN q
  PROVE  /\ RemoveAt(q, i) \in Seq(E)
         /\ IsInjective(q) =>
              IsInjective(RemoveAt(q, i)) /\ ToSet(RemoveAt(q, i)) = ToSet(q) \ {q[i]}
<1> DEFINE n == Len(q)
           p == RemoveAt(q, i)
<1>1. n \in Nat /\ DOMAIN q = 1..n /\ i \in 1..n /\ \A k \in 1..n : q[k] \in E
  OBVIOUS
<1>2. /\ p \in Seq(E) /\ Len(p) = n - 1
      /\ \A k \in 1..(n - 1) : k < i => p[k] = q[k]
      /\ \A k \in 1..(n - 1) : k >= i => p[k] = q[k + 1]
  <2>1. p \in Seq(E) /\ Gap(p, q, i)
    BY <1>1, RemovedIs
  <2> HIDE DEF p
  <2> QED
    BY <2>1 DEF Gap
<1>3. DOMAIN p = 1..(n - 1)
  BY <1>1, <1>2
<1> HIDE DEF p, n
<1>4. ASSUME IsInjective(q), NEW k \in 1..(n - 1), NEW m \in 1..(n - 1), p[k] = p[m]
      PROVE  k = m
  <2>1. \A x, y \in 1..n : q[x] = q[y] => x = y
    BY <1>1, <1>4 DEF IsInjective
  <2> QED
    BY <1>1, <1>2, <1>4, <2>1
<1>5. ASSUME IsInjective(q)
      PROVE  ToSet(p) = ToSet(q) \ {q[i]}
  <2>1. \A x, y \in 1..n : q[x] = q[y] => x = y
    BY <1>1, <1>5 DEF IsInjective
  <2>2. ASSUME NEW k \in 1..(n - 1) PROVE p[k] \in ToSet(q) \ {q[i]}
    <3>1. CASE k < i
      BY <1>1, <1>2, <2>1, <3>1 DEF ToSet
    <3>2. CASE k >= i
      <4>1. k + 1 \in 1..n /\ k + 1 # i /\ p[k] = q[k + 1]
        BY <1>1, <1>2, <3>2
      <4> QED
        BY <1>1, <2>1, <4>1 DEF ToSet
    <3> QED
      BY <1>1, <3>1, <3>2
  <2>3. ASSUME NEW k \in 1..n, k # i PROVE q[k] \in ToSet(p)
    <3>1. CASE k < i
      <4>1. k \in 1..(n - 1) /\ p[k] = q[k]
        BY <1>1, <1>2, <3>1
      <4> QED
        BY <1>3, <4>1 DEF ToSet
    <3>2. CASE k > i
      <4>1. k - 1 \in 1..(n - 1) /\ k - 1 >= i /\ (k - 1) + 1 = k
        BY <1>1, <2>3, <3>2
      <4>2. p[k - 1] = q[k]
        BY <1>2, <4>1
      <4> QED
        BY <1>3, <4>1, <4>2 DEF ToSet
    <3> QED
      BY <1>1, <2>3, <3>1, <3>2
  <2> QED
    BY <1>1, <1>3, <2>2, <2>3 DEF ToSet
<1>6. IsInjective(q) => IsInjective(p)
  BY <1>3, <1>4 DEF IsInjective
<1> QED
  BY <1>2, <1>5, <1>6 DEF p

\* Inserting an element.
LEMMA InsertedAt ==
  ASSUME NEW E, NEW q \in Seq(E), NEW e \in E, NEW i \in 1..(Len(q) + 1)
  PROVE  /\ InsertAt(q, i, e) \in Seq(E) /\ InsertAt(q, i, e) # <<>>
         /\ ToSet(InsertAt(q, i, e)) = ToSet(q) \cup {e}
         /\ IsInjective(q) /\ e \notin ToSet(q) => IsInjective(InsertAt(q, i, e))
<1> DEFINE n == Len(q)
           p == InsertAt(q, i, e)
<1>1. n \in Nat /\ DOMAIN q = 1..n /\ i \in 1..(n + 1) /\ \A k \in 1..n : q[k] \in E
  OBVIOUS
<1>2. /\ p \in Seq(E) /\ Len(p) = n + 1 /\ p[i] = e
      /\ \A k \in 1..(n + 1) : k < i => p[k] = q[k]
      /\ \A k \in 1..(n + 1) : k > i => p[k] = q[k - 1]
  <2>1. p \in Seq(E) /\ p[i] = e /\ Gap(q, p, i)
    BY <1>1, InsertedIs
  <2> HIDE DEF p
  <2>2. ASSUME NEW k \in 1..(n + 1), k > i PROVE p[k] = q[k - 1]
    <3>1. k - 1 \in 1..n /\ k - 1 >= i /\ (k - 1) + 1 = k
      BY <1>1, <2>2
    <3> QED
      BY <2>1, <3>1 DEF Gap
  <2>3. ASSUME NEW k \in 1..(n + 1), k < i PROVE p[k] = q[k]
    BY <1>1, <2>1, <2>3 DEF Gap
  <2> QED
    BY <2>1, <2>2, <2>3 DEF Gap
<1>3. DOMAIN p = 1..(n + 1) /\ p # <<>>
  BY <1>1, <1>2
<1> HIDE DEF p, n
<1>4. \A k \in 1..n : k < i => p[k] = q[k] /\ k \in 1..(n + 1)
  BY <1>1, <1>2
<1>5. \A k \in 1..n : k >= i => p[k + 1] = q[k] /\ k + 1 \in 1..(n + 1)
  BY <1>1, <1>2
<1>6. ToSet(p) = ToSet(q) \cup {e}
  <2>1. ASSUME NEW k \in 1..(n + 1) PROVE p[k] \in ToSet(q) \cup {e}
    <3>1. CASE k < i
      BY <1>1, <1>2, <3>1 DEF ToSet
    <3>2. CASE k > i
      <4>1. k - 1 \in 1..n /\ p[k] = q[k - 1]
        BY <1>1, <1>2, <3>2
      <4> QED
        BY <1>1, <4>1 DEF ToSet
    <3>3. CASE k = i
      BY <1>2, <3>3
    <3> QED
      BY <1>1, <3>1, <3>2, <3>3
  <2>2. ASSUME NEW k \in 1..n PROVE q[k] \in ToSet(p)
    <3>1. CASE k < i
      BY <1>3, <1>4, <3>1 DEF ToSet
    <3>2. CASE k >= i
      <4>1. k + 1 \in DOMAIN p /\ p[k + 1] = q[k]
        BY <1>3, <1>5, <3>2
      <4> QED
        BY <4>1 DEF ToSet
    <3> QED
      BY <1>1, <3>1, <3>2
  <2>3. e \in ToSet(p)
    BY <1>1, <1>2, <1>3 DEF ToSet
  <2> QED
    BY <1>1, <1>3, <2>1, <2>2, <2>3 DEF ToSet
<1>7. ASSUME IsInjective(q), e \notin ToSet(q), NEW k \in 1..(n + 1), NEW m \in 1..(n + 1), p[k] = p[m]
      PROVE  k = m
  <2>1. \A x, y \in 1..n : q[x] = q[y] => x = y
    BY <1>1, <1>7 DEF IsInjective
  <2>2. \A x \in 1..n : q[x] # e
    BY <1>1, <1>7 DEF ToSet
  <2> DEFINE back(x) == IF x < i THEN x ELSE x - 1
  <2>3. ASSUME NEW x \in 1..(n + 1), x # i
        PROVE  back(x) \in 1..n /\ p[x] = q[back(x)]
    BY <1>1, <1>2, <2>3
  <2>4. CASE k = i \/ m = i
    BY <1>2, <1>7, <2>2, <2>3, <2>4
  <2>5. CASE k # i /\ m # i
    <3>1. back(k) = back(m)
      <4> HIDE DEF back
      <4> QED
        BY <1>7, <2>1, <2>3, <2>5
    <3> QED
      BY <1>1, <2>5, <3>1
  <2> QED
    BY <2>4, <2>5
<1>8. IsInjective(q) /\ e \notin ToSet(q) => IsInjective(p)
  BY <1>3, <1>7 DEF IsInjective
<1> QED
  BY <1>2, <1>3, <1>4, <1>5, <1>6, <1>8 DEF p, n

\* Putting back what was removed.
LEMMA TabPutBack ==
  ASSUME NEW E, NEW q \in Seq(E), NEW i \in 1..Len(q), NEW p \in Seq(E), Gap(p, q, i)
  PROVE  InsertAt(p, i, q[i]) = q /\ i \in 1..(Len(p) + 1)
<1>1. i \in 1..(Len(p) + 1) /\ q[i] \in E
  BY DEF Gap
<1>2. PICK e \in E : e = q[i]
  BY <1>1
<1> DEFINE b == InsertAt(p, i, e)
<1>3. b \in Seq(E) /\ b[i] = e /\ Gap(p, b, i)
  BY <1>1, InsertedIs
<1> HIDE DEF b
<1>4. Len(b) = Len(q) /\ Len(q) \in Nat /\ Len(p) \in Nat /\ Len(q) = Len(p) + 1
  BY <1>3 DEF Gap
<1>5. ASSUME NEW k \in 1..Len(q) PROVE b[k] = q[k]
  <2>1. CASE k < i
    BY <1>3, <1>4, <2>1 DEF Gap
  <2>2. CASE k > i
    <3>1. k - 1 \in 1..Len(p) /\ k - 1 >= i /\ (k - 1) + 1 = k
      BY <1>4, <2>2
    <3> QED
      BY <1>3, <3>1 DEF Gap
  <2> QED
    BY <1>2, <1>3, <2>1, <2>2
<1> QED
  BY <1>1, <1>2, <1>3, <1>4, <1>5 DEF b

Drops(T, S, g) == T = S \ {g}
Adds(T, S, g)  == T = S \cup {g}
Disjoint(S, T) == S \cap T = {}

\* One sequence after the other,
Both(r, E, p, q) ==
  /\ r \in Seq(E) /\ ToSet(r) = ToSet(p) \cup ToSet(q)
  /\ IsInjective(p) /\ IsInjective(q) /\ Disjoint(ToSet(p), ToSet(q)) => IsInjective(r)

\* as they are put together.
LEMMA Joined ==
  ASSUME NEW E, NEW p \in Seq(E), NEW q \in Seq(E)
  PROVE  Both(p \o q, E, p, q)
<1> DEFINE m == Len(p)
           n == Len(q)
           r == p \o q
<1>1. /\ m \in Nat /\ DOMAIN p = 1..m /\ n \in Nat /\ DOMAIN q = 1..n
      /\ r \in Seq(E) /\ Len(r) = m + n /\ DOMAIN r = 1..(m + n)
  OBVIOUS
<1>2. /\ \A k \in 1..m : r[k] = p[k] /\ k \in 1..(m + n)
      /\ \A k \in 1..n : r[m + k] = q[k] /\ m + k \in 1..(m + n)
      /\ \A k \in 1..(m + n) : k > m => k - m \in 1..n /\ r[k] = q[k - m]
  OBVIOUS
<1> HIDE DEF m, n, r
<1>3. ToSet(r) = ToSet(p) \cup ToSet(q)
  <2>1. ASSUME NEW k \in 1..(m + n) PROVE r[k] \in ToSet(p) \cup ToSet(q)
    <3>1. CASE k <= m
      <4>1. k \in 1..m
        BY <1>1, <3>1
      <4> QED
        BY <1>1, <1>2, <4>1 DEF ToSet
    <3>2. CASE k > m
      BY <1>1, <1>2, <3>2 DEF ToSet
    <3> QED
      BY <1>1, <3>1, <3>2
  <2>2. \A k \in 1..m : p[k] \in ToSet(r)
    BY <1>1, <1>2 DEF ToSet
  <2>3. ASSUME NEW k \in 1..n PROVE q[k] \in ToSet(r)
    <3>1. m + k \in DOMAIN r /\ r[m + k] = q[k]
      BY <1>1, <1>2
    <3> QED
      BY <3>1 DEF ToSet
  <2> QED
    BY <1>1, <2>1, <2>2, <2>3 DEF ToSet
<1>4. ASSUME IsInjective(p), IsInjective(q), Disjoint(ToSet(p), ToSet(q)),
             NEW k \in 1..(m + n), NEW l \in 1..(m + n), r[k] = r[l]
      PROVE  k = l
  <2>1. \A x, y \in 1..m : p[x] = p[y] => x = y
    BY <1>1, <1>4 DEF IsInjective
  <2>2. \A x, y \in 1..n : q[x] = q[y] => x = y
    BY <1>1, <1>4 DEF IsInjective
  <2>3. \A x \in 1..m, y \in 1..n : p[x] # q[y]
    BY <1>1, <1>4 DEF ToSet, Disjoint
  <2>4. \A x \in 1..(m + n) : x > m \/ x \in 1..m
    BY <1>1
  <2>5. CASE k \in 1..m /\ l \in 1..m
    BY <1>2, <1>4, <2>1, <2>5
  <2>6. CASE k > m /\ l > m
    <3>1. k - m = l - m
      BY <1>2, <1>4, <2>2, <2>6
    <3> QED
      BY <1>1, <3>1
  <2>7. CASE k \in 1..m /\ l > m
    BY <1>2, <1>4, <2>3, <2>7
  <2>8. CASE k > m /\ l \in 1..m
    BY <1>2, <1>4, <2>3, <2>8
  <2> QED
    BY <2>4, <2>5, <2>6, <2>7, <2>8
<1>5. IsInjective(p) /\ IsInjective(q) /\ Disjoint(ToSet(p), ToSet(q)) => IsInjective(r)
  BY <1>1, <1>4 DEF IsInjective
<1> QED
  BY <1>1, <1>3, <1>5 DEF r, Both

\* A sequence of one element.
LEMMA Single ==
  ASSUME NEW E, NEW e \in E
  PROVE  /\ <<e>> \in Seq(E) /\ ToSet(<<e>>) = {e} /\ IsInjective(<<e>>)
         /\ \A q \in Seq(E) : Append(q, e) = q \o <<e>>
BY DEF ToSet, IsInjective

\* Another element in the place of one.
LEMMA ReplacedAt ==
  ASSUME NEW E, NEW q \in Seq(E), NEW i \in DOMAIN q, NEW e \in E, IsInjective(q),
         NEW rest, Drops(rest, ToSet(q), q[i]), e \notin rest
  PROVE  /\ [q EXCEPT ![i] = e] \in Seq(E) /\ IsInjective([q EXCEPT ![i] = e])
         /\ Adds(ToSet([q EXCEPT ![i] = e]), rest, e)
<1> DEFINE n == Len(q)
           p == [q EXCEPT ![i] = e]
<1>1. /\ n \in Nat /\ DOMAIN q = 1..n /\ i \in 1..n /\ \A k \in 1..n : q[k] \in E
      /\ p \in Seq(E) /\ DOMAIN p = 1..n /\ p[i] = e /\ \A k \in 1..n : k # i => p[k] = q[k]
  OBVIOUS
<1>2. \A x, y \in 1..n : q[x] = q[y] => x = y
  BY <1>1 DEF IsInjective
<1> HIDE DEF p, n
<1>3. \A k \in 1..n : k # i => q[k] # e
  BY <1>1, <1>2 DEF ToSet, Drops
<1>4. IsInjective(p)
  BY <1>1, <1>2, <1>3 DEF IsInjective
<1>5. ToSet(p) = (ToSet(q) \ {q[i]}) \cup {e}
  BY <1>1, <1>2 DEF ToSet
<1> QED
  BY <1>1, <1>4, <1>5 DEF p, Drops, Adds

-----------------------------------------------------------------------------
(* What a window holds.                                                    *)

PaneGroups == [id : Groups, panes : Seq(Tabs)]
WindowShapes ==
  [groups : Seq(PaneGroups), tabs : Seq(Tabs), handles : SUBSET (Tabs \cup Groups),
   active : Groups \cup {Absent}, focus : Tabs \cup {Absent}]

InGroups(S) == UNION {ToSet(g.panes) : g \in S}
GroupIds(S) == {g.id : g \in S}

PanesOK(g) == g.panes # <<>> /\ IsInjective(g.panes)

\* Groups that each have panes, and share neither a name nor a pane.
Apart(S) ==
  /\ S \subseteq PaneGroups
  /\ \A g \in S : PanesOK(g)
  /\ \A g, h \in S : g # h => g.id # h.id /\ Disjoint(ToSet(g.panes), ToSet(h.panes))

\* A window shows a pane of one of its groups.
InView(win) ==
  \/ win.groups = <<>> /\ win.active = Absent /\ win.focus = Absent
  \/ \E g \in ToSet(win.groups) : g.id = win.active /\ win.focus \in ToSet(g.panes)

LaidOut(win) ==
  /\ win \in WindowShapes /\ IsFiniteSet(win.handles)
  /\ IsInjective(win.groups) /\ Apart(ToSet(win.groups))
  /\ IsInjective(win.tabs) /\ ToSet(win.tabs) = InGroups(ToSet(win.groups))

WinOK(win) == LaidOut(win) /\ InView(win)

\* The identifiers a window has in use.
Held(win) == ToSet(win.tabs) \cup win.handles \cup GroupIds(ToSet(win.groups))

\* Fewer groups,
LEMMA ApartFewer ==
  ASSUME NEW S, Apart(S), NEW g \in S, NEW T, Drops(T, S, g)
  PROVE  /\ Apart(T) /\ InGroups(T) = InGroups(S) \ ToSet(g.panes)
         /\ GroupIds(T) = GroupIds(S) \ {g.id}
<1> USE DEF Drops
<1>1. Apart(T)
  BY DEF Apart
<1>2. InGroups(T) = InGroups(S) \ ToSet(g.panes)
  <2>1. ASSUME NEW h \in S \ {g}, NEW t \in ToSet(h.panes) PROVE t \notin ToSet(g.panes)
    BY <2>1 DEF Apart, Disjoint
  <2> QED
    BY <2>1 DEF InGroups
<1>3. GroupIds(T) = GroupIds(S) \ {g.id}
  BY DEF GroupIds, Apart
<1> QED
  BY <1>1, <1>2, <1>3

\* and one more.
LEMMA ApartMore ==
  ASSUME NEW S, Apart(S), NEW g \in PaneGroups, PanesOK(g),
         g.id \notin GroupIds(S), Disjoint(ToSet(g.panes), InGroups(S)),
         NEW T, Adds(T, S, g)
  PROVE  /\ Apart(T) /\ InGroups(T) = InGroups(S) \cup ToSet(g.panes)
         /\ GroupIds(T) = GroupIds(S) \cup {g.id} /\ g \notin S
<1> USE DEF Adds, Disjoint
<1>1. \A h \in S : h.id # g.id /\ ToSet(h.panes) \cap ToSet(g.panes) = {}
  <2> TAKE h \in S
  <2>1. h.id # g.id
    BY DEF GroupIds
  <2>2. ToSet(h.panes) \subseteq InGroups(S)
    BY DEF InGroups
  <2> QED
    BY <2>1, <2>2
<1>2. Apart(T)
  BY <1>1 DEF Apart
<1>3. InGroups(T) = InGroups(S) \cup ToSet(g.panes)
  BY DEF InGroups
<1>4. GroupIds(T) = GroupIds(S) \cup {g.id}
  BY DEF GroupIds
<1> QED
  BY <1>1, <1>2, <1>3, <1>4

\* The first of a set of places.
LEMMA MinChosen ==
  ASSUME NEW n \in Nat, NEW I, I \subseteq 1..n, I # {}
  PROVE  Min(I) \in I /\ Min(I) # 0
<1>1. I \in SUBSET Nat
  OBVIOUS
<1>2. \E x \in I : \A y \in I : x <= y
  BY <1>1, Least
<1>3. Min(I) \in I
  BY <1>2 DEF Min
<1> QED
  BY <1>3

\* Looking up a group by its name,
LEMMA GroupAtFinds ==
  ASSUME NEW win, win.groups \in Seq(PaneGroups), NEW g
  PROVE  /\ HasGroup(win, g) <=> g \in GroupIds(ToSet(win.groups))
         /\ HasGroup(win, g) =>
              GroupAt(win, g) \in 1..Len(win.groups) /\ win.groups[GroupAt(win, g)].id = g
<1> DEFINE I == {i \in 1..Len(win.groups) : win.groups[i].id = g}
<1>1. GroupAt(win, g) = IF I # {} THEN Min(I) ELSE 0
  BY DEF GroupAt, SelectInSeq
<1>2. I # {} => Min(I) \in I /\ Min(I) # 0
  <2>1. Len(win.groups) \in Nat /\ I \subseteq 1..Len(win.groups)
    OBVIOUS
  <2> HIDE DEF I
  <2> QED
    BY <2>1, MinChosen
<1>3. I # {} <=> g \in GroupIds(ToSet(win.groups))
  BY DEF GroupIds, ToSet
<1> QED
  BY <1>1, <1>2, <1>3 DEF HasGroup

\* and by one of its panes.
LEMMA GroupOfFinds ==
  ASSUME NEW win, win.groups \in Seq(PaneGroups), NEW t
  PROVE  t \in InGroups(ToSet(win.groups)) =>
           /\ GroupOf(win, t) \in 1..Len(win.groups)
           /\ t \in ToSet(win.groups[GroupOf(win, t)].panes)
<1> DEFINE I == {i \in 1..Len(win.groups) : t \in ToSet(win.groups[i].panes)}
<1>1. GroupOf(win, t) = IF I # {} THEN Min(I) ELSE 0
  BY DEF GroupOf, SelectInSeq
<1>2. I # {} => Min(I) \in I /\ Min(I) # 0
  <2>1. Len(win.groups) \in Nat /\ I \subseteq 1..Len(win.groups)
    OBVIOUS
  <2> HIDE DEF I
  <2> QED
    BY <2>1, MinChosen
<1>3. t \in InGroups(ToSet(win.groups)) => I # {}
  <2> SUFFICES ASSUME t \in InGroups(ToSet(win.groups)) PROVE I # {}
    OBVIOUS
  <2>1. PICK g \in ToSet(win.groups) : t \in ToSet(g.panes)
    BY DEF InGroups
  <2>2. PICK i \in 1..Len(win.groups) : g = win.groups[i]
    BY <2>1 DEF ToSet
  <2> QED
    BY <2>1, <2>2
<1> QED
  BY <1>1, <1>2, <1>3

\* The active group of a window is where its focus is.
LEMMA ActiveFinds ==
  ASSUME NEW win, WinOK(win), win.groups # <<>>
  PROVE  /\ ActiveAt(win) \in 1..Len(win.groups)
         /\ win.groups[ActiveAt(win)].id = win.active
         /\ win.focus \in ToSet(win.groups[ActiveAt(win)].panes)
<1>1. PICK g \in ToSet(win.groups) : g.id = win.active /\ win.focus \in ToSet(g.panes)
  BY DEF WinOK, InView
<1>2. win.groups \in Seq(PaneGroups) /\ Apart(ToSet(win.groups))
  BY DEF WinOK, LaidOut, WindowShapes
<1>3. HasGroup(win, win.active)
  BY <1>1, <1>2, GroupAtFinds DEF GroupIds
<1>4. ActiveAt(win) \in 1..Len(win.groups) /\ win.groups[ActiveAt(win)].id = win.active
  BY <1>2, <1>3, GroupAtFinds DEF ActiveAt
<1>5. win.groups[ActiveAt(win)] = g
  <2>1. win.groups[ActiveAt(win)] \in ToSet(win.groups)
    BY <1>2, <1>4 DEF ToSet
  <2> QED
    BY <1>1, <1>2, <1>4, <2>1 DEF Apart
<1> QED
  BY <1>1, <1>4, <1>5

\* A group joins a window, and is shown.
GroupJoined(win, g, hs, f) ==
  [groups |-> Append(win.groups, g), tabs |-> win.tabs \o g.panes,
   handles |-> win.handles \cup hs, active |-> g.id, focus |-> f]

\* It is another one there.
LEMMA GroupJoins ==
  ASSUME NEW win, WinOK(win), NEW g \in PaneGroups, PanesOK(g),
         g.id \notin GroupIds(ToSet(win.groups)), Disjoint(ToSet(g.panes), ToSet(win.tabs)),
         NEW hs \in SUBSET (Tabs \cup Groups), IsFiniteSet(hs), NEW f \in ToSet(g.panes)
  PROVE  /\ WinOK(GroupJoined(win, g, hs, f))
         /\ Held(GroupJoined(win, g, hs, f)) = Held(win) \cup ToSet(g.panes) \cup hs \cup {g.id}
<1> DEFINE new == GroupJoined(win, g, hs, f)
<1>0. /\ new.groups = Append(win.groups, g) /\ new.tabs = win.tabs \o g.panes
      /\ new.handles = win.handles \cup hs /\ new.active = g.id /\ new.focus = f
      /\ new = [groups |-> new.groups, tabs |-> new.tabs, handles |-> new.handles,
                active |-> new.active, focus |-> new.focus]
  BY DEF GroupJoined
<1> HIDE DEF new
<1>1. /\ win.groups \in Seq(PaneGroups) /\ win.tabs \in Seq(Tabs) /\ g.panes \in Seq(Tabs)
      /\ win.handles \in SUBSET (Tabs \cup Groups) /\ g.id \in Groups
      /\ IsInjective(win.groups) /\ Apart(ToSet(win.groups)) /\ IsFiniteSet(win.handles)
      /\ IsInjective(win.tabs) /\ ToSet(win.tabs) = InGroups(ToSet(win.groups))
  BY DEF WinOK, LaidOut, WindowShapes, PaneGroups
<1> DEFINE T == ToSet(win.groups) \cup {g}
<1>2. /\ Apart(T) /\ g \notin ToSet(win.groups)
      /\ InGroups(T) = ToSet(win.tabs) \cup ToSet(g.panes)
      /\ GroupIds(T) = GroupIds(ToSet(win.groups)) \cup {g.id}
  <2>1. Adds(T, ToSet(win.groups), g) /\ Disjoint(ToSet(g.panes), InGroups(ToSet(win.groups)))
    BY <1>1 DEF Adds
  <2> HIDE DEF T
  <2> QED
    BY <1>1, <2>1, ApartMore
<1>3. /\ new.groups \in Seq(PaneGroups) /\ IsInjective(new.groups)
      /\ ToSet(new.groups) = T
  <2>1. new.groups = win.groups \o <<g>> /\ <<g>> \in Seq(PaneGroups)
        /\ ToSet(<<g>>) = {g} /\ IsInjective(<<g>>)
    BY <1>0, <1>1, Single
  <2>2. Disjoint(ToSet(win.groups), ToSet(<<g>>))
    BY <1>2, <2>1 DEF Disjoint
  <2>3. Both(win.groups \o <<g>>, PaneGroups, win.groups, <<g>>)
    BY <1>1, <2>1, Joined
  <2> QED
    BY <1>1, <1>2, <2>1, <2>2, <2>3 DEF Both
<1>4. /\ new.tabs \in Seq(Tabs) /\ IsInjective(new.tabs)
      /\ ToSet(new.tabs) = ToSet(win.tabs) \cup ToSet(g.panes)
  <2>1. new.tabs = win.tabs \o g.panes /\ Disjoint(ToSet(win.tabs), ToSet(g.panes))
    BY <1>0 DEF Disjoint
  <2>2. Both(win.tabs \o g.panes, Tabs, win.tabs, g.panes)
    BY <1>1, Joined
  <2> QED
    BY <1>1, <2>1, <2>2 DEF PanesOK, Both
<1>5. new.handles \in SUBSET (Tabs \cup Groups) /\ IsFiniteSet(new.handles)
      /\ new.handles = win.handles \cup hs
  BY <1>0, <1>1, FS_Union
<1>6. f \in Tabs
  BY <1>1 DEF ToSet
<1>7. new \in WindowShapes
  BY <1>0, <1>1, <1>3, <1>4, <1>5, <1>6 DEF WindowShapes
<1>8. LaidOut(new)
  BY <1>2, <1>3, <1>4, <1>5, <1>7 DEF LaidOut
<1>9. InView(new)
  <2>1. g \in ToSet(new.groups) /\ g.id = new.active /\ new.focus \in ToSet(g.panes)
    BY <1>0, <1>3
  <2> QED
    BY <2>1 DEF InView
<1>10. Held(new) = Held(win) \cup ToSet(g.panes) \cup hs \cup {g.id}
  BY <1>2, <1>3, <1>4, <1>5 DEF Held
<1> QED
  BY <1>8, <1>9, <1>10 DEF WinOK, new

Merges(U, S, N) == U = S \cup N

\* The active group of a window gets more panes.
GroupGrown(win, i, ps, ts, hs, f) ==
  [groups |-> [win.groups EXCEPT ![i] = [@ EXCEPT !.panes = ps]], tabs |-> ts,
   handles |-> hs, active |-> win.active, focus |-> f]

\* They are in no other group.
LEMMA GroupGrows ==
  ASSUME NEW win, WinOK(win), NEW i \in 1..Len(win.groups), win.groups[i].id = win.active,
         NEW N, Disjoint(N, ToSet(win.tabs)),
         NEW ps \in Seq(Tabs), IsInjective(ps), Merges(ToSet(ps), ToSet(win.groups[i].panes), N),
         NEW ts \in Seq(Tabs), IsInjective(ts), Merges(ToSet(ts), ToSet(win.tabs), N),
         NEW hs \in SUBSET (Tabs \cup Groups), IsFiniteSet(hs), NEW f \in ToSet(ps)
  PROVE  /\ WinOK(GroupGrown(win, i, ps, ts, hs, f))
         /\ Held(GroupGrown(win, i, ps, ts, hs, f)) =
              ToSet(win.tabs) \cup N \cup hs \cup GroupIds(ToSet(win.groups))
<1> DEFINE new == GroupGrown(win, i, ps, ts, hs, f)
<1>0. /\ new.groups = [win.groups EXCEPT ![i] = [@ EXCEPT !.panes = ps]] /\ new.tabs = ts
      /\ new.handles = hs /\ new.active = win.active /\ new.focus = f
      /\ new = [groups |-> new.groups, tabs |-> new.tabs, handles |-> new.handles,
                active |-> new.active, focus |-> new.focus]
  BY DEF GroupGrown
<1>a. ToSet(ps) = ToSet(win.groups[i].panes) \cup N /\ ToSet(ts) = ToSet(win.tabs) \cup N
  BY DEF Merges
<1> HIDE DEF new
<1> DEFINE gs == win.groups
           g == gs[i]
           F == ToSet(gs) \ {g}
           h == [id |-> g.id, panes |-> ps]
<1>1. /\ gs \in Seq(PaneGroups) /\ g \in PaneGroups /\ g \in ToSet(gs)
      /\ DOMAIN gs = 1..Len(gs)
      /\ IsInjective(gs) /\ Apart(ToSet(gs))
      /\ ToSet(win.tabs) = InGroups(ToSet(gs)) /\ win.active \in Groups \cup {Absent}
  <2>1. /\ win \in WindowShapes
        /\ IsInjective(gs) /\ Apart(ToSet(gs)) /\ ToSet(win.tabs) = InGroups(ToSet(gs))
    BY DEF WinOK, LaidOut
  <2>2. gs \in Seq(PaneGroups) /\ win.active \in Groups \cup {Absent}
    BY <2>1 DEF WindowShapes
  <2> HIDE DEF gs
  <2>3. i \in DOMAIN gs /\ DOMAIN gs = 1..Len(gs) /\ g \in PaneGroups
    BY <2>2 DEF gs
  <2> QED
    BY <2>1, <2>2, <2>3 DEF ToSet
<1>2. h \in PaneGroups /\ h = [g EXCEPT !.panes = ps] /\ h.id = g.id /\ h.panes = ps
  <2> HIDE DEF gs, g
  <2>1. g \in [id : Groups, panes : Seq(Tabs)]
    BY <1>1 DEF PaneGroups
  <2>2. h = [g EXCEPT !.panes = ps] /\ h.id = g.id /\ h.panes = ps
    BY <2>1
  <2>3. h \in [id : Groups, panes : Seq(Tabs)]
    BY <2>1
  <2> QED
    BY <2>2, <2>3 DEF PaneGroups
<1>3. new.groups = [gs EXCEPT ![i] = h]
  BY <1>0, <1>2
<1> DEFINE T == F \cup {h}
<1>t. Drops(F, ToSet(gs), g) /\ Adds(T, F, h)
  BY DEF Drops, Adds
<1> HIDE DEF gs, g, h, F, T
<1>4. /\ Apart(F)
      /\ InGroups(F) = InGroups(ToSet(gs)) \ ToSet(g.panes)
      /\ GroupIds(F) = GroupIds(ToSet(gs)) \ {g.id}
  BY <1>1, <1>t, ApartFewer
<1>5. ps # <<>>
  <2>1. g.panes # <<>> /\ g.panes \in Seq(Tabs)
    BY <1>1 DEF Apart, PaneGroups, PanesOK
  <2>2. g.panes[1] \in ToSet(g.panes)
    BY <2>1 DEF ToSet
  <2>3. g.panes[1] \in ToSet(ps)
    BY <1>a, <2>2 DEF g, gs
  <2> QED
    BY <2>3 DEF ToSet
<1>6. Disjoint(ToSet(h.panes), InGroups(F)) /\ PanesOK(h) /\ h.id \notin GroupIds(F)
  BY <1>1, <1>2, <1>4, <1>5, <1>a DEF g, gs, Disjoint, PanesOK
<1>7. /\ Apart(T) /\ h \notin F
      /\ InGroups(T) = InGroups(F) \cup ToSet(h.panes)
      /\ GroupIds(T) = GroupIds(F) \cup {h.id}
  <2>1. /\ Apart(F) /\ h \in PaneGroups /\ PanesOK(h) /\ h.id \notin GroupIds(F)
        /\ Disjoint(ToSet(h.panes), InGroups(F)) /\ Adds(T, F, h)
    BY <1>2, <1>4, <1>6, <1>t
  <2> QED
    BY <2>1, ApartMore
<1>8. /\ new.groups \in Seq(PaneGroups) /\ IsInjective(new.groups)
      /\ ToSet(new.groups) = T
  <2>1. g = gs[i] /\ i \in DOMAIN gs
    BY <1>1 DEF g, gs
  <2>2. /\ gs \in Seq(PaneGroups) /\ h \in PaneGroups /\ IsInjective(gs)
        /\ Drops(F, ToSet(gs), gs[i]) /\ h \notin F
    BY <1>1, <1>2, <1>7, <1>t, <2>1
  <2>3. /\ [gs EXCEPT ![i] = h] \in Seq(PaneGroups) /\ IsInjective([gs EXCEPT ![i] = h])
        /\ Adds(ToSet([gs EXCEPT ![i] = h]), F, h)
    BY <2>1, <2>2, ReplacedAt
  <2> QED
    BY <1>3, <1>t, <2>3 DEF Adds
<1>9. InGroups(ToSet(new.groups)) = ToSet(ts)
  <2>1. ToSet(g.panes) \subseteq InGroups(ToSet(gs))
    BY <1>1 DEF InGroups
  <2>2. ToSet(h.panes) = ToSet(g.panes) \cup N
    BY <1>2, <1>a DEF g, gs
  <2> QED
    BY <1>1, <1>4, <1>7, <1>8, <1>a, <2>1, <2>2
<1>10. GroupIds(ToSet(new.groups)) = GroupIds(ToSet(gs))
  <2>1. g.id \in GroupIds(ToSet(gs))
    BY <1>1 DEF GroupIds
  <2>2. GroupIds(F) = GroupIds(ToSet(gs)) \ {g.id}
    BY <1>4
  <2>3. GroupIds(T) = GroupIds(ToSet(gs))
    BY ONLY <2>1, <2>2, <1>2, <1>7
  <2> QED
    BY <1>8, <2>3
<1>11. f \in Tabs
  BY DEF ToSet
<1>12. new \in WindowShapes /\ new.tabs = ts /\ new.handles = hs /\ new.active = win.active /\ new.focus = f
  BY <1>0, <1>1, <1>8, <1>11 DEF WindowShapes
<1>13. LaidOut(new)
  BY <1>7, <1>8, <1>9, <1>12 DEF LaidOut
<1>14. InView(new)
  <2>1. h \in ToSet(new.groups) /\ h.id = new.active /\ new.focus \in ToSet(h.panes)
    <3>1. h \in T
      BY <1>t DEF Adds
    <3>2. g.id = win.active
      BY DEF g, gs
    <3> QED
      BY <1>2, <1>8, <1>12, <3>1, <3>2
  <2> QED
    BY <2>1 DEF InView
<1>15. Held(new) = ToSet(win.tabs) \cup N \cup hs \cup GroupIds(ToSet(win.groups))
  BY <1>10, <1>12, <1>a DEF Held, gs
<1> QED
  BY <1>13, <1>14, <1>15 DEF WinOK, new

-----------------------------------------------------------------------------
(* The routes of what windows hold.  Only the tabs are about: the store    *)
(* holds no events.                                                        *)

QuietStores ==
  [routes     : [Routes -> Owners \cup {Nobody}],
   pending    : [Owners -> {<<>>}],
   unrouted   : [Routes -> {<<>>}],
   seen       : {<<>>},
   tombstones : Seq(Routes)]

\* Routes of rs may have gone to w, and those of gone may have been removed.
Rerouted(st, new, rs, gone, w) ==
  /\ new \in QuietStores
  /\ \A r \in Routes : \/ new.routes[r] = st.routes[r]
                       \/ r \in gone /\ new.routes[r] = Nobody
                       \/ r \in rs /\ new.routes[r] = w

\* The routes of rs, and no others, go to w.
RoutedTo(st, new, rs, w) ==
  /\ new \in QuietStores
  /\ \A r \in rs : new.routes[r] = w
  /\ \A r \in Routes \ rs : new.routes[r] = st.routes[r]

\* Nothing comes of nothing.
LEMMA NothingKept ==
  /\ \A S : Those(<<>>, S) = <<>>
  /\ \A rs : Kept(<<>>, rs) = <<>>
  /\ Pushed(<<>>, <<>>) = <<>>
<1>1. \A S : S = {} => \A q \in Seq(S) : q = <<>>
  OBVIOUS
<1>2. EventsOn({}) = {}
  BY DEF EventsOn
<1>3. ASSUME NEW S PROVE Those(<<>>, S) = <<>>
  <2>1. <<>> \in Seq({})
    OBVIOUS
  <2>2. Those(<<>>, S) \in Seq({})
    BY <2>1, ThoseIn
  <2> QED
    BY <1>1, <2>2
<1>4. ASSUME NEW rs PROVE Kept(<<>>, rs) = <<>>
  <2>1. <<>> \in Seq(EventsOn({}))
    OBVIOUS
  <2>2. Kept(<<>>, rs) \in Seq(EventsOn({} \cap rs))
    BY <2>1, KeptOn
  <2>3. {} \cap rs = {}
    OBVIOUS
  <2> QED
    BY <1>1, <1>2, <2>2, <2>3
<1>5. Pushed(<<>>, <<>>) = <<>>
  <2>1. <<>> \in Seq(EventsOn({}))
    OBVIOUS
  <2>2. Pushed(<<>>, <<>>) \in Seq(EventsOn({}))
    BY <2>1, PushedOn
  <2> QED
    BY <1>1, <1>2, <2>2
<1> QED
  BY <1>3, <1>4, <1>5

\* Forgetting unrouted events changes nothing when there are none.
LEMMA ForgetNothing ==
  ASSUME NEW st \in QuietStores, NEW gone
  PROVE  ForgetUnrouted(st, gone) = st
<1>1. [r \in Routes |-> IF r \in gone THEN <<>> ELSE st.unrouted[r]] = st.unrouted
  BY DEF QuietStores
<1>2. Those(st.seen, Routes \ gone) = st.seen
  BY NothingKept DEF QuietStores
<1> QED
  BY <1>1, <1>2 DEF QuietStores, ForgetUnrouted

\* Registering a route,
LEMMA RegisterOne ==
  ASSUME NEW st \in QuietStores, NEW r \in Routes, NEW w \in Owners
  PROVE  RoutedTo(st, RegisterRoute(st, r, w), {r}, w)
<1> DEFINE rs == [st.routes EXCEPT ![r] = w]
           ts == Those(st.tombstones, Routes \ {r})
           pd == [st.pending EXCEPT ![w] = Pushed(@, st.unrouted[r])]
           rg == [st EXCEPT !.tombstones = ts, !.routes = rs, !.pending = pd]
<1>1. RegisterRoute(st, r, w) = ForgetUnrouted(rg, {r})
  BY DEF RegisterRoute
<1>2. ts \in Seq(Routes)
  BY ThoseIn DEF QuietStores
<1>3. pd = st.pending
  BY NothingKept DEF QuietStores
<1>4. rs \in [Routes -> Owners \cup {Nobody}] /\ rs[r] = w
      /\ \A s \in Routes \ {r} : rs[s] = st.routes[s]
  BY DEF QuietStores
<1> HIDE DEF rs, ts, pd
<1>5. rg \in QuietStores /\ rg.routes = rs
  BY <1>2, <1>3, <1>4 DEF QuietStores
<1> HIDE DEF rg
<1> QED
  BY <1>1, <1>4, <1>5, ForgetNothing DEF RoutedTo

\* and removing one.
LEMMA UnregisterOne ==
  ASSUME NEW st \in QuietStores, NEW r \in Routes, NEW w \in Owners
  PROVE  Rerouted(st, UnregisterRoute(st, r, w), {}, {r}, w)
<1>1. CASE st.routes[r] # w
  BY <1>1 DEF UnregisterRoute, Rerouted
<1>2. CASE st.routes[r] = w
  <2> DEFINE rs == [st.routes EXCEPT ![r] = Nobody]
             ts == TrimTombstones(Append(Those(st.tombstones, Routes \ {r}), r))
             pd == [o \in Owners |-> Kept(st.pending[o], Routes \ {r})]
             un == [st EXCEPT !.routes = rs, !.tombstones = ts, !.pending = pd]
  <2>1. UnregisterRoute(st, r, w) = ForgetUnrouted(un, {r})
    BY <1>2 DEF UnregisterRoute
  <2>2. ts \in Seq(Routes)
    <3>1. Those(st.tombstones, Routes \ {r}) \in Seq(Routes)
      BY ThoseIn DEF QuietStores
    <3>2. Append(Those(st.tombstones, Routes \ {r}), r) \in Seq(Routes)
      BY <3>1
    <3> QED
      BY <3>2, TrimmedIn
  <2>3. pd = st.pending
    BY NothingKept DEF QuietStores
  <2>4. rs \in [Routes -> Owners \cup {Nobody}]
        /\ \A s \in Routes : rs[s] = st.routes[s] \/ (s = r /\ rs[s] = Nobody)
    BY DEF QuietStores
  <2> HIDE DEF rs, ts, pd
  <2>5. un \in QuietStores /\ un.routes = rs
    BY <2>2, <2>3, <2>4 DEF QuietStores
  <2> HIDE DEF un
  <2> QED
    BY <2>1, <2>4, <2>5, ForgetNothing DEF Rerouted
<1> QED
  BY <1>1, <1>2

\* One such change after another.
LEMMA RoutedThen ==
  ASSUME NEW st, NEW mid, NEW new, NEW rs, NEW r \in rs, NEW w,
         RoutedTo(st, mid, rs \ {r}, w), RoutedTo(mid, new, {r}, w), rs \subseteq Routes
  PROVE  RoutedTo(st, new, rs, w)
BY DEF RoutedTo

\* Routes that moved or went, and then more of them.
LEMMA ReroutedThen ==
  ASSUME NEW st, NEW mid, NEW new, NEW rs, NEW gone, NEW w,
         Rerouted(st, mid, rs, gone, w), Rerouted(mid, new, rs, gone, w)
  PROVE  Rerouted(st, new, rs, gone, w)
BY DEF Rerouted

\* More routes that may have.
LEMMA ReroutedMore ==
  ASSUME NEW st, NEW new, NEW rs, NEW more, rs \subseteq more, NEW w,
         Rerouted(st, new, rs, {}, w) \/ RoutedTo(st, new, rs, w)
  PROVE  Rerouted(st, new, more, {}, w)
BY DEF RoutedTo, Rerouted

\* Registering a set of routes,
LEMMA RegisterMany ==
  ASSUME NEW st \in QuietStores, NEW rs \in SUBSET Routes, IsFiniteSet(rs), NEW w \in Owners
  PROVE  RoutedTo(st, RegisterAll(st, rs, w), rs, w)
<1> DEFINE c == [s \in (SUBSET rs) \ {{}} |-> CHOOSE x \in s : TRUE]
           V == QuietStores
           step == [p \in V \X rs |-> RegisterRoute(p[1], p[2], w)]
           W == {p \in (SUBSET rs) \X V : RoutedTo(st, p[2], p[1], w)}
<1>1. \A s \in SUBSET rs : s # {} => c[s] = (CHOOSE x \in s : TRUE) /\ c[s] \in s
  OBVIOUS
<1>2. ASSUME NEW v \in V, NEW r \in rs
      PROVE  RegisterRoute(v, r, w) \in V /\ RoutedTo(v, RegisterRoute(v, r, w), {r}, w)
  BY RegisterOne DEF RoutedTo
<1>3. st \in V /\ step \in [V \X rs -> V]
  BY <1>2
<1>4. \A p \in V \X rs : step[p] = RegisterRoute(p[1], p[2], w)
  OBVIOUS
<1>5. \A s, v : <<s, v>> \in W <=> s \in SUBSET rs /\ v \in V /\ RoutedTo(st, v, s, w)
  OBVIOUS
<1> HIDE DEF c, V, step, W
<1>6. PICK f : Solves(f, rs, c, V, st, step)
  BY <1>1, <1>3, FoldExists
<1>7. ASSUME NEW s \in SUBSET rs, s # {}
      PROVE  f[s] = RegisterRoute(f[s \ {CHOOSE x \in s : TRUE}], CHOOSE x \in s : TRUE, w)
  <2>1. f \in [SUBSET rs -> V] /\ f[s] = step[<<f[s \ {c[s]}], c[s]>>]
    BY <1>6, <1>7 DEF Solves
  <2>2. c[s] \in rs /\ s \ {c[s]} \in SUBSET rs
    BY <1>1, <1>7
  <2>3. <<f[s \ {c[s]}], c[s]>> \in V \X rs
    BY <2>1, <2>2
  <2> QED
    BY <1>1, <1>4, <1>7, <2>1, <2>3
<1>8. f = [s \in SUBSET rs |->
             IF s = {} THEN st
             ELSE RegisterRoute(f[s \ {CHOOSE x \in s : TRUE}], CHOOSE x \in s : TRUE, w)]
  <2>1. f \in [SUBSET rs -> V] /\ f[{}] = st
    BY <1>6 DEF Solves
  <2> QED
    BY <1>7, <2>1
<1>9. PICK g : /\ g = [s \in SUBSET rs |->
                         IF s = {} THEN st
                         ELSE RegisterRoute(g[s \ {CHOOSE x \in s : TRUE}], CHOOSE x \in s : TRUE, w)]
               /\ RegisterAll(st, rs, w) = g[rs]
  BY <1>8 DEF RegisterAll, FoldSet, MapThenFoldSet
<1>10. g[{}] = st /\ \A s \in SUBSET rs : s # {} => g[s] = RegisterRoute(g[s \ {c[s]}], c[s], w)
  <2>1. g[{}] = st
    BY <1>9
  <2>2. \A s \in SUBSET rs : s # {} =>
          g[s] = RegisterRoute(g[s \ {CHOOSE x \in s : TRUE}], CHOOSE x \in s : TRUE, w)
    BY <1>9
  <2> QED
    BY <1>1, <2>1, <2>2
<1>11. <<{}, g[{}]>> \in W
  <2>1. RoutedTo(st, st, {}, w)
    BY DEF RoutedTo
  <2> QED
    BY <1>3, <1>5, <1>10, <2>1
<1>12. ASSUME NEW s \in SUBSET rs, s # {}, <<s \ {c[s]}, g[s \ {c[s]}]>> \in W
       PROVE  <<s, g[s]>> \in W
  <2>1. c[s] \in s /\ c[s] \in rs /\ g[s] = RegisterRoute(g[s \ {c[s]}], c[s], w)
    BY <1>1, <1>10, <1>12
  <2>2. g[s \ {c[s]}] \in V /\ RoutedTo(st, g[s \ {c[s]}], s \ {c[s]}, w)
    BY <1>5, <1>12
  <2>3. g[s] \in V /\ RoutedTo(g[s \ {c[s]}], g[s], {c[s]}, w)
    BY <1>2, <2>1, <2>2
  <2>4. RoutedTo(st, g[s], s, w)
    BY <2>1, <2>2, <2>3, RoutedThen
  <2> QED
    BY <1>5, <2>3, <2>4
<1>13. <<rs, g[rs]>> \in W
  <2>1. \A s \in SUBSET rs : s # {} => c[s] \in s
    BY <1>1
  <2> QED
    BY <1>11, <1>12, <2>1, FoldStays
<1> QED
  BY <1>5, <1>9, <1>13

\* and removing one.
LEMMA UnregisterMany ==
  ASSUME NEW st \in QuietStores, NEW rs \in SUBSET Routes, IsFiniteSet(rs), NEW w \in Owners
  PROVE  Rerouted(st, UnregisterAll(st, rs, w), {}, rs, w)
<1> DEFINE c == [s \in (SUBSET rs) \ {{}} |-> CHOOSE x \in s : TRUE]
           V == QuietStores
           step == [p \in V \X rs |-> UnregisterRoute(p[1], p[2], w)]
           W == {p \in (SUBSET rs) \X V : Rerouted(st, p[2], {}, rs, w)}
<1>1. \A s \in SUBSET rs : s # {} => c[s] = (CHOOSE x \in s : TRUE) /\ c[s] \in s
  OBVIOUS
<1>2. ASSUME NEW v \in V, NEW r \in rs
      PROVE  UnregisterRoute(v, r, w) \in V /\ Rerouted(v, UnregisterRoute(v, r, w), {}, rs, w)
  BY UnregisterOne DEF Rerouted
<1>3. st \in V /\ step \in [V \X rs -> V]
  BY <1>2
<1>4. \A p \in V \X rs : step[p] = UnregisterRoute(p[1], p[2], w)
  OBVIOUS
<1>5. \A s, v : <<s, v>> \in W <=> s \in SUBSET rs /\ v \in V /\ Rerouted(st, v, {}, rs, w)
  OBVIOUS
<1> HIDE DEF c, V, step, W
<1>6. PICK f : Solves(f, rs, c, V, st, step)
  BY <1>1, <1>3, FoldExists
<1>7. ASSUME NEW s \in SUBSET rs, s # {}
      PROVE  f[s] = UnregisterRoute(f[s \ {CHOOSE x \in s : TRUE}], CHOOSE x \in s : TRUE, w)
  <2>1. f \in [SUBSET rs -> V] /\ f[s] = step[<<f[s \ {c[s]}], c[s]>>]
    BY <1>6, <1>7 DEF Solves
  <2>2. c[s] \in rs /\ s \ {c[s]} \in SUBSET rs
    BY <1>1, <1>7
  <2>3. <<f[s \ {c[s]}], c[s]>> \in V \X rs
    BY <2>1, <2>2
  <2> QED
    BY <1>1, <1>4, <1>7, <2>1, <2>3
<1>8. f = [s \in SUBSET rs |->
             IF s = {} THEN st
             ELSE UnregisterRoute(f[s \ {CHOOSE x \in s : TRUE}], CHOOSE x \in s : TRUE, w)]
  <2>1. f \in [SUBSET rs -> V] /\ f[{}] = st
    BY <1>6 DEF Solves
  <2> QED
    BY <1>7, <2>1
<1>9. PICK g : /\ g = [s \in SUBSET rs |->
                         IF s = {} THEN st
                         ELSE UnregisterRoute(g[s \ {CHOOSE x \in s : TRUE}], CHOOSE x \in s : TRUE, w)]
               /\ UnregisterAll(st, rs, w) = g[rs]
  BY <1>8 DEF UnregisterAll, FoldSet, MapThenFoldSet
<1>10. g[{}] = st /\ \A s \in SUBSET rs : s # {} => g[s] = UnregisterRoute(g[s \ {c[s]}], c[s], w)
  <2>1. g[{}] = st
    BY <1>9
  <2>2. \A s \in SUBSET rs : s # {} =>
          g[s] = UnregisterRoute(g[s \ {CHOOSE x \in s : TRUE}], CHOOSE x \in s : TRUE, w)
    BY <1>9
  <2> QED
    BY <1>1, <2>1, <2>2
<1>11. <<{}, g[{}]>> \in W
  <2>1. Rerouted(st, st, {}, rs, w)
    BY DEF Rerouted
  <2> QED
    BY <1>3, <1>5, <1>10, <2>1
<1>12. ASSUME NEW s \in SUBSET rs, s # {}, <<s \ {c[s]}, g[s \ {c[s]}]>> \in W
       PROVE  <<s, g[s]>> \in W
  <2>1. c[s] \in s /\ c[s] \in rs /\ g[s] = UnregisterRoute(g[s \ {c[s]}], c[s], w)
    BY <1>1, <1>10, <1>12
  <2>2. g[s \ {c[s]}] \in V /\ Rerouted(st, g[s \ {c[s]}], {}, rs, w)
    BY <1>5, <1>12
  <2>3. g[s] \in V /\ Rerouted(g[s \ {c[s]}], g[s], {}, rs, w)
    BY <1>2, <2>1, <2>2
  <2>4. Rerouted(st, g[s], {}, rs, w)
    BY <2>1, <2>2, <2>3, ReroutedThen
  <2> QED
    BY <1>5, <2>3, <2>4
<1>13. <<rs, g[rs]>> \in W
  <2>1. \A s \in SUBSET rs : s # {} => c[s] \in s
    BY <1>1
  <2> QED
    BY <1>11, <1>12, <2>1, FoldStays
<1> QED
  BY <1>5, <1>9, <1>13

-----------------------------------------------------------------------------
(* A batch is one group or two: folds over it in one or two steps.         *)

\* The last of one or two places.
LEMMA MaxOfOne ==
  /\ Max({1}) = 1 /\ Max({2}) = 2 /\ Max({1, 2}) = 2
<1>1. Max({1}) \in {1}
  BY MaxChosen
<1>2. Max({2}) \in {2}
  <2>1. {2} \in SUBSET (1..2) /\ {2} # {}
    OBVIOUS
  <2> QED
    BY <2>1, MaxChosen
<1>3. Max({1, 2}) \in {1, 2} /\ Max({1, 2}) >= 2
  <2>1. {1, 2} \in SUBSET (1..2) /\ {1, 2} # {} /\ 2 \in {1, 2}
    OBVIOUS
  <2> QED
    BY <2>1, MaxChosen
<1> QED
  BY <1>1, <1>2, <1>3

\* The sets of one or two places.
LEMMA ShortSets ==
  /\ \A s \in SUBSET {1, 2} : s \in {{}, {1}, {2}, {1, 2}}
  /\ {1} \ {1} = {} /\ {2} \ {2} = {} /\ {1, 2} \ {2} = {1}
  /\ {1} # {} /\ {2} # {} /\ {1, 2} # {} /\ {1} # {2} /\ {1, 2} # {1} /\ {1, 2} # {2}
<1>1. ASSUME NEW s \in SUBSET {1, 2} PROVE s \in {{}, {1}, {2}, {1, 2}}
  <2>1. CASE 1 \in s /\ 2 \in s
    BY <2>1
  <2>2. CASE 1 \in s /\ 2 \notin s
    <3>1. s = {1}
      BY <2>2
    <3> QED
      BY <3>1
  <2>3. CASE 1 \notin s /\ 2 \in s
    <3>1. s = {2}
      BY <2>3
    <3> QED
      BY <3>1
  <2>4. CASE 1 \notin s /\ 2 \notin s
    <3>1. s = {}
      BY <2>4
    <3> QED
      BY <3>1
  <2> QED
    BY <2>1, <2>2, <2>3, <2>4
<1>2. {1} \ {1} = {} /\ {2} \ {2} = {} /\ {1, 2} \ {2} = {1}
  OBVIOUS
<1>3. {1} # {} /\ {2} # {} /\ {1, 2} # {} /\ {1} # {2} /\ {1, 2} # {1} /\ {1, 2} # {2}
  <2>1. 1 \in {1} /\ 2 \in {2} /\ 1 \notin {2} /\ 2 \notin {1} /\ 1 \in {1, 2} /\ 2 \in {1, 2}
    OBVIOUS
  <2> QED
    BY <2>1
<1> QED
  BY <1>1, <1>2, <1>3

Begin(win) == [win |-> win, loads |-> <<>>, missing |-> FALSE]

\* Taking one group,
LEMMA TakeOne ==
  ASSUME NEW win, NEW a
  PROVE  TakeAll(win, <<a>>) = TakeNext(Begin(win), a)
<1> DEFINE q == <<a>>
           f == [s \in SUBSET {1} |-> IF s = {} THEN Begin(win) ELSE TakeNext(Begin(win), a)]
<1>1. DOMAIN q = {1} /\ q[1] = a
  OBVIOUS
<1>2. \A s \in SUBSET {1} : s # {} => s = {1} /\ Max(s) = 1 /\ s \ {Max(s)} = {}
  BY MaxOfOne
<1>3. f = [s \in SUBSET DOMAIN q |-> IF s = {} THEN Begin(win) ELSE TakeNext(f[s \ {Max(s)}], q[Max(s)])]
  BY <1>1, <1>2
<1> HIDE DEF q, f
<1>4. PICK g : g = [s \in SUBSET DOMAIN q |-> IF s = {} THEN Begin(win) ELSE TakeNext(g[s \ {Max(s)}], q[Max(s)])]
               /\ TakeAll(win, <<a>>) = g[DOMAIN q]
  BY <1>3 DEF TakeAll, Begin, FoldLeft, MapThenFoldSet, q
<1>5. g[{}] = Begin(win)
  BY <1>4
<1>6. g[{1}] = TakeNext(g[{}], a)
  <2>1. {1} \in SUBSET DOMAIN q /\ {1} # {} /\ Max({1}) = 1 /\ {1} \ {Max({1})} = {}
    BY <1>1, <1>2
  <2>2. g[{1}] = TakeNext(g[{1} \ {Max({1})}], q[Max({1})])
    BY <1>4, <2>1
  <2> QED
    BY <1>1, <2>1, <2>2
<1> QED
  BY <1>1, <1>4, <1>5, <1>6 DEF q

\* or two.
LEMMA TakeTwo ==
  ASSUME NEW win, NEW a, NEW b
  PROVE  TakeAll(win, <<a, b>>) = TakeNext(TakeNext(Begin(win), a), b)
<1> DEFINE q == <<a, b>>
           f == [s \in SUBSET {1, 2} |->
                   IF s = {} THEN Begin(win)
                   ELSE IF s = {1} THEN TakeNext(Begin(win), a)
                   ELSE IF s = {2} THEN TakeNext(Begin(win), b) ELSE TakeNext(TakeNext(Begin(win), a), b)]
<1>1. DOMAIN q = {1, 2} /\ q[1] = a /\ q[2] = b
  OBVIOUS
<1>2. /\ \A s \in SUBSET {1, 2} : s \in {{}, {1}, {2}, {1, 2}}
      /\ Max({1}) = 1 /\ {1} \ {1} = {}
      /\ Max({2}) = 2 /\ {2} \ {2} = {}
      /\ Max({1, 2}) = 2 /\ {1, 2} \ {2} = {1}
      /\ {1} # {} /\ {2} # {} /\ {1, 2} # {} /\ {1} # {2} /\ {1, 2} # {1} /\ {1, 2} # {2}
      /\ {} \in SUBSET {1, 2} /\ {1} \in SUBSET {1, 2} /\ {2} \in SUBSET {1, 2}
  BY MaxOfOne, ShortSets
<1>3. f = [s \in SUBSET DOMAIN q |-> IF s = {} THEN Begin(win) ELSE TakeNext(f[s \ {Max(s)}], q[Max(s)])]
  <2>1. /\ f[{}] = Begin(win) /\ f[{1}] = TakeNext(Begin(win), a) /\ f[{2}] = TakeNext(Begin(win), b)
        /\ f[{1, 2}] = TakeNext(TakeNext(Begin(win), a), b)
    BY <1>2
  <2>2. f = [s \in SUBSET {1, 2} |-> f[s]]
    OBVIOUS
  <2> HIDE DEF f, q
  <2>3. ASSUME NEW s \in SUBSET {1, 2}
        PROVE  f[s] = IF s = {} THEN Begin(win) ELSE TakeNext(f[s \ {Max(s)}], q[Max(s)])
    <3>1. CASE s = {}
      BY <2>1, <3>1
    <3>2. CASE s = {1}
      BY <1>1, <1>2, <2>1, <3>2
    <3>3. CASE s = {2}
      BY <1>1, <1>2, <2>1, <3>3
    <3>4. CASE s = {1, 2}
      BY <1>1, <1>2, <2>1, <3>4
    <3> QED
      BY <1>2, <3>1, <3>2, <3>3, <3>4
  <2> QED
    BY <1>1, <2>2, <2>3
<1> HIDE DEF q, f
<1>4. PICK g : g = [s \in SUBSET DOMAIN q |-> IF s = {} THEN Begin(win) ELSE TakeNext(g[s \ {Max(s)}], q[Max(s)])]
               /\ TakeAll(win, <<a, b>>) = g[DOMAIN q]
  BY <1>3 DEF TakeAll, Begin, FoldLeft, MapThenFoldSet, q
<1>5. \A s \in SUBSET {1, 2} :
        g[s] = IF s = {} THEN Begin(win) ELSE TakeNext(g[s \ {Max(s)}], q[Max(s)])
  BY <1>1, <1>4
<1>6. g[{}] = Begin(win) /\ g[{1}] = TakeNext(g[{}], a) /\ g[{1, 2}] = TakeNext(g[{1}], b)
  <2>1. g[{}] = Begin(win)
    BY <1>2, <1>5
  <2>2. g[{1}] = TakeNext(g[{1} \ {Max({1})}], q[Max({1})])
    BY <1>2, <1>5
  <2>3. g[{1, 2}] = TakeNext(g[{1, 2} \ {Max({1, 2})}], q[Max({1, 2})])
    <3>1. {1, 2} \in SUBSET {1, 2} /\ {1, 2} # {}
      BY <1>2
    <3> QED
      BY <1>5, <3>1
  <2> QED
    BY <1>1, <1>2, <2>1, <2>2, <2>3
<1> QED
  BY <1>1, <1>4, <1>6 DEF q

\* Restoring one,
LEMMA RestoreOne ==
  ASSUME NEW base, NEW a
  PROVE  RestoredAll(base, <<a>>) = Restored(base, a)
<1> DEFINE q == Reverse(<<a>>)
           f == [s \in SUBSET {1} |-> IF s = {} THEN base ELSE Restored(base, a)]
<1>1. DOMAIN q = {1} /\ q[1] = a
  BY DEF Reverse
<1>2. \A s \in SUBSET {1} : s # {} => s = {1} /\ Max(s) = 1 /\ s \ {Max(s)} = {}
  BY MaxOfOne
<1>3. f = [s \in SUBSET DOMAIN q |-> IF s = {} THEN base ELSE Restored(f[s \ {Max(s)}], q[Max(s)])]
  BY <1>1, <1>2
<1> HIDE DEF q, f
<1>4. PICK g : g = [s \in SUBSET DOMAIN q |-> IF s = {} THEN base ELSE Restored(g[s \ {Max(s)}], q[Max(s)])]
               /\ RestoredAll(base, <<a>>) = g[DOMAIN q]
  BY <1>3 DEF RestoredAll, FoldLeft, MapThenFoldSet, q
<1>5. g[{}] = base
  BY <1>4
<1>6. g[{1}] = Restored(g[{}], a)
  <2>1. {1} \in SUBSET DOMAIN q /\ {1} # {} /\ Max({1}) = 1 /\ {1} \ {Max({1})} = {}
    BY <1>1, <1>2
  <2>2. g[{1}] = Restored(g[{1} \ {Max({1})}], q[Max({1})])
    BY <1>4, <2>1
  <2> QED
    BY <1>1, <2>1, <2>2
<1> QED
  BY <1>1, <1>4, <1>5, <1>6 DEF q

\* or two.
LEMMA RestoreTwo ==
  ASSUME NEW base, NEW a, NEW b
  PROVE  RestoredAll(base, <<b, a>>) = Restored(Restored(base, a), b)
<1> DEFINE q == Reverse(<<b, a>>)
           f == [s \in SUBSET {1, 2} |->
                   IF s = {} THEN base
                   ELSE IF s = {1} THEN Restored(base, a)
                   ELSE IF s = {2} THEN Restored(base, b) ELSE Restored(Restored(base, a), b)]
<1>1. DOMAIN q = {1, 2} /\ q[1] = a /\ q[2] = b
  BY DEF Reverse
<1>2. /\ \A s \in SUBSET {1, 2} : s \in {{}, {1}, {2}, {1, 2}}
      /\ Max({1}) = 1 /\ {1} \ {1} = {}
      /\ Max({2}) = 2 /\ {2} \ {2} = {}
      /\ Max({1, 2}) = 2 /\ {1, 2} \ {2} = {1}
      /\ {1} # {} /\ {2} # {} /\ {1, 2} # {} /\ {1} # {2} /\ {1, 2} # {1} /\ {1, 2} # {2}
      /\ {} \in SUBSET {1, 2} /\ {1} \in SUBSET {1, 2} /\ {2} \in SUBSET {1, 2}
  BY MaxOfOne, ShortSets
<1>3. f = [s \in SUBSET DOMAIN q |-> IF s = {} THEN base ELSE Restored(f[s \ {Max(s)}], q[Max(s)])]
  <2>1. /\ f[{}] = base /\ f[{1}] = Restored(base, a) /\ f[{2}] = Restored(base, b)
        /\ f[{1, 2}] = Restored(Restored(base, a), b)
    BY <1>2
  <2>2. f = [s \in SUBSET {1, 2} |-> f[s]]
    OBVIOUS
  <2> HIDE DEF f, q
  <2>3. ASSUME NEW s \in SUBSET {1, 2}
        PROVE  f[s] = IF s = {} THEN base ELSE Restored(f[s \ {Max(s)}], q[Max(s)])
    <3>1. CASE s = {}
      BY <2>1, <3>1
    <3>2. CASE s = {1}
      BY <1>1, <1>2, <2>1, <3>2
    <3>3. CASE s = {2}
      BY <1>1, <1>2, <2>1, <3>3
    <3>4. CASE s = {1, 2}
      BY <1>1, <1>2, <2>1, <3>4
    <3> QED
      BY <1>2, <3>1, <3>2, <3>3, <3>4
  <2> QED
    BY <1>1, <2>2, <2>3
<1> HIDE DEF q, f
<1>4. PICK g : g = [s \in SUBSET DOMAIN q |-> IF s = {} THEN base ELSE Restored(g[s \ {Max(s)}], q[Max(s)])]
               /\ RestoredAll(base, <<b, a>>) = g[DOMAIN q]
  BY <1>3 DEF RestoredAll, FoldLeft, MapThenFoldSet, q
<1>5. \A s \in SUBSET {1, 2} :
        g[s] = IF s = {} THEN base ELSE Restored(g[s \ {Max(s)}], q[Max(s)])
  BY <1>1, <1>4
<1>6. g[{}] = base /\ g[{1}] = Restored(g[{}], a) /\ g[{1, 2}] = Restored(g[{1}], b)
  <2>1. g[{}] = base
    BY <1>2, <1>5
  <2>2. g[{1}] = Restored(g[{1} \ {Max({1})}], q[Max({1})])
    BY <1>2, <1>5
  <2>3. g[{1, 2}] = Restored(g[{1, 2} \ {Max({1, 2})}], q[Max({1, 2})])
    <3>1. {1, 2} \in SUBSET {1, 2} /\ {1, 2} # {}
      BY <1>2
    <3> QED
      BY <1>5, <3>1
  <2> QED
    BY <1>1, <1>2, <2>1, <2>2, <2>3
<1> QED
  BY <1>1, <1>4, <1>6 DEF q

\* Receiving one,
LEMMA ReceiveOne ==
  ASSUME NEW base, NEW a
  PROVE  ReceivedAll(base, <<a>>) = Received(base, a)
<1> DEFINE q == <<a>>
           f == [s \in SUBSET {1} |-> IF s = {} THEN base ELSE Received(base, a)]
<1>1. DOMAIN q = {1} /\ q[1] = a
  OBVIOUS
<1>2. \A s \in SUBSET {1} : s # {} => s = {1} /\ Max(s) = 1 /\ s \ {Max(s)} = {}
  BY MaxOfOne
<1>3. f = [s \in SUBSET DOMAIN q |-> IF s = {} THEN base ELSE Received(f[s \ {Max(s)}], q[Max(s)])]
  BY <1>1, <1>2
<1> HIDE DEF q, f
<1>4. PICK g : g = [s \in SUBSET DOMAIN q |-> IF s = {} THEN base ELSE Received(g[s \ {Max(s)}], q[Max(s)])]
               /\ ReceivedAll(base, <<a>>) = g[DOMAIN q]
  BY <1>3 DEF ReceivedAll, FoldLeft, MapThenFoldSet, q
<1>5. g[{}] = base
  BY <1>4
<1>6. g[{1}] = Received(g[{}], a)
  <2>1. {1} \in SUBSET DOMAIN q /\ {1} # {} /\ Max({1}) = 1 /\ {1} \ {Max({1})} = {}
    BY <1>1, <1>2
  <2>2. g[{1}] = Received(g[{1} \ {Max({1})}], q[Max({1})])
    BY <1>4, <2>1
  <2> QED
    BY <1>1, <2>1, <2>2
<1> QED
  BY <1>1, <1>4, <1>5, <1>6 DEF q

\* or two.
LEMMA ReceiveTwo ==
  ASSUME NEW base, NEW a, NEW b
  PROVE  ReceivedAll(base, <<a, b>>) = Received(Received(base, a), b)
<1> DEFINE q == <<a, b>>
           f == [s \in SUBSET {1, 2} |->
                   IF s = {} THEN base
                   ELSE IF s = {1} THEN Received(base, a)
                   ELSE IF s = {2} THEN Received(base, b) ELSE Received(Received(base, a), b)]
<1>1. DOMAIN q = {1, 2} /\ q[1] = a /\ q[2] = b
  OBVIOUS
<1>2. /\ \A s \in SUBSET {1, 2} : s \in {{}, {1}, {2}, {1, 2}}
      /\ Max({1}) = 1 /\ {1} \ {1} = {}
      /\ Max({2}) = 2 /\ {2} \ {2} = {}
      /\ Max({1, 2}) = 2 /\ {1, 2} \ {2} = {1}
      /\ {1} # {} /\ {2} # {} /\ {1, 2} # {} /\ {1} # {2} /\ {1, 2} # {1} /\ {1, 2} # {2}
      /\ {} \in SUBSET {1, 2} /\ {1} \in SUBSET {1, 2} /\ {2} \in SUBSET {1, 2}
  BY MaxOfOne, ShortSets
<1>3. f = [s \in SUBSET DOMAIN q |-> IF s = {} THEN base ELSE Received(f[s \ {Max(s)}], q[Max(s)])]
  <2>1. /\ f[{}] = base /\ f[{1}] = Received(base, a) /\ f[{2}] = Received(base, b)
        /\ f[{1, 2}] = Received(Received(base, a), b)
    BY <1>2
  <2>2. f = [s \in SUBSET {1, 2} |-> f[s]]
    OBVIOUS
  <2> HIDE DEF f, q
  <2>3. ASSUME NEW s \in SUBSET {1, 2}
        PROVE  f[s] = IF s = {} THEN base ELSE Received(f[s \ {Max(s)}], q[Max(s)])
    <3>1. CASE s = {}
      BY <2>1, <3>1
    <3>2. CASE s = {1}
      BY <1>1, <1>2, <2>1, <3>2
    <3>3. CASE s = {2}
      BY <1>1, <1>2, <2>1, <3>3
    <3>4. CASE s = {1, 2}
      BY <1>1, <1>2, <2>1, <3>4
    <3> QED
      BY <1>2, <3>1, <3>2, <3>3, <3>4
  <2> QED
    BY <1>1, <2>2, <2>3
<1> HIDE DEF q, f
<1>4. PICK g : g = [s \in SUBSET DOMAIN q |-> IF s = {} THEN base ELSE Received(g[s \ {Max(s)}], q[Max(s)])]
               /\ ReceivedAll(base, <<a, b>>) = g[DOMAIN q]
  BY <1>3 DEF ReceivedAll, FoldLeft, MapThenFoldSet, q
<1>5. \A s \in SUBSET {1, 2} :
        g[s] = IF s = {} THEN base ELSE Received(g[s \ {Max(s)}], q[Max(s)])
  BY <1>1, <1>4
<1>6. g[{}] = base /\ g[{1}] = Received(g[{}], a) /\ g[{1, 2}] = Received(g[{1}], b)
  <2>1. g[{}] = base
    BY <1>2, <1>5
  <2>2. g[{1}] = Received(g[{1} \ {Max({1})}], q[Max({1})])
    BY <1>2, <1>5
  <2>3. g[{1, 2}] = Received(g[{1, 2} \ {Max({1, 2})}], q[Max({1, 2})])
    <3>1. {1, 2} \in SUBSET {1, 2} /\ {1, 2} # {}
      BY <1>2
    <3> QED
      BY <1>5, <3>1
  <2> QED
    BY <1>1, <1>2, <2>1, <2>2, <2>3
<1> QED
  BY <1>1, <1>4, <1>6 DEF q

\* The routes of one,
LEMMA RouteOne ==
  ASSUME NEW base, NEW a, NEW w
  PROVE  RoutesRestoredAll(base, <<a>>, w) = RoutesRestored(base, a, w)
<1> DEFINE q == Reverse(<<a>>)
           f == [s \in SUBSET {1} |-> IF s = {} THEN base ELSE RoutesRestored(base, a, w)]
<1>1. DOMAIN q = {1} /\ q[1] = a
  BY DEF Reverse
<1>2. \A s \in SUBSET {1} : s # {} => s = {1} /\ Max(s) = 1 /\ s \ {Max(s)} = {}
  BY MaxOfOne
<1>3. f = [s \in SUBSET DOMAIN q |-> IF s = {} THEN base ELSE RoutesRestored(f[s \ {Max(s)}], q[Max(s)], w)]
  BY <1>1, <1>2
<1> HIDE DEF q, f
<1>4. PICK g : g = [s \in SUBSET DOMAIN q |-> IF s = {} THEN base ELSE RoutesRestored(g[s \ {Max(s)}], q[Max(s)], w)]
               /\ RoutesRestoredAll(base, <<a>>, w) = g[DOMAIN q]
  BY <1>3 DEF RoutesRestoredAll, FoldLeft, MapThenFoldSet, q
<1>5. g[{}] = base
  BY <1>4
<1>6. g[{1}] = RoutesRestored(g[{}], a, w)
  <2>1. {1} \in SUBSET DOMAIN q /\ {1} # {} /\ Max({1}) = 1 /\ {1} \ {Max({1})} = {}
    BY <1>1, <1>2
  <2>2. g[{1}] = RoutesRestored(g[{1} \ {Max({1})}], q[Max({1})], w)
    BY <1>4, <2>1
  <2> QED
    BY <1>1, <2>1, <2>2
<1> QED
  BY <1>1, <1>4, <1>5, <1>6 DEF q

\* or two.
LEMMA RouteTwo ==
  ASSUME NEW base, NEW a, NEW b, NEW w
  PROVE  RoutesRestoredAll(base, <<b, a>>, w) = RoutesRestored(RoutesRestored(base, a, w), b, w)
<1> DEFINE q == Reverse(<<b, a>>)
           f == [s \in SUBSET {1, 2} |->
                   IF s = {} THEN base
                   ELSE IF s = {1} THEN RoutesRestored(base, a, w)
                   ELSE IF s = {2} THEN RoutesRestored(base, b, w) ELSE RoutesRestored(RoutesRestored(base, a, w), b, w)]
<1>1. DOMAIN q = {1, 2} /\ q[1] = a /\ q[2] = b
  BY DEF Reverse
<1>2. /\ \A s \in SUBSET {1, 2} : s \in {{}, {1}, {2}, {1, 2}}
      /\ Max({1}) = 1 /\ {1} \ {1} = {}
      /\ Max({2}) = 2 /\ {2} \ {2} = {}
      /\ Max({1, 2}) = 2 /\ {1, 2} \ {2} = {1}
      /\ {1} # {} /\ {2} # {} /\ {1, 2} # {} /\ {1} # {2} /\ {1, 2} # {1} /\ {1, 2} # {2}
      /\ {} \in SUBSET {1, 2} /\ {1} \in SUBSET {1, 2} /\ {2} \in SUBSET {1, 2}
  BY MaxOfOne, ShortSets
<1>3. f = [s \in SUBSET DOMAIN q |-> IF s = {} THEN base ELSE RoutesRestored(f[s \ {Max(s)}], q[Max(s)], w)]
  <2>1. /\ f[{}] = base /\ f[{1}] = RoutesRestored(base, a, w) /\ f[{2}] = RoutesRestored(base, b, w)
        /\ f[{1, 2}] = RoutesRestored(RoutesRestored(base, a, w), b, w)
    BY <1>2
  <2>2. f = [s \in SUBSET {1, 2} |-> f[s]]
    OBVIOUS
  <2> HIDE DEF f, q
  <2>3. ASSUME NEW s \in SUBSET {1, 2}
        PROVE  f[s] = IF s = {} THEN base ELSE RoutesRestored(f[s \ {Max(s)}], q[Max(s)], w)
    <3>1. CASE s = {}
      BY <2>1, <3>1
    <3>2. CASE s = {1}
      BY <1>1, <1>2, <2>1, <3>2
    <3>3. CASE s = {2}
      BY <1>1, <1>2, <2>1, <3>3
    <3>4. CASE s = {1, 2}
      BY <1>1, <1>2, <2>1, <3>4
    <3> QED
      BY <1>2, <3>1, <3>2, <3>3, <3>4
  <2> QED
    BY <1>1, <2>2, <2>3
<1> HIDE DEF q, f
<1>4. PICK g : g = [s \in SUBSET DOMAIN q |-> IF s = {} THEN base ELSE RoutesRestored(g[s \ {Max(s)}], q[Max(s)], w)]
               /\ RoutesRestoredAll(base, <<b, a>>, w) = g[DOMAIN q]
  BY <1>3 DEF RoutesRestoredAll, FoldLeft, MapThenFoldSet, q
<1>5. \A s \in SUBSET {1, 2} :
        g[s] = IF s = {} THEN base ELSE RoutesRestored(g[s \ {Max(s)}], q[Max(s)], w)
  BY <1>1, <1>4
<1>6. g[{}] = base /\ g[{1}] = RoutesRestored(g[{}], a, w) /\ g[{1, 2}] = RoutesRestored(g[{1}], b, w)
  <2>1. g[{}] = base
    BY <1>2, <1>5
  <2>2. g[{1}] = RoutesRestored(g[{1} \ {Max({1})}], q[Max({1})], w)
    BY <1>2, <1>5
  <2>3. g[{1, 2}] = RoutesRestored(g[{1, 2} \ {Max({1, 2})}], q[Max({1, 2})], w)
    <3>1. {1, 2} \in SUBSET {1, 2} /\ {1, 2} # {}
      BY <1>2
    <3> QED
      BY <1>5, <3>1
  <2> QED
    BY <1>1, <1>2, <2>1, <2>2, <2>3
<1> QED
  BY <1>1, <1>4, <1>6 DEF q

\* Routes that change hands.
LEMMA MoveMany ==
  ASSUME NEW st \in QuietStores, NEW rs \in SUBSET Routes, NEW v \in Owners, NEW w \in Owners
  PROVE  RoutedTo(st, MoveRoutes(st, rs, v, w), rs, w)
<1> DEFINE ro == [r \in Routes |-> IF r \in rs THEN w ELSE st.routes[r]]
           left == [st.pending EXCEPT ![v] = Kept(st.pending[v], Routes \ rs)]
           pd == [left EXCEPT ![w] = Pushed(left[w], Kept(st.pending[v], rs))]
           mv == [st EXCEPT !.routes = ro, !.pending = pd]
<1>1. MoveRoutes(st, rs, v, w) = mv
  BY DEF MoveRoutes
<1>2. left = st.pending
  BY NothingKept DEF QuietStores
<1>3. pd = st.pending
  <2> HIDE DEF left
  <2>1. /\ st.pending \in [Owners -> {<<>>}] /\ Kept(st.pending[v], rs) = <<>>
        /\ Pushed(st.pending[w], <<>>) = <<>>
    BY NothingKept DEF QuietStores
  <2> QED
    BY <1>2, <2>1
<1>4. ro \in [Routes -> Owners \cup {Nobody}]
      /\ (\A r \in rs : ro[r] = w) /\ \A r \in Routes \ rs : ro[r] = st.routes[r]
  BY DEF QuietStores
<1> HIDE DEF ro, left, pd
<1>5. mv \in QuietStores /\ mv.routes = ro
  BY <1>3, <1>4 DEF QuietStores
<1> QED
  BY <1>1, <1>4, <1>5 DEF RoutedTo

\* The routes of a group that goes back,
LEMMA RestoreRoutes ==
  ASSUME NEW st \in QuietStores, NEW load, RoutesOf(load) \in SUBSET Routes,
         IsFiniteSet(RoutesOf(load)), NEW w \in Owners
  PROVE  Rerouted(st, RoutesRestored(st, load, w), RoutesOf(load), {}, w)
<1> DEFINE rs == RoutesOf(load)
<1>1. rs \in SUBSET Routes /\ IsFiniteSet(rs)
  OBVIOUS
<1> HIDE DEF rs
<1>2. RoutedTo(st, MoveRoutes(st, rs, w, w), rs, w)
  BY <1>1, MoveMany
<1>3. RoutedTo(st, RegisterAll(st, rs, w), rs, w)
  BY <1>1, RegisterMany
<1>4. RoutesRestored(st, load, w) \in {MoveRoutes(st, rs, w, w), RegisterAll(st, rs, w)}
  BY DEF RoutesRestored, rs
<1>5. Rerouted(st, RoutesRestored(st, load, w), rs, {}, w)
  BY <1>2, <1>3, <1>4, ReroutedMore
<1> QED
  BY <1>5 DEF rs

\* and those of a batch.
LEMMA RestoreAllRoutes ==
  ASSUME NEW st \in QuietStores, NEW a, NEW b, NEW rs \in SUBSET Routes, NEW w \in Owners,
         RoutesOf(a) \subseteq rs, RoutesOf(b) \subseteq rs,
         IsFiniteSet(RoutesOf(a)), IsFiniteSet(RoutesOf(b))
  PROVE  /\ Rerouted(st, RoutesRestoredAll(st, <<a>>, w), rs, {}, w)
         /\ Rerouted(st, RoutesRestoredAll(st, <<a, b>>, w), rs, {}, w)
<1>2. /\ RoutesRestoredAll(st, <<a>>, w) = RoutesRestored(st, a, w)
      /\ RoutesRestoredAll(st, <<a, b>>, w) = RoutesRestored(RoutesRestored(st, b, w), a, w)
  <2>1. RoutesRestoredAll(st, <<a>>, w) = RoutesRestored(st, a, w)
    BY RouteOne
  <2>2. RoutesRestoredAll(st, <<a, b>>, w) = RoutesRestored(RoutesRestored(st, b, w), a, w)
    BY RouteTwo
  <2> QED
    BY <2>1, <2>2
<1>3. ASSUME NEW x \in QuietStores PROVE Rerouted(x, RoutesRestored(x, a, w), rs, {}, w)
  <2>1. Rerouted(x, RoutesRestored(x, a, w), RoutesOf(a), {}, w)
    BY RestoreRoutes
  <2> QED
    BY <2>1, ReroutedMore
<1>4. Rerouted(st, RoutesRestored(st, b, w), rs, {}, w)
  <2>1. Rerouted(st, RoutesRestored(st, b, w), RoutesOf(b), {}, w)
    BY RestoreRoutes
  <2> QED
    BY <2>1, ReroutedMore
<1>5. RoutesRestored(st, b, w) \in QuietStores
  BY <1>4 DEF Rerouted
<1>6. Rerouted(RoutesRestored(st, b, w), RoutesRestored(RoutesRestored(st, b, w), a, w), rs, {}, w)
  BY <1>3, <1>5
<1>7. Rerouted(st, RoutesRestored(RoutesRestored(st, b, w), a, w), rs, {}, w)
  BY <1>4, <1>6, ReroutedThen
<1> QED
  BY <1>2, <1>3, <1>7

-----------------------------------------------------------------------------
(* A group leaves a window.                                                *)

\* The window without the group, whatever it shows then.
Without(rest, win, g) ==
  /\ LaidOut(rest)
  /\ ToSet(rest.groups) = ToSet(win.groups) \ {g}
  /\ ToSet(rest.tabs) = ToSet(win.tabs) \ ToSet(g.panes)
  /\ GroupIds(ToSet(rest.groups)) = GroupIds(ToSet(win.groups)) \ {g.id}

\* Taking the group and its tabs out.
LEMMA GroupLeaves ==
  ASSUME NEW win, WinOK(win), NEW i \in 1..Len(win.groups), NEW g, g = win.groups[i],
         NEW hs \in SUBSET win.handles,
         NEW act \in Groups \cup {Absent}, NEW foc \in Tabs \cup {Absent}, NEW rest,
         rest = [groups |-> RemoveAt(win.groups, i),
                 tabs |-> Those(win.tabs, Tabs \ ToSet(g.panes)),
                 handles |-> hs, active |-> act, focus |-> foc]
  PROVE  Without(rest, win, g) /\ g \in ToSet(win.groups)
<1>1. /\ win.groups \in Seq(PaneGroups) /\ win.tabs \in Seq(Tabs)
      /\ win.handles \in SUBSET (Tabs \cup Groups) /\ IsFiniteSet(win.handles)
      /\ IsInjective(win.groups) /\ Apart(ToSet(win.groups))
      /\ IsInjective(win.tabs) /\ ToSet(win.tabs) = InGroups(ToSet(win.groups))
      /\ i \in DOMAIN win.groups /\ g \in ToSet(win.groups)
  BY DEF WinOK, LaidOut, WindowShapes, ToSet
<1>2. /\ rest.groups \in Seq(PaneGroups) /\ IsInjective(rest.groups)
      /\ ToSet(rest.groups) = ToSet(win.groups) \ {g}
  BY <1>1, RemovedAt
<1>3. /\ rest.tabs \in Seq(Tabs) /\ IsInjective(rest.tabs)
      /\ ToSet(rest.tabs) = ToSet(win.tabs) \cap (Tabs \ ToSet(g.panes))
  BY <1>1, ThoseKept
<1>4. ToSet(win.tabs) \subseteq Tabs
  BY <1>1 DEF ToSet
<1>5. Drops(ToSet(rest.groups), ToSet(win.groups), g)
  BY <1>2 DEF Drops
<1>6. /\ Apart(ToSet(rest.groups))
      /\ InGroups(ToSet(rest.groups)) = InGroups(ToSet(win.groups)) \ ToSet(g.panes)
      /\ GroupIds(ToSet(rest.groups)) = GroupIds(ToSet(win.groups)) \ {g.id}
  BY <1>1, <1>5, ApartFewer
<1>7. rest.handles \in SUBSET (Tabs \cup Groups) /\ IsFiniteSet(rest.handles)
  BY <1>1, FS_Subset
<1>8. rest \in WindowShapes
  BY <1>2, <1>3, <1>7 DEF WindowShapes
<1>9. ToSet(rest.tabs) = InGroups(ToSet(rest.groups))
  BY <1>1, <1>3, <1>4, <1>6
<1>10. LaidOut(rest)
  BY <1>2, <1>3, <1>6, <1>7, <1>8, <1>9 DEF LaidOut
<1>11. ToSet(rest.tabs) = ToSet(win.tabs) \ ToSet(g.panes)
  BY <1>3, <1>4
<1> QED
  BY <1>1, <1>2, <1>6, <1>10, <1>11 DEF Without

\* The window shows the group it showed, if that is another one,
LEMMA StillShown ==
  ASSUME NEW win, WinOK(win), win.groups # <<>>, NEW g, win.active # g.id,
         NEW rest, Without(rest, win, g), rest.active = win.active, rest.focus = win.focus
  PROVE  WinOK(rest)
<1>1. PICK h \in ToSet(win.groups) : h.id = win.active /\ win.focus \in ToSet(h.panes)
  BY DEF WinOK, InView
<1>2. h \in ToSet(rest.groups)
  BY <1>1 DEF Without
<1> QED
  BY <1>1, <1>2 DEF WinOK, InView, Without

\* and else the one that is at its place.
LEMMA ShownNext ==
  ASSUME NEW rest, LaidOut(rest), NEW i \in Nat \ {0}
  PROVE  WinOK(Refocused(rest, i))
<1> DEFINE k == IF i <= Len(rest.groups) THEN i ELSE Len(rest.groups)
           next == rest.groups[k]
           act == IF rest.groups = <<>> THEN Absent ELSE next.id
           foc == IF rest.groups = <<>> THEN Absent ELSE next.panes[1]
           new == [rest EXCEPT !.active = act, !.focus = foc]
<1>1. Refocused(rest, i) = new
  BY DEF Refocused
<1>2. rest \in WindowShapes /\ rest.groups \in Seq(PaneGroups) /\ Apart(ToSet(rest.groups))
  BY DEF LaidOut, WindowShapes
<1>3. rest.groups # <<>> =>
        next \in ToSet(rest.groups) /\ next \in PaneGroups
        /\ next.panes[1] \in ToSet(next.panes) /\ next.id \in Groups /\ next.panes[1] \in Tabs
  <2> SUFFICES ASSUME rest.groups # <<>>
               PROVE  next \in ToSet(rest.groups) /\ next \in PaneGroups
                      /\ next.panes[1] \in ToSet(next.panes) /\ next.id \in Groups /\ next.panes[1] \in Tabs
    OBVIOUS
  <2>1. k \in 1..Len(rest.groups)
    BY <1>2
  <2>2. next \in ToSet(rest.groups) /\ next \in PaneGroups
    BY <1>2, <2>1 DEF ToSet
  <2> HIDE DEF next
  <2>3. next.panes # <<>> /\ next.panes \in Seq(Tabs) /\ next.id \in Groups
    BY <1>2, <2>2 DEF Apart, PanesOK, PaneGroups
  <2> QED
    BY <2>2, <2>3 DEF ToSet
<1>4. act \in Groups \cup {Absent} /\ foc \in Tabs \cup {Absent}
  BY <1>3
<1>5. /\ rest.groups = <<>> => act = Absent /\ foc = Absent
      /\ rest.groups # <<>> => \E g \in ToSet(rest.groups) : g.id = act /\ foc \in ToSet(g.panes)
  BY <1>3
<1> HIDE DEF act, foc
<1>6. /\ new \in WindowShapes /\ new.groups = rest.groups /\ new.tabs = rest.tabs
      /\ new.handles = rest.handles /\ new.active = act /\ new.focus = foc
  BY <1>2, <1>4 DEF WindowShapes
<1> HIDE DEF new
<1>7. LaidOut(new)
  BY <1>6 DEF LaidOut
<1>8. InView(new)
  BY <1>5, <1>6 DEF InView
<1> QED
  BY <1>1, <1>7, <1>8 DEF WinOK

\* The elements of a sequence are finitely many.
LEMMA FiniteElements ==
  ASSUME NEW E, NEW q \in Seq(E)
  PROVE  IsFiniteSet(ToSet(q))
<1>1. q \in Surjection(1..Len(q), ToSet(q))
  BY DEF Surjection, ToSet
<1>2. IsFiniteSet(1..Len(q))
  BY FS_Interval
<1> QED
  BY <1>1, <1>2, FS_Surjection

-----------------------------------------------------------------------------
(* What is on its way between two windows.                                 *)

PlacedTabs == [at : Nat \ {0}, tab : Tabs]

\* The tabs of a group in the order they had in their window.
TabsOf(load) == [k \in DOMAIN load.tabs |-> load.tabs[k].tab]

\* All that a group can use,
Owned(load) == ToSet(load.group.panes) \cup {load.group.id}

LoadOK(load) ==
  /\ load.group \in PaneGroups /\ PanesOK(load.group)
  /\ load.handles \in SUBSET Owned(load) /\ IsFiniteSet(load.handles)
  /\ TabsOf(load) \in Seq(Tabs) /\ IsInjective(TabsOf(load))
  /\ ToSet(TabsOf(load)) = ToSet(load.group.panes)

\* The tabs with their places,
LEMMA PlacedIn ==
  ASSUME NEW win, win.tabs \in Seq(Tabs)
  PROVE  /\ Places(win) \in Seq(PlacedTabs) /\ IsInjective(Places(win))
         /\ Len(Places(win)) = Len(win.tabs)
         /\ \A k \in 1..Len(win.tabs) : Places(win)[k].at = k /\ Places(win)[k].tab = win.tabs[k]
<1> DEFINE n == Len(win.tabs)
           q == Places(win)
<1>1. n \in Nat /\ \A k \in 1..n : win.tabs[k] \in Tabs
  OBVIOUS
<1>2. q = [k \in 1..n |-> [at |-> k, tab |-> win.tabs[k]]]
  BY DEF Places
<1> HIDE DEF q, n
<1>3. /\ q \in [1..n -> PlacedTabs]
      /\ \A k \in 1..n : q[k].at = k /\ q[k].tab = win.tabs[k]
  BY <1>1, <1>2 DEF PlacedTabs
<1>4. q \in Seq(PlacedTabs) /\ Len(q) = n /\ DOMAIN q = 1..n
  BY <1>1, <1>3
<1>5. IsInjective(q)
  BY <1>3, <1>4 DEF IsInjective
<1> QED
  BY <1>3, <1>4, <1>5 DEF q, n

\* the tabs of placed ones,
TabNames(ts, kept) == ts = [k \in DOMAIN kept |-> kept[k].tab]

\* and those of a group among them.
OfGroup(kept, q, mine) == \A x : x \in ToSet(kept) <=> x \in ToSet(q) /\ x.tab \in mine

\* They are the panes of the group.
LEMMA PlacedOf ==
  ASSUME NEW ws \in Seq(Tabs), IsInjective(ws), NEW q \in Seq(PlacedTabs), Len(q) = Len(ws),
         \A k \in 1..Len(ws) : q[k].tab = ws[k],
         NEW mine \in SUBSET ToSet(ws), NEW kept \in Seq(PlacedTabs), IsInjective(kept),
         OfGroup(kept, q, mine), NEW ts, TabNames(ts, kept)
  PROVE  ts \in Seq(Tabs) /\ IsInjective(ts) /\ ToSet(ts) = mine
<1> DEFINE n == Len(ws)
           m == Len(kept)
<1>1. /\ n \in Nat /\ DOMAIN q = 1..n /\ DOMAIN ws = 1..n
      /\ m \in Nat /\ DOMAIN kept = 1..m /\ \A k \in 1..m : kept[k] \in PlacedTabs
  OBVIOUS
<1> HIDE DEF n, m
<1>2. ts \in Seq(Tabs) /\ DOMAIN ts = 1..m /\ \A k \in 1..m : ts[k] = kept[k].tab
  <2>1. ts = [k \in 1..m |-> kept[k].tab]
    BY <1>1 DEF TabNames
  <2>2. \A k \in 1..m : kept[k].tab \in Tabs
    BY <1>1 DEF PlacedTabs
  <2>3. ts \in [1..m -> Tabs]
    BY <2>1, <2>2
  <2> QED
    BY <1>1, <2>1, <2>3
<1>3. \A k \in 1..m : kept[k] \in ToSet(q) /\ ts[k] \in mine
  <2>1. \A k \in 1..m : kept[k] \in ToSet(kept)
    BY <1>1 DEF ToSet
  <2> QED
    BY <1>2, <2>1 DEF OfGroup
<1>4. \A k \in 1..m : \E j \in 1..n : kept[k] = q[j] /\ ts[k] = ws[j]
  <2> TAKE k \in 1..m
  <2>1. PICK j \in 1..n : q[j] = kept[k]
    BY <1>1, <1>3 DEF ToSet
  <2>2. ts[k] = ws[j]
    BY <1>2, <2>1 DEF n
  <2> QED
    BY <2>1, <2>2
<1>5. IsInjective(ts)
  <2>1. ASSUME NEW k \in 1..m, NEW l \in 1..m, ts[k] = ts[l] PROVE k = l
    <3>1. PICK i \in 1..n : kept[k] = q[i] /\ ts[k] = ws[i]
      BY <1>4
    <3>2. PICK j \in 1..n : kept[l] = q[j] /\ ts[l] = ws[j]
      BY <1>4
    <3>3. i = j
      BY <1>1, <2>1, <3>1, <3>2 DEF IsInjective
    <3> QED
      BY <1>1, <3>1, <3>2, <3>3 DEF IsInjective
  <2> QED
    BY <1>2, <2>1 DEF IsInjective
<1>6. ToSet(ts) = mine
  <2>1. ASSUME NEW t \in mine PROVE t \in ToSet(ts)
    <3>1. PICK j \in 1..n : t = ws[j]
      BY <1>1 DEF ToSet
    <3>2. q[j] \in ToSet(q) /\ q[j].tab = t
      BY <1>1, <3>1 DEF ToSet, n
    <3>3. q[j] \in ToSet(kept)
      BY <3>2 DEF OfGroup
    <3>4. PICK k \in 1..m : kept[k] = q[j]
      BY <1>1, <3>3 DEF ToSet
    <3>5. ts[k] = t
      BY <1>2, <3>2, <3>4
    <3> QED
      BY <1>2, <3>5 DEF ToSet
  <2> QED
    BY <1>2, <1>3, <2>1 DEF ToSet
<1> QED
  BY <1>2, <1>5, <1>6

\* What is taken out of a window under the name of a group,
Packed(load, win, g) ==
  /\ LoadOK(load) /\ load.index \in 1..Len(win.groups)
  /\ load.group = win.groups[load.index] /\ load.group.id = g
  /\ load.tabs \in Seq(PlacedTabs)
  /\ load.tabs = Those(Places(win), {x \in ToSet(Places(win)) : x.tab \in ToSet(load.group.panes)})
  /\ load.handles = win.handles \cap Owned(load)
  /\ load.focus = (IF win.focus \in ToSet(load.group.panes) THEN win.focus ELSE Absent)
  /\ load.active <=> win.active = g
  /\ ToSet(load.group.panes) \subseteq ToSet(win.tabs)

\* is the group and what goes with it.
LEMMA PayloadIs ==
  ASSUME NEW win, WinOK(win), NEW g, HasGroup(win, g)
  PROVE  Packed(Payload(win, g), win, g)
<1> DEFINE load == Payload(win, g)
           i == GroupAt(win, g)
           h == win.groups[i]
           mine == ToSet(h.panes)
           kept == Those(Places(win), {x \in ToSet(Places(win)) : x.tab \in mine})
           ts == [k \in DOMAIN kept |-> kept[k].tab]
<1>1. /\ win.groups \in Seq(PaneGroups) /\ win.tabs \in Seq(Tabs) /\ IsInjective(win.tabs)
      /\ ToSet(win.tabs) = InGroups(ToSet(win.groups)) /\ Apart(ToSet(win.groups))
      /\ IsFiniteSet(win.handles)
  BY DEF WinOK, LaidOut, WindowShapes
<1>2. i \in 1..Len(win.groups) /\ h.id = g
  BY <1>1, GroupAtFinds
<1>3. h \in ToSet(win.groups) /\ h \in PaneGroups
  BY <1>1, <1>2 DEF ToSet
<1>4. load = [group |-> h, index |-> i, tabs |-> kept, handles |-> win.handles \cap (mine \cup {g}),
              focus |-> IF win.focus \in mine THEN win.focus ELSE Absent, active |-> win.active = g]
  BY DEF Payload
<1> HIDE DEF h, i, load
<1>5. PanesOK(h) /\ mine \subseteq ToSet(win.tabs)
  BY <1>1, <1>3 DEF Apart, InGroups
<1>6. kept \in Seq(PlacedTabs) /\ ts \in Seq(Tabs) /\ IsInjective(ts) /\ ToSet(ts) = mine
  <2> DEFINE q == Places(win)
             S == {x \in ToSet(q) : x.tab \in mine}
  <2>1. /\ q \in Seq(PlacedTabs) /\ IsInjective(q) /\ Len(q) = Len(win.tabs)
        /\ \A k \in 1..Len(win.tabs) : q[k].tab = win.tabs[k]
    BY <1>1, PlacedIn
  <2>2. \A x : x \in S <=> x \in ToSet(q) /\ x.tab \in mine
    OBVIOUS
  <2>3. kept = Those(q, S) /\ TabNames(ts, kept)
    BY DEF TabNames
  <2>4. mine \in SUBSET ToSet(win.tabs)
    BY <1>5
  <2> HIDE DEF q, S, mine, kept, ts
  <2>5. /\ Those(q, S) \in Seq(PlacedTabs) /\ ToSet(Those(q, S)) = ToSet(q) \cap S
        /\ IsInjective(Those(q, S))
    BY <2>1, ThoseKept
  <2>6. /\ kept \in Seq(PlacedTabs) /\ IsInjective(kept)
        /\ OfGroup(kept, q, mine)
    BY <2>2, <2>3, <2>5 DEF OfGroup
  <2>7. ts \in Seq(Tabs) /\ IsInjective(ts) /\ ToSet(ts) = mine
    <3> DEFINE ws == win.tabs
    <3>1. /\ ws \in Seq(Tabs) /\ IsInjective(ws) /\ Len(q) = Len(ws)
          /\ \A k \in 1..Len(ws) : q[k].tab = ws[k]
          /\ mine \in SUBSET ToSet(ws)
      BY <1>1, <2>1, <2>4
    <3> HIDE DEF ws
    <3> QED
      BY <2>1, <2>3, <2>6, <3>1, PlacedOf
  <2> QED
    BY <2>6, <2>7
<1>7. TabsOf(load) = ts /\ Owned(load) = mine \cup {g}
  BY <1>2, <1>4 DEF TabsOf, Owned
<1> HIDE DEF mine, ts
<1>8. IsFiniteSet(win.handles \cap (mine \cup {g}))
  BY <1>1, FS_Subset
<1>9. LoadOK(load)
  BY <1>3, <1>4, <1>5, <1>6, <1>7, <1>8 DEF LoadOK, mine
<1> QED
  <2> HIDE DEF kept
  <2>1. load.tabs = kept /\ load.index = i /\ load.group = h
    BY <1>4
  <2>2. kept = Those(Places(win), {x \in ToSet(Places(win)) : x.tab \in mine})
    BY DEF kept
  <2>3. load.active = (win.active = g) /\ load.focus = IF win.focus \in mine THEN win.focus ELSE Absent
    BY <1>4
  <2>4. load.handles = win.handles \cap Owned(load)
    BY <1>4, <1>7
  <2>5. h = win.groups[i]
    BY DEF h
  <2> QED
    BY <1>2, <1>5, <1>6, <1>9, <2>1, <2>2, <2>3, <2>4, <2>5 DEF mine, Packed, load

\* The routes of a group.
LEMMA LoadRoutes ==
  ASSUME NEW load, LoadOK(load)
  PROVE  /\ RoutesOf(load) \in SUBSET Routes /\ IsFiniteSet(RoutesOf(load))
         /\ RoutesOf(load) \subseteq Owned(load)
         /\ Owned(load) \subseteq Tabs \cup Groups /\ ToSet(load.group.panes) \subseteq Tabs
<1>1. /\ load.group.panes \in Seq(Tabs) /\ load.group.id \in Groups
      /\ load.handles \subseteq Owned(load) /\ IsFiniteSet(load.handles)
  BY DEF LoadOK, PaneGroups
<1>2. ToSet(load.group.panes) \subseteq Tabs
  BY <1>1 DEF ToSet
<1>3. Owned(load) \subseteq Tabs \cup Groups /\ Tabs \cup Groups \subseteq Routes
  BY <1>1, <1>2, TransferAssumption DEF Owned
<1>4. IsFiniteSet(ToSet(load.group.panes))
  BY <1>1, FiniteElements
<1>5. IsFiniteSet(ToSet(load.group.panes) \cup load.handles)
  BY <1>1, <1>4, FS_Union
<1> QED
  BY <1>1, <1>2, <1>3, <1>5 DEF RoutesOf, Owned

\* A window and the group that was taken out of it.
Parted(win, load, rest) ==
  /\ LoadOK(load) /\ WinOK(rest)
  /\ Held(rest) = Held(win) \ Owned(load) /\ Owned(load) \subseteq Held(win)
  /\ ToSet(rest.tabs) \subseteq ToSet(win.tabs) /\ rest.handles \subseteq win.handles
  /\ RoutesOf(load) \subseteq ToSet(win.tabs) \cup win.handles

\* A window with other groups, tabs and handles,
Changed(win, gs, ts, hs) == [win EXCEPT !.groups = gs, !.tabs = ts, !.handles = hs]

\* is what is shown and these.
LEMMA WindowWith ==
  ASSUME NEW win \in WindowShapes, NEW gs, NEW ts, NEW hs
  PROVE  Changed(win, gs, ts, hs) =
           [groups |-> gs, tabs |-> ts, handles |-> hs, active |-> win.active, focus |-> win.focus]
<1> DEFINE x == Changed(win, gs, ts, hs)
<1>1. x \in [groups : {gs}, tabs : {ts}, handles : {hs}, active : {win.active}, focus : {win.focus}]
  BY DEF WindowShapes, Changed
<1> HIDE DEF x
<1>2. x = [groups |-> x.groups, tabs |-> x.tabs, handles |-> x.handles,
           active |-> x.active, focus |-> x.focus]
  BY <1>1
<1>3. /\ x.groups = gs /\ x.tabs = ts /\ x.handles = hs
      /\ x.active = win.active /\ x.focus = win.focus
  BY <1>1
<1> QED
  BY <1>2, <1>3 DEF x

\* Taking a group.
LEMMA TakeApart ==
  ASSUME NEW win, WinOK(win), NEW load, NEW g, Packed(load, win, g)
  PROVE  Parted(win, load, Taken(win, load))
<1> DEFINE h == load.group
           i == load.index
           hs == win.handles \ load.handles
           ts == Those(win.tabs, Tabs \ ToSet(h.panes))
           rest == [groups |-> RemoveAt(win.groups, i), tabs |-> ts, handles |-> hs,
                    active |-> win.active, focus |-> win.focus]
<1>1. /\ LoadOK(load) /\ i \in 1..Len(win.groups) /\ h = win.groups[i] /\ h.id = g
      /\ load.handles = win.handles \cap Owned(load)
      /\ load.active <=> win.active = g
      /\ ToSet(h.panes) \subseteq ToSet(win.tabs)
  BY DEF Packed
<1>2. /\ win \in WindowShapes /\ win.active \in Groups \cup {Absent}
      /\ win.focus \in Tabs \cup {Absent} /\ win.groups \in Seq(PaneGroups)
      /\ win.tabs \in Seq(Tabs) /\ Apart(ToSet(win.groups))
  BY DEF WinOK, LaidOut, WindowShapes
<1>3. Taken(win, load) = IF load.active THEN Refocused(rest, i) ELSE rest
  <2>1. rest = [win EXCEPT !.groups = RemoveAt(@, load.index),
                           !.tabs = Those(@, Tabs \ ToSet(load.group.panes)),
                           !.handles = @ \ load.handles]
    <3> HIDE DEF rest, h, i
    <3>1. [win EXCEPT !.groups = RemoveAt(@, load.index),
                      !.tabs = Those(@, Tabs \ ToSet(load.group.panes)),
                      !.handles = @ \ load.handles]
          = Changed(win, RemoveAt(win.groups, i), ts, hs)
      BY <1>2 DEF WindowShapes, h, i, Changed
    <3> HIDE DEF ts, hs
    <3>2. Changed(win, RemoveAt(win.groups, i), ts, hs) = rest
      BY <1>2, WindowWith DEF rest
    <3> QED
      BY <3>1, <3>2
  <2> QED
    BY <2>1 DEF Taken
<1>4. Without(rest, win, h) /\ h \in ToSet(win.groups)
  <2> HIDE DEF h, i
  <2>1. hs \in SUBSET win.handles
    OBVIOUS
  <2> HIDE DEF hs
  <2>2. rest = [groups |-> RemoveAt(win.groups, i), tabs |-> Those(win.tabs, Tabs \ ToSet(h.panes)),
                handles |-> hs, active |-> win.active, focus |-> win.focus]
    OBVIOUS
  <2> HIDE DEF rest
  <2> QED
    BY <1>1, <1>2, <2>1, <2>2, GroupLeaves
<1>5. rest.active = win.active /\ rest.focus = win.focus /\ rest.handles = hs
      /\ Taken(win, load).groups = rest.groups /\ Taken(win, load).tabs = rest.tabs
      /\ Taken(win, load).handles = rest.handles
  BY <1>3 DEF Refocused
<1>6. WinOK(Taken(win, load))
  <2> HIDE DEF rest, h, i
  <2>1. CASE load.active
    <3>1. i \in Nat \ {0} /\ LaidOut(rest)
      BY <1>1, <1>4 DEF Without
    <3> QED
      BY <1>3, <2>1, <3>1, ShownNext
  <2>2. CASE ~load.active
    <3>1. win.groups # <<>> /\ win.active # h.id
      BY <1>1, <1>4, <2>2 DEF ToSet
    <3>2. WinOK(rest)
      BY <1>4, <1>5, <3>1, StillShown
    <3> QED
      BY <1>3, <2>2, <3>2
  <2> QED
    BY <2>1, <2>2
<1> HIDE DEF rest, h, i, hs, ts
<1>7. /\ ToSet(rest.tabs) = ToSet(win.tabs) \ ToSet(h.panes)
      /\ GroupIds(ToSet(rest.groups)) = GroupIds(ToSet(win.groups)) \ {g}
      /\ rest.handles = win.handles \ Owned(load)
  BY <1>1, <1>4, <1>5 DEF Without, hs
<1>8. Owned(load) = ToSet(h.panes) \cup {g} /\ ToSet(h.panes) \subseteq Tabs /\ g \in Groups
  BY <1>1, LoadRoutes DEF Owned, h, LoadOK, PaneGroups
<1>9. ToSet(win.tabs) \subseteq Tabs /\ GroupIds(ToSet(win.groups)) \subseteq Groups
  <2>1. ToSet(win.tabs) \subseteq Tabs
    BY <1>2 DEF ToSet
  <2>2. \A x \in ToSet(win.groups) : x.id \in Groups
    BY <1>2 DEF PaneGroups, Apart
  <2> QED
    BY <2>1, <2>2 DEF GroupIds
<1>10. g \in GroupIds(ToSet(win.groups))
  BY <1>1, <1>4 DEF GroupIds
<1>11. Held(Taken(win, load)) = Held(win) \ Owned(load) /\ Owned(load) \subseteq Held(win)
  BY <1>1, <1>5, <1>7, <1>8, <1>9, <1>10, TransferAssumption DEF Held
<1>12. RoutesOf(load) \subseteq ToSet(win.tabs) \cup win.handles
  BY <1>1 DEF RoutesOf, h
<1> QED
  BY <1>1, <1>5, <1>6, <1>7, <1>11, <1>12 DEF Parted

-----------------------------------------------------------------------------
(* Putting tabs back in the places they had.                               *)

\* Of the first j places, c[j] are in M and d[j] are not.
Tally(c, d, M, n) ==
  /\ n \in Nat /\ M \subseteq 1..n
  /\ c \in [0..n -> Nat] /\ d \in [0..n -> Nat] /\ c[0] = 0 /\ d[0] = 0
  /\ \A i \in 1..n :
       /\ i \in M => c[i] = c[i - 1] + 1 /\ d[i] = d[i - 1]
       /\ i \notin M => c[i] = c[i - 1] /\ d[i] = d[i - 1] + 1
  /\ \A i, j \in 0..n : i <= j => c[i] <= c[j] /\ d[i] <= d[j]

\* The two add up,
LEMMA TallyAdds ==
  ASSUME NEW c, NEW d, NEW M, NEW n, Tally(c, d, M, n)
  PROVE  \A j \in 0..n : c[j] + d[j] = j
<1> DEFINE bad == {j \in 0..n : c[j] + d[j] # j}
<1>1. n \in Nat /\ c[0] + d[0] = 0
  BY DEF Tally
<1>2. SUFFICES ASSUME bad # {} PROVE FALSE
  OBVIOUS
<1>3. bad \in SUBSET Nat
  BY <1>1
<1>4. PICK j \in bad : \A k \in bad : j <= k
  <2> HIDE DEF bad
  <2> QED
    BY <1>2, <1>3, Least
<1>5. j \in 1..n /\ j - 1 \in 0..n
  BY <1>1, <1>4
<1>6. c[j - 1] + d[j - 1] = j - 1
  <2>1. j - 1 \notin bad
    BY <1>4, <1>5
  <2> QED
    BY <1>5, <2>1
<1>7. c[j - 1] \in Nat /\ d[j - 1] \in Nat
  BY <1>5 DEF Tally
<1>8. c[j] + d[j] = j
  <2>1. \/ c[j] = c[j - 1] + 1 /\ d[j] = d[j - 1]
        \/ c[j] = c[j - 1] /\ d[j] = d[j - 1] + 1
    BY <1>5 DEF Tally
  <2>2. j \in Nat
    BY <1>5
  <2> HIDE DEF bad
  <2> QED
    BY <1>6, <1>7, <2>1, <2>2
<1> QED
  BY <1>4, <1>8

\* and a place of M is told by its number.
LEMMA TallyTells ==
  ASSUME NEW c, NEW d, NEW M, NEW n, Tally(c, d, M, n), NEW a \in M, NEW j \in 1..n
  PROVE  /\ j < a => c[j] <= c[a] - 1
         /\ j > a /\ j \in M => c[j] >= c[a] + 1
         /\ j > a /\ j \notin M => d[j] >= d[a] + 1
         /\ j > a => c[j] >= c[a]
<1>1. /\ n \in Nat /\ a \in 1..n /\ c[a] \in Nat /\ d[a] \in Nat /\ c[j] \in Nat /\ d[j] \in Nat
      /\ a - 1 \in 0..n /\ j - 1 \in 0..n /\ a \in 0..n /\ j \in 0..n
      /\ c[a - 1] \in Nat /\ c[j - 1] \in Nat /\ d[j - 1] \in Nat
  BY DEF Tally
<1>2. c[a] = c[a - 1] + 1
  BY <1>1 DEF Tally
<1>3. j < a => c[j] <= c[a - 1]
  BY <1>1 DEF Tally
<1>4. j > a => c[a] <= c[j - 1] /\ d[a] <= d[j - 1] /\ c[a] <= c[j]
  BY <1>1 DEF Tally
<1>5. /\ j \in M => c[j] = c[j - 1] + 1
      /\ j \notin M => d[j] = d[j - 1] + 1
  BY DEF Tally
<1> QED
  BY <1>1, <1>2, <1>3, <1>4, <1>5

\* One tab goes back.
PutTab(p, x) == InsertAt(p, AtMost(x.at, Len(p) + 1), x.tab)

\* What was taken out of q at the places M, and what was left.
PulledApart(q, M, c, d, left, taken) ==
  /\ q \in Seq(Tabs) /\ Tally(c, d, M, Len(q))
  /\ left \in Seq(Tabs) /\ Len(left) = d[Len(q)]
  /\ \A i \in 1..Len(q) : i \notin M => d[i] \in 1..Len(left) /\ left[d[i]] = q[i]
  /\ taken \in Seq(PlacedTabs) /\ Len(taken) = c[Len(q)]
  /\ \A k \in 1..Len(taken) :
       \E a \in M : c[a] = k /\ taken[k].at = a /\ taken[k].tab = q[a]

Lesser(i, k) == IF i <= k THEN i ELSE k

\* The first k of them are back: each of what is there has its place.
Back(p, k, q, M, c, d, left) ==
  /\ p \in Seq(Tabs) /\ Len(p) = Len(left) + k
  /\ \A j \in 1..Len(q) : j \notin M \/ c[j] <= k =>
       d[j] + Lesser(c[j], k) \in 1..Len(p) /\ p[d[j] + Lesser(c[j], k)] = q[j]

\* The next one goes to its own place,
LEMMA NextBack ==
  ASSUME NEW q, NEW M, NEW c, NEW d, NEW left, NEW taken, PulledApart(q, M, c, d, left, taken),
         NEW k \in 1..Len(taken), NEW p, Back(p, k - 1, q, M, c, d, left)
  PROVE  Back(PutTab(p, taken[k]), k, q, M, c, d, left)
<1> DEFINE n == Len(q)
           x == taken[k]
<1>1. PICK a \in M : c[a] = k /\ x.at = a /\ x.tab = q[a]
  BY DEF PulledApart
<1>2. /\ q \in Seq(Tabs) /\ n \in Nat /\ Tally(c, d, M, n) /\ a \in 1..n /\ q[a] \in Tabs
      /\ k \in Nat /\ k >= 1 /\ left \in Seq(Tabs) /\ Len(left) = d[n] /\ Len(left) \in Nat
  BY DEF PulledApart, Tally
<1> HIDE DEF n, x
<1>3. /\ \A j \in 1..n : c[j] \in Nat /\ d[j] \in Nat /\ c[j] + d[j] = j
      /\ d[a] <= d[n]
  <2>1. \A j \in 1..n : j \in 0..n
    BY <1>2
  <2>2. n \in 0..n
    BY <1>2
  <2>3. \A j \in 0..n : c[j] + d[j] = j
    BY <1>2, TallyAdds
  <2>4. \A j \in 1..n : c[j] \in Nat /\ d[j] \in Nat
    BY <1>2, <2>1 DEF Tally
  <2>5. d[a] <= d[n]
    BY <1>2, <2>1, <2>2 DEF Tally
  <2> QED
    BY <2>1, <2>3, <2>4, <2>5
<1>4. p \in Seq(Tabs) /\ Len(p) = Len(left) + (k - 1) /\ Len(p) \in Nat
  BY DEF Back
<1>5. a \in 1..(Len(p) + 1) /\ AtMost(x.at, Len(p) + 1) = a
  <2>1. a = d[a] + k /\ a >= 1
    BY <1>1, <1>2, <1>3
  <2>2. a <= Len(p) + 1
    BY <1>2, <1>3, <1>4, <2>1
  <2> QED
    BY <1>1, <1>2, <1>4, <2>1, <2>2 DEF AtMost
<1> DEFINE new == InsertAt(p, a, q[a])
<1>6. new \in Seq(Tabs) /\ new[a] = q[a] /\ Gap(p, new, a)
  BY <1>2, <1>4, <1>5, InsertedIs
<1>7. PutTab(p, x) = new
  BY <1>1, <1>5 DEF PutTab
<1> HIDE DEF new
<1>8. /\ Len(new) = Len(p) + 1
      /\ \A i \in 1..Len(p) : i < a => new[i] = p[i]
      /\ \A i \in 1..Len(p) : i >= a => new[i + 1] = p[i]
  BY <1>6 DEF Gap
<1>9. ASSUME NEW j \in 1..n, j \notin M \/ c[j] <= k
      PROVE  d[j] + Lesser(c[j], k) \in 1..Len(new) /\ new[d[j] + Lesser(c[j], k)] = q[j]
  <2>0. j \notin M \/ c[j] <= k - 1 =>
          d[j] + Lesser(c[j], k - 1) \in 1..Len(p) /\ p[d[j] + Lesser(c[j], k - 1)] = q[j]
    BY DEF Back, n
  <2>1. /\ j < a => c[j] <= c[a] - 1
        /\ j > a /\ j \in M => c[j] >= c[a] + 1
        /\ j > a /\ j \notin M => d[j] >= d[a] + 1
        /\ j > a => c[j] >= c[a]
    BY <1>2, TallyTells
  <2>2. CASE j = a
    BY <1>1, <1>2, <1>3, <1>4, <1>5, <1>6, <1>8, <2>2 DEF Lesser
  <2>3. CASE j < a
    <3>1. /\ c[j] <= k - 1 /\ Lesser(c[j], k - 1) = c[j] /\ Lesser(c[j], k) = c[j]
          /\ d[j] + c[j] = j
      BY <1>1, <1>2, <1>3, <2>1, <2>3 DEF Lesser
    <3>2. j \in 1..Len(p) /\ p[j] = q[j]
      BY <2>0, <3>1
    <3> QED
      BY <1>4, <1>8, <2>3, <3>1, <3>2
  <2>4. CASE j > a
    <3>1. /\ j \notin M /\ c[j] >= k /\ d[j] >= d[a] + 1 /\ c[j] \in Nat /\ d[j] \in Nat
          /\ d[a] + k = a /\ d[a] \in Nat
      BY <1>1, <1>2, <1>3, <1>9, <2>1, <2>4
    <3>2. Lesser(c[j], k - 1) = k - 1 /\ Lesser(c[j], k) = k
      BY <1>2, <3>1 DEF Lesser
    <3>3. d[j] + (k - 1) \in 1..Len(p) /\ p[d[j] + (k - 1)] = q[j]
      BY <2>0, <3>1, <3>2
    <3>4. d[j] + (k - 1) >= a /\ (d[j] + (k - 1)) + 1 = d[j] + k
      <4>1. k \in Nat /\ d[j] \in Nat /\ d[a] \in Nat /\ d[a] + k = a /\ d[j] >= d[a] + 1
        BY <1>2, <3>1
      <4> QED
        BY ONLY <4>1
    <3>5. new[(d[j] + (k - 1)) + 1] = p[d[j] + (k - 1)]
      BY <1>8, <3>3, <3>4
    <3> QED
      BY <1>4, <1>8, <3>2, <3>3, <3>4, <3>5
  <2> QED
    BY <1>2, <2>2, <2>3, <2>4
<1>10. Len(new) = Len(left) + k
  BY <1>2, <1>4, <1>8
<1> QED
  BY <1>6, <1>7, <1>9, <1>10 DEF Back, n, x

\* and so all of them do.
LEMMA FirstBack ==
  ASSUME NEW q, NEW M, NEW c, NEW d, NEW left, NEW taken, PulledApart(q, M, c, d, left, taken)
  PROVE  Back(left, 0, q, M, c, d, left)
<1> DEFINE n == Len(q)
<1>1. /\ Tally(c, d, M, n) /\ n \in Nat /\ left \in Seq(Tabs) /\ Len(left) \in Nat
      /\ \A i \in 1..n : i \notin M => d[i] \in 1..Len(left) /\ left[d[i]] = q[i]
  BY DEF PulledApart, Tally
<1> HIDE DEF n
<1>2. ASSUME NEW j \in 1..n, j \notin M \/ c[j] <= 0
      PROVE  d[j] + Lesser(c[j], 0) \in 1..Len(left) /\ left[d[j] + Lesser(c[j], 0)] = q[j]
  <2>1. c[j] \in Nat /\ c[j - 1] \in Nat /\ d[j] \in Nat
    <3>1. j \in 0..n /\ j - 1 \in 0..n
      BY <1>1
    <3> QED
      BY <1>1, <3>1 DEF Tally
  <2>2. j \in M => c[j] = c[j - 1] + 1
    BY <1>1 DEF Tally
  <2>3. j \notin M
    BY <1>2, <2>1, <2>2
  <2>4. Lesser(c[j], 0) = 0 /\ d[j] + 0 = d[j]
    BY <2>1 DEF Lesser
  <2> QED
    BY <1>1, <2>3, <2>4
<1> QED
  BY <1>1, <1>2 DEF Back, n

\* When all are back, everything is where it was.
LEMMA LastBack ==
  ASSUME NEW q, NEW M, NEW c, NEW d, NEW left, NEW taken, PulledApart(q, M, c, d, left, taken),
         NEW p, Back(p, Len(taken), q, M, c, d, left)
  PROVE  p = q
<1> DEFINE n == Len(q)
           m == Len(taken)
<1>1. /\ q \in Seq(Tabs) /\ Tally(c, d, M, n) /\ n \in Nat /\ Len(left) = d[n] /\ m = c[n]
      /\ p \in Seq(Tabs) /\ Len(p) = Len(left) + m
  BY DEF PulledApart, Tally, Back
<1>2. \A j \in 1..n : c[j] <= m =>
         d[j] + Lesser(c[j], m) \in 1..Len(p) /\ p[d[j] + Lesser(c[j], m)] = q[j]
  BY DEF Back
<1> HIDE DEF n, m
<1>3. \A j \in 0..n : c[j] + d[j] = j /\ c[j] \in Nat /\ d[j] \in Nat
  <2>1. \A j \in 0..n : c[j] + d[j] = j
    BY <1>1, TallyAdds
  <2>2. \A j \in 0..n : c[j] \in Nat /\ d[j] \in Nat
    BY <1>1 DEF Tally
  <2> QED
    BY <2>1, <2>2
<1>4. n \in 0..n /\ Len(p) = n
  BY <1>1, <1>3
<1>5. ASSUME NEW j \in 1..n PROVE p[j] = q[j]
  <2>1. j \in 0..n /\ j <= n
    BY <1>1
  <2>2. c[j] <= m
    BY <1>1, <1>4, <2>1 DEF Tally
  <2>3. d[j] + Lesser(c[j], m) = j
    BY <1>1, <1>3, <2>1, <2>2 DEF Lesser
  <2> QED
    BY <1>2, <2>2, <2>3
<1> QED
  BY <1>1, <1>4, <1>5 DEF n

\* The tabs go back one after the other.
TabsBack(p, taken) ==
  FoldLeft(LAMBDA q, x : InsertAt(q, AtMost(x.at, Len(q) + 1), x.tab), p, taken)

\* The window has them as it had them.
LEMMA TabsRestored ==
  ASSUME NEW q, NEW M, NEW c, NEW d, NEW left, NEW taken, PulledApart(q, M, c, d, left, taken)
  PROVE  TabsBack(left, taken) = q
<1> DEFINE m == Len(taken)
           V == Seq(Tabs)
           step == [v \in V \X (1..m) |-> PutTab(v[1], taken[v[2]])]
<1>1. /\ left \in V /\ taken \in Seq(PlacedTabs) /\ m \in Nat /\ DOMAIN taken = 1..m
      /\ \A k \in 1..m : taken[k] \in PlacedTabs
  BY DEF PulledApart
<1>2. ASSUME NEW v \in V, NEW x \in PlacedTabs PROVE PutTab(v, x) \in V
  <2>1. x.at \in Nat \ {0} /\ x.tab \in Tabs /\ Len(v) \in Nat
    BY DEF PlacedTabs
  <2>2. AtMost(x.at, Len(v) + 1) \in 1..(Len(v) + 1)
    BY <2>1 DEF AtMost
  <2> QED
    BY <2>1, <2>2, InsertedIs DEF PutTab
<1>3. step \in [V \X (1..m) -> V]
  BY <1>1, <1>2
<1>4. /\ \E f : Recursion(f, m, V, left, step)
      /\ \A g : Follows(g, m, V, left, step) => \E r : Trace(r, g, m, V, left, step)
  <2> HIDE DEF m, V, step
  <2> QED
    BY <1>1, <1>3, FoldTrace
<1>5. PICK f : Recursion(f, m, V, left, step)
  BY <1>4
<1>6. f = [s \in SUBSET DOMAIN taken |-> IF s = {} THEN left ELSE PutTab(f[s \ {Max(s)}], taken[Max(s)])]
  BY <1>1, <1>5, MaxChosen DEF Recursion
<1>7. PICK g : /\ g = [s \in SUBSET DOMAIN taken |-> IF s = {} THEN left ELSE PutTab(g[s \ {Max(s)}], taken[Max(s)])]
               /\ TabsBack(left, taken) = g[DOMAIN taken]
  BY <1>6 DEF TabsBack, PutTab, FoldLeft, MapThenFoldSet
<1>8. Follows(g, m, V, left, step)
  BY <1>1, <1>7, MaxChosen DEF Follows
<1>9. PICK r : Trace(r, g, m, V, left, step)
  BY <1>4, <1>8
<1>10. \A i \in 1..m : r[i] = PutTab(r[i - 1], taken[i])
  <2> TAKE i \in 1..m
  <2>1. <<r[i - 1], i>> \in V \X (1..m)
    <3>1. i - 1 \in 0..m
      BY <1>1
    <3> QED
      BY <1>9, <3>1 DEF Trace
  <2> QED
    BY <1>9, <2>1 DEF Trace
<1>11. r[0] = left /\ r[m] = TabsBack(left, taken)
  BY <1>1, <1>7, <1>9 DEF Trace
<1> HIDE DEF V, step
<1> DEFINE bad == {k \in 0..m : ~Back(r[k], k, q, M, c, d, left)}
<1>12. bad = {}
  <2>1. SUFFICES ASSUME bad # {} PROVE FALSE
    OBVIOUS
  <2>2. bad \in SUBSET Nat
    BY <1>1
  <2>3. PICK k \in bad : \A l \in bad : k <= l
    <3> HIDE DEF bad
    <3> QED
      BY <2>1, <2>2, Least
  <2>4. Back(r[0], 0, q, M, c, d, left)
    BY <1>11, FirstBack
  <2>5. k \in 1..m /\ k - 1 \in 0..m
    BY <1>1, <2>3, <2>4
  <2>6. Back(r[k - 1], k - 1, q, M, c, d, left)
    <3>1. k - 1 \notin bad
      BY <2>3, <2>5
    <3> QED
      BY <2>5, <3>1
  <2>7. Back(PutTab(r[k - 1], taken[k]), k, q, M, c, d, left)
    BY <2>5, <2>6, NextBack
  <2> QED
    BY <1>10, <2>3, <2>5, <2>7
<1>13. Back(r[m], m, q, M, c, d, left)
  <2>1. m \in 0..m
    BY <1>1
  <2> QED
    BY <1>12, <2>1
<1> QED
  BY <1>11, <1>13, LastBack

-----------------------------------------------------------------------------
(* Putting a group back.                                                   *)

\* Taking the tabs of a group out leaves the other ones in order.
LEMMA TabsParted ==
  ASSUME NEW win, win.tabs \in Seq(Tabs), NEW mine, NEW S,
         S = {x \in ToSet(Places(win)) : x.tab \in mine}
  PROVE  \E M, c, d : PulledApart(win.tabs, M, c, d, Those(win.tabs, Tabs \ mine), Those(Places(win), S))
<1> DEFINE q == win.tabs
           n == Len(q)
           pl == Places(win)
           M == {i \in 1..n : q[i] \in mine}
           left == Those(q, Tabs \ mine)
           taken == Those(pl, S)
<1>1. /\ q \in Seq(Tabs) /\ n \in Nat /\ \A i \in 1..n : q[i] \in Tabs
      /\ pl \in Seq(PlacedTabs) /\ Len(pl) = n /\ DOMAIN pl = 1..n
      /\ \A i \in 1..n : pl[i].at = i /\ pl[i].tab = q[i]
  BY PlacedIn
<1>2. \A i \in 1..n : pl[i] \in S <=> i \in M
  BY <1>1 DEF ToSet
<1>3. \A i \in 1..n : q[i] \in Tabs \ mine <=> i \notin M
  BY <1>1
<1>4. M \subseteq 1..n
  OBVIOUS
<1> HIDE DEF pl, q, n, M
<1>5. taken \in Seq(PlacedTabs \cap S) /\ \E c : Counts(c, pl, S, taken)
  BY <1>1, ThoseCounted
<1>6. left \in Seq(Tabs \cap (Tabs \ mine)) /\ \E d : Counts(d, q, Tabs \ mine, left)
  BY <1>1, ThoseCounted
<1>7. taken \in Seq(PlacedTabs) /\ left \in Seq(Tabs)
  BY <1>5, <1>6
<1> HIDE DEF left, taken
<1>8. PICK c : Counts(c, pl, S, taken)
  BY <1>5
<1>9. PICK d : Counts(d, q, Tabs \ mine, left)
  BY <1>6
<1>10. /\ c \in [0..n -> Nat] /\ c[0] = 0 /\ Len(taken) = c[n]
       /\ \A i \in 1..n : c[i] = IF pl[i] \in S THEN c[i - 1] + 1 ELSE c[i - 1]
       /\ \A i \in 1..n : pl[i] \in S => c[i] \in 1..Len(taken) /\ taken[c[i]] = pl[i]
       /\ \A k \in 1..Len(taken) : \E i \in 1..n : pl[i] \in S /\ c[i] = k
       /\ \A i, j \in 0..n : i <= j => c[i] <= c[j]
  BY <1>1, <1>8 DEF Counts
<1>11. /\ d \in [0..n -> Nat] /\ d[0] = 0 /\ Len(left) = d[n]
       /\ \A i \in 1..n : d[i] = IF q[i] \in Tabs \ mine THEN d[i - 1] + 1 ELSE d[i - 1]
       /\ \A i \in 1..n : q[i] \in Tabs \ mine => d[i] \in 1..Len(left) /\ left[d[i]] = q[i]
       /\ \A i, j \in 0..n : i <= j => d[i] <= d[j]
  BY <1>1, <1>9 DEF Counts, n
<1>12. Tally(c, d, M, n)
  BY <1>1, <1>2, <1>3, <1>4, <1>10, <1>11 DEF Tally
<1>13. \A i \in 1..n : i \notin M => d[i] \in 1..Len(left) /\ left[d[i]] = q[i]
  BY <1>3, <1>11
<1>14. ASSUME NEW k \in 1..Len(taken)
       PROVE  \E a \in M : c[a] = k /\ taken[k].at = a /\ taken[k].tab = q[a]
  <2>1. PICK a \in 1..n : pl[a] \in S /\ c[a] = k
    BY <1>10
  <2>2. a \in M /\ taken[k] = pl[a] /\ pl[a].at = a /\ pl[a].tab = q[a]
    BY <1>1, <1>2, <1>10, <2>1
  <2> QED
    BY <2>1, <2>2
<1>15. PulledApart(q, M, c, d, left, taken)
  BY <1>1, <1>7, <1>10, <1>11, <1>12, <1>13, <1>14 DEF PulledApart, n
<1> QED
  BY <1>15 DEF q, left, taken, pl

\* A group that is put back is as it was, and so is the window.
LEMMA PutBackWhole ==
  ASSUME NEW win, WinOK(win), NEW load, NEW g, Packed(load, win, g)
  PROVE  Restored(Taken(win, load), load) = win
<1> DEFINE h == load.group
           i == load.index
           mine == ToSet(h.panes)
           gs == RemoveAt(win.groups, i)
           ts == Those(win.tabs, Tabs \ mine)
           hs == win.handles \ load.handles
           rest == Taken(win, load)
           S == {x \in ToSet(Places(win)) : x.tab \in mine}
<1>1. /\ i \in 1..Len(win.groups) /\ h = win.groups[i] /\ h.id = g
      /\ load.tabs = Those(Places(win), S)
      /\ load.handles \subseteq win.handles
      /\ load.focus = IF win.focus \in mine THEN win.focus ELSE Absent
      /\ load.active <=> win.active = g
  BY DEF Packed
<1>2. /\ win \in WindowShapes /\ win.groups \in Seq(PaneGroups) /\ win.tabs \in Seq(Tabs)
      /\ win.focus \in Tabs \cup {Absent} /\ Apart(ToSet(win.groups))
  BY DEF WinOK, LaidOut, WindowShapes
<1>3. /\ rest.groups = gs /\ rest.tabs = ts /\ rest.handles = hs
      /\ ~load.active => rest.active = win.active /\ rest.focus = win.focus
  BY <1>2 DEF Taken, Refocused, WindowShapes
<1>4. InsertAt(gs, AtMost(i, Len(gs) + 1), h) = win.groups
  <2> HIDE DEF h, i
  <2>1. gs \in Seq(PaneGroups) /\ Gap(gs, win.groups, i)
    BY <1>1, <1>2, RemovedIs
  <2> HIDE DEF gs
  <2>2. InsertAt(gs, i, win.groups[i]) = win.groups /\ i \in 1..(Len(gs) + 1)
    BY <1>1, <1>2, <2>1, TabPutBack
  <2>3. AtMost(i, Len(gs) + 1) = i
    BY <2>2 DEF AtMost
  <2> QED
    BY <1>1, <2>2, <2>3
<1>5. TabsBack(ts, load.tabs) = win.tabs
  <2> HIDE DEF mine
  <2>1. \E M, c, d : PulledApart(win.tabs, M, c, d, ts, Those(Places(win), S))
    <3>1. S = {x \in ToSet(Places(win)) : x.tab \in mine}
      OBVIOUS
    <3> HIDE DEF S
    <3> QED
      BY <1>2, <3>1, TabsParted
  <2>2. PICK M, c, d : PulledApart(win.tabs, M, c, d, ts, load.tabs)
    BY <1>1, <2>1
  <2> HIDE DEF ts, S
  <2> QED
    BY <2>2, TabsRestored
<1>6. hs \cup load.handles = win.handles
  BY <1>1
<1>7. load.active => win.active = h.id /\ win.focus \in mine
  <2> SUFFICES ASSUME load.active PROVE win.active = h.id /\ win.focus \in mine
    OBVIOUS
  <2>1. win.active = h.id /\ h \in ToSet(win.groups)
    BY <1>1, <1>2 DEF ToSet
  <2>2. PICK x \in ToSet(win.groups) : x.id = win.active /\ win.focus \in ToSet(x.panes)
    BY <2>1 DEF WinOK, InView, ToSet
  <2>3. x = h
    BY <1>2, <2>1, <2>2 DEF Apart
  <2> QED
    BY <2>1, <2>2, <2>3
<1>8. load.active => load.focus = win.focus /\ load.focus # Absent
  <2>1. mine \subseteq Tabs
    <3>1. h \in PaneGroups
      BY <1>1, <1>2
    <3> QED
      BY <3>1 DEF PaneGroups, ToSet
  <2> QED
    BY <1>1, <1>7, <2>1, TransferAssumption
<1> HIDE DEF rest
<1> DEFINE back == [rest EXCEPT !.groups = win.groups, !.tabs = win.tabs, !.handles = win.handles]
           new == IF load.active THEN [back EXCEPT !.active = win.active, !.focus = win.focus] ELSE back
<1>9. Restored(rest, load) = new
  <2> DEFINE made == [rest EXCEPT
                        !.groups = InsertAt(@, AtMost(load.index, Len(@) + 1), load.group),
                        !.tabs = TabsBack(@, load.tabs),
                        !.handles = @ \cup load.handles]
  <2>1. made = back
    BY <1>3, <1>4, <1>5, <1>6
  <2>2. Restored(rest, load) =
          IF load.active
          THEN [made EXCEPT !.active = load.group.id,
                            !.focus = IF load.focus # Absent THEN load.focus ELSE load.group.panes[1]]
          ELSE made
    BY DEF Restored, TabsBack
  <2> HIDE DEF made, back
  <2> QED
    BY <1>7, <1>8, <2>1, <2>2
<1>10. new = win
  <2>1. rest \in WindowShapes
    BY TakeApart DEF Parted, WinOK, LaidOut, rest
  <2>2. new \in WindowShapes
    BY <1>2, <2>1 DEF WindowShapes
  <2>3. /\ new.groups = win.groups /\ new.tabs = win.tabs /\ new.handles = win.handles
        /\ new.active = win.active /\ new.focus = win.focus
    BY <1>3, <2>1 DEF WindowShapes
  <2> HIDE DEF new
  <2> QED
    BY <1>2, <2>2, <2>3 DEF WindowShapes
<1> QED
  BY <1>9, <1>10 DEF rest

-----------------------------------------------------------------------------
(* What the windows hold, what is not used yet, and the routes.            *)

\* What a window can have routes for.
Reached(win) == ToSet(win.tabs) \cup win.handles

\* A route leads to the window, or it was cut.
Leads(st, r, w, ct) == st.routes[r] = w \/ (st.routes[r] = Nobody /\ r \in ct)

\* What was cut, and is removed now, and stays with nobody.
CutTo(ct, gone, st, ct2) == \A r \in ct \cup gone : st.routes[r] = Nobody => r \in ct2

Placed(ws, fr, st, ct) ==
  /\ ws \in [Owners -> WindowShapes] /\ \A w \in Owners : WinOK(ws[w])
  /\ \A v, w \in Owners : v # w => Disjoint(Held(ws[v]), Held(ws[w]))
  /\ fr \in [tabs : SUBSET Tabs, groups : SUBSET Groups]
  /\ \A w \in Owners : Disjoint(Held(ws[w]), fr.tabs \cup fr.groups)
  /\ st \in QuietStores
  /\ \A w \in Owners : \A r \in Reached(ws[w]) : Leads(st, r, w, ct)

\* A window with no more than it had and the identifiers of S, of which it
\* can have routes for those of R.
Gains(new, win, S, R) ==
  /\ WinOK(new)
  /\ Held(new) \subseteq Held(win) \cup S
  /\ Reached(new) \subseteq Reached(win) \cup R

\* A window can have routes for what it holds.
LEMMA ReachedHeld ==
  ASSUME NEW win, WinOK(win)
  PROVE  Reached(win) \subseteq Held(win) /\ Held(win) \subseteq Routes /\ win \in WindowShapes
<1>1. /\ win \in WindowShapes /\ win.tabs \in Seq(Tabs) /\ win.handles \subseteq Tabs \cup Groups
      /\ Apart(ToSet(win.groups))
  BY DEF WinOK, LaidOut, WindowShapes
<1>2. ToSet(win.tabs) \subseteq Tabs
  BY <1>1 DEF ToSet
<1>3. GroupIds(ToSet(win.groups)) \subseteq Groups
  <2>1. \A x \in ToSet(win.groups) : x.id \in Groups
    BY <1>1 DEF PaneGroups, Apart
  <2> QED
    BY <2>1 DEF GroupIds
<1> QED
  BY <1>1, <1>2, <1>3, TransferAssumption DEF Reached, Held

\* Identifiers of S that were not used, and now are.
Uses(S, fr, fr2) ==
  /\ S \subseteq fr.tabs \cup fr.groups
  /\ fr2 \in [tabs : SUBSET Tabs, groups : SUBSET Groups]
  /\ fr2.tabs \cup fr2.groups \subseteq fr.tabs \cup fr.groups
  /\ Disjoint(S, fr2.tabs \cup fr2.groups)

\* The window has the routes of R.
Owning(st, R, w) == \A r \in R : st.routes[r] = w

\* One window changes.
LEMMA WindowStep ==
  ASSUME NEW ws, NEW fr, NEW st, NEW ct, Placed(ws, fr, st, ct), NEW w \in Owners,
         NEW S, NEW fr2, Uses(S, fr, fr2), NEW R, NEW new, Gains(new, ws[w], S, R),
         NEW rs, rs \subseteq S \cup Held(ws[w]),
         NEW st2, NEW gone, Rerouted(st, st2, rs, gone, w), Owning(st2, R, w),
         NEW ct2, CutTo(ct, gone, st2, ct2)
  PROVE  Placed([ws EXCEPT ![w] = new], fr2, st2, ct2)
<1> DEFINE ws2 == [ws EXCEPT ![w] = new]
<1>0. /\ S \subseteq fr.tabs \cup fr.groups /\ Disjoint(S, fr2.tabs \cup fr2.groups)
      /\ fr2 \in [tabs : SUBSET Tabs, groups : SUBSET Groups]
      /\ fr2.tabs \cup fr2.groups \subseteq fr.tabs \cup fr.groups
      /\ \A r \in R : st2.routes[r] = w
      /\ \A r \in ct \cup gone : st2.routes[r] = Nobody => r \in ct2
  BY DEF Uses, Owning, CutTo
<1>1. /\ ws \in [Owners -> WindowShapes] /\ \A v \in Owners : WinOK(ws[v])
      /\ \A u, v \in Owners : u # v => Disjoint(Held(ws[u]), Held(ws[v]))
      /\ \A v \in Owners : Disjoint(Held(ws[v]), fr.tabs \cup fr.groups)
      /\ \A v \in Owners : \A r \in Reached(ws[v]) : Leads(st, r, v, ct)
  BY DEF Placed
<1>2. WinOK(new) /\ Held(new) \subseteq Held(ws[w]) \cup S /\ Reached(new) \subseteq Reached(ws[w]) \cup R
  BY DEF Gains
<1>3. new \in WindowShapes
  BY <1>2, ReachedHeld
<1>4. /\ ws2 \in [Owners -> WindowShapes] /\ ws2[w] = new
      /\ \A v \in Owners : v # w => ws2[v] = ws[v]
  BY <1>1, <1>3
<1> HIDE DEF ws2
<1>5. \A v \in Owners : WinOK(ws2[v])
  BY <1>1, <1>2, <1>4
<1>6. \A v \in Owners : v # w => Disjoint(Held(ws[v]), Held(ws[w]) \cup S)
  BY <1>0, <1>1 DEF Disjoint
<1>7. \A u, v \in Owners : u # v => Disjoint(Held(ws2[u]), Held(ws2[v]))
  <2> TAKE u, v \in Owners
  <2> HAVE u # v
  <2>1. CASE u = w
    BY <1>2, <1>4, <1>6, <2>1 DEF Disjoint
  <2>2. CASE v = w
    BY <1>2, <1>4, <1>6, <2>2 DEF Disjoint
  <2>3. CASE u # w /\ v # w
    BY <1>1, <1>4, <2>3
  <2> QED
    BY <2>1, <2>2, <2>3
<1>8. \A v \in Owners : Disjoint(Held(ws2[v]), fr2.tabs \cup fr2.groups)
  <2> TAKE v \in Owners
  <2>1. CASE v = w
    BY <1>0, <1>1, <1>2, <1>4, <2>1 DEF Disjoint
  <2>2. CASE v # w
    BY <1>0, <1>1, <1>4, <2>2 DEF Disjoint
  <2> QED
    BY <2>1, <2>2
<1>9. /\ st2 \in QuietStores
      /\ \A r \in Routes : \/ st2.routes[r] = st.routes[r]
                           \/ r \in gone /\ st2.routes[r] = Nobody
                           \/ r \in rs /\ st2.routes[r] = w
  BY DEF Rerouted
<1>10. ASSUME NEW v \in Owners, NEW r \in Reached(ws2[v])
       PROVE  Leads(st2, r, v, ct2)
  <2>1. CASE v = w
    <3>1. r \in Reached(ws[w]) \/ r \in R
      BY <1>2, <1>4, <1>10, <2>1
    <3>2. r \in Reached(ws[w]) => r \in Routes
      BY <1>1, ReachedHeld
    <3>3. r \in Reached(ws[w]) => Leads(st2, r, v, ct2)
      BY <1>0, <1>1, <1>9, <2>1, <3>2 DEF Leads
    <3> QED
      BY <1>0, <2>1, <3>1, <3>3 DEF Leads
  <2>2. CASE v # w
    <3>1. r \in Reached(ws[v])
      BY <1>4, <1>10, <2>2
    <3>2. r \in Held(ws[v]) /\ r \in Routes
      BY <1>1, <3>1, ReachedHeld
    <3>3. r \notin rs
      BY <1>6, <2>2, <3>2 DEF Disjoint
    <3> QED
      BY <1>0, <1>1, <1>9, <3>1, <3>2, <3>3 DEF Leads
  <2> QED
    BY <2>1, <2>2
<1> QED
  BY <1>0, <1>4, <1>5, <1>7, <1>8, <1>9, <1>10 DEF Placed, ws2

\* Groups go from one window to another.
LEMMA MoveStep ==
  ASSUME NEW ws, NEW fr, NEW st, NEW ct, Placed(ws, fr, st, ct),
         NEW w \in Owners, NEW t \in Owners, w # t,
         NEW X, X \subseteq Held(ws[w]), NEW R, R \subseteq X,
         NEW left, Gains(left, ws[w], {}, {}), Disjoint(Held(left), X),
         NEW new, Gains(new, ws[t], X, R),
         NEW st2, RoutedTo(st, st2, R, t), NEW ct2, CutTo(ct, {}, st2, ct2)
  PROVE  Placed([ws EXCEPT ![w] = left, ![t] = new], fr, st2, ct2)
<1> DEFINE ws2 == [ws EXCEPT ![w] = left, ![t] = new]
<1>1. /\ ws \in [Owners -> WindowShapes] /\ \A v \in Owners : WinOK(ws[v])
      /\ \A u, v \in Owners : u # v => Disjoint(Held(ws[u]), Held(ws[v]))
      /\ \A v \in Owners : Disjoint(Held(ws[v]), fr.tabs \cup fr.groups)
      /\ \A v \in Owners : \A r \in Reached(ws[v]) : Leads(st, r, v, ct)
      /\ \A r \in ct : st2.routes[r] = Nobody => r \in ct2
      /\ fr \in [tabs : SUBSET Tabs, groups : SUBSET Groups]
  BY DEF Placed, CutTo
<1>2. /\ WinOK(left) /\ Held(left) \subseteq Held(ws[w]) /\ Reached(left) \subseteq Reached(ws[w])
      /\ WinOK(new) /\ Held(new) \subseteq Held(ws[t]) \cup X /\ Reached(new) \subseteq Reached(ws[t]) \cup R
  BY DEF Gains
<1>3. new \in WindowShapes /\ left \in WindowShapes
  BY <1>2, ReachedHeld
<1>4. /\ ws2 \in [Owners -> WindowShapes] /\ ws2[w] = left /\ ws2[t] = new
      /\ \A v \in Owners : v # w /\ v # t => ws2[v] = ws[v]
  BY <1>1, <1>3
<1> HIDE DEF ws2
<1>5. \A v \in Owners : WinOK(ws2[v])
  BY <1>1, <1>2, <1>4
<1>6. /\ \A v \in Owners : v # w => Disjoint(Held(ws[v]), X)
      /\ Disjoint(Held(left), Held(new))
      /\ \A v \in Owners : v # w /\ v # t =>
           Disjoint(Held(ws[v]), Held(left)) /\ Disjoint(Held(ws[v]), Held(new))
  <2>1. \A v \in Owners : v # w => Disjoint(Held(ws[v]), X)
    BY <1>1 DEF Disjoint
  <2>2. Disjoint(Held(ws[w]), Held(ws[t]))
    BY <1>1
  <2>3. Disjoint(Held(left), Held(new))
    BY <1>2, <2>2 DEF Disjoint
  <2>4. ASSUME NEW v \in Owners, v # w, v # t
        PROVE  Disjoint(Held(ws[v]), Held(left)) /\ Disjoint(Held(ws[v]), Held(new))
    <3>1. Disjoint(Held(ws[v]), Held(ws[w])) /\ Disjoint(Held(ws[v]), Held(ws[t]))
      BY <1>1, <2>4
    <3> QED
      BY <1>2, <2>1, <2>4, <3>1 DEF Disjoint
  <2> QED
    BY <2>1, <2>3, <2>4
<1>7. \A u, v \in Owners : u # v => Disjoint(Held(ws2[u]), Held(ws2[v]))
  <2>0. \A A, B : Disjoint(A, B) <=> Disjoint(B, A)
    BY DEF Disjoint
  <2> TAKE u, v \in Owners
  <2> HAVE u # v
  <2>1. CASE u = w
    BY <1>4, <1>6, <2>0, <2>1
  <2>2. CASE u = t
    BY <1>4, <1>6, <2>0, <2>2
  <2>3. CASE u # w /\ u # t
    BY <1>1, <1>4, <1>6, <2>3
  <2> QED
    BY <2>1, <2>2, <2>3
<1>8. \A v \in Owners : Disjoint(Held(ws2[v]), fr.tabs \cup fr.groups)
  <2> TAKE v \in Owners
  <2>1. CASE v = w
    BY <1>1, <1>2, <1>4, <2>1 DEF Disjoint
  <2>2. CASE v = t
    BY <1>1, <1>2, <1>4, <2>2 DEF Disjoint
  <2>3. CASE v # w /\ v # t
    BY <1>1, <1>4, <2>3
  <2> QED
    BY <2>1, <2>2, <2>3
<1>9. /\ st2 \in QuietStores /\ \A r \in R : st2.routes[r] = t
      /\ \A r \in Routes : r \notin R => st2.routes[r] = st.routes[r]
  BY DEF RoutedTo
<1>10. ASSUME NEW v \in Owners, NEW r \in Reached(ws2[v])
       PROVE  Leads(st2, r, v, ct2)
  <2>0. \A u \in Owners : Reached(ws[u]) \subseteq Held(ws[u]) /\ Held(ws[u]) \subseteq Routes
    BY <1>1, ReachedHeld
  <2>1. CASE v = w
    <3>1. r \in Reached(ws[w]) /\ r \in Held(left)
      BY <1>2, <1>4, <1>10, <2>1, ReachedHeld
    <3>2. r \notin R /\ r \in Routes
      BY <2>0, <3>1 DEF Disjoint
    <3> QED
      BY <1>1, <1>9, <2>1, <3>1, <3>2 DEF Leads
  <2>2. CASE v = t
    <3>1. r \in R \/ r \in Reached(ws[t])
      BY <1>2, <1>4, <1>10, <2>2
    <3>2. r \in Reached(ws[t]) => r \in Routes
      BY <2>0
    <3> QED
      BY <1>1, <1>9, <2>2, <3>1, <3>2 DEF Leads
  <2>3. CASE v # w /\ v # t
    <3>1. r \in Reached(ws[v]) /\ r \in Held(ws[v]) /\ r \in Routes
      BY <1>4, <1>10, <2>0, <2>3
    <3>2. r \notin R
      BY <1>6, <2>3, <3>1 DEF Disjoint
    <3> QED
      BY <1>1, <1>9, <3>1, <3>2 DEF Leads
  <2> QED
    BY <2>1, <2>2, <2>3
<1> QED
  BY <1>1, <1>4, <1>5, <1>7, <1>8, <1>9, <1>10 DEF Placed, ws2

-----------------------------------------------------------------------------
(* A chosen leaves a window, and comes back or arrive.                     *)

\* Two elements.
LEMMA PairOf ==
  ASSUME NEW x, NEW y
  PROVE  Append(<<x>>, y) = <<x, y>>
<1> DEFINE s == Append(<<x>>, y)
           t == <<x, y>>
<1>1. <<x>> \in Seq({x, y}) /\ y \in {x, y} /\ Len(<<x>>) = 1 /\ <<x>>[1] = x
  OBVIOUS
<1>2. s \in Seq({x, y}) /\ Len(s) = 2 /\ s[1] = x /\ s[2] = y
  BY <1>1
<1>3. t \in Seq({x, y}) /\ Len(t) = 2 /\ t[1] = x /\ t[2] = y
  OBVIOUS
<1> HIDE DEF s, t
<1>4. \A k \in 1..2 : s[k] = t[k]
  BY <1>2, <1>3
<1>5. s = t
  BY <1>2, <1>3, <1>4
<1> QED
  BY <1>5 DEF s, t

\* One group was taken,
OneTaken(took, win) ==
  \E p, g : Packed(p, win, g) /\ took.win = Taken(win, p) /\ took.loads = <<p>>

\* or two.
TwoTaken(took, win) ==
  \E p, g, q, h :
    /\ Packed(p, win, g) /\ Packed(q, Taken(win, p), h)
    /\ took.win = Taken(Taken(win, p), q) /\ took.loads = <<p, q>>

\* The first group is there; of a second one only the identifier is known.
LEMMA BatchTaken ==
  ASSUME NEW win, WinOK(win), NEW chosen \in Batches, HasGroup(win, chosen[1])
  PROVE  OneTaken(TakeAll(win, chosen), win) \/ TwoTaken(TakeAll(win, chosen), win)
<1> DEFINE a == chosen[1]
           b == chosen[2]
           p == Payload(win, a)
           mid == Taken(win, p)
           q == Payload(mid, b)
           one == TakeNext(Begin(win), a)
           two == TakeNext(one, b)
<1>1. one.win = mid /\ one.loads = <<p>> /\ one.missing = FALSE
      /\ DOMAIN one = {"win", "loads", "missing"}
  BY DEF TakeNext, Begin
<1>2. Packed(p, win, a) /\ WinOK(mid)
  <2>1. Packed(p, win, a)
    BY PayloadIs
  <2> QED
    BY <2>1, TakeApart DEF Parted
<1>3. CASE chosen = <<a>>
  <2>1. TakeAll(win, <<a>>) = one
    BY TakeOne
  <2>2. TakeAll(win, chosen).win = mid /\ TakeAll(win, chosen).loads = <<p>>
    BY <1>1, <1>3, <2>1
  <2> HIDE DEF a, p, mid
  <2>3. OneTaken(TakeAll(win, chosen), win)
    BY <1>2, <2>2 DEF OneTaken, mid
  <2> QED
    BY <2>3
<1>4. CASE chosen = <<a, b>>
  <2>1. TakeAll(win, <<a, b>>) = two
    BY TakeTwo
  <2>2. TakeAll(win, chosen) = two
    BY <1>4, <2>1
  <2>3. CASE HasGroup(mid, b)
    <3>2. Packed(q, mid, b)
      BY <1>2, <2>3, PayloadIs
    <3>3. two.win = Taken(mid, q) /\ two.loads = <<p, q>>
      <4> HIDE DEF one, mid, p, q, a, b
      <4>1. two = [one EXCEPT !.win = Taken(mid, Payload(mid, b)),
                              !.loads = Append(<<p>>, Payload(mid, b))]
        BY <1>1, <2>3 DEF TakeNext
      <4>2. Append(<<p>>, q) = <<p, q>>
        BY PairOf
      <4> HIDE DEF two
      <4> QED
        BY <1>1, <4>1, <4>2 DEF q
    <3> HIDE DEF a, b, p, q, mid, one, two
    <3>4. TwoTaken(two, win)
      BY <1>2, <3>2, <3>3 DEF TwoTaken, mid
    <3> QED
      BY <2>2, <3>4
  <2>4. CASE ~HasGroup(mid, b)
    <3>1. two.win = mid /\ two.loads = <<p>>
      BY <1>1, <2>4 DEF TakeNext
    <3> HIDE DEF a, b, p, q, mid, one, two
    <3>2. OneTaken(two, win)
      BY <1>2, <3>1 DEF OneTaken, mid
    <3> QED
      BY <2>2, <3>2
  <2> QED
    BY <2>3, <2>4
<1> QED
  <2>1. chosen = <<a>> \/ chosen = <<a, b>>
    BY DEF Batches
  <2> QED
    BY <1>3, <1>4, <2>1

\* What was taken can be put back, and then the window is as it was.
LEMMA BatchWhole ==
  ASSUME NEW win, WinOK(win), NEW took, OneTaken(took, win) \/ TwoTaken(took, win)
  PROVE  RestoredAll(took.win, took.loads) = win
<1>1. CASE OneTaken(took, win)
  <2>1. PICK p, g : Packed(p, win, g) /\ took.win = Taken(win, p) /\ took.loads = <<p>>
    BY <1>1 DEF OneTaken
  <2>2. RestoredAll(took.win, <<p>>) = Restored(took.win, p)
    BY RestoreOne
  <2>3. Restored(Taken(win, p), p) = win
    BY <2>1, PutBackWhole
  <2> QED
    BY <2>1, <2>2, <2>3
<1>2. CASE TwoTaken(took, win)
  <2>1. PICK p, g, q, h :
          /\ Packed(p, win, g) /\ Packed(q, Taken(win, p), h)
          /\ took.win = Taken(Taken(win, p), q) /\ took.loads = <<p, q>>
    BY <1>2 DEF TwoTaken
  <2>2. RestoredAll(took.win, <<p, q>>) = Restored(Restored(took.win, q), p)
    BY RestoreTwo
  <2>3. WinOK(Taken(win, p))
    BY <2>1, TakeApart DEF Parted
  <2>4. Restored(Taken(Taken(win, p), q), q) = Taken(win, p)
    BY <2>1, <2>3, PutBackWhole
  <2>5. Restored(Taken(win, p), p) = win
    BY <2>1, PutBackWhole
  <2> QED
    BY <2>1, <2>2, <2>4, <2>5
<1> QED
  BY <1>1, <1>2

\* All that groups can use, and their routes.
AllOwned(loads)  == UNION {Owned(loads[k]) : k \in DOMAIN loads}
AllRoutes(loads) == UNION {RoutesOf(loads[k]) : k \in DOMAIN loads}

\* One group,
LEMMA OwnedOne ==
  ASSUME NEW p
  PROVE  AllOwned(<<p>>) = Owned(p) /\ AllRoutes(<<p>>) = RoutesOf(p)
<1>1. DOMAIN <<p>> = {1} /\ <<p>>[1] = p
  OBVIOUS
<1> QED
  BY <1>1 DEF AllOwned, AllRoutes

\* or two.
LEMMA OwnedTwo ==
  ASSUME NEW p, NEW q
  PROVE  /\ Merges(AllOwned(<<p, q>>), Owned(p), Owned(q))
         /\ Merges(AllRoutes(<<p, q>>), RoutesOf(p), RoutesOf(q))
<1>1. DOMAIN <<p, q>> = {1, 2} /\ <<p, q>>[1] = p /\ <<p, q>>[2] = q
  OBVIOUS
<1> QED
  BY <1>1 DEF AllOwned, AllRoutes, Merges

\* The window keeps nothing of what was taken.
Shipped(win, left, X, R) ==
  /\ Gains(left, win, {}, {}) /\ Disjoint(Held(left), X) /\ X \subseteq Held(win)
  /\ R \subseteq X /\ R \subseteq Reached(win) /\ R \in SUBSET Routes

\* One group,
LEMMA ShippedOne ==
  ASSUME NEW win, WinOK(win), NEW p, NEW g, Packed(p, win, g)
  PROVE  Shipped(win, Taken(win, p), Owned(p), RoutesOf(p)) /\ LoadOK(p)
<1>1. Parted(win, p, Taken(win, p))
  BY TakeApart
<1>2. /\ RoutesOf(p) \in SUBSET Routes /\ RoutesOf(p) \subseteq Owned(p)
  BY <1>1, LoadRoutes DEF Parted
<1>3. /\ WinOK(Taken(win, p)) /\ Held(Taken(win, p)) = Held(win) \ Owned(p)
      /\ Owned(p) \subseteq Held(win) /\ RoutesOf(p) \subseteq Reached(win) /\ LoadOK(p)
      /\ Reached(Taken(win, p)) \subseteq Reached(win)
  BY <1>1 DEF Parted, Reached
<1> QED
  BY <1>2, <1>3 DEF Shipped, Gains, Disjoint

\* and another one after it.
LEMMA ShippedThen ==
  ASSUME NEW win, NEW mid, NEW left, NEW X, NEW R, NEW Y, NEW Q,
         Shipped(win, mid, X, R), Shipped(mid, left, Y, Q),
         NEW Z, Merges(Z, X, Y), NEW T, Merges(T, R, Q)
  PROVE  Shipped(win, left, Z, T) /\ Disjoint(X, Y)
<1>1. /\ Held(mid) \subseteq Held(win) /\ Reached(mid) \subseteq Reached(win)
      /\ Disjoint(Held(mid), X) /\ X \subseteq Held(win)
      /\ R \subseteq X /\ R \subseteq Reached(win) /\ R \in SUBSET Routes
  BY DEF Shipped, Gains
<1>2. /\ WinOK(left) /\ Held(left) \subseteq Held(mid) /\ Reached(left) \subseteq Reached(mid)
      /\ Disjoint(Held(left), Y) /\ Y \subseteq Held(mid)
      /\ Q \subseteq Y /\ Q \subseteq Reached(mid) /\ Q \in SUBSET Routes
  BY DEF Shipped, Gains
<1>3. Disjoint(X, Y)
  BY <1>1, <1>2 DEF Disjoint
<1>4. Gains(left, win, {}, {})
  BY <1>1, <1>2 DEF Gains
<1>5. Disjoint(Held(left), Z) /\ Z \subseteq Held(win)
  BY <1>1, <1>2 DEF Disjoint, Merges
<1>6. T \subseteq Z /\ T \subseteq Reached(win) /\ T \in SUBSET Routes
  BY <1>1, <1>2 DEF Merges
<1> QED
  BY <1>3, <1>4, <1>5, <1>6 DEF Shipped

\* A pane of the group gets the focus.
LEMMA FocusChosen ==
  ASSUME NEW load, LoadOK(load)
  PROVE  ChosenFocus(load) \in ToSet(load.group.panes)
<1>1. load.group.panes \in Seq(Tabs) /\ load.group.panes # <<>>
  BY DEF LoadOK, PaneGroups, PanesOK
<1>2. load.group.panes[1] \in ToSet(load.group.panes)
  BY <1>1 DEF ToSet
<1> QED
  BY <1>2 DEF ChosenFocus

\* A window receives a group,
LEMMA ReceiveGains ==
  ASSUME NEW win, WinOK(win), NEW load, LoadOK(load), Disjoint(Owned(load), Held(win))
  PROVE  Gains(Received(win, load), win, Owned(load), RoutesOf(load))
<1> DEFINE g == load.group
           hs == load.handles
           f == ChosenFocus(load)
           new == GroupJoined(win, g, hs, f)
<1>1. Received(win, load) = new
  BY DEF Received, GroupJoined
<1>2. /\ g \in PaneGroups /\ PanesOK(g) /\ hs \in SUBSET (Tabs \cup Groups) /\ IsFiniteSet(hs)
      /\ hs \subseteq Owned(load)
  BY LoadRoutes DEF LoadOK
<1>3. g.id \notin GroupIds(ToSet(win.groups)) /\ Disjoint(ToSet(g.panes), ToSet(win.tabs))
  BY DEF Disjoint, Owned, Held
<1>4. f \in ToSet(g.panes)
  BY FocusChosen
<1>5. Owned(load) = ToSet(g.panes) \cup {g.id} /\ RoutesOf(load) = ToSet(g.panes) \cup hs
  BY DEF Owned, RoutesOf
<1> HIDE DEF g, hs, f
<1>6. WinOK(new) /\ Held(new) = Held(win) \cup ToSet(g.panes) \cup hs \cup {g.id}
  BY <1>2, <1>3, <1>4, GroupJoins
<1>7. Reached(new) = Reached(win) \cup ToSet(g.panes) \cup hs
  <2>1. new.tabs = win.tabs \o g.panes /\ new.handles = win.handles \cup hs
    BY DEF GroupJoined
  <2>2. win.tabs \in Seq(Tabs) /\ g.panes \in Seq(Tabs)
    BY <1>2 DEF WinOK, LaidOut, WindowShapes, PaneGroups
  <2>3. Both(win.tabs \o g.panes, Tabs, win.tabs, g.panes)
    BY <2>2, Joined
  <2> HIDE DEF new
  <2> QED
    BY <2>1, <2>3 DEF Both, Reached
<1> HIDE DEF new
<1> QED
  BY <1>1, <1>2, <1>5, <1>6, <1>7 DEF Gains

\* and then another one.
LEMMA GainsThen ==
  ASSUME NEW win, NEW mid, NEW new, NEW X, NEW R, NEW Y, NEW Q,
         Gains(mid, win, X, R), Gains(new, mid, Y, Q),
         NEW Z, Merges(Z, X, Y), NEW T, Merges(T, R, Q)
  PROVE  Gains(new, win, Z, T)
BY DEF Gains, Merges

\* A window with other groups, tabs, handles and another focus,
Refilled(win, gs, ts, hs, f) ==
  [win EXCEPT !.groups = gs, !.tabs = ts, !.handles = hs, !.focus = f]

\* field by field.
LEMMA RefilledIs ==
  ASSUME NEW win \in WindowShapes, NEW gs, NEW ts, NEW hs, NEW f
  PROVE  Refilled(win, gs, ts, hs, f) =
           [groups |-> gs, tabs |-> ts, handles |-> hs, active |-> win.active, focus |-> f]
<1> DEFINE x == Refilled(win, gs, ts, hs, f)
<1>1. x \in [groups : {gs}, tabs : {ts}, handles : {hs}, active : {win.active}, focus : {f}]
  BY DEF WindowShapes, Refilled
<1> HIDE DEF x
<1>2. x = [groups |-> x.groups, tabs |-> x.tabs, handles |-> x.handles,
           active |-> x.active, focus |-> x.focus]
  BY <1>1
<1>3. /\ x.groups = gs /\ x.tabs = ts /\ x.handles = hs
      /\ x.active = win.active /\ x.focus = f
  BY <1>1
<1> QED
  BY <1>2, <1>3 DEF x

\* The panes of a group join the active one.
LEMMA DockGains ==
  ASSUME NEW win, WinOK(win), win.active # Absent, NEW load, LoadOK(load),
         Disjoint(Owned(load), Held(win)), NEW zone
  PROVE  Gains(Docked(win, load, zone), win, Owned(load), RoutesOf(load))
<1> DEFINE i == ActiveAt(win)
           old == win.groups[i].panes
           N == ToSet(load.group.panes)
           ps == IF zone = "before" THEN load.group.panes \o old ELSE old \o load.group.panes
           gs == [win.groups EXCEPT ![i] = [@ EXCEPT !.panes = ps]]
           ts == win.tabs \o TabsOf(load)
           hs == win.handles \cup load.handles
           f == ChosenFocus(load)
           new == GroupGrown(win, i, ps, ts, hs, f)
<1>1. /\ win \in WindowShapes /\ win.groups \in Seq(PaneGroups) /\ win.tabs \in Seq(Tabs)
      /\ IsInjective(win.tabs) /\ Apart(ToSet(win.groups)) /\ win.groups # <<>>
      /\ ToSet(win.tabs) = InGroups(ToSet(win.groups))
      /\ win.handles \in SUBSET (Tabs \cup Groups) /\ IsFiniteSet(win.handles)
  <2>1. win.groups # <<>>
    <3>1. win.groups = <<>> => ToSet(win.groups) = {}
      BY DEF ToSet
    <3> QED
      BY <3>1 DEF WinOK, InView
  <2> QED
    BY <2>1 DEF WinOK, LaidOut, WindowShapes
<1>2. i \in 1..Len(win.groups) /\ win.groups[i].id = win.active
  BY <1>1, ActiveFinds
<1>3. /\ win.groups[i] \in ToSet(win.groups) /\ win.groups[i] \in PaneGroups
      /\ old \in Seq(Tabs) /\ IsInjective(old) /\ ToSet(old) \subseteq ToSet(win.tabs)
  <2>1. win.groups[i] \in ToSet(win.groups) /\ win.groups[i] \in PaneGroups
    BY <1>1, <1>2 DEF ToSet
  <2> QED
    BY <1>1, <2>1 DEF PaneGroups, Apart, PanesOK, InGroups
<1>4. /\ load.group.panes \in Seq(Tabs) /\ IsInjective(load.group.panes)
      /\ TabsOf(load) \in Seq(Tabs) /\ IsInjective(TabsOf(load)) /\ ToSet(TabsOf(load)) = N
      /\ load.handles \in SUBSET (Tabs \cup Groups) /\ IsFiniteSet(load.handles)
      /\ load.handles \subseteq Owned(load)
  BY LoadRoutes DEF LoadOK, PaneGroups, PanesOK
<1>5. Disjoint(N, ToSet(win.tabs)) /\ N \subseteq Owned(load)
  BY DEF Disjoint, Owned, Held
<1>6. Docked(win, load, zone) = Refilled(win, gs, ts, hs, f)
  BY DEF Docked, Refilled, TabsOf
<1>7. Docked(win, load, zone) = new
  <2>1. Refilled(win, gs, ts, hs, f) =
          [groups |-> gs, tabs |-> ts, handles |-> hs, active |-> win.active, focus |-> f]
    <3> HIDE DEF gs, ts, hs, f
    <3> QED
      BY <1>1, RefilledIs
  <2>2. new = [groups |-> gs, tabs |-> ts, handles |-> hs, active |-> win.active, focus |-> f]
    BY DEF GroupGrown
  <2> QED
    BY <1>6, <2>1, <2>2
<1>8. f \in N
  BY FocusChosen
<1> HIDE DEF i, gs, f
<1>9. ps \in Seq(Tabs) /\ IsInjective(ps) /\ Merges(ToSet(ps), ToSet(old), N)
  <2> HIDE DEF old
  <2>1. Both(load.group.panes \o old, Tabs, load.group.panes, old)
        /\ Both(old \o load.group.panes, Tabs, old, load.group.panes)
    BY <1>3, <1>4, Joined
  <2>2. Disjoint(ToSet(load.group.panes), ToSet(old)) /\ Disjoint(ToSet(old), ToSet(load.group.panes))
    BY <1>3, <1>5 DEF Disjoint
  <2>3. ps \in {load.group.panes \o old, old \o load.group.panes}
    OBVIOUS
  <2> HIDE DEF ps
  <2> QED
    BY <1>3, <1>4, <2>1, <2>2, <2>3 DEF Both, Merges
<1>10. ts \in Seq(Tabs) /\ IsInjective(ts) /\ Merges(ToSet(ts), ToSet(win.tabs), N)
  <2>1. Both(ts, Tabs, win.tabs, TabsOf(load))
    BY <1>1, <1>4, Joined
  <2>2. Disjoint(ToSet(win.tabs), ToSet(TabsOf(load)))
    BY <1>4, <1>5 DEF Disjoint
  <2> HIDE DEF ts, N
  <2> QED
    BY <1>1, <1>4, <2>1, <2>2 DEF Both, Merges
<1>11. hs \in SUBSET (Tabs \cup Groups) /\ IsFiniteSet(hs)
  BY <1>1, <1>4, FS_Union
<1>12. f \in ToSet(ps)
  BY <1>8, <1>9 DEF Merges
<1>13. Merges(ToSet(ps), ToSet(win.groups[i].panes), N)
  BY <1>9
<1> HIDE DEF ps, ts, hs, N, new
<1>14. /\ WinOK(new)
       /\ Held(new) = ToSet(win.tabs) \cup N \cup hs \cup GroupIds(ToSet(win.groups))
  BY <1>2, <1>5, <1>9, <1>10, <1>11, <1>12, <1>13, GroupGrows DEF new
<1>15. Held(new) \subseteq Held(win) \cup Owned(load)
  BY <1>4, <1>5, <1>14 DEF Held, hs
<1>16. Reached(new) \subseteq Reached(win) \cup RoutesOf(load)
  <2>1. new.tabs = ts /\ new.handles = hs
    BY DEF new, GroupGrown
  <2>2. ToSet(ts) = ToSet(win.tabs) \cup N
    BY <1>10 DEF Merges
  <2> QED
    BY <2>1, <2>2 DEF Reached, RoutesOf, hs, N
<1> QED
  BY <1>7, <1>14, <1>15, <1>16 DEF Gains

\* A batch leaves nothing behind,
LEMMA BatchShips ==
  ASSUME NEW win, WinOK(win), NEW took, OneTaken(took, win) \/ TwoTaken(took, win)
  PROVE  Shipped(win, took.win, AllOwned(took.loads), AllRoutes(took.loads))
<1>1. CASE OneTaken(took, win)
  <2>1. PICK p, g : Packed(p, win, g) /\ took.win = Taken(win, p) /\ took.loads = <<p>>
    BY <1>1 DEF OneTaken
  <2>2. Shipped(win, Taken(win, p), Owned(p), RoutesOf(p))
    BY <2>1, ShippedOne
  <2>3. AllOwned(<<p>>) = Owned(p) /\ AllRoutes(<<p>>) = RoutesOf(p)
    BY OwnedOne
  <2> QED
    BY <2>1, <2>2, <2>3
<1>2. CASE TwoTaken(took, win)
  <2>1. PICK p, g, q, h :
          /\ Packed(p, win, g) /\ Packed(q, Taken(win, p), h)
          /\ took.win = Taken(Taken(win, p), q) /\ took.loads = <<p, q>>
    BY <1>2 DEF TwoTaken
  <2>2. Shipped(win, Taken(win, p), Owned(p), RoutesOf(p))
    BY <2>1, ShippedOne
  <2>3. WinOK(Taken(win, p))
    BY <2>2 DEF Shipped, Gains
  <2>4. Shipped(Taken(win, p), took.win, Owned(q), RoutesOf(q))
    BY <2>1, <2>3, ShippedOne
  <2>5. /\ Merges(AllOwned(<<p, q>>), Owned(p), Owned(q))
        /\ Merges(AllRoutes(<<p, q>>), RoutesOf(p), RoutesOf(q))
    BY OwnedTwo
  <2>6. Shipped(win, took.win, AllOwned(<<p, q>>), AllRoutes(<<p, q>>))
    BY <2>2, <2>4, <2>5, ShippedThen
  <2> QED
    BY <2>1, <2>6
<1> QED
  BY <1>1, <1>2

\* arrives whole,
LEMMA BatchArrives ==
  ASSUME NEW win, WinOK(win), NEW took, OneTaken(took, win) \/ TwoTaken(took, win),
         NEW t, WinOK(t), Disjoint(AllOwned(took.loads), Held(t)), NEW zone
  PROVE  /\ Gains(ReceivedAll(t, took.loads), t, AllOwned(took.loads), AllRoutes(took.loads))
         /\ t.active # Absent =>
              Gains(Docked(t, took.loads[1], zone), t, AllOwned(took.loads), AllRoutes(took.loads))
<1>1. CASE OneTaken(took, win)
  <2>1. PICK p, g : Packed(p, win, g) /\ took.win = Taken(win, p) /\ took.loads = <<p>>
    BY <1>1 DEF OneTaken
  <2>2. LoadOK(p)
    BY <2>1, ShippedOne
  <2>3. AllOwned(<<p>>) = Owned(p) /\ AllRoutes(<<p>>) = RoutesOf(p)
    BY OwnedOne
  <2>4. Disjoint(Owned(p), Held(t))
    BY <2>1, <2>3
  <2>5. ReceivedAll(t, <<p>>) = Received(t, p)
    BY ReceiveOne
  <2>6. Gains(Received(t, p), t, Owned(p), RoutesOf(p))
    BY <2>2, <2>4, ReceiveGains
  <2>7. t.active # Absent => Gains(Docked(t, p, zone), t, Owned(p), RoutesOf(p))
    BY <2>2, <2>4, DockGains
  <2>8. <<p>>[1] = p
    OBVIOUS
  <2> QED
    BY <2>1, <2>3, <2>5, <2>6, <2>7, <2>8
<1>2. CASE TwoTaken(took, win)
  <2>1. PICK p, g, q, h :
          /\ Packed(p, win, g) /\ Packed(q, Taken(win, p), h)
          /\ took.win = Taken(Taken(win, p), q) /\ took.loads = <<p, q>>
    BY <1>2 DEF TwoTaken
  <2>2. Shipped(win, Taken(win, p), Owned(p), RoutesOf(p)) /\ LoadOK(p)
    BY <2>1, ShippedOne
  <2>3. WinOK(Taken(win, p))
    BY <2>2 DEF Shipped, Gains
  <2>4. Shipped(Taken(win, p), took.win, Owned(q), RoutesOf(q)) /\ LoadOK(q)
    BY <2>1, <2>3, ShippedOne
  <2>5. /\ Merges(AllOwned(<<p, q>>), Owned(p), Owned(q))
        /\ Merges(AllRoutes(<<p, q>>), RoutesOf(p), RoutesOf(q))
    BY OwnedTwo
  <2>6. Disjoint(Owned(p), Owned(q))
    BY <2>2, <2>4, <2>5, ShippedThen
  <2>7. Disjoint(Owned(p), Held(t)) /\ Disjoint(Owned(q), Held(t))
    BY <2>1, <2>5 DEF Disjoint, Merges
  <2>8. ReceivedAll(t, <<p, q>>) = Received(Received(t, p), q)
    BY ReceiveTwo
  <2>9. Gains(Received(t, p), t, Owned(p), RoutesOf(p))
    BY <2>2, <2>7, ReceiveGains
  <2>10. WinOK(Received(t, p)) /\ Disjoint(Owned(q), Held(Received(t, p)))
    BY <2>6, <2>7, <2>9 DEF Gains, Disjoint
  <2>11. Gains(Received(Received(t, p), q), Received(t, p), Owned(q), RoutesOf(q))
    BY <2>4, <2>10, ReceiveGains
  <2>12. Gains(Received(Received(t, p), q), t, AllOwned(<<p, q>>), AllRoutes(<<p, q>>))
    BY <2>5, <2>9, <2>11, GainsThen
  <2>13. t.active # Absent => Gains(Docked(t, p, zone), t, Owned(p), RoutesOf(p))
    BY <2>2, <2>7, DockGains
  <2>14. t.active # Absent =>
           Gains(Docked(t, p, zone), t, AllOwned(<<p, q>>), AllRoutes(<<p, q>>))
    BY <2>5, <2>13 DEF Gains, Merges
  <2>15. <<p, q>>[1] = p
    OBVIOUS
  <2> QED
    BY <2>1, <2>8, <2>12, <2>14, <2>15
<1> QED
  BY <1>1, <1>2

\* or gets its routes back.
LEMMA BatchRoutesBack ==
  ASSUME NEW win, WinOK(win), NEW took, OneTaken(took, win) \/ TwoTaken(took, win),
         NEW st \in QuietStores, NEW w \in Owners
  PROVE  Rerouted(st, RoutesRestoredAll(st, took.loads, w), AllRoutes(took.loads), {}, w)
<1> DEFINE rs == AllRoutes(took.loads)
<1>0. rs \in SUBSET Routes
  BY BatchShips DEF Shipped
<1>1. CASE OneTaken(took, win)
  <2>1. PICK p, g : Packed(p, win, g) /\ took.win = Taken(win, p) /\ took.loads = <<p>>
    BY <1>1 DEF OneTaken
  <2>2. LoadOK(p)
    BY <2>1, ShippedOne
  <2>3. rs = RoutesOf(p)
    BY <2>1, OwnedOne
  <2>4. IsFiniteSet(RoutesOf(p))
    BY <2>2, LoadRoutes
  <2> HIDE DEF rs
  <2>5. RoutesOf(p) \subseteq rs
    BY <2>3
  <2>6. Rerouted(st, RoutesRestoredAll(st, <<p>>, w), rs, {}, w)
    BY <1>0, <2>4, <2>5, RestoreAllRoutes
  <2> QED
    BY <2>1, <2>6 DEF rs
<1>2. CASE TwoTaken(took, win)
  <2>1. PICK p, g, q, h :
          /\ Packed(p, win, g) /\ Packed(q, Taken(win, p), h)
          /\ took.win = Taken(Taken(win, p), q) /\ took.loads = <<p, q>>
    BY <1>2 DEF TwoTaken
  <2>2. Shipped(win, Taken(win, p), Owned(p), RoutesOf(p)) /\ LoadOK(p)
    BY <2>1, ShippedOne
  <2>3. WinOK(Taken(win, p))
    BY <2>2 DEF Shipped, Gains
  <2>4. LoadOK(q)
    BY <2>1, <2>3, ShippedOne
  <2>5. Merges(AllRoutes(<<p, q>>), RoutesOf(p), RoutesOf(q))
    BY OwnedTwo
  <2>6. IsFiniteSet(RoutesOf(p)) /\ IsFiniteSet(RoutesOf(q))
    BY <2>2, <2>4, LoadRoutes
  <2>7. RoutesOf(p) \subseteq rs /\ RoutesOf(q) \subseteq rs
    BY <2>1, <2>5 DEF Merges
  <2> HIDE DEF rs
  <2>8. Rerouted(st, RoutesRestoredAll(st, <<p, q>>, w), rs, {}, w)
    BY <1>0, <2>6, <2>7, RestoreAllRoutes
  <2> QED
    BY <2>1, <2>8 DEF rs
<1> QED
  BY <1>1, <1>2

-----------------------------------------------------------------------------
(* The other operations on one window.                                     *)

\* Where an element of a sequence is.
LEMMA PlaceFinds ==
  ASSUME NEW E, NEW q \in Seq(E), NEW t \in ToSet(q)
  PROVE  LET k == SelectInSeq(q, LAMBDA x : x = t) IN k \in 1..Len(q) /\ q[k] = t
<1> DEFINE I == {i \in 1..Len(q) : q[i] = t}
           k == SelectInSeq(q, LAMBDA x : x = t)
<1>1. k = IF I # {} THEN Min(I) ELSE 0
  BY DEF SelectInSeq
<1>2. I # {}
  BY DEF ToSet
<1>3. Min(I) \in I
  <2>1. Len(q) \in Nat /\ I \subseteq 1..Len(q)
    OBVIOUS
  <2> HIDE DEF I
  <2> QED
    BY <1>2, <2>1, MinChosen
<1> QED
  BY <1>1, <1>2, <1>3

\* A window with a tab in a group of its own,
TabOpened(win, g, t, own) ==
  [groups  |-> Append(win.groups, [id |-> g, panes |-> <<t>>]),
   tabs    |-> Append(win.tabs, t),
   handles |-> win.handles \cup own,
   active  |-> g, focus |-> t]

\* one that is opened.
LEMMA OpenGains ==
  ASSUME NEW win, WinOK(win), NEW t \in Tabs, NEW g \in Groups,
         Disjoint({t, g}, Held(win)), NEW own \in SUBSET {g}, IsFiniteSet(own)
  PROVE  Gains(TabOpened(win, g, t, own), win, {t, g}, {t} \cup own)
<1> DEFINE new == TabOpened(win, g, t, own)
<1> DEFINE h == [id |-> g, panes |-> <<t>>]
<1>1. /\ <<t>> \in Seq(Tabs) /\ ToSet(<<t>>) = {t} /\ IsInjective(<<t>>)
      /\ win.tabs \in Seq(Tabs) /\ Append(win.tabs, t) = win.tabs \o <<t>>
  BY Single DEF WinOK, LaidOut, WindowShapes
<1>2. h \in PaneGroups /\ h.id = g /\ h.panes = <<t>> /\ PanesOK(h)
  BY <1>1 DEF PaneGroups, PanesOK
<1> HIDE DEF h, new
<1>3. /\ new = GroupJoined(win, h, own, t) /\ new.tabs = win.tabs \o <<t>>
      /\ new.handles = win.handles \cup own
  BY <1>1, <1>2 DEF GroupJoined, TabOpened, h, new
<1>4. h.id \notin GroupIds(ToSet(win.groups)) /\ Disjoint(ToSet(h.panes), ToSet(win.tabs))
  BY <1>1, <1>2 DEF Disjoint, Held
<1>5. own \in SUBSET (Tabs \cup Groups) /\ IsFiniteSet(own) /\ t \in ToSet(h.panes)
  BY <1>1, <1>2
<1>6. /\ WinOK(GroupJoined(win, h, own, t))
      /\ Held(GroupJoined(win, h, own, t)) = Held(win) \cup ToSet(h.panes) \cup own \cup {h.id}
  <2>1. WinOK(win)
    OBVIOUS
  <2> QED
    BY ONLY <1>2, <1>4, <1>5, <2>1, GroupJoins
<1>7. WinOK(new) /\ Held(new) = Held(win) \cup {t} \cup own \cup {g}
  BY <1>1, <1>2, <1>3, <1>6
<1>8. Both(win.tabs \o <<t>>, Tabs, win.tabs, <<t>>)
  BY <1>1, Joined
<1>9. Reached(new) = Reached(win) \cup {t} \cup own
  BY <1>1, <1>3, <1>8 DEF Both, Reached
<1> QED
  BY <1>7, <1>9 DEF Gains, new

\* A pane beside the focused one.
LEMMA SplitGains ==
  ASSUME NEW win, WinOK(win), win.focus # Absent, NEW t \in Tabs, Disjoint({t}, Held(win)),
         NEW i, i = ActiveAt(win), NEW pos \in 1..(Len(win.groups[i].panes) + 1),
         NEW own \in SUBSET {t}, IsFiniteSet(own)
  PROVE  Gains(Refilled(win, [win.groups EXCEPT ![i] = [@ EXCEPT !.panes =
                                                InsertAt(win.groups[i].panes, pos, t)]],
                        Append(win.tabs, t), win.handles \cup own, t), win, {t}, {t})
<1> DEFINE old == win.groups[i].panes
           ps == InsertAt(old, pos, t)
           gs == [win.groups EXCEPT ![i] = [@ EXCEPT !.panes = ps]]
           ts == win.tabs \o <<t>>
           hs == win.handles \cup own
           new == GroupGrown(win, i, ps, ts, hs, t)
           N == {t}
<1>1. /\ win \in WindowShapes /\ win.groups \in Seq(PaneGroups) /\ win.tabs \in Seq(Tabs)
      /\ IsInjective(win.tabs) /\ Apart(ToSet(win.groups)) /\ win.groups # <<>>
      /\ ToSet(win.tabs) = InGroups(ToSet(win.groups))
      /\ win.handles \in SUBSET (Tabs \cup Groups) /\ IsFiniteSet(win.handles)
  <2>1. win.groups # <<>>
    <3>1. win.groups = <<>> => ToSet(win.groups) = {}
      BY DEF ToSet
    <3> QED
      BY <3>1 DEF WinOK, InView
  <2> QED
    BY <2>1 DEF WinOK, LaidOut, WindowShapes
<1>2. /\ i \in 1..Len(win.groups) /\ win.groups[i].id = win.active
      /\ win.focus \in ToSet(old)
  BY <1>1, ActiveFinds
<1>3. /\ old \in Seq(Tabs) /\ IsInjective(old) /\ ToSet(old) \subseteq ToSet(win.tabs)
  <2>1. win.groups[i] \in ToSet(win.groups) /\ win.groups[i] \in PaneGroups
    BY <1>1, <1>2 DEF ToSet
  <2> QED
    BY <1>1, <2>1 DEF PaneGroups, Apart, PanesOK, InGroups
<1>4. pos \in 1..(Len(old) + 1)
  OBVIOUS
<1>5. t \notin ToSet(win.tabs) /\ Disjoint(N, ToSet(win.tabs))
  BY DEF Disjoint, Held
<1>6. ps \in Seq(Tabs) /\ IsInjective(ps) /\ Merges(ToSet(ps), ToSet(win.groups[i].panes), N)
      /\ t \in ToSet(ps)
  <2>1. t \notin ToSet(old)
    BY <1>3, <1>5
  <2>2. /\ InsertAt(old, pos, t) \in Seq(Tabs)
        /\ ToSet(InsertAt(old, pos, t)) = ToSet(old) \cup {t}
        /\ IsInjective(old) /\ t \notin ToSet(old) => IsInjective(InsertAt(old, pos, t))
    <3> HIDE DEF old
    <3> QED
      BY <1>3, <1>4, InsertedAt
  <2> QED
    BY <1>3, <2>1, <2>2 DEF Merges
<1>7. /\ <<t>> \in Seq(Tabs) /\ ToSet(<<t>>) = {t} /\ IsInjective(<<t>>)
      /\ Append(win.tabs, t) = ts
  BY <1>1, Single
<1>8. ts \in Seq(Tabs) /\ IsInjective(ts) /\ Merges(ToSet(ts), ToSet(win.tabs), N)
  <2>1. Both(win.tabs \o <<t>>, Tabs, win.tabs, <<t>>)
    BY <1>1, <1>7, Joined
  <2>2. Disjoint(ToSet(win.tabs), ToSet(<<t>>))
    BY <1>5, <1>7 DEF Disjoint
  <2> QED
    BY <1>1, <1>7, <2>1, <2>2 DEF Both, Merges
<1>9. hs \in SUBSET (Tabs \cup Groups) /\ IsFiniteSet(hs)
  BY <1>1, FS_Union
<1>10. Refilled(win, gs, Append(win.tabs, t), hs, t) = new
  <2>1. Refilled(win, gs, ts, hs, t) =
          [groups |-> gs, tabs |-> ts, handles |-> hs, active |-> win.active, focus |-> t]
    <3> HIDE DEF gs, ts, hs
    <3> QED
      BY <1>1, RefilledIs
  <2>2. new = [groups |-> gs, tabs |-> ts, handles |-> hs, active |-> win.active, focus |-> t]
    BY DEF GroupGrown
  <2> QED
    BY <1>7, <2>1, <2>2
<1>11. /\ WinOK(new)
       /\ Held(new) = ToSet(win.tabs) \cup N \cup hs \cup GroupIds(ToSet(win.groups))
  <2> HIDE DEF ps, ts, hs, N
  <2>1. WinOK(win)
    OBVIOUS
  <2> QED
    BY ONLY <1>2, <1>5, <1>6, <1>8, <1>9, <2>1, GroupGrows
<1>12. Held(new) \subseteq Held(win) \cup {t}
  BY <1>11 DEF Held
<1>13. Reached(new) \subseteq Reached(win) \cup {t}
  <2>1. new.tabs = ts /\ new.handles = hs
    BY DEF GroupGrown
  <2> HIDE DEF new, ts
  <2> QED
    BY <1>8, <2>1 DEF Merges, Reached
<1>14. Gains(new, win, {t}, {t})
  BY <1>11, <1>12, <1>13 DEF Gains
<1> QED
  BY <1>10, <1>14

\* Other handles.
LEMMA HandlesGain ==
  ASSUME NEW win, WinOK(win), NEW more, more \subseteq GroupIds(ToSet(win.groups)), IsFiniteSet(more),
         NEW hs, hs \subseteq win.handles \cup more,
         NEW new, new = [win EXCEPT !.handles = hs]
  PROVE  Gains(new, win, {}, more)
<1>1. /\ win \in WindowShapes /\ win.handles \in SUBSET (Tabs \cup Groups) /\ IsFiniteSet(win.handles)
      /\ Apart(ToSet(win.groups))
  BY DEF WinOK, LaidOut, WindowShapes
<1>2. GroupIds(ToSet(win.groups)) \subseteq Groups
  <2>1. \A x \in ToSet(win.groups) : x.id \in Groups
    BY <1>1 DEF PaneGroups, Apart
  <2> QED
    BY <2>1 DEF GroupIds
<1>3. hs \in SUBSET (Tabs \cup Groups) /\ IsFiniteSet(hs)
  <2>1. IsFiniteSet(win.handles \cup more)
    BY <1>1, FS_Union
  <2>2. IsFiniteSet(hs)
    BY <2>1, FS_Subset
  <2> QED
    BY <1>1, <1>2, <2>2
<1>4. /\ new \in WindowShapes /\ new.groups = win.groups /\ new.tabs = win.tabs
      /\ new.handles = hs /\ new.active = win.active /\ new.focus = win.focus
  BY <1>1, <1>3 DEF WindowShapes
<1>5. WinOK(new)
  BY <1>3, <1>4 DEF WinOK, LaidOut, InView
<1>6. Held(new) \subseteq Held(win) /\ Reached(new) \subseteq Reached(win) \cup more
  BY <1>4 DEF Held, Reached
<1> QED
  BY <1>5, <1>6 DEF Gains

-----------------------------------------------------------------------------
(* A tab is closed.                                                        *)

\* The window without the tab, and with the focus still where it was.
Lost(rest, win, t) ==
  /\ LaidOut(rest)
  /\ ToSet(rest.tabs) = ToSet(win.tabs) \ {t}
  /\ rest.handles \subseteq win.handles
  /\ GroupIds(ToSet(rest.groups)) \subseteq GroupIds(ToSet(win.groups))
  /\ rest.active = win.active /\ rest.focus = win.focus
  /\ win.focus # t => InView(rest)

\* The group of the tab keeps its other panes,
PaneGone(win, i, t) ==
  [groups |-> [win.groups EXCEPT ![i] = [@ EXCEPT !.panes =
                                     Those(win.groups[i].panes, Tabs \ {t})]],
   tabs |-> Those(win.tabs, Tabs \ {t}),
   handles |-> win.handles, active |-> win.active, focus |-> win.focus]

\* which are in no other group.
LEMMA GroupShrinks ==
  ASSUME NEW win, WinOK(win), NEW i \in 1..Len(win.groups), NEW t \in ToSet(win.groups[i].panes),
         Those(win.groups[i].panes, Tabs \ {t}) # <<>>
  PROVE  Lost(PaneGone(win, i, t), win, t)
<1> DEFINE new == PaneGone(win, i, t)
           gs == win.groups
           g == gs[i]
           ps == Those(g.panes, Tabs \ {t})
           ts == Those(win.tabs, Tabs \ {t})
           F == ToSet(gs) \ {g}
           h == [id |-> g.id, panes |-> ps]
<1>1. /\ gs \in Seq(PaneGroups) /\ g \in PaneGroups /\ g \in ToSet(gs)
      /\ DOMAIN gs = 1..Len(gs) /\ win.tabs \in Seq(Tabs) /\ IsInjective(win.tabs)
      /\ IsInjective(gs) /\ Apart(ToSet(gs))
      /\ win.handles \in SUBSET (Tabs \cup Groups) /\ IsFiniteSet(win.handles)
      /\ ToSet(win.tabs) = InGroups(ToSet(gs)) /\ win.active \in Groups \cup {Absent}
      /\ win.focus \in Tabs \cup {Absent}
  BY DEF WinOK, LaidOut, WindowShapes, ToSet
<1>2. g.panes \in Seq(Tabs) /\ IsInjective(g.panes) /\ t \in ToSet(g.panes)
  BY <1>1 DEF Apart, PanesOK, PaneGroups
<1>3. /\ ps \in Seq(Tabs) /\ ToSet(ps) = ToSet(g.panes) \cap (Tabs \ {t}) /\ IsInjective(ps)
      /\ ts \in Seq(Tabs) /\ ToSet(ts) = ToSet(win.tabs) \cap (Tabs \ {t}) /\ IsInjective(ts)
      /\ ps # <<>>
  <2> HIDE DEF g
  <2>1. /\ Those(g.panes, Tabs \ {t}) \in Seq(Tabs)
        /\ ToSet(Those(g.panes, Tabs \ {t})) = ToSet(g.panes) \cap (Tabs \ {t})
        /\ IsInjective(Those(g.panes, Tabs \ {t}))
    BY <1>2, ThoseKept
  <2>2. /\ Those(win.tabs, Tabs \ {t}) \in Seq(Tabs)
        /\ ToSet(Those(win.tabs, Tabs \ {t})) = ToSet(win.tabs) \cap (Tabs \ {t})
        /\ IsInjective(Those(win.tabs, Tabs \ {t}))
    BY <1>1, ThoseKept
  <2> QED
    BY <2>1, <2>2 DEF g
<1>4. ToSet(ps) = ToSet(g.panes) \ {t} /\ ToSet(ts) = ToSet(win.tabs) \ {t}
  <2>1. ToSet(g.panes) \subseteq Tabs /\ ToSet(win.tabs) \subseteq Tabs
    BY <1>1, <1>2 DEF ToSet
  <2> QED
    BY <1>3, <2>1
<1>5. h \in PaneGroups /\ h = [g EXCEPT !.panes = ps] /\ h.id = g.id /\ h.panes = ps
  BY <1>1, <1>3 DEF PaneGroups
<1>6. /\ new.groups = [gs EXCEPT ![i] = h] /\ new.tabs = ts /\ new.handles = win.handles
      /\ new.active = win.active /\ new.focus = win.focus
      /\ new = [groups |-> new.groups, tabs |-> new.tabs, handles |-> new.handles,
                active |-> new.active, focus |-> new.focus]
  BY <1>5 DEF PaneGone
<1> DEFINE T == F \cup {h}
<1>t. Drops(F, ToSet(gs), g) /\ Adds(T, F, h)
  BY DEF Drops, Adds
<1>g. g = gs[i] /\ gs = win.groups
  OBVIOUS
<1> HIDE DEF gs, g, h, F, T, ps, ts, new
<1>7. /\ Apart(F)
      /\ InGroups(F) = InGroups(ToSet(gs)) \ ToSet(g.panes)
      /\ GroupIds(F) = GroupIds(ToSet(gs)) \ {g.id}
  BY <1>1, <1>t, ApartFewer
<1>8. Disjoint(ToSet(h.panes), InGroups(F)) /\ PanesOK(h) /\ h.id \notin GroupIds(F)
  BY <1>3, <1>4, <1>5, <1>7 DEF Disjoint, PanesOK
<1>9. /\ Apart(T) /\ h \notin F
      /\ InGroups(T) = InGroups(F) \cup ToSet(h.panes)
      /\ GroupIds(T) = GroupIds(F) \cup {h.id}
  <2>1. /\ Apart(F) /\ h \in PaneGroups /\ PanesOK(h) /\ h.id \notin GroupIds(F)
        /\ Disjoint(ToSet(h.panes), InGroups(F)) /\ Adds(T, F, h)
    BY <1>5, <1>7, <1>8, <1>t
  <2> QED
    BY <2>1, ApartMore
<1>10. /\ new.groups \in Seq(PaneGroups) /\ IsInjective(new.groups)
       /\ ToSet(new.groups) = T
  <2>1. /\ gs \in Seq(PaneGroups) /\ h \in PaneGroups /\ IsInjective(gs) /\ i \in DOMAIN gs
        /\ Drops(F, ToSet(gs), gs[i]) /\ h \notin F
    BY <1>1, <1>5, <1>9, <1>t, <1>g
  <2>2. /\ [gs EXCEPT ![i] = h] \in Seq(PaneGroups) /\ IsInjective([gs EXCEPT ![i] = h])
        /\ Adds(ToSet([gs EXCEPT ![i] = h]), F, h)
    BY <2>1, ReplacedAt
  <2> QED
    BY <1>6, <1>t, <2>2 DEF Adds
<1>11. InGroups(ToSet(new.groups)) = ToSet(ts)
  <2>1. ToSet(g.panes) \subseteq InGroups(ToSet(gs))
    BY <1>1 DEF InGroups
  <2>2. t \in ToSet(g.panes)
    BY <1>2
  <2>3. InGroups(T) = (InGroups(ToSet(gs)) \ ToSet(g.panes)) \cup (ToSet(g.panes) \ {t})
    BY <1>4, <1>5, <1>7, <1>9
  <2>4. InGroups(T) = InGroups(ToSet(gs)) \ {t}
    BY <2>1, <2>2, <2>3
  <2>5. ToSet(win.tabs) = InGroups(ToSet(gs))
    BY <1>1
  <2> QED
    BY <1>4, <1>10, <2>4, <2>5
<1>12. GroupIds(ToSet(new.groups)) = GroupIds(ToSet(gs))
  <2>1. g.id \in GroupIds(ToSet(gs))
    BY <1>1 DEF GroupIds
  <2>2. GroupIds(T) = GroupIds(ToSet(gs))
    BY ONLY <1>5, <1>7, <1>9, <2>1
  <2> QED
    BY <1>10, <2>2
<1>13. new \in WindowShapes
  BY <1>1, <1>3, <1>6, <1>10 DEF WindowShapes
<1>14. LaidOut(new)
  BY <1>1, <1>3, <1>6, <1>9, <1>10, <1>11, <1>13 DEF LaidOut
<1>15. win.focus # t => InView(new)
  <2> SUFFICES ASSUME win.focus # t PROVE InView(new)
    OBVIOUS
  <2>1. PICK x \in ToSet(gs) : x.id = win.active /\ win.focus \in ToSet(x.panes)
    <3>1. gs # <<>>
      BY <1>1, <1>g
    <3> QED
      BY <1>g, <3>1 DEF WinOK, InView
  <2>2. CASE x = g
    <3>1. h \in ToSet(new.groups) /\ h.id = new.active /\ new.focus \in ToSet(h.panes)
      BY <1>4, <1>5, <1>6, <1>10, <1>t, <2>1, <2>2 DEF Adds
    <3> QED
      BY <3>1 DEF InView
  <2>3. CASE x # g
    <3>1. x \in ToSet(new.groups)
      BY <1>10, <1>t, <2>1, <2>3 DEF Adds, Drops
    <3> QED
      BY <1>6, <2>1, <3>1 DEF InView
  <2> QED
    BY <2>2, <2>3
<1> QED
  BY <1>4, <1>6, <1>12, <1>14, <1>15, <1>g DEF Lost, new

\* and the last pane takes the group along.
LEMMA TabLeaves ==
  ASSUME NEW win, WinOK(win), NEW i \in 1..Len(win.groups), NEW t \in ToSet(win.groups[i].panes)
  PROVE  Lost(WithoutTab(win, i, t), win, t)
<1> DEFINE g == win.groups[i]
           left == Those(g.panes, Tabs \ {t})
           rest == WithoutTab(win, i, t)
<1>1. /\ win \in WindowShapes /\ win.groups \in Seq(PaneGroups)
      /\ g \in ToSet(win.groups) /\ g \in PaneGroups
      /\ Apart(ToSet(win.groups)) /\ win.groups # <<>>
  BY DEF WinOK, LaidOut, WindowShapes, ToSet
<1>2. g.panes \in Seq(Tabs) /\ t \in Tabs
  BY <1>1 DEF PaneGroups, ToSet
<1>3. CASE left = <<>>
  <2> DEFINE new == [groups |-> RemoveAt(win.groups, i),
                     tabs |-> Those(win.tabs, Tabs \ ToSet(g.panes)),
                     handles |-> win.handles \ {g.id}, active |-> win.active, focus |-> win.focus]
  <2>1. ToSet(g.panes) = {t}
    <3>1. ToSet(left) = ToSet(g.panes) \cap (Tabs \ {t})
      <4> HIDE DEF g
      <4> QED
        BY <1>2, ThoseKept
    <3>2. ToSet(left) = {}
      BY <1>3 DEF ToSet
    <3>3. ToSet(g.panes) \subseteq Tabs
      BY <1>2 DEF ToSet
    <3> QED
      BY <3>1, <3>2, <3>3
  <2>2. rest = new
    <3> DEFINE x == [win EXCEPT !.groups = RemoveAt(@, i), !.tabs = Those(@, Tabs \ {t}),
                                !.handles = @ \ {g.id}]
    <3>1. rest = x
      BY <1>3 DEF WithoutTab
    <3>2. x \in [groups : {RemoveAt(win.groups, i)}, tabs : {Those(win.tabs, Tabs \ {t})},
                 handles : {win.handles \ {g.id}}, active : {win.active}, focus : {win.focus}]
      BY <1>1 DEF WindowShapes
    <3> HIDE DEF x
    <3>3. x = [groups |-> x.groups, tabs |-> x.tabs, handles |-> x.handles,
               active |-> x.active, focus |-> x.focus]
      BY <3>2
    <3>4. /\ x.groups = RemoveAt(win.groups, i) /\ x.tabs = Those(win.tabs, Tabs \ {t})
          /\ x.handles = win.handles \ {g.id} /\ x.active = win.active /\ x.focus = win.focus
      BY <3>2
    <3> QED
      BY <2>1, <3>1, <3>3, <3>4
  <2>3. win.active \in Groups \cup {Absent} /\ win.focus \in Tabs \cup {Absent}
    BY <1>1 DEF WindowShapes
  <2>4. Without(new, win, g)
    <3> DEFINE hs == win.handles \ {g.id}
    <3>1. hs \in SUBSET win.handles
      OBVIOUS
    <3> HIDE DEF hs
    <3>2. ASSUME NEW z, z = [groups |-> RemoveAt(win.groups, i),
                     tabs |-> Those(win.tabs, Tabs \ ToSet(g.panes)),
                     handles |-> hs, active |-> win.active, focus |-> win.focus]
          PROVE  Without(z, win, g)
      <4>1. WinOK(win) /\ i \in 1..Len(win.groups) /\ g = win.groups[i]
        OBVIOUS
      <4> HIDE DEF g
      <4> QED
        BY ONLY <2>3, <3>1, <3>2, <4>1, GroupLeaves
    <3> QED
      BY <3>2 DEF hs
  <2>5. /\ new.active = win.active /\ new.focus = win.focus
        /\ new.handles \subseteq win.handles
    OBVIOUS
  <2> HIDE DEF new
  <2>6. win.focus # t => InView(new)
    <3> SUFFICES ASSUME win.focus # t PROVE InView(new)
      OBVIOUS
    <3>1. win.active # g.id
      <4>1. PICK x \in ToSet(win.groups) : x.id = win.active /\ win.focus \in ToSet(x.panes)
        BY <1>1 DEF WinOK, InView
      <4> HIDE DEF g
      <4> QED
        BY <1>1, <2>1, <4>1 DEF Apart
    <3> QED
      BY <1>1, <2>4, <2>5, <3>1, StillShown DEF WinOK
  <2> HIDE DEF g
  <2> QED
    BY <2>1, <2>2, <2>4, <2>5, <2>6 DEF Without, Lost
<1>4. CASE left # <<>>
  <2> DEFINE ts == Those(win.tabs, Tabs \ {t})
             gs == [win.groups EXCEPT ![i] = [@ EXCEPT !.panes = left]]
  <2>1. rest = Refilled(win, gs, ts, win.handles, win.focus)
    <3>1. rest = [win EXCEPT !.groups = gs, !.tabs = ts]
      BY <1>4 DEF WithoutTab
    <3> HIDE DEF gs, ts, rest
    <3> QED
      BY <1>1, <3>1 DEF Refilled, WindowShapes
  <2>2. Refilled(win, gs, ts, win.handles, win.focus) =
          [groups |-> gs, tabs |-> ts, handles |-> win.handles, active |-> win.active,
           focus |-> win.focus]
    <3> HIDE DEF gs, ts
    <3> QED
      BY <1>1, RefilledIs
  <2>3. PaneGone(win, i, t) =
          [groups |-> gs, tabs |-> ts, handles |-> win.handles, active |-> win.active,
           focus |-> win.focus]
    BY DEF PaneGone
  <2>4. rest = PaneGone(win, i, t)
    BY <2>1, <2>2, <2>3
  <2>5. Lost(PaneGone(win, i, t), win, t)
    <3>1. WinOK(win) /\ i \in 1..Len(win.groups) /\ t \in ToSet(win.groups[i].panes)
          /\ Those(win.groups[i].panes, Tabs \ {t}) # <<>>
      BY <1>4
    <3> QED
      BY ONLY <3>1, GroupShrinks
  <2> QED
    BY <2>4, <2>5
<1> QED
  BY <1>3, <1>4

\* The tab that is next is another one of the window.
LEMMA NextStays ==
  ASSUME NEW win, WinOK(win), NEW i \in 1..Len(win.groups), NEW t \in ToSet(win.groups[i].panes),
         ToSet(win.tabs) # {t}
  PROVE  NextActive(win, i, t) \in ToSet(win.tabs) \ {t}
<1> DEFINE gs == win.groups
           g == gs[i]
           panes == g.panes
           n == Len(gs)
           k == SelectInSeq(panes, LAMBDA x : x = t)
           next == NextActive(win, i, t)
<1>1. /\ gs \in Seq(PaneGroups) /\ n \in Nat /\ IsInjective(gs) /\ Apart(ToSet(gs))
      /\ ToSet(win.tabs) = InGroups(ToSet(gs)) /\ DOMAIN gs = 1..n
  BY DEF WinOK, LaidOut, WindowShapes
<1>2. \A j \in 1..n : gs[j] \in ToSet(gs)
  BY <1>1 DEF ToSet
<1>3. ASSUME NEW j \in 1..n
      PROVE  /\ gs[j].panes \in Seq(Tabs) /\ gs[j].panes # <<>> /\ IsInjective(gs[j].panes)
             /\ ToSet(gs[j].panes) \subseteq ToSet(win.tabs)
             /\ gs[j].panes[1] \in ToSet(gs[j].panes)
  <2>1. gs[j] \in ToSet(gs)
    BY <1>2
  <2> DEFINE y == gs[j]
  <2> HIDE DEF y, gs
  <2>2. y \in ToSet(gs)
    BY <2>1 DEF y
  <2>3. y.panes \in Seq(Tabs) /\ y.panes # <<>> /\ IsInjective(y.panes)
    BY <1>1, <2>2 DEF Apart, PanesOK, PaneGroups
  <2>4. y.panes[1] \in ToSet(y.panes)
    BY <2>3 DEF ToSet
  <2>5. ToSet(y.panes) \subseteq ToSet(win.tabs)
    BY <1>1, <2>2 DEF InGroups
  <2> QED
    BY <2>3, <2>4, <2>5 DEF y
<1>4. /\ panes \in Seq(Tabs) /\ IsInjective(panes) /\ ToSet(panes) \subseteq ToSet(win.tabs)
      /\ t \in ToSet(panes)
  BY <1>3
<1>5. k \in 1..Len(panes) /\ panes[k] = t
  <2> HIDE DEF g
  <2> QED
    BY <1>4, PlaceFinds
<1>6. next = IF k > 1 THEN panes[k - 1]
             ELSE IF k < Len(panes) THEN panes[k + 1]
             ELSE IF i > 1 THEN gs[i - 1].panes[1]
             ELSE IF i < n THEN gs[i + 1].panes[1]
             ELSE Absent
  BY DEF NextActive
<1>7. ASSUME NEW j \in 1..n, j # i
      PROVE  gs[j].panes[1] \in ToSet(win.tabs) \ {t}
  <2>1. gs[j] # gs[i]
    BY <1>1, <1>7 DEF IsInjective
  <2>2. gs[j] \in ToSet(gs) /\ gs[i] \in ToSet(gs)
    BY <1>2
  <2>3. Disjoint(ToSet(gs[j].panes), ToSet(gs[i].panes))
    BY <1>1, <2>1, <2>2 DEF Apart
  <2>4. gs[j].panes[1] \in ToSet(gs[j].panes) /\ ToSet(gs[j].panes) \subseteq ToSet(win.tabs)
    BY <1>3
  <2>5. t \in ToSet(gs[i].panes)
    OBVIOUS
  <2> QED
    BY <2>3, <2>4, <2>5 DEF Disjoint
<1>8. ASSUME NEW m \in 1..Len(panes), m # k
      PROVE  panes[m] \in ToSet(win.tabs) \ {t}
  <2>1. panes[m] \in ToSet(panes)
    BY <1>4 DEF ToSet
  <2>2. panes[m] # panes[k]
    BY <1>4, <1>5, <1>8 DEF IsInjective
  <2> QED
    BY <1>4, <1>5, <2>1, <2>2
<1>9. i \in 1..n
  OBVIOUS
<1> HIDE DEF k, next
<1>10. CASE k > 1
  <2>1. next = panes[k - 1] /\ k - 1 \in 1..Len(panes) /\ k - 1 # k
    BY <1>5, <1>6, <1>10
  <2> QED
    BY <1>8, <2>1 DEF next
<1>11. CASE k = 1 /\ k < Len(panes)
  <2>1. next = panes[k + 1] /\ k + 1 \in 1..Len(panes) /\ k + 1 # k
    BY <1>5, <1>6, <1>11
  <2> QED
    BY <1>8, <2>1 DEF next
<1>12. CASE k = 1 /\ ~(k < Len(panes))
  <2>1. CASE i > 1
    <3>1. next = gs[i - 1].panes[1] /\ i - 1 \in 1..n /\ i - 1 # i
      BY <1>1, <1>6, <1>9, <1>12, <2>1
    <3> QED
      BY <1>7, <3>1 DEF next
  <2>2. CASE ~(i > 1) /\ i < n
    <3>1. next = gs[i + 1].panes[1] /\ i + 1 \in 1..n /\ i + 1 # i
      BY <1>1, <1>6, <1>9, <1>12, <2>2
    <3> QED
      BY <1>7, <3>1 DEF next
  <2>3. CASE ~(i > 1) /\ ~(i < n)
    <3>1. i = 1 /\ n = 1
      <4>1. n \in Nat
        BY <1>1
      <4> HIDE DEF n
      <4> QED
        BY ONLY <1>9, <2>3, <4>1
    <3>2. ToSet(gs) = {g}
      BY <1>1, <3>1 DEF ToSet
    <3>3. ToSet(win.tabs) = ToSet(panes)
      BY <1>1, <3>2 DEF InGroups
    <3>4. ToSet(panes) = {t}
      BY <1>4, <1>5, <1>12 DEF ToSet
    <3> QED
      BY <3>3, <3>4
  <2> QED
    BY <2>1, <2>2, <2>3
<1> QED
  BY <1>5, <1>10, <1>11, <1>12

\* The window that holds nothing.
LEMMA NothingHeld ==
  WinOK(EmptyWindow) /\ Held(EmptyWindow) = {} /\ Reached(EmptyWindow) = {}
<1>1. ToSet(<<>>) = {} /\ InGroups({}) = {} /\ GroupIds({}) = {}
  BY DEF ToSet, InGroups, GroupIds
<1>2. /\ EmptyWindow \in WindowShapes /\ EmptyWindow.groups = <<>> /\ EmptyWindow.tabs = <<>>
      /\ EmptyWindow.handles = {} /\ EmptyWindow.active = Absent /\ EmptyWindow.focus = Absent
  BY DEF EmptyWindow, WindowShapes
<1>3. IsInjective(EmptyWindow.groups) /\ IsInjective(EmptyWindow.tabs)
  BY <1>2 DEF IsInjective
<1>4. Apart({}) /\ IsFiniteSet({})
  BY FS_EmptySet DEF Apart
<1> HIDE DEF EmptyWindow
<1>5. LaidOut(EmptyWindow) /\ InView(EmptyWindow)
  BY <1>1, <1>2, <1>3, <1>4 DEF LaidOut, InView
<1> QED
  BY <1>1, <1>2, <1>5 DEF WinOK, Held, Reached

\* Closing a tab leaves a window that shows one of its tabs, if it has any.
LEMMA CloseGains ==
  ASSUME NEW win, WinOK(win), NEW t \in ToSet(win.tabs)
  PROVE  Gains(TabClosed(win, t), win, {}, {})
<1> DEFINE i == GroupOf(win, t)
           rest == WithoutTab(win, i, t)
           next == NextActive(win, i, t)
           new == TabClosed(win, t)
<1>1. i \in 1..Len(win.groups) /\ t \in ToSet(win.groups[i].panes)
  <2>1. win.groups \in Seq(PaneGroups) /\ t \in InGroups(ToSet(win.groups))
    BY DEF WinOK, LaidOut, WindowShapes
  <2> QED
    BY <2>1, GroupOfFinds
<1>2. Lost(rest, win, t)
  <2>1. WinOK(win)
    OBVIOUS
  <2> HIDE DEF i
  <2> QED
    BY ONLY <1>1, <2>1, TabLeaves
<1>3. new = IF rest.tabs = <<>> THEN EmptyWindow
            ELSE IF win.focus # t THEN rest
            ELSE [rest EXCEPT !.focus = next, !.active = rest.groups[GroupOf(rest, next)].id]
  BY DEF TabClosed
<1>4. ToSet(win.tabs) # {t} => next \in ToSet(win.tabs) \ {t}
  <2> HIDE DEF i
  <2> QED
    BY <1>1, NextStays
<1> HIDE DEF i, rest, next
<1>5. Held(rest) \subseteq Held(win) /\ Reached(rest) \subseteq Reached(win)
  BY <1>2 DEF Lost, Held, Reached
<1>6. CASE rest.tabs = <<>>
  BY <1>3, <1>6, NothingHeld DEF Gains
<1>7. CASE rest.tabs # <<>> /\ win.focus # t
  BY <1>2, <1>3, <1>5, <1>7 DEF Lost, WinOK, Gains
<1>8. CASE rest.tabs # <<>> /\ win.focus = t
  <2> DEFINE j == GroupOf(rest, next)
             act == rest.groups[j].id
             z == [rest EXCEPT !.focus = next, !.active = act]
  <2>1. /\ rest \in WindowShapes /\ rest.groups \in Seq(PaneGroups) /\ rest.tabs \in Seq(Tabs)
        /\ ToSet(rest.tabs) = InGroups(ToSet(rest.groups))
        /\ ToSet(rest.tabs) = ToSet(win.tabs) \ {t} /\ Apart(ToSet(rest.groups))
    BY <1>2 DEF Lost, LaidOut, WindowShapes
  <2>2. next \in ToSet(rest.tabs)
    <3>1. rest.tabs[1] \in ToSet(rest.tabs)
      BY <1>8, <2>1 DEF ToSet
    <3> QED
      BY <1>4, <2>1, <3>1
  <2>3. j \in 1..Len(rest.groups) /\ next \in ToSet(rest.groups[j].panes)
    <3>1. next \in InGroups(ToSet(rest.groups))
      BY <2>1, <2>2
    <3> QED
      BY <2>1, <3>1, GroupOfFinds
  <2>4. rest.groups[j] \in ToSet(rest.groups) /\ rest.groups[j] \in PaneGroups
    BY <2>1, <2>3 DEF ToSet
  <2>5. act \in Groups /\ next \in Tabs
    BY <2>1, <2>2, <2>4 DEF PaneGroups, ToSet
  <2> HIDE DEF j
  <2>6. /\ z \in WindowShapes /\ z.groups = rest.groups /\ z.tabs = rest.tabs
        /\ z.handles = rest.handles /\ z.active = act /\ z.focus = next
    BY <2>1, <2>5 DEF WindowShapes
  <2>7. new = z
    BY <1>3, <1>8 DEF j
  <2> HIDE DEF z, new
  <2>8. LaidOut(z)
    BY <1>2, <2>6 DEF Lost, LaidOut
  <2>9. InView(z)
    BY <2>3, <2>4, <2>6 DEF InView
  <2>10. Held(z) = Held(rest) /\ Reached(z) = Reached(rest)
    BY <2>6 DEF Held, Reached
  <2> QED
    BY <1>5, <2>7, <2>8, <2>9, <2>10 DEF Gains, WinOK, new
<1> QED
  BY <1>6, <1>7, <1>8

-----------------------------------------------------------------------------
(* Groups in another order.                                                *)

\* A sequence in two parts,
Cut(q, E, p, r) ==
  /\ p \in Seq(E) /\ r \in Seq(E) /\ ToSet(p) \cup ToSet(r) = ToSet(q)
  /\ IsInjective(q) => IsInjective(p) /\ IsInjective(r) /\ Disjoint(ToSet(p), ToSet(r))

\* cut after n of its elements.
LEMMA CutInTwo ==
  ASSUME NEW E, NEW q \in Seq(E), NEW n \in 0..Len(q)
  PROVE  Cut(q, E, SubSeq(q, 1, n), SubSeq(q, n + 1, Len(q)))
<1> DEFINE p == SubSeq(q, 1, n)
           r == SubSeq(q, n + 1, Len(q))
           m == Len(q)
<1>1. /\ m \in Nat /\ n \in Nat /\ n <= m /\ DOMAIN q = 1..m
      /\ p \in Seq(E) /\ Len(p) = n /\ DOMAIN p = 1..n /\ \A k \in 1..n : p[k] = q[k]
      /\ r \in Seq(E) /\ Len(r) = m - n /\ DOMAIN r = 1..(m - n)
      /\ \A k \in 1..(m - n) : r[k] = q[n + k]
  OBVIOUS
<1> HIDE DEF p, r, m
<1>2. /\ \A k \in 1..n : k \in 1..m
      /\ \A k \in 1..(m - n) : n + k \in 1..m /\ n + k \notin 1..n
      /\ \A k \in 1..m : k \notin 1..n => k - n \in 1..(m - n) /\ n + (k - n) = k
  BY <1>1
<1>3. ToSet(p) \cup ToSet(r) = ToSet(q)
  <2>1. ASSUME NEW x \in ToSet(q) PROVE x \in ToSet(p) \cup ToSet(r)
    <3>1. PICK k \in 1..m : q[k] = x
      BY <1>1 DEF ToSet
    <3>2. CASE k \in 1..n
      BY <1>1, <3>1, <3>2 DEF ToSet
    <3>3. CASE k \notin 1..n
      <4>1. k - n \in 1..(m - n) /\ r[k - n] = x
        BY <1>1, <1>2, <3>1, <3>3
      <4> QED
        BY <1>1, <4>1 DEF ToSet
    <3> QED
      BY <3>2, <3>3
  <2>2. ASSUME NEW x \in ToSet(p) PROVE x \in ToSet(q)
    BY <1>1, <1>2 DEF ToSet
  <2>3. ASSUME NEW x \in ToSet(r) PROVE x \in ToSet(q)
    <3>1. PICK k \in 1..(m - n) : r[k] = x
      BY <1>1 DEF ToSet
    <3>2. n + k \in 1..m /\ q[n + k] = x
      BY <1>1, <1>2, <3>1
    <3> QED
      BY <1>1, <3>2 DEF ToSet
  <2> QED
    BY <2>1, <2>2, <2>3
<1>4. ASSUME IsInjective(q)
      PROVE  IsInjective(p) /\ IsInjective(r) /\ Disjoint(ToSet(p), ToSet(r))
  <2>1. \A k, l \in 1..m : q[k] = q[l] => k = l
    BY <1>1, <1>4 DEF IsInjective
  <2>2. IsInjective(p)
    BY <1>1, <1>2, <2>1 DEF IsInjective
  <2>3. IsInjective(r)
    <3>1. ASSUME NEW k \in 1..(m - n), NEW l \in 1..(m - n), r[k] = r[l] PROVE k = l
      <4>1. n + k = n + l
        BY <1>1, <1>2, <2>1, <3>1
      <4> QED
        BY <1>1, <4>1
    <3> QED
      BY <1>1, <3>1 DEF IsInjective
  <2>4. Disjoint(ToSet(p), ToSet(r))
    <3>1. ASSUME NEW k \in 1..n, NEW l \in 1..(m - n), p[k] = r[l] PROVE FALSE
      <4>1. q[k] = q[n + l] /\ k \in 1..m /\ n + l \in 1..m /\ n + l \notin 1..n
        BY <1>1, <1>2, <3>1
      <4> QED
        BY <2>1, <4>1
    <3> QED
      BY <1>1, <3>1 DEF ToSet, Disjoint
  <2> QED
    BY <2>2, <2>3, <2>4
<1> QED
  BY <1>1, <1>3, <1>4 DEF Cut, p, r, m

\* The same groups in another order, with one of them shown.
LEMMA OtherOrder ==
  ASSUME NEW win, WinOK(win), NEW gs \in Seq(PaneGroups), IsInjective(gs),
         ToSet(gs) = ToSet(win.groups), NEW g \in ToSet(gs),
         NEW new, new = [win EXCEPT !.groups = gs, !.active = g.id, !.focus = g.panes[1]]
  PROVE  Gains(new, win, {}, {})
<1>1. win \in WindowShapes /\ Apart(ToSet(win.groups)) /\ g \in PaneGroups
  BY DEF WinOK, LaidOut, Apart
<1>2. g.panes \in Seq(Tabs) /\ g.panes # <<>> /\ g.id \in Groups
  BY <1>1 DEF Apart, PanesOK, PaneGroups
<1>3. g.panes[1] \in ToSet(g.panes) /\ g.panes[1] \in Tabs
  BY <1>2 DEF ToSet
<1>4. /\ new \in WindowShapes /\ new.groups = gs /\ new.tabs = win.tabs
      /\ new.handles = win.handles /\ new.active = g.id /\ new.focus = g.panes[1]
  BY <1>1, <1>2, <1>3 DEF WindowShapes
<1>5. LaidOut(new)
  BY <1>4 DEF WinOK, LaidOut
<1>6. InView(new)
  BY <1>3, <1>4 DEF InView
<1>7. Held(new) = Held(win) /\ Reached(new) = Reached(win)
  BY <1>4 DEF Held, Reached
<1> QED
  BY <1>5, <1>6, <1>7 DEF WinOK, Gains

\* The groups that are selected go to a place among the others,
Selected(win, S) == Those(win.groups, {g \in ToSet(win.groups) : g.id \in S})
Others(win, S)   == Those(win.groups, {g \in ToSet(win.groups) : g.id \notin S})
Rearranged(win, S, k) ==
  [win EXCEPT !.groups = SubSeq(Others(win, S), 1, k) \o Selected(win, S)
                           \o SubSeq(Others(win, S), k + 1, Len(Others(win, S))),
              !.active = Selected(win, S)[1].id, !.focus = Selected(win, S)[1].panes[1]]

\* which keeps them all.
LEMMA ReorderGains ==
  ASSUME NEW win, WinOK(win), NEW selected, NEW place \in Nat, Selected(win, selected) # <<>>
  PROVE  Gains(Rearranged(win, selected, AtMost(place, Len(Others(win, selected)))), win, {}, {})
<1> DEFINE moving == Selected(win, selected)
           others == Others(win, selected)
           k == AtMost(place, Len(others))
           new == Rearranged(win, selected, k)
<1> DEFINE A == {g \in ToSet(win.groups) : g.id \in selected}
           B == {g \in ToSet(win.groups) : g.id \notin selected}
           p == SubSeq(others, 1, k)
           r == SubSeq(others, k + 1, Len(others))
           gs == p \o moving \o r
<1>1. win.groups \in Seq(PaneGroups) /\ IsInjective(win.groups)
  BY DEF WinOK, LaidOut, WindowShapes
<1>2. A \subseteq ToSet(win.groups) /\ B \subseteq ToSet(win.groups)
      /\ A \cup B = ToSet(win.groups) /\ Disjoint(A, B)
  BY DEF Disjoint
<1>a. moving = Those(win.groups, A) /\ others = Those(win.groups, B)
  BY DEF Selected, Others
<1>b. moving # <<>>
  OBVIOUS
<1> HIDE DEF A, B, moving, others
<1>3. moving \in Seq(PaneGroups) /\ ToSet(moving) = A /\ IsInjective(moving)
  <2>1. /\ Those(win.groups, A) \in Seq(PaneGroups)
        /\ ToSet(Those(win.groups, A)) = ToSet(win.groups) \cap A
        /\ IsInjective(Those(win.groups, A))
    BY ONLY <1>1, ThoseKept
  <2> QED
    BY ONLY <1>2, <1>a, <2>1
<1>4. others \in Seq(PaneGroups) /\ ToSet(others) = B /\ IsInjective(others)
  <2>1. /\ Those(win.groups, B) \in Seq(PaneGroups)
        /\ ToSet(Those(win.groups, B)) = ToSet(win.groups) \cap B
        /\ IsInjective(Those(win.groups, B))
    BY ONLY <1>1, ThoseKept
  <2> QED
    BY ONLY <1>2, <1>a, <2>1
<1>5. k \in 0..Len(others)
  BY <1>4 DEF AtMost
<1>6. Cut(others, PaneGroups, p, r)
  BY ONLY <1>4, <1>5, CutInTwo
<1>7. /\ p \in Seq(PaneGroups) /\ r \in Seq(PaneGroups) /\ IsInjective(p) /\ IsInjective(r)
      /\ ToSet(p) \cup ToSet(r) = B /\ Disjoint(ToSet(p), ToSet(r))
  BY <1>4, <1>6 DEF Cut
<1> HIDE DEF p, r
<1>8. Both(p \o moving, PaneGroups, p, moving)
  BY ONLY <1>3, <1>7, Joined
<1>9. p \o moving \in Seq(PaneGroups) /\ IsInjective(p \o moving) /\ ToSet(p \o moving) = ToSet(p) \cup A
  BY <1>2, <1>3, <1>7, <1>8 DEF Both, Disjoint
<1>10. Both(gs, PaneGroups, p \o moving, r)
  BY ONLY <1>7, <1>9, Joined
<1>11. gs \in Seq(PaneGroups) /\ IsInjective(gs) /\ ToSet(gs) = ToSet(win.groups)
  <2>1. Disjoint(ToSet(p \o moving), ToSet(r))
    BY <1>2, <1>7, <1>9 DEF Disjoint
  <2> HIDE DEF gs
  <2> QED
    BY <1>2, <1>7, <1>9, <1>10, <2>1 DEF Both
<1>12. moving[1] \in ToSet(gs)
  <2>1. moving[1] \in ToSet(moving)
    BY ONLY <1>3, <1>b DEF ToSet
  <2> QED
    BY <1>2, <1>3, <1>11, <2>1
<1> DEFINE g == moving[1]
<1>13. new = [win EXCEPT !.groups = gs, !.active = g.id, !.focus = g.panes[1]]
  BY DEF p, r, moving, others, Rearranged
<1>14. WinOK(win) /\ g \in ToSet(gs)
  BY <1>12
<1> HIDE DEF gs, g, new
<1>15. Gains(new, win, {}, {})
  BY ONLY <1>11, <1>13, <1>14, OtherOrder
<1> QED
  BY <1>15 DEF new, k, others

-----------------------------------------------------------------------------
(* Every operation keeps what the windows hold apart, and their routes to  *)
(* themselves.                                                             *)

TTIInv ==
  /\ Placed(windows, fresh, routing, cut)
  /\ ssh \subseteq Tabs /\ down \subseteq ssh

\* A window has routes for the tabs and handles it holds.
LEMMA PlacedWindow ==
  ASSUME NEW ws, NEW fr, NEW st, NEW ct, Placed(ws, fr, st, ct), NEW w \in Owners
  PROVE  /\ WinOK(ws[w]) /\ ws[w] \in WindowShapes /\ ws[w].groups \in Seq(PaneGroups)
         /\ Apart(ToSet(ws[w].groups)) /\ st \in QuietStores /\ ws \in [Owners -> WindowShapes]
         /\ ToSet(ws[w].tabs) = InGroups(ToSet(ws[w].groups))
         /\ Disjoint(Held(ws[w]), fr.tabs \cup fr.groups)
         /\ fr \in [tabs : SUBSET Tabs, groups : SUBSET Groups]
BY DEF Placed, WinOK, LaidOut, WindowShapes

\* Nothing new, and no route but to where it went already.
LEMMA NothingNew ==
  ASSUME NEW ws, NEW fr, NEW st, NEW ct, Placed(ws, fr, st, ct), NEW w \in Owners,
         NEW new, Gains(new, ws[w], {}, {}),
         NEW st2, NEW gone, Rerouted(st, st2, {}, gone, w), NEW ct2, CutTo(ct, gone, st2, ct2)
  PROVE  Placed([ws EXCEPT ![w] = new], fr, st2, ct2)
<1>1. Uses({}, fr, fr) /\ Owning(st2, {}, w) /\ {} \subseteq {} \cup Held(ws[w])
  BY PlacedWindow DEF Uses, Owning, Disjoint
<1> QED
  BY <1>1, WindowStep

\* Nothing changes.
LEMMA SameRoutes ==
  ASSUME NEW st \in QuietStores, NEW w
  PROVE  Rerouted(st, st, {}, {}, w)
BY DEF Rerouted

\* What CutOff says of what was cut.
LEMMA CutKept ==
  ASSUME NEW gone, CutOff(gone)
  PROVE  CutTo(cut, gone, routing', cut')
BY DEF CutOff, CutTo

\* The two kinds of identifiers are not confused.
LEMMA OpenKeeps ==
  ASSUME TTIInv, NEW w \in Owners, NEW isSsh \in BOOLEAN, OpenGroup(w, isSsh)
  PROVE  TTIInv'
<1> DEFINE t == AnyOf(fresh.tabs)
           g == AnyOf(fresh.groups)
           own == IF isSsh THEN {g} ELSE {}
           R == {t} \cup own
           new == TabOpened(windows[w], g, t, own)
           st2 == RegisterAll(routing, R, w)
           fr2 == [tabs |-> fresh.tabs \ {t}, groups |-> fresh.groups \ {g}]
<1>1. /\ windows' = [windows EXCEPT ![w] = new] /\ routing' = st2 /\ fresh' = fr2
      /\ ssh' = (IF isSsh THEN ssh \cup {t} ELSE ssh) /\ down' = down
      /\ fresh.tabs # {} /\ fresh.groups # {}
  BY DEF OpenGroup, TabOpened
<1>p. CutOff({})
  BY DEF OpenGroup
<1>2. t \in fresh.tabs /\ g \in fresh.groups
  BY <1>1 DEF AnyOf
<1>3. Placed(windows, fresh, routing, cut)
  BY DEF TTIInv
<1>4. /\ WinOK(windows[w]) /\ routing \in QuietStores
      /\ Disjoint(Held(windows[w]), fresh.tabs \cup fresh.groups)
      /\ fresh \in [tabs : SUBSET Tabs, groups : SUBSET Groups]
  BY <1>3, PlacedWindow
<1> HIDE DEF t, g
<1>5. /\ t \in Tabs /\ g \in Groups /\ t \in Routes /\ g \in Routes
      /\ t \notin Groups /\ g \notin Tabs
  BY <1>2, <1>4, TransferAssumption
<1>6. own \in SUBSET {g} /\ IsFiniteSet(own) /\ IsFiniteSet(R) /\ R \in SUBSET Routes
      /\ R \subseteq {t, g}
  <2>1. own \in SUBSET {g} /\ IsFiniteSet({g}) /\ IsFiniteSet({t})
    BY FS_Singleton
  <2>2. IsFiniteSet(own)
    BY <2>1, FS_Subset
  <2> HIDE DEF own
  <2> QED
    BY <1>5, <2>1, <2>2, FS_Union
<1>7. Disjoint({t, g}, Held(windows[w]))
  BY <1>2, <1>4 DEF Disjoint
<1> HIDE DEF own
<1>8. Gains(new, windows[w], {t, g}, R)
  BY ONLY <1>4, <1>5, <1>6, <1>7, OpenGains
<1> HIDE DEF R
<1>9. RoutedTo(routing, st2, R, w)
  BY <1>4, <1>6, RegisterMany
<1>10. Rerouted(routing, st2, R, {}, w)
  <2>1. R \subseteq R /\ (Rerouted(routing, st2, R, {}, w) \/ RoutedTo(routing, st2, R, w))
    BY <1>9
  <2> QED
    BY ONLY <2>1, ReroutedMore
<1>11. Owning(st2, R, w)
  BY <1>9 DEF RoutedTo, Owning
<1>12. Uses({t, g}, fresh, fr2) /\ R \subseteq {t, g} \cup Held(windows[w])
  BY <1>2, <1>4, <1>5, <1>6 DEF Disjoint, Uses
<1> HIDE DEF st2, fr2, new
<1>c. CutTo(cut, {}, st2, cut')
  BY <1>1, <1>p, CutKept
<1>13. Placed([windows EXCEPT ![w] = new], fr2, st2, cut')
  BY <1>3, <1>8, <1>10, <1>11, <1>12, <1>c, WindowStep
<1>14. ssh' \subseteq Tabs /\ down' \subseteq ssh'
  BY <1>1, <1>5 DEF TTIInv
<1> QED
  BY <1>1, <1>13, <1>14 DEF TTIInv

\* The new pane is where the focused one is.
LEMMA SplitKeeps ==
  ASSUME TTIInv, NEW w \in Owners, NEW before \in BOOLEAN, SplitPane(w, before)
  PROVE  TTIInv'
<1> DEFINE win == windows[w]
           t == AnyOf(fresh.tabs)
           i == ActiveAt(win)
           k == SelectInSeq(win.groups[i].panes, LAMBDA x : x = win.focus)
           pos == IF before THEN k ELSE k + 1
           own == IF win.focus \in ssh THEN {t} ELSE {}
           gs == [win.groups EXCEPT ![i] = [@ EXCEPT !.panes = InsertAt(win.groups[i].panes, pos, t)]]
           ts == Append(win.tabs, t)
           hs == IF win.focus \in ssh THEN win.handles \cup {t} ELSE win.handles
           new == Refilled(win, gs, ts, hs, t)
           st2 == RegisterRoute(routing, t, w)
           fr2 == [fresh EXCEPT !.tabs = @ \ {t}]
<1>1. /\ windows' = [windows EXCEPT ![w] =
              [win EXCEPT !.groups[i].panes = InsertAt(@, pos, t),
                          !.tabs = Append(@, t),
                          !.handles = IF win.focus \in ssh THEN @ \cup {t} ELSE @,
                          !.focus = t]]
      /\ routing' = st2 /\ fresh' = fr2
      /\ ssh' = (IF win.focus \in ssh THEN ssh \cup {t} ELSE ssh) /\ down' = down
      /\ fresh.tabs # {} /\ win.focus # Absent
  BY DEF SplitPane
<1>p. CutOff({})
  BY DEF SplitPane
<1>2. t \in fresh.tabs
  BY <1>1 DEF AnyOf
<1>3. Placed(windows, fresh, routing, cut)
  BY DEF TTIInv
<1>4. /\ WinOK(win) /\ win \in WindowShapes /\ win.groups \in Seq(PaneGroups)
      /\ routing \in QuietStores /\ windows \in [Owners -> WindowShapes]
      /\ Disjoint(Held(win), fresh.tabs \cup fresh.groups)
      /\ fresh \in [tabs : SUBSET Tabs, groups : SUBSET Groups]
  BY <1>3, PlacedWindow
<1> HIDE DEF t
<1>5. /\ t \in Tabs /\ t \in Routes /\ t \notin Groups
  BY <1>2, <1>4, TransferAssumption
<1>6. pos \in 1..(Len(win.groups[i].panes) + 1)
  <2>1. win.groups # <<>>
    BY <1>1, <1>4 DEF WinOK, InView, ToSet
  <2>2. i \in 1..Len(win.groups) /\ win.focus \in ToSet(win.groups[i].panes)
    <3> HIDE DEF win
    <3> QED
      BY <1>4, <2>1, ActiveFinds
  <2>3. win.groups[i].panes \in Seq(Tabs)
    <3>1. win.groups[i] \in PaneGroups
      <4> HIDE DEF win, i
      <4> QED
        BY <1>4, <2>2
    <3> QED
      BY <3>1 DEF PaneGroups
  <2>4. k \in 1..Len(win.groups[i].panes)
    <3> DEFINE q == win.groups[i].panes
               f == win.focus
    <3>1. q \in Seq(Tabs) /\ f \in ToSet(q)
      BY <2>2, <2>3
    <3>2. k = SelectInSeq(q, LAMBDA x : x = f)
      OBVIOUS
    <3> HIDE DEF q, f
    <3>3. SelectInSeq(q, LAMBDA x : x = f) \in 1..Len(q)
      BY ONLY <3>1, PlaceFinds
    <3> QED
      BY <3>2, <3>3 DEF q
  <2> HIDE DEF k
  <2> QED
    BY <2>3, <2>4
<1>7. own \in SUBSET {t} /\ IsFiniteSet(own)
  <2>1. own \in SUBSET {t} /\ IsFiniteSet({t})
    BY FS_Singleton
  <2> QED
    BY <2>1, FS_Subset
<1>8. windows' = [windows EXCEPT ![w] = new]
  <2>1. [win EXCEPT !.groups[i].panes = InsertAt(@, pos, t), !.tabs = Append(@, t),
                    !.handles = IF win.focus \in ssh THEN @ \cup {t} ELSE @,
                    !.focus = t] = new
    <3> HIDE DEF k, pos, i, win
    <3> QED
      BY DEF Refilled
  <2> HIDE DEF new
  <2> QED
    BY <1>1, <2>1
<1>9. Gains(new, windows[w], {t}, {t})
  <2>1. Disjoint({t}, Held(win)) /\ i = ActiveAt(win) /\ win.focus # Absent
    BY <1>1, <1>2, <1>4 DEF Disjoint
  <2>2. hs = win.handles \cup own
    OBVIOUS
  <2> HIDE DEF own, pos, i, hs
  <2>3. Gains(Refilled(win, gs, ts, win.handles \cup own, t), win, {t}, {t})
    <3> HIDE DEF win
    <3> QED
      BY ONLY <1>4, <1>5, <1>6, <1>7, <2>1, SplitGains DEF gs, ts
  <2> QED
    BY <2>2, <2>3
<1> HIDE DEF new
<1>10. RoutedTo(routing, st2, {t}, w)
  BY <1>4, <1>5, RegisterOne
<1>11. Rerouted(routing, st2, {t}, {}, w)
  <2>1. {t} \subseteq {t} /\ (Rerouted(routing, st2, {t}, {}, w) \/ RoutedTo(routing, st2, {t}, w))
    BY <1>10
  <2> QED
    BY ONLY <2>1, ReroutedMore
<1>12. Owning(st2, {t}, w)
  BY <1>10 DEF RoutedTo, Owning
<1>13. Uses({t}, fresh, fr2) /\ {t} \subseteq {t} \cup Held(windows[w])
  <2>1. fr2.tabs = fresh.tabs \ {t} /\ fr2.groups = fresh.groups
        /\ fr2 \in [tabs : SUBSET Tabs, groups : SUBSET Groups]
    BY <1>4
  <2> HIDE DEF fr2
  <2> QED
    BY <1>2, <1>4, <1>5, <2>1 DEF Disjoint, Uses
<1> HIDE DEF st2, fr2
<1>c. CutTo(cut, {}, st2, cut')
  BY <1>1, <1>p, CutKept
<1>14. Placed([windows EXCEPT ![w] = new], fr2, st2, cut')
  BY <1>3, <1>9, <1>11, <1>12, <1>13, <1>c, WindowStep
<1>15. ssh' \subseteq Tabs /\ down' \subseteq ssh'
  BY <1>1, <1>5 DEF TTIInv
<1> QED
  BY <1>1, <1>8, <1>14, <1>15 DEF TTIInv

\* A tab that is closed may take the name of its group along.
LEMMA CloseKeeps ==
  ASSUME TTIInv, NEW w \in Owners, NEW t \in Tabs, NEW asked \in BOOLEAN, ClosePane(w, t, asked)
  PROVE  TTIInv'
<1> DEFINE win == windows[w]
           g == win.groups[GroupOf(win, t)]
           gone == {t} \cup (IF Len(g.panes) = 1 THEN {g.id} ELSE {})
           st2 == IF asked THEN UnregisterAll(routing, gone, w) ELSE routing
           gone2 == IF asked THEN gone ELSE {}
           new == TabClosed(win, t)
<1>1. /\ windows' = [windows EXCEPT ![w] = new] /\ routing' = st2 /\ fresh' = fresh
      /\ ssh' = ssh /\ down' = down /\ t \in ToSet(win.tabs)
  BY DEF ClosePane
<1>c. CutTo(cut, gone2, st2, cut')
  <2>1. CASE asked
    <3>1. CutOff(gone)
      BY <2>1 DEF ClosePane
    <3> QED
      BY <1>1, <2>1, <3>1, CutKept
  <2>2. CASE ~asked
    <3>1. cut' = cut
      BY <2>2 DEF ClosePane
    <3> QED
      BY <2>2, <3>1 DEF CutTo
  <2> QED
    BY <2>1, <2>2
<1>2. Placed(windows, fresh, routing, cut)
  BY DEF TTIInv
<1>3. /\ WinOK(win) /\ win.groups \in Seq(PaneGroups) /\ routing \in QuietStores
      /\ ToSet(win.tabs) = InGroups(ToSet(win.groups))
  BY <1>2, PlacedWindow
<1> HIDE DEF win
<1>4. g.id \in Routes
  <2>1. GroupOf(win, t) \in 1..Len(win.groups)
    BY <1>1, <1>3, GroupOfFinds
  <2>2. g \in PaneGroups
    <3> DEFINE i == GroupOf(win, t)
    <3>1. i \in 1..Len(win.groups)
      BY <2>1
    <3> HIDE DEF i
    <3>2. win.groups[i] \in PaneGroups
      BY <1>3, <3>1
    <3> QED
      BY <3>2 DEF i
  <2> HIDE DEF g
  <2> QED
    BY <2>2, TransferAssumption DEF PaneGroups
<1> HIDE DEF g
<1>5. gone \in SUBSET Routes /\ IsFiniteSet(gone)
  <2> DEFINE X == IF Len(g.panes) = 1 THEN {g.id} ELSE {}
  <2>1. X \in SUBSET Routes /\ {t} \in SUBSET Routes
    BY <1>4, TransferAssumption
  <2>2. IsFiniteSet(X) /\ IsFiniteSet({t})
    <3>1. IsFiniteSet({g.id}) /\ IsFiniteSet({}) /\ IsFiniteSet({t})
      BY FS_Singleton, FS_EmptySet
    <3> QED
      BY <3>1
  <2> HIDE DEF X
  <2>3. IsFiniteSet({t} \cup X)
    BY <2>2, FS_Union
  <2> QED
    BY <2>1, <2>3 DEF X
<1> HIDE DEF gone
<1>6. Rerouted(routing, st2, {}, gone2, w)
  <2>1. Rerouted(routing, UnregisterAll(routing, gone, w), {}, gone, w)
    BY <1>3, <1>5, UnregisterMany
  <2>2. Rerouted(routing, routing, {}, {}, w)
    BY <1>3, SameRoutes
  <2> QED
    BY <2>1, <2>2
<1>7. Gains(new, windows[w], {}, {})
  BY <1>1, <1>3, CloseGains DEF win
<1> HIDE DEF st2, new, gone2
<1>8. Placed([windows EXCEPT ![w] = new], fresh, st2, cut')
  BY <1>2, <1>6, <1>7, <1>c, NothingNew
<1> QED
  BY <1>1, <1>8 DEF TTIInv

\* A group that is disconnected keeps its tabs.
LEMMA DisconnectKeeps ==
  ASSUME TTIInv, NEW w \in Owners, NEW i, DisconnectGroup(w, i)
  PROVE  TTIInv'
<1> DEFINE win == windows[w]
           g == win.groups[i]
           panes == ToSet(g.panes)
           gone == panes \cup {g.id}
           hs == win.handles \ {g.id}
           st2 == UnregisterAll(routing, gone, w)
           new == [win EXCEPT !.handles = hs]
<1>1. /\ windows' = [windows EXCEPT ![w] = new] /\ routing' = st2 /\ fresh' = fresh
      /\ ssh' = ssh /\ down' = down \cup (panes \cap ssh) /\ i \in DOMAIN win.groups
  BY DEF DisconnectGroup
<1>c. CutTo(cut, gone, st2, cut')
  <2>1. CutOff(gone)
    BY DEF DisconnectGroup
  <2> QED
    BY <1>1, <2>1, CutKept
<1>2. Placed(windows, fresh, routing, cut)
  BY DEF TTIInv
<1>3. /\ WinOK(win) /\ win.groups \in Seq(PaneGroups) /\ routing \in QuietStores
  BY <1>2, PlacedWindow
<1> HIDE DEF win
<1>4. g \in PaneGroups
  BY <1>1, <1>3
<1> HIDE DEF g
<1>5. gone \in SUBSET Routes /\ IsFiniteSet(gone)
  <2>1. g.panes \in Seq(Tabs) /\ g.id \in Groups
    BY <1>4 DEF PaneGroups
  <2>2. panes \subseteq Tabs
    BY <2>1 DEF ToSet
  <2>3. IsFiniteSet(panes) /\ IsFiniteSet({g.id})
    BY <2>1, FiniteElements, FS_Singleton
  <2> HIDE DEF panes
  <2>4. IsFiniteSet(gone)
    BY <2>3, FS_Union
  <2> QED
    BY <2>1, <2>2, <2>4, TransferAssumption
<1> HIDE DEF gone
<1>6. Rerouted(routing, st2, {}, gone, w)
  BY <1>3, <1>5, UnregisterMany
<1>7. Gains(new, windows[w], {}, {})
  <2>1. {} \subseteq GroupIds(ToSet(win.groups)) /\ IsFiniteSet({}) /\ hs \subseteq win.handles \cup {}
        /\ WinOK(win)
    BY <1>3, FS_EmptySet
  <2> HIDE DEF hs
  <2>2. Gains(new, win, {}, {})
    BY ONLY <2>1, HandlesGain
  <2> QED
    BY <2>2 DEF win
<1> HIDE DEF st2, new
<1>8. Placed([windows EXCEPT ![w] = new], fresh, st2, cut')
  BY <1>2, <1>6, <1>7, <1>c, NothingNew
<1> QED
  BY <1>1, <1>8 DEF TTIInv

\* A tab that is connected again has its route, and its group's, where it is.
LEMMA ReconnectKeeps ==
  ASSUME TTIInv, NEW w \in Owners, NEW t \in Tabs, ReconnectTab(w, t)
  PROVE  TTIInv'
<1> DEFINE win == windows[w]
           i == GroupOf(win, t)
           g == win.groups[i].id
           R == {t, g}
           hs == win.handles \cup {g}
           st2 == RegisterAll(routing, R, w)
           new == [win EXCEPT !.handles = hs]
<1>1. /\ windows' = [windows EXCEPT ![w] = new] /\ routing' = st2 /\ fresh' = fresh
      /\ ssh' = ssh /\ down' = down \ {t} /\ t \in ToSet(win.tabs)
  BY DEF ReconnectTab
<1>p. CutOff({})
  BY DEF ReconnectTab
<1>2. Placed(windows, fresh, routing, cut)
  BY DEF TTIInv
<1>3. /\ WinOK(win) /\ win.groups \in Seq(PaneGroups) /\ routing \in QuietStores
      /\ ToSet(win.tabs) = InGroups(ToSet(win.groups))
      /\ fresh \in [tabs : SUBSET Tabs, groups : SUBSET Groups]
  BY <1>2, PlacedWindow
<1> HIDE DEF win
<1>4. i \in 1..Len(win.groups)
  BY <1>1, <1>3, GroupOfFinds
<1> HIDE DEF i
<1>5. win.groups[i] \in ToSet(win.groups) /\ win.groups[i] \in PaneGroups
  BY <1>3, <1>4 DEF ToSet
<1>6. g \in GroupIds(ToSet(win.groups)) /\ g \in Groups
  BY <1>5 DEF GroupIds, PaneGroups
<1> HIDE DEF g
<1>7. R \in SUBSET Routes /\ IsFiniteSet(R)
  <2>1. IsFiniteSet({t}) /\ IsFiniteSet({g}) /\ R = {t} \cup {g}
    BY FS_Singleton
  <2>2. IsFiniteSet({t} \cup {g})
    BY <2>1, FS_Union
  <2> QED
    BY <1>6, <2>1, <2>2, TransferAssumption
<1>8. R \subseteq {} \cup Held(windows[w])
  BY <1>1, <1>6 DEF Held, win
<1> HIDE DEF R
<1>9. RoutedTo(routing, st2, R, w)
  BY <1>3, <1>7, RegisterMany
<1>10. Rerouted(routing, st2, R, {}, w)
  <2>1. R \subseteq R /\ (Rerouted(routing, st2, R, {}, w) \/ RoutedTo(routing, st2, R, w))
    BY <1>9
  <2> QED
    BY ONLY <2>1, ReroutedMore
<1>11. Owning(st2, {g}, w)
  BY <1>9 DEF RoutedTo, Owning, R
<1>12. Gains(new, windows[w], {}, {g})
  <2>1. {g} \subseteq GroupIds(ToSet(win.groups)) /\ IsFiniteSet({g}) /\ hs \subseteq win.handles \cup {g}
        /\ WinOK(win)
    BY <1>3, <1>6, FS_Singleton
  <2> HIDE DEF hs
  <2>2. Gains(new, win, {}, {g})
    BY ONLY <2>1, HandlesGain
  <2> QED
    BY <2>2 DEF win
<1> HIDE DEF st2, new
<1>13. Uses({}, fresh, fresh)
  BY <1>3 DEF Uses, Disjoint
<1>c. CutTo(cut, {}, st2, cut')
  BY <1>1, <1>p, CutKept
<1>14. Placed([windows EXCEPT ![w] = new], fresh, st2, cut')
  BY <1>2, <1>8, <1>10, <1>11, <1>12, <1>13, <1>c, WindowStep
<1> QED
  BY <1>1, <1>14 DEF TTIInv

\* A reordering only shows another group.
LEMMA ReorderKeeps ==
  ASSUME TTIInv, NEW w \in Owners, NEW selected \in SUBSET Groups, NEW place \in {0, 1},
         Reorder(w, selected, place)
  PROVE  TTIInv'
<1> DEFINE win == windows[w]
           new == Rearranged(win, selected, AtMost(place, Len(Others(win, selected))))
<1>1. /\ windows' = [windows EXCEPT ![w] = new] /\ routing' = routing /\ fresh' = fresh
      /\ ssh' = ssh /\ down' = down /\ cut' = cut /\ Selected(win, selected) # <<>>
  BY DEF Reorder, Selected, Others, Rearranged
<1>2. Placed(windows, fresh, routing, cut)
  BY DEF TTIInv
<1>3. WinOK(win) /\ routing \in QuietStores
  BY <1>2, PlacedWindow
<1>4. Gains(new, windows[w], {}, {})
  BY <1>1, <1>3, ReorderGains
<1>5. Rerouted(routing, routing, {}, {}, w)
  BY <1>3, SameRoutes
<1> HIDE DEF new
<1>c. CutTo(cut, {}, routing, cut')
  BY <1>1 DEF CutTo
<1>6. Placed([windows EXCEPT ![w] = new], fresh, routing, cut')
  BY <1>1, <1>2, <1>4, <1>5, <1>c, NothingNew
<1> QED
  BY <1>1, <1>6 DEF TTIInv

\* A move of groups: they are in the other window, or where they were, and
\* a failure leaves every window as it was.
LEMMA TransferKeeps ==
  ASSUME TTIInv, NEW w \in Owners, NEW target \in Owners, NEW chosen \in Batches,
         HasGroup(windows[w], chosen[1]), NEW zone, NEW opened \in BOOLEAN,
         Transfer(w, target, chosen, zone, opened)
  PROVE  TTIInv' /\ (outcome' = "failed" => windows' = windows)
<1> DEFINE took == TakeAll(windows[w], chosen)
           loads == took.loads
           X == AllOwned(loads)
           R == AllRoutes(loads)
           splits == zone # "center" /\ windows[target].active # Absent
           valid == /\ ~took.missing /\ opened
                    /\ Accepts(windows[target], loads, splits)
                    /\ CanMoveRoutes(routing, R, w)
           new == IF splits THEN Docked(windows[target], loads[1], zone)
                  ELSE ReceivedAll(windows[target], loads)
           moved == MoveRoutes(routing, R, w, target)
           back == RoutesRestoredAll(routing, loads, w)
<1>1. /\ w # target /\ fresh' = fresh /\ ssh' = ssh /\ down' = down
      /\ valid => /\ windows' = [windows EXCEPT ![w] = took.win, ![target] = new]
                  /\ routing' = moved /\ outcome' = "other"
      /\ ~valid => /\ windows' = [windows EXCEPT ![w] = RestoredAll(took.win, loads)]
                   /\ routing' = back
  <2> HIDE DEF took
  <2> QED
    BY DEF Transfer, AllRoutes, took
<1> HIDE DEF valid
<1>c. CutTo(cut, {}, routing', cut')
  <2>1. CutOff({})
    BY DEF Transfer
  <2> QED
    BY <2>1, CutKept
<1>2. Placed(windows, fresh, routing, cut)
  BY DEF TTIInv
<1>3. /\ WinOK(windows[w]) /\ WinOK(windows[target]) /\ routing \in QuietStores
      /\ windows \in [Owners -> WindowShapes]
  BY <1>2, PlacedWindow
<1>4. OneTaken(took, windows[w]) \/ TwoTaken(took, windows[w])
  BY <1>3, BatchTaken
<1> HIDE DEF took
<1>5. Shipped(windows[w], took.win, X, R)
  BY <1>3, <1>4, BatchShips
<1> HIDE DEF X, R
<1>6. /\ Gains(took.win, windows[w], {}, {}) /\ Disjoint(Held(took.win), X)
      /\ X \subseteq Held(windows[w]) /\ R \subseteq X /\ R \in SUBSET Routes
  BY <1>5 DEF Shipped
<1>7. CASE valid
  <2>1. Disjoint(X, Held(windows[target]))
    <3>1. Disjoint(Held(windows[w]), Held(windows[target]))
      BY <1>1, <1>2 DEF Placed
    <3> QED
      BY <1>6, <3>1 DEF Disjoint
  <2>2. Gains(new, windows[target], X, R)
    <3>1. /\ Gains(ReceivedAll(windows[target], loads), windows[target], X, R)
          /\ windows[target].active # Absent =>
               Gains(Docked(windows[target], loads[1], zone), windows[target], X, R)
      BY <1>3, <1>4, <2>1, BatchArrives DEF X, R
    <3> QED
      BY <3>1
  <2>3. RoutedTo(routing, moved, R, target)
    BY <1>3, <1>6, MoveMany
  <2> HIDE DEF new, moved
  <2>4. Placed([windows EXCEPT ![w] = took.win, ![target] = new], fresh, moved, cut')
    <3>1. CutTo(cut, {}, moved, cut')
      BY <1>1, <1>7, <1>c
    <3> QED
      BY <1>1, <1>2, <1>6, <2>2, <2>3, <3>1, MoveStep
  <2> QED
    BY <1>1, <1>7, <2>4 DEF TTIInv
<1>8. CASE ~valid
  <2>1. RestoredAll(took.win, loads) = windows[w]
    BY <1>3, <1>4, BatchWhole
  <2>2. windows' = windows
    BY <1>1, <1>3, <1>8, <2>1
  <2>3. Rerouted(routing, back, R, {}, w)
    BY <1>3, <1>4, BatchRoutesBack DEF R
  <2> HIDE DEF back
  <2>4. Gains(windows[w], windows[w], {}, {})
    BY <1>3 DEF Gains
  <2>5. Uses({}, fresh, fresh) /\ Owning(back, {}, w) /\ R \subseteq {} \cup Held(windows[w])
    BY <1>2, <1>6, PlacedWindow DEF Uses, Owning, Disjoint
  <2>6. Placed([windows EXCEPT ![w] = windows[w]], fresh, back, cut')
    <3>1. CutTo(cut, {}, back, cut')
      BY <1>1, <1>8, <1>c
    <3> QED
      BY <1>2, <2>3, <2>4, <2>5, <3>1, WindowStep
  <2>7. [windows EXCEPT ![w] = windows[w]] = windows
    BY <1>3
  <2> QED
    BY <1>1, <1>8, <2>2, <2>6, <2>7 DEF TTIInv
<1> QED
  BY <1>7, <1>8

\* At first the windows hold nothing.
LEMMA NothingPlaced ==
  ASSUME TTInit
  PROVE  TTIInv
<1>1. /\ windows = [w \in Owners |-> EmptyWindow] /\ routing = EmptyStore /\ ssh = {} /\ down = {}
      /\ fresh = [tabs |-> Tabs, groups |-> Groups]
  BY DEF TTInit
<1>2. /\ WinOK(EmptyWindow) /\ EmptyWindow \in WindowShapes /\ Held(EmptyWindow) = {}
      /\ Reached(EmptyWindow) = {}
  BY NothingHeld DEF WinOK, LaidOut
<1>3. EmptyStore \in QuietStores
  BY DEF EmptyStore, QuietStores
<1>4. \A S : Disjoint({}, S)
  BY DEF Disjoint
<1>5. fresh \in [tabs : SUBSET Tabs, groups : SUBSET Groups]
  BY <1>1
<1> HIDE DEF EmptyWindow, EmptyStore
<1>6. windows \in [Owners -> WindowShapes] /\ \A w \in Owners : windows[w] = EmptyWindow
  BY <1>1, <1>2
<1>7. Placed(windows, fresh, routing, cut)
  BY <1>1, <1>2, <1>3, <1>4, <1>5, <1>6 DEF Placed
<1> QED
  BY <1>1, <1>7 DEF TTIInv

\* The operations, one by one.
LEMMA OperationsKeep ==
  ASSUME TTIInv, TTNext
  PROVE  TTIInv' /\ (outcome' = "failed" => windows' = windows)
<1>1. PICK w \in Owners :
        \/ \E isSsh \in BOOLEAN : OpenGroup(w, isSsh)
        \/ \E before \in BOOLEAN : SplitPane(w, before)
        \/ \E t \in Tabs, asked \in BOOLEAN : ClosePane(w, t, asked)
        \/ \E i \in 1..Cardinality(Groups) : DisconnectGroup(w, i)
        \/ \E t \in Tabs : ReconnectTab(w, t)
        \/ \E target \in Owners, chosen \in Batches :
             \/ \E zone \in Zones(chosen) : MergeGroups(w, target, chosen, zone)
             \/ \E opened \in BOOLEAN : DetachGroups(w, target, chosen, opened)
        \/ \E selected \in SUBSET Groups, place \in {0, 1} : Reorder(w, selected, place)
  BY DEF TTNext
<1>2. CASE \E isSsh \in BOOLEAN : OpenGroup(w, isSsh)
  <2>1. PICK isSsh \in BOOLEAN : OpenGroup(w, isSsh)
    BY <1>2
  <2>2. outcome' = "other"
    BY <2>1 DEF OpenGroup
  <2> QED
    BY <2>1, <2>2, OpenKeeps
<1>3. CASE \E before \in BOOLEAN : SplitPane(w, before)
  <2>1. PICK before \in BOOLEAN : SplitPane(w, before)
    BY <1>3
  <2>2. outcome' = "other"
    BY <2>1 DEF SplitPane
  <2> QED
    BY <2>1, <2>2, SplitKeeps
<1>4. CASE \E t \in Tabs, asked \in BOOLEAN : ClosePane(w, t, asked)
  <2>1. PICK t \in Tabs, asked \in BOOLEAN : ClosePane(w, t, asked)
    BY <1>4
  <2>2. outcome' = "other"
    BY <2>1 DEF ClosePane
  <2> QED
    BY <2>1, <2>2, CloseKeeps
<1>5. CASE \E i \in 1..Cardinality(Groups) : DisconnectGroup(w, i)
  <2>1. PICK i : DisconnectGroup(w, i)
    BY <1>5
  <2>2. outcome' = "other"
    BY <2>1 DEF DisconnectGroup
  <2> QED
    BY <2>1, <2>2, DisconnectKeeps
<1>6. CASE \E t \in Tabs : ReconnectTab(w, t)
  <2>1. PICK t \in Tabs : ReconnectTab(w, t)
    BY <1>6
  <2>2. outcome' = "other"
    BY <2>1 DEF ReconnectTab
  <2> QED
    BY <2>1, <2>2, ReconnectKeeps
<1>7. CASE \E target \in Owners, chosen \in Batches :
             \/ \E zone \in Zones(chosen) : MergeGroups(w, target, chosen, zone)
             \/ \E opened \in BOOLEAN : DetachGroups(w, target, chosen, opened)
  <2>1. PICK target \in Owners, chosen \in Batches :
             \/ \E zone \in Zones(chosen) : MergeGroups(w, target, chosen, zone)
             \/ \E opened \in BOOLEAN : DetachGroups(w, target, chosen, opened)
    BY <1>7
  <2>2. CASE \E zone \in Zones(chosen) : MergeGroups(w, target, chosen, zone)
    <3>1. PICK zone : MergeGroups(w, target, chosen, zone)
      BY <2>2
    <3>2. HasGroup(windows[w], chosen[1]) /\ Transfer(w, target, chosen, zone, TRUE)
      BY <3>1 DEF MergeGroups
    <3> QED
      BY <3>2, TransferKeeps
  <2>3. CASE \E opened \in BOOLEAN : DetachGroups(w, target, chosen, opened)
    <3>1. PICK opened \in BOOLEAN : DetachGroups(w, target, chosen, opened)
      BY <2>3
    <3>2. HasGroup(windows[w], chosen[1]) /\ Transfer(w, target, chosen, "center", opened)
      BY <3>1 DEF DetachGroups
    <3> QED
      BY <3>2, TransferKeeps
  <2> QED
    BY <2>1, <2>2, <2>3
<1>8. CASE \E selected \in SUBSET Groups, place \in {0, 1} : Reorder(w, selected, place)
  <2>1. PICK selected \in SUBSET Groups, place \in {0, 1} : Reorder(w, selected, place)
    BY <1>8
  <2>2. outcome' = "other"
    BY <2>1 DEF Reorder
  <2> QED
    BY <2>1, <2>2, ReorderKeeps
<1> QED
  BY <1>1, <1>2, <1>3, <1>4, <1>5, <1>6, <1>7, <1>8

\* The inductive invariant: what the windows hold is laid out, shared by no
\* two of them and none of it is an identifier that is still to be used, and
\* the routes of a window's tabs and handles lead to it or were cut.
THEOREM WindowsPlaced == TTSpec => []TTIInv
<1>1. TTInit => TTIInv
  BY NothingPlaced
<1>2. TTIInv /\ [TTNext]_ttVars => TTIInv'
  <2>1. TTIInv /\ UNCHANGED ttVars => TTIInv'
    BY DEF TTIInv, ttVars
  <2> QED
    BY <2>1, OperationsKeep
<1> QED
  BY <1>1, <1>2, PTL DEF TTSpec

\* RoutesTravel, for any number of windows, tabs, groups and operations: the
\* events of a tab, and of the SFTP session of a group, go to the window that
\* holds it, unless a window itself removed their route: no operation loses
\* one, a move that is undone included.
THEOREM RoutesGoAlong == TTSpec => []RoutesTravel
<1>1. TTIInv => RoutesTravel
  BY DEF TTIInv, Placed, Reached, Leads, RoutesTravel
<1> QED
  BY <1>1, WindowsPlaced, PTL

\* RollbackExact: a move that fails, of one group or of two, at whichever of
\* its checks, leaves every window as it was.
THEOREM FailedMoveUndone == TTSpec => RollbackExact
<1>1. TTIInv /\ [TTNext]_ttVars => [outcome' = "failed" => windows' = windows]_ttVars
  BY OperationsKeep
<1> QED
  BY <1>1, WindowsPlaced, PTL DEF TTSpec, RollbackExact

-----------------------------------------------------------------------------
(* The panes of all groups of a window are its tabs.                       *)

\* The sequence all, put together group by group,
Gathering(r, q, all) ==
  /\ r \in [0..Len(q) -> Seq(Tabs)] /\ r[0] = <<>> /\ r[Len(q)] = all
  /\ \A i \in 1..Len(q) : r[i] = r[i - 1] \o q[i].panes

\* as the fold does.
LEMMA PanesTrace ==
  ASSUME NEW win, win.groups \in Seq(PaneGroups)
  PROVE  \E r : Gathering(r, win.groups, Panes(win))
<1> DEFINE q == win.groups
           n == Len(q)
           V == Seq(Tabs)
           base == <<>>
           Op(v, g) == v \o g.panes
           step == [p \in V \X (1..n) |-> Op(p[1], q[p[2]])]
<1>1. n \in Nat /\ DOMAIN q = 1..n /\ \A i \in 1..n : q[i] \in PaneGroups
  OBVIOUS
<1>2. base \in V
  OBVIOUS
<1>3. step \in [V \X (1..n) -> V]
  <2>1. ASSUME NEW p \in V \X (1..n) PROVE Op(p[1], q[p[2]]) \in V
    <3>1. p[1] \in Seq(Tabs) /\ q[p[2]] \in PaneGroups
      BY <1>1
    <3>2. q[p[2]].panes \in Seq(Tabs)
      BY <3>1 DEF PaneGroups
    <3> QED
      BY <3>1, <3>2
  <2> QED
    BY <2>1
<1>4. /\ \E f : Recursion(f, n, V, base, step)
      /\ \A g : Follows(g, n, V, base, step) => \E r : Trace(r, g, n, V, base, step)
  <2> HIDE DEF n, V, step, base
  <2> QED
    BY <1>1, <1>2, <1>3, FoldTrace
<1>5. PICK f : Recursion(f, n, V, base, step)
  BY <1>4
<1>6. f = [s \in SUBSET DOMAIN q |-> IF s = {} THEN <<>> ELSE Op(f[s \ {Max(s)}], q[Max(s)])]
  BY <1>1, <1>5, MaxChosen DEF Recursion
<1>7. PICK g : g = [s \in SUBSET DOMAIN q |-> IF s = {} THEN <<>> ELSE Op(g[s \ {Max(s)}], q[Max(s)])]
               /\ Panes(win) = g[DOMAIN q]
  BY <1>6 DEF Panes, FoldLeft, MapThenFoldSet
<1>8. Follows(g, n, V, base, step)
  BY <1>1, <1>7, MaxChosen DEF Follows
<1>9. PICK r : Trace(r, g, n, V, base, step)
  BY <1>4, <1>8
<1>10. \A i \in 1..n : r[i] = Op(r[i - 1], q[i])
  <2> TAKE i \in 1..n
  <2>1. <<r[i - 1], i>> \in V \X (1..n)
    <3>1. i - 1 \in 0..n
      BY <1>1
    <3> QED
      BY <1>9, <3>1 DEF Trace
  <2> QED
    BY <1>9, <2>1 DEF Trace
<1>11. r \in [0..n -> V] /\ r[0] = <<>> /\ r[n] = g[1..n]
  BY <1>9 DEF Trace
<1>12. Gathering(r, q, Panes(win))
  BY <1>1, <1>7, <1>10, <1>11 DEF Gathering
<1> QED
  BY <1>12

\* They are different tabs.
LEMMA PanesAre ==
  ASSUME NEW win, WinOK(win)
  PROVE  ToSet(Panes(win)) = ToSet(win.tabs) /\ IsInjective(Panes(win))
<1> DEFINE q == win.groups
           n == Len(q)
           Upto(j) == {q[i] : i \in 1..j}
<1>1. /\ q \in Seq(PaneGroups) /\ n \in Nat /\ DOMAIN q = 1..n /\ \A i \in 1..n : q[i] \in ToSet(q)
      /\ IsInjective(q) /\ Apart(ToSet(q)) /\ ToSet(win.tabs) = InGroups(ToSet(q))
  BY DEF WinOK, LaidOut, WindowShapes, ToSet
<1>2. PICK r : Gathering(r, q, Panes(win))
  BY <1>1, PanesTrace
<1>3. /\ r \in [0..n -> Seq(Tabs)] /\ r[0] = <<>> /\ r[n] = Panes(win)
      /\ \A i \in 1..n : r[i] = r[i - 1] \o q[i].panes
  BY <1>2 DEF Gathering
<1> DEFINE Good(j) == ToSet(r[j]) = InGroups(Upto(j)) /\ IsInjective(r[j])
           bad == {j \in 0..n : ~Good(j)}
<1>4. Good(0)
  <2>1. Upto(0) = {}
    OBVIOUS
  <2>2. ToSet(<<>>) = {} /\ IsInjective(<<>>) /\ InGroups({}) = {}
    BY DEF ToSet, IsInjective, InGroups
  <2> HIDE DEF Upto
  <2> QED
    BY <1>3, <2>1, <2>2
<1>5. ASSUME NEW j \in 1..n, Good(j - 1)
      PROVE  Good(j)
  <2> DEFINE p == r[j - 1]
             g == q[j]
             U == Upto(j - 1)
  <2>1. j - 1 \in 0..n /\ p \in Seq(Tabs) /\ g \in ToSet(q) /\ r[j] = p \o g.panes
    <3>1. j - 1 \in 0..n /\ j \in 1..n
      BY <1>1
    <3> HIDE DEF q, n
    <3> QED
      BY <1>1, <1>3, <3>1 DEF n
  <2>2. g.panes \in Seq(Tabs) /\ IsInjective(g.panes)
    <3> HIDE DEF g
    <3> QED
      BY <1>1, <2>1 DEF Apart, PanesOK, PaneGroups
  <2>3. Upto(j) = U \cup {g}
    <3>1. 1..j = (1..(j - 1)) \cup {j}
      BY <1>1
    <3> QED
      BY <3>1
  <2>4. U \subseteq ToSet(q) /\ g \notin U
    <3>1. \A i \in 1..(j - 1) : i \in 1..n /\ i # j
      BY <1>1
    <3>2. \A i \in 1..(j - 1) : q[i] \in ToSet(q) /\ q[i] # q[j]
      BY <1>1, <3>1 DEF IsInjective
    <3> QED
      BY <3>2
  <2>5. ToSet(p) = InGroups(U) /\ IsInjective(p)
    BY <1>5
  <2> HIDE DEF p, g, U, Upto, q
  <2>6. InGroups(U \cup {g}) = InGroups(U) \cup ToSet(g.panes)
    BY DEF InGroups
  <2>7. Disjoint(InGroups(U), ToSet(g.panes))
    <3>1. \A x \in U : Disjoint(ToSet(x.panes), ToSet(g.panes))
      BY <1>1, <2>1, <2>4 DEF Apart
    <3> QED
      BY <3>1 DEF Disjoint, InGroups
  <2>8. Both(p \o g.panes, Tabs, p, g.panes)
    BY <2>1, <2>2, Joined
  <2>9. ToSet(r[j]) = ToSet(p) \cup ToSet(g.panes) /\ IsInjective(r[j])
    BY <2>1, <2>2, <2>5, <2>7, <2>8 DEF Both
  <2> QED
    BY <2>3, <2>5, <2>6, <2>9
<1> HIDE DEF Good
<1>6. bad = {}
  <2> SUFFICES ASSUME bad # {} PROVE FALSE
    OBVIOUS
  <2>1. bad \in SUBSET Nat
    BY <1>1
  <2>2. PICK j \in bad : \A k \in bad : j <= k
    <3> HIDE DEF bad
    <3> QED
      BY <2>1, Least
  <2>3. j \in 0..n /\ ~Good(j) /\ j # 0
    BY <1>4, <2>2
  <2>4. j \in 1..n /\ j - 1 \in 0..n /\ ~(j <= j - 1)
    BY <1>1, <2>3
  <2>5. Good(j - 1)
    BY <2>2, <2>4
  <2> QED
    BY <1>5, <2>3, <2>4, <2>5
<1>7. Good(n)
  BY <1>1, <1>6
<1>8. Upto(n) = ToSet(q)
  BY <1>1 DEF ToSet
<1> HIDE DEF Upto
<1> QED
  BY <1>1, <1>3, <1>7, <1>8 DEF Good

\* What the invariant says of a window, as TabsConserved says it.
LEMMA WindowWhole ==
  ASSUME NEW win, WinOK(win)
  PROVE  /\ ToSet(Panes(win)) = ToSet(win.tabs)
         /\ IsInjective(Panes(win)) /\ IsInjective(win.tabs)
         /\ IF win.groups = <<>> THEN win.active = Absent /\ win.focus = Absent
            ELSE /\ HasGroup(win, win.active)
                 /\ win.focus \in ToSet(win.groups[ActiveAt(win)].panes)
<1>1. win.groups \in Seq(PaneGroups) /\ IsInjective(win.tabs)
  BY DEF WinOK, LaidOut, WindowShapes
<1>2. CASE win.groups = <<>>
  <2>1. ToSet(win.groups) = {}
    BY <1>2 DEF ToSet
  <2>2. win.active = Absent /\ win.focus = Absent
    BY <2>1 DEF WinOK, InView
  <2> QED
    BY <1>1, <1>2, <2>2, PanesAre
<1>3. CASE win.groups # <<>>
  <2>1. /\ ActiveAt(win) \in 1..Len(win.groups)
        /\ win.focus \in ToSet(win.groups[ActiveAt(win)].panes)
    BY <1>3, ActiveFinds
  <2>2. HasGroup(win, win.active)
    BY <1>1, <2>1 DEF HasGroup, ActiveAt
  <2> QED
    BY <1>1, <1>3, <2>1, <2>2, PanesAre
<1> QED
  BY <1>2, <1>3

\* TabsConserved, for any number of windows, tabs, groups and operations: a
\* tab is held by one window, in one pane of one of its groups, and a window
\* that holds anything shows a pane of its active group.
THEOREM TabsStayWhole == TTSpec => []TabsConserved
<1>1. ASSUME TTIInv PROVE TabsConserved
  <2>1. \A w \in Owners : WinOK(windows[w]) /\ windows[w].groups \in Seq(PaneGroups)
    BY <1>1, PlacedWindow DEF TTIInv
  <2>2. \A v, w \in Owners : v # w => Disjoint(Held(windows[v]), Held(windows[w]))
    BY <1>1 DEF TTIInv, Placed
  <2>3. ASSUME NEW v \in Owners, NEW w \in Owners, v # w
        PROVE  /\ ToSet(windows[v].tabs) \cap ToSet(windows[w].tabs) = {}
               /\ windows[v].handles \cap windows[w].handles = {}
               /\ \A g \in Groups : ~(HasGroup(windows[v], g) /\ HasGroup(windows[w], g))
    <3>1. Disjoint(Held(windows[v]), Held(windows[w]))
      BY <2>2, <2>3
    <3>2. ASSUME NEW g \in Groups, HasGroup(windows[v], g), HasGroup(windows[w], g)
          PROVE  FALSE
      <4>1. g \in GroupIds(ToSet(windows[v].groups)) /\ g \in GroupIds(ToSet(windows[w].groups))
        BY <2>1, <3>2, GroupAtFinds
      <4> QED
        BY <3>1, <4>1 DEF Disjoint, Held
    <3> QED
      BY <3>1, <3>2 DEF Disjoint, Held
  <2>4. ASSUME NEW w \in Owners
        PROVE  LET win == windows[w]
                   all == Panes(win)
               IN  /\ ToSet(all) = ToSet(win.tabs)
                   /\ IsInjective(all) /\ IsInjective(win.tabs)
                   /\ IF win.groups = <<>> THEN win.active = Absent /\ win.focus = Absent
                      ELSE /\ HasGroup(win, win.active)
                           /\ win.focus \in ToSet(win.groups[ActiveAt(win)].panes)
    BY <2>1, WindowWhole
  <2> QED
    BY <2>3, <2>4 DEF TabsConserved
<1> QED
  BY <1>1, WindowsPlaced, PTL

\* TTTypeOK, for any number of windows, tabs, groups and operations.
THEOREM WindowsTyped == TTSpec => []TTTypeOK
<1>1. ASSUME TTIInv PROVE TTTypeOK
  <2>1. /\ \A w \in Owners : windows[w] \in WindowShapes
        /\ fresh \in [tabs : SUBSET Tabs, groups : SUBSET Groups]
    BY <1>1, PlacedWindow DEF TTIInv, Placed
  <2>2. ASSUME NEW w \in Owners
        PROVE  /\ windows[w].handles \subseteq Tabs \cup Groups
               /\ windows[w].active \in Groups \cup {Absent}
               /\ windows[w].focus \in Tabs \cup {Absent}
    BY <2>1 DEF WindowShapes
  <2> QED
    BY <1>1, <2>1, <2>2 DEF TTIInv, TTTypeOK
<1> QED
  BY <1>1, WindowsPlaced, PTL
=============================================================================
