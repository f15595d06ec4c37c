---------------------------- MODULE Events_proofs ----------------------------
(***************************************************************************)
(* What goes through the event channel to the windows, for every number of *)
(* windows and tabs and every capacity of the queues: a wake-up for a      *)
(* frame that is thought to be under way is under way (FrameMailbox);      *)
(* events reach the window that holds their tab or none, and the end of a  *)
(* connection is not lost (BackendEvents).                                 *)
(***************************************************************************)
EXTENDS BackendEvents, FrameMailbox, FiniteSetTheorems, WellFoundedInduction,
        SequenceTheorems, TLAPS

-----------------------------------------------------------------------------
(* The frames of a remote desktop.                                         *)

HasFrame(q) == \E i \in DOMAIN q : q[i] = "frame"

FmTyped ==
  /\ latest \in BOOLEAN /\ wake \in BOOLEAN /\ dropped \in BOOLEAN
  /\ painter \in {"idle", "sending", "refused"}
  /\ queue \in Seq({"frame", "other"})
  /\ waiting \in Seq({"frame", "other"})

WakeUnderWay == painter # "idle" \/ HasFrame(queue) \/ HasFrame(waiting)

(* The wake-up that is handled last must find a frame to take: wake_pending*)
(* is only set while the mailbox holds one.                                *)
FmIInv ==
  /\ FmTyped
  /\ wake => latest
  /\ wake /\ ~dropped => WakeUnderWay

\* A frame wake-up in a queue that grows,
LEMMA FrameAppend ==
  ASSUME NEW q \in Seq({"frame", "other"}), NEW e \in {"frame", "other"}
  PROVE  HasFrame(Append(q, e)) <=> (HasFrame(q) \/ e = "frame")
<1>1. ASSUME HasFrame(Append(q, e)), e # "frame"
      PROVE  HasFrame(q)
  BY <1>1 DEF HasFrame
<1>2. ASSUME HasFrame(q)
      PROVE  HasFrame(Append(q, e))
  BY <1>2 DEF HasFrame
<1>3. ASSUME e = "frame"
      PROVE  HasFrame(Append(q, e))
  <2>1. Len(q) + 1 \in DOMAIN Append(q, e) /\ Append(q, e)[Len(q) + 1] = e
    OBVIOUS
  <2>2. QED
    BY <1>3, <2>1 DEF HasFrame
<1>4. QED
  BY <1>1, <1>2, <1>3

\* and in one that shrinks.
LEMMA FrameTail ==
  ASSUME NEW q \in Seq({"frame", "other"}), q # <<>>
  PROVE  HasFrame(q) => HasFrame(Tail(q)) \/ Head(q) = "frame"
<1>1. SUFFICES ASSUME NEW i \in DOMAIN q, q[i] = "frame", i # 1
               PROVE  HasFrame(Tail(q))
  BY DEF HasFrame
<1>2. i - 1 \in DOMAIN Tail(q) /\ Tail(q)[i - 1] = q[i]
  BY <1>1
<1>3. QED
  BY <1>1, <1>2 DEF HasFrame

\* Every step keeps the invariant.
LEMMA FmStep == FmIInv /\ [FmNext]_fmVars => FmIInv'
<1> SUFFICES ASSUME FmIInv, [FmNext]_fmVars
             PROVE  FmIInv'
  OBVIOUS
<1> USE DEF FmIInv, FmTyped, WakeUnderWay
<1>1. CASE Publish
  BY <1>1 DEF Publish
<1>2. CASE SendFrameReady
  <2>1. CASE Len(queue) < QueueCapacity
    <3>1. HasFrame(Append(queue, "frame"))
      BY FrameAppend
    <3>2. /\ queue' = Append(queue, "frame") /\ painter' = "idle"
          /\ latest' = latest /\ wake' = wake /\ waiting' = waiting /\ dropped' = dropped
      BY <1>2, <2>1 DEF SendFrameReady
    <3>3. FmTyped' /\ (wake' => latest')
      BY <3>2
    <3>4. HasFrame(queue')
      BY <3>1, <3>2
    <3>5. QED
      BY <3>3, <3>4
  <2>2. CASE ~(Len(queue) < QueueCapacity)
    BY <1>2, <2>2 DEF SendFrameReady
  <2>3. QED
    BY <2>1, <2>2
<1>3. CASE WakeupFailed
  BY <1>3 DEF WakeupFailed
<1>4. CASE OthersSend
  BY <1>4, FrameAppend DEF OthersSend
<1>5. CASE RouteToWindow
  <2>1. /\ Tail(queue) \in Seq({"frame", "other"})
        /\ Head(queue) \in {"frame", "other"}
    BY <1>5 DEF RouteToWindow
  <2>2. CASE Len(waiting) < WindowCapacity
    <3>1. waiting' = Append(waiting, Head(queue)) /\ queue' = Tail(queue) /\ queue # <<>>
      BY <1>5, <2>2 DEF RouteToWindow
    <3>2. waiting' \in Seq({"frame", "other"})
      BY <2>1, <3>1
    <3>3. HasFrame(queue) \/ HasFrame(waiting) => HasFrame(Tail(queue)) \/ HasFrame(Append(waiting, Head(queue)))
      BY <2>1, <3>1, FrameTail, FrameAppend
    <3>4. HasFrame(queue) \/ HasFrame(waiting) => HasFrame(queue') \/ HasFrame(waiting')
      BY <3>1, <3>3
    <3>5. QED
      BY <1>5, <2>1, <2>2, <3>1, <3>2, <3>4 DEF RouteToWindow
  <2>3. CASE ~(Len(waiting) < WindowCapacity)
    BY <1>5, <2>1, <2>3, FrameTail DEF RouteToWindow
  <2>4. QED
    BY <2>2, <2>3
<1>6. CASE HandleFrameReady
  <2>1. Tail(waiting) \in Seq({"frame", "other"})
    BY <1>6 DEF HandleFrameReady
  <2>2. CASE Head(waiting) = "frame" /\ latest
    BY <1>6, <2>1, <2>2 DEF HandleFrameReady
  <2>3. CASE ~(Head(waiting) = "frame" /\ latest)
    <3>1. wake => Head(waiting) # "frame"
      BY <2>3
    <3>2. QED
      BY <1>6, <2>1, <2>3, <3>1, FrameTail DEF HandleFrameReady
  <2>4. QED
    BY <2>2, <2>3
<1>7. CASE UNCHANGED fmVars
  BY <1>7 DEF fmVars, HasFrame
<1>8. QED
  BY <1>1, <1>2, <1>3, <1>4, <1>5, <1>6, <1>7 DEF FmNext

\* It holds at the start.
LEMMA FmInitially == FmInit => FmIInv
<1>1. FmInit => FmTyped
  <2>1. <<>> \in Seq({"frame", "other"}) /\ "idle" \in {"idle", "sending", "refused"}
    OBVIOUS
  <2>2. QED
    BY <2>1, Zenon DEF FmInit, FmTyped
<1>2. FmInit => ~wake
  BY DEF FmInit
<1>3. QED
  BY <1>1, <1>2 DEF FmIInv

(* However many frames are painted, queues are full and events of others   *)
(* come between: while wake_pending keeps later frames from sending a      *)
(* wake-up, one is under way, as long as none met a full window queue.     *)
THEOREM PictureMoves == FmSpec => []FrameNotStuck
<1>1. FmIInv => FrameNotStuck
  BY DEF FmIInv, FrameNotStuck, WakeUnderWay, HasFrame
<1>2. QED
  BY <1>1, FmInitially, FmStep, PTL DEF FmSpec

-----------------------------------------------------------------------------
(* Folds.  What a fold computes cannot be proved by induction here (the    *)
(* library's theorems take an operator); but its values stay in a set that *)
(* holds the first and that every step stays in.                           *)

\* A set of naturals has a least element.
LEMMA Least ==
  ASSUME NEW T \in SUBSET Nat, T # {}
  PROVE  \E x \in T : \A y \in T : x <= y
<1> DEFINE R == OpToRel(<, Nat)
<1>1. IsWellFoundedOn(R, Nat)
  BY NatLessThanWellFounded
<1>2. \A x, y \in Nat : <<y, x>> \in R <=> y < x
  BY DEF OpToRel
<1> HIDE DEF R
<1>3. PICK x \in T : \A y \in T : ~(<<y, x>> \in R)
  BY <1>1, WFMin
<1>4. ASSUME NEW y \in T PROVE x <= y
  <2>1. x \in Nat /\ y \in Nat
    OBVIOUS
  <2>2. ~(y < x)
    BY <1>2, <1>3, <2>1
  <2> QED
    BY <2>1, <2>2
<1> QED
  BY <1>4

\* Removing the chosen element of a set leaves a smaller one.
LEMMA Smaller ==
  ASSUME NEW S, IsFiniteSet(S), NEW s \in SUBSET S, NEW x \in s
  PROVE  /\ s \ {x} \in SUBSET S
         /\ Cardinality(s) \in Nat /\ Cardinality(s \ {x}) = Cardinality(s) - 1
         /\ Cardinality(s \ {x}) \in Nat /\ Cardinality(s \ {x}) < Cardinality(s)
<1>1. IsFiniteSet(s)
  BY FS_Subset
<1>2. IsFiniteSet(s \ {x}) /\ Cardinality(s \ {x}) = Cardinality(s) - 1
  BY <1>1, FS_RemoveElement
<1>3. Cardinality(s) \in Nat /\ Cardinality(s \ {x}) \in Nat
  BY <1>1, <1>2, FS_CardinalityType
<1> QED
  BY <1>2, <1>3

\* What holds of the empty set and is passed on from every set without its
\* chosen element to the set holds of the whole: W is the set of the pairs of
\* a set and a value of which it holds.
LEMMA FoldStays ==
  ASSUME NEW S, IsFiniteSet(S), NEW c, \A s \in SUBSET S : s # {} => c[s] \in s,
         NEW W, NEW f, <<{}, f[{}]>> \in W,
         \A s \in SUBSET S : s # {} /\ <<s \ {c[s]}, f[s \ {c[s]}]>> \in W => <<s, f[s]>> \in W
  PROVE  <<S, f[S]>> \in W
<1> DEFINE bad == {s \in SUBSET S : <<s, f[s]>> \notin W}
           T == {Cardinality(s) : s \in bad}
<1>1. SUFFICES ASSUME bad # {} PROVE FALSE
  OBVIOUS
<1>2. \A s \in SUBSET S : Cardinality(s) \in Nat
  BY FS_Subset, FS_CardinalityType
<1>3. T \in SUBSET Nat /\ T # {}
  <2>1. bad \in SUBSET (SUBSET S) /\ bad # {}
    BY <1>1
  <2> HIDE DEF bad
  <2> QED
    BY <1>2, <2>1
<1>4. PICK n \in T : \A m \in T : n <= m
  BY <1>3, Least
<1>5. PICK s \in bad : Cardinality(s) = n
  BY <1>4
<1>6. s # {}
  BY <1>5
<1>7. c[s] \in s /\ s \in SUBSET S
  BY <1>5, <1>6
<1> DEFINE x == c[s]
<1>8. s \ {x} \in SUBSET S /\ Cardinality(s \ {x}) < Cardinality(s)
      /\ Cardinality(s \ {x}) \in Nat /\ Cardinality(s) \in Nat
  <2> HIDE DEF x, bad, T
  <2>1. x \in s
    BY <1>7 DEF x
  <2> QED
    BY <1>7, <2>1, Smaller
<1>9. s \ {x} \notin bad
  <2> HIDE DEF x, bad
  <2>1. s \ {x} \in bad => n <= Cardinality(s \ {x})
    BY <1>4
  <2>2. n = Cardinality(s)
    BY <1>5
  <2> QED
    BY <1>8, <2>1, <2>2
<1> QED
  BY <1>5, <1>6, <1>7, <1>8, <1>9

\* f solves the recursion of a fold over S that starts with base, takes the
\* elements of S as c chooses them, and has values in V.
Solves(f, S, c, V, base, step) ==
  /\ f \in [SUBSET S -> V] /\ f[{}] = base
  /\ \A s \in SUBSET S : s # {} => f[s] = step[<<f[s \ {c[s]}], c[s]>>]

\* A fold has a value: the recursive function that defines it exists.
LEMMA FoldExists ==
  ASSUME NEW S, IsFiniteSet(S), NEW c, \A s \in SUBSET S : s # {} => c[s] \in s,
         NEW V, NEW base \in V, NEW step \in [V \X S -> V]
  PROVE  \E f : Solves(f, S, c, V, base, step)
<1> DEFINE Below(n) == {s \in SUBSET S : Cardinality(s) <= n}
           Until(f, n) == /\ f \in [Below(n) -> V]
                           /\ \A s \in Below(n) :
                                f[s] = IF s = {} THEN base ELSE step[<<f[s \ {c[s]}], c[s]>>]
<1>1. \A s \in SUBSET S : Cardinality(s) \in Nat /\ (Cardinality(s) = 0 <=> s = {})
  BY FS_Subset, FS_CardinalityType, FS_EmptySet
<1>2. \A s \in SUBSET S : s # {} =>
        s \ {c[s]} \in SUBSET S /\ Cardinality(s \ {c[s]}) = Cardinality(s) - 1
  BY Smaller
<1>3. \E f : Until(f, 0)
  <2>1. Until([s \in Below(0) |-> base], 0)
    BY <1>1
  <2> QED
    BY <2>1
<1>4. ASSUME NEW n \in Nat, NEW f, Until(f, n)
      PROVE  \E g : Until(g, n + 1)
  <2> DEFINE g == [s \in Below(n + 1) |->
                     IF s = {} THEN base ELSE step[<<f[s \ {c[s]}], c[s]>>]]
  <2>1. \A s \in Below(n + 1) : s # {} => s \ {c[s]} \in Below(n) /\ c[s] \in S
    <3> TAKE s \in Below(n + 1)
    <3> HAVE s # {}
    <3>1. s \in SUBSET S /\ Cardinality(s) \in Nat /\ Cardinality(s) <= n + 1
      BY <1>1
    <3> QED
      BY <1>2, <3>1
  <2>2. g \in [Below(n + 1) -> V]
    <3>1. ASSUME NEW s \in Below(n + 1)
          PROVE  (IF s = {} THEN base ELSE step[<<f[s \ {c[s]}], c[s]>>]) \in V
      <4>1. CASE s = {}
        BY <4>1
      <4>2. CASE s # {}
        <5>1. <<f[s \ {c[s]}], c[s]>> \in V \X S
          BY <1>4, <2>1, <4>2
        <5> QED
          BY <4>2, <5>1
      <4> QED
        BY <4>1, <4>2
    <3> QED
      BY <3>1
  <2>3. \A s \in Below(n) : s \in Below(n + 1) /\ g[s] = f[s]
    <3> TAKE s \in Below(n)
    <3>1. s \in Below(n + 1)
      BY <1>1
    <3> QED
      BY <1>4, <3>1
  <2>4. \A s \in Below(n + 1) :
          g[s] = IF s = {} THEN base ELSE step[<<g[s \ {c[s]}], c[s]>>]
    BY <2>1, <2>3
  <2> QED
    BY <2>2, <2>4
<1> HIDE DEF Until
<1>5. \A n \in Nat : \E f : Until(f, n)
  <2> DEFINE T == {n \in Nat : ~\E f : Until(f, n)}
  <2>1. SUFFICES ASSUME T # {} PROVE FALSE
    OBVIOUS
  <2>2. PICK n \in T : \A m \in T : n <= m
    BY <2>1, Least
  <2>3. n \in Nat /\ n # 0
    BY <1>3, <2>2
  <2>4. n - 1 \in Nat /\ n - 1 < n /\ (n - 1) + 1 = n
    BY <2>3
  <2>5. n - 1 \notin T
    BY <2>2, <2>4
  <2> QED
    BY <1>4, <2>2, <2>4, <2>5
<1>6. Below(Cardinality(S)) = SUBSET S /\ Cardinality(S) \in Nat
  <2>1. \A s \in SUBSET S : Cardinality(s) <= Cardinality(S)
    BY FS_Subset
  <2> QED
    BY <1>1, <2>1
<1>7. PICK f : Until(f, Cardinality(S))
  BY <1>5, <1>6
<1> HIDE DEF Below
<1>8. f \in [SUBSET S -> V] /\ \A s \in SUBSET S :
        f[s] = IF s = {} THEN base ELSE step[<<f[s \ {c[s]}], c[s]>>]
  BY <1>6, <1>7 DEF Until
<1> QED
  BY <1>8 DEF Solves

\* The last index is the one that FoldLeft takes first off a set of indices.
LEMMA MaxChosen ==
  ASSUME NEW n \in Nat, NEW s \in SUBSET (1..n), s # {}
  PROVE  Max(s) \in s /\ \A x \in s : Max(s) >= x
<1> DEFINE T == {m \in 0..n : \A x \in s : m >= x}
<1>1. T \in SUBSET Nat /\ n \in T
  OBVIOUS
<1>2. PICK m \in T : \A k \in T : m <= k
  BY <1>1, Least
<1>3. m \in s
  <2> SUFFICES ASSUME m \notin s PROVE FALSE
    OBVIOUS
  <2>1. \A x \in s : x \in 1..n /\ m >= x /\ m # x
    BY <1>2
  <2>2. PICK x \in s : TRUE
    OBVIOUS
  <2>3. m \in Nat /\ m <= n /\ m >= 1
    BY <1>2, <2>1, <2>2
  <2>4. \A y \in s : m - 1 >= y
    BY <2>1, <2>3
  <2>5. m - 1 \in T
    BY <2>3, <2>4
  <2> QED
    BY <1>2, <2>3, <2>5
<1>4. \A x \in s : m >= x
  BY <1>2
<1> QED
  BY <1>3, <1>4 DEF Max

\* A solution of the recursion of a fold over a sequence of length n.
Recursion(f, n, V, base, step) ==
  /\ f \in [SUBSET (1..n) -> V] /\ f[{}] = base
  /\ \A s \in SUBSET (1..n) : s # {} => f[s] = step[<<f[s \ {Max(s)}], Max(s)>>]

\* g is one as far as its values are in V.
Follows(g, n, V, base, step) ==
  /\ g[{}] = base
  /\ \A s \in SUBSET (1..n) : s # {} /\ g[s \ {Max(s)}] \in V =>
       g[s] = step[<<g[s \ {Max(s)}], Max(s)>>]

\* The values that a fold goes through to the end that g gives it.
Trace(r, g, n, V, base, step) ==
  /\ r \in [0..n -> V] /\ r[0] = base /\ r[n] = g[1..n]
  /\ \A i \in 1..n : r[i] = step[<<r[i - 1], i>>]

\* The recursion of a fold over a sequence has a solution, and every solution
\* ends where the values it goes through end.
LEMMA FoldTrace ==
  ASSUME NEW n \in Nat, NEW V, NEW base \in V, NEW step \in [V \X (1..n) -> V]
  PROVE  /\ \E f : Recursion(f, n, V, base, step)
         /\ \A g : Follows(g, n, V, base, step) =>
              \E r : Trace(r, g, n, V, base, step)
<1> DEFINE S == 1..n
           c == [s \in (SUBSET S) \ {{}} |-> Max(s)]
<1>1. IsFiniteSet(S)
  BY FS_Interval
<1>2. \A s \in SUBSET S : s # {} => c[s] = Max(s) /\ c[s] \in s
  BY MaxChosen
<1>3. \E f : Solves(f, S, c, V, base, step)
  <2>1. step \in [V \X S -> V] /\ base \in V
    OBVIOUS
  <2>2. \A s \in SUBSET S : s # {} => c[s] \in s
    BY <1>2
  <2> HIDE DEF c, S
  <2> QED
    BY <1>1, <2>1, <2>2, FoldExists
<1>4. PICK h : Solves(h, S, c, V, base, step)
  BY <1>3
<1> HIDE DEF c
<1>5. h \in [SUBSET S -> V] /\ h[{}] = base
      /\ \A s \in SUBSET S : s # {} => h[s] = step[<<h[s \ {Max(s)}], Max(s)>>]
  BY <1>2, <1>4 DEF Solves
<1>6. ASSUME NEW g, g[{}] = base,
             \A s \in SUBSET S : s # {} /\ g[s \ {Max(s)}] \in V =>
               g[s] = step[<<g[s \ {Max(s)}], Max(s)>>]
      PROVE  \E r \in [0..n -> V] :
               /\ r[0] = base /\ r[n] = g[S]
               /\ \A i \in 1..n : r[i] = step[<<r[i - 1], i>>]
  <2> DEFINE W == {w \in (SUBSET S) \X V : w[2] = g[w[1]]}
             r == [i \in 0..n |-> g[1..i]]
  <2>1. \A s \in SUBSET S : g[s] \in V
    <3> TAKE s \in SUBSET S
    <3>1. IsFiniteSet(s)
      BY <1>1, FS_Subset
    <3>2. \A t \in SUBSET s : t # {} => c[t] \in t
      BY <1>2
    <3>3. <<{}, g[{}]>> \in W
      BY <1>6
    <3>4. ASSUME NEW t \in SUBSET s, t # {}, <<t \ {c[t]}, g[t \ {c[t]}]>> \in W
          PROVE  <<t, g[t]>> \in W
      <4>1. g[t \ {c[t]}] \in V /\ c[t] = Max(t) /\ c[t] \in S
        BY <1>2, <3>4
      <4>2. g[t] = step[<<g[t \ {c[t]}], c[t]>>]
        BY <1>6, <3>4, <4>1
      <4>3. g[t] \in V
        BY <4>1, <4>2
      <4> QED
        BY <4>3
    <3> HIDE DEF W
    <3>5. <<s, g[s]>> \in W
      BY <3>1, <3>2, <3>3, <3>4, FoldStays
    <3> QED
      BY <3>5 DEF W
  <2>2. \A i \in 0..n : 1..i \in SUBSET S
    OBVIOUS
  <2>3. r \in [0..n -> V]
    BY <2>1, <2>2
  <2>4. r[0] = base /\ r[n] = g[S]
    <3>1. 1..0 = {} /\ 0 \in 0..n /\ n \in 0..n
      OBVIOUS
    <3> QED
      BY <1>6, <3>1
  <2>5. ASSUME NEW i \in 1..n PROVE r[i] = step[<<r[i - 1], i>>]
    <3>1. 1..i \in SUBSET S /\ 1..i # {} /\ i \in 0..n /\ i - 1 \in 0..n
      <4>1. i \in Nat /\ i >= 1 /\ i <= n
        OBVIOUS
      <4>2. i \in 1..i /\ 1..i \subseteq 1..n
        BY <4>1
      <4>3. i \in 0..n /\ i - 1 \in 0..n
        BY <4>1
      <4>4. 1..i # {}
        BY <4>2
      <4> QED
        BY <4>2, <4>3, <4>4
    <3>2. Max(1..i) = i
      <4>1. Max(1..i) \in 1..i /\ \A x \in 1..i : Max(1..i) >= x
        BY <3>1, MaxChosen
      <4> QED
        BY <4>1
    <3>3. (1..i) \ {i} = 1..(i - 1)
      OBVIOUS
    <3>4. g[1..i] = step[<<g[1..(i - 1)], i>>]
      BY <1>6, <2>1, <3>1, <3>2, <3>3
    <3> QED
      BY <3>1, <3>4
  <2> QED
    BY <2>3, <2>4, <2>5
<1>7. \E f : Recursion(f, n, V, base, step)
  BY <1>5 DEF Recursion
<1>8. ASSUME NEW g, Follows(g, n, V, base, step)
      PROVE  \E r : Trace(r, g, n, V, base, step)
  <2>1. g[{}] = base /\ \A s \in SUBSET S : s # {} /\ g[s \ {Max(s)}] \in V =>
               g[s] = step[<<g[s \ {Max(s)}], Max(s)>>]
    BY <1>8 DEF Follows
  <2>2. PICK r \in [0..n -> V] :
               /\ r[0] = base /\ r[n] = g[S]
               /\ \A i \in 1..n : r[i] = step[<<r[i - 1], i>>]
    BY <1>6, <2>1
  <2>3. Trace(r, g, n, V, base, step)
    BY <2>2 DEF Trace
  <2> QED
    BY <2>3
<1> QED
  BY <1>7, <1>8

\* What holds at the start of such values and is passed on holds at the end: at
\* the i-th of them W[i] is what has to hold.
LEMMA Along ==
  ASSUME NEW n \in Nat, NEW r, NEW W, r[0] \in W[0],
         \A i \in 1..n : r[i - 1] \in W[i - 1] => r[i] \in W[i]
  PROVE  r[n] \in W[n]
<1> DEFINE T == {i \in 0..n : r[i] \notin W[i]}
<1>1. SUFFICES ASSUME T # {} PROVE FALSE
  OBVIOUS
<1>2. PICK i \in T : \A m \in T : i <= m
  <2>1. T \in SUBSET Nat
    OBVIOUS
  <2> HIDE DEF T
  <2> QED
    BY <1>1, <2>1, Least
<1>3. i \in 1..n /\ i - 1 \in 0..n /\ ~(i <= i - 1)
  <2>1. i # 0
    BY <1>2
  <2> QED
    BY <1>2, <2>1
<1>4. r[i - 1] \in W[i - 1]
  BY <1>2, <1>3
<1> QED
  BY <1>2, <1>3, <1>4

EventsOn(R) ==
  [kind : Kinds, route : R, gen : Nat, title : BOOLEAN, seq : Nat,
   chunks : Seq([gen : Nat, seq : Nat])]

\* Events of more routes.
LEMMA MoreRoutes ==
  ASSUME NEW R, NEW S, R \subseteq S
  PROVE  EventsOn(R) \subseteq EventsOn(S) /\ Seq(EventsOn(R)) \subseteq Seq(EventsOn(S))
<1>1. EventsOn(R) \subseteq EventsOn(S)
  BY DEF EventsOn
<1>2. ASSUME NEW q \in Seq(EventsOn(R)) PROVE q \in Seq(EventsOn(S))
  BY <1>1
<1> QED
  BY <1>1, <1>2

\* An event that joins another leaves it on its route.
LEMMA MergedOn ==
  ASSUME NEW R, NEW S, NEW first \in EventsOn(R), NEW e \in EventsOn(S)
  PROVE  Merged(first, e) \in EventsOn(R)
<1>1. first.chunks \o e.chunks \in Seq([gen : Nat, seq : Nat])
  BY DEF EventsOn
<1>2. first.title \/ e.title \in BOOLEAN
  BY DEF EventsOn
<1> QED
  BY <1>1, <1>2 DEF Merged, EventsOn

\* The last event of a queue with another joined to it.
LEMMA MergedLastOn ==
  ASSUME NEW R, NEW q \in Seq(EventsOn(R)), NEW e \in EventsOn(R), q # <<>>
  PROVE  MergedLast(q, e) \in Seq(EventsOn(R))
<1>1. Len(q) \in 1..Len(q) /\ DOMAIN q = 1..Len(q) /\ Len(q) \in Nat
  BY EmptySeq
<1>2. Merged(q[Len(q)], e) \in EventsOn(R)
  BY <1>1, MergedOn
<1> QED
  BY <1>1, <1>2 DEF MergedLast

\* What an event is offered to keeps to the routes.
LEMMA PushBoundedOn ==
  ASSUME NEW R, NEW q \in Seq(EventsOn(R)), NEW e \in EventsOn(R), NEW n, NEW m
  PROVE  PushBounded(q, e, n, m) \in Seq(EventsOn(R))
<1> DEFINE ordinary == {i \in DOMAIN q : ~Reliable(q[i])}
           oldest   == CHOOSE i \in ordinary : \A j \in ordinary : i <= j
<1>1. CASE e.chunks # <<>> /\ ChunksOf(q) + Len(e.chunks) > m
  BY <1>1 DEF PushBounded
<1>2. CASE ~(e.chunks # <<>> /\ ChunksOf(q) + Len(e.chunks) > m) /\ Joins(q, e, MaxMerged)
  <2>1. q # <<>>
    BY <1>2 DEF Joins
  <2>2. PushBounded(q, e, n, m) = MergedLast(q, e)
    BY <1>2, Zenon DEF PushBounded
  <2> QED
    BY <2>1, <2>2, MergedLastOn
<1>3. Append(q, e) \in Seq(EventsOn(R))
  OBVIOUS
<1>4. ASSUME ordinary # {} PROVE Append(RemoveAt(q, oldest), e) \in Seq(EventsOn(R))
  <2>1. ordinary \in SUBSET Nat
    OBVIOUS
  <2>2. oldest \in ordinary
    BY <1>4, <2>1, Least
  <2>3. oldest \in 1..Len(q) /\ Len(q) \in Nat
    BY <2>2
  <2> HIDE DEF oldest
  <2>4. RemoveAt(q, oldest) \in Seq(EventsOn(R))
    BY <2>3 DEF RemoveAt
  <2> QED
    BY <2>4
<1>5. \/ PushBounded(q, e, n, m) \in {q, MergedLast(q, e), Append(q, e)}
      \/ ordinary # {} /\ PushBounded(q, e, n, m) = Append(RemoveAt(q, oldest), e)
  BY Zenon DEF PushBounded
<1> HIDE DEF ordinary, oldest
<1>6. CASE ~(e.chunks # <<>> /\ ChunksOf(q) + Len(e.chunks) > m) /\ ~Joins(q, e, MaxMerged)
  <2>1. \/ PushBounded(q, e, n, m) \in {q, Append(q, e)}
        \/ ordinary # {} /\ PushBounded(q, e, n, m) = Append(RemoveAt(q, oldest), e)
    BY <1>6, Zenon DEF PushBounded, ordinary, oldest
  <2> QED
    BY <1>3, <1>4, <2>1
<1> QED
  BY <1>1, <1>2, <1>6

\* The same without bounds.
LEMMA PushPreservingOn ==
  ASSUME NEW R, NEW q \in Seq(EventsOn(R)), NEW e \in EventsOn(R)
  PROVE  PushPreserving(q, e) \in Seq(EventsOn(R))
<1>1. CASE Joins(q, e, MaxMerged)
  <2>1. q # <<>>
    BY <1>1 DEF Joins
  <2> QED
    BY <1>1, <2>1, MergedLastOn DEF PushPreserving
<1>2. CASE ~Joins(q, e, MaxMerged)
  BY <1>2 DEF PushPreserving
<1> QED
  BY <1>1, <1>2

(* The queue while the events es are pushed onto it one by one.            *)
PushTrail(r, V, q, es) ==
  /\ r \in [0..Len(es) -> V] /\ r[0] = q /\ r[Len(es)] = Pushed(q, es)
  /\ \A i \in 1..Len(es) : r[i] = PushBounded(r[i - 1], es[i], MaxPending, MaxChunks)

\* It goes from the queue to what is pending in the end,
LEMMA PushedTrail ==
  ASSUME NEW R, NEW q \in Seq(EventsOn(R)), NEW es \in Seq(EventsOn(R))
  PROVE  \E r : PushTrail(r, Seq(EventsOn(R)), q, es)
<1> DEFINE n == Len(es)
           V == Seq(EventsOn(R))
           base == q
           Op(v, e) == PushBounded(v, e, MaxPending, MaxChunks)
           step == [p \in V \X (1..n) |-> Op(p[1], es[p[2]])]
<1>1. n \in Nat /\ DOMAIN es = 1..n /\ \A i \in 1..n : es[i] \in EventsOn(R)
  OBVIOUS
<1>2. base \in V
  OBVIOUS
<1>3. step \in [V \X (1..n) -> V]
  <2>1. ASSUME NEW v \in V, NEW i \in 1..n PROVE Op(v, es[i]) \in V
    BY <1>1, PushBoundedOn
  <2> HIDE DEF Op, V
  <2> QED
    BY <2>1
<1>4. /\ \E f : Recursion(f, n, V, base, step)
      /\ \A g : Follows(g, n, V, base, step) => \E r : Trace(r, g, n, V, base, step)
  <2> HIDE DEF n, V, step, base
  <2> QED
    BY <1>1, <1>2, <1>3, FoldTrace
<1>5. PICK f : Recursion(f, n, V, base, step)
  BY <1>4
<1>6. f = [s \in SUBSET DOMAIN es |-> IF s = {} THEN base ELSE Op(f[s \ {Max(s)}], es[Max(s)])]
  BY <1>1, <1>5, MaxChosen DEF Recursion
<1>7. PICK g : g = [s \in SUBSET DOMAIN es |-> IF s = {} THEN base ELSE Op(g[s \ {Max(s)}], es[Max(s)])]
               /\ Pushed(q, es) = g[DOMAIN es]
  BY <1>6 DEF Pushed, FoldLeft, MapThenFoldSet
<1>8. Follows(g, n, V, base, step)
  BY <1>1, <1>7, MaxChosen DEF Follows
<1>9. PICK r : Trace(r, g, n, V, base, step)
  BY <1>4, <1>8
<1>10. \A i \in 1..n : r[i] = Op(r[i - 1], es[i])
  <2> TAKE i \in 1..n
  <2>1. <<r[i - 1], i>> \in V \X (1..n)
    <3>1. i - 1 \in 0..n
      BY <1>1
    <3> QED
      BY <1>9, <3>1 DEF Trace
  <2> QED
    BY <1>9, <2>1 DEF Trace
<1>11. r \in [0..n -> V] /\ r[0] = base /\ r[n] = g[1..n]
  BY <1>9 DEF Trace
<1>12. PushTrail(r, V, q, es)
  BY <1>1, <1>7, <1>10, <1>11 DEF PushTrail
<1> QED
  BY <1>12

\* on the same routes.
LEMMA PushedOn ==
  ASSUME NEW R, NEW q \in Seq(EventsOn(R)), NEW es \in Seq(EventsOn(R))
  PROVE  Pushed(q, es) \in Seq(EventsOn(R))
<1>1. PICK r : PushTrail(r, Seq(EventsOn(R)), q, es)
  BY PushedTrail
<1>2. Len(es) \in 0..Len(es)
  OBVIOUS
<1> QED
  BY <1>1, <1>2 DEF PushTrail

(* What a queue keeps, while it is gone through.                           *)
KeepTrail(r, V, q, rs) ==
  /\ r \in [0..Len(q) -> V] /\ r[0] = <<>> /\ r[Len(q)] = Kept(q, rs)
  /\ \A i \in 1..Len(q) :
       r[i] = IF q[i].route \in rs THEN PushPreserving(r[i - 1], q[i]) ELSE r[i - 1]

\* It starts with nothing,
LEMMA KeptTrail ==
  ASSUME NEW R, NEW rs, NEW q \in Seq(EventsOn(R))
  PROVE  \E r : KeepTrail(r, Seq(EventsOn(R \cap rs)), q, rs)
<1> DEFINE n == Len(q)
           V == Seq(EventsOn(R \cap rs))
           base == <<>>
           Op(v, e) == IF e.route \in rs THEN PushPreserving(v, e) ELSE v
           step == [p \in V \X (1..n) |-> Op(p[1], q[p[2]])]
<1>1. n \in Nat /\ DOMAIN q = 1..n /\ \A i \in 1..n : q[i] \in EventsOn(R)
  OBVIOUS
<1>2. base \in V
  OBVIOUS
<1>3. step \in [V \X (1..n) -> V]
  <2>1. ASSUME NEW v \in V, NEW i \in 1..n PROVE Op(v, q[i]) \in V
    <3>1. CASE q[i].route \in rs
      <4>1. q[i] \in EventsOn(R \cap rs)
        BY <1>1, <3>1 DEF EventsOn
      <4> QED
        BY <3>1, <4>1, PushPreservingOn
    <3> QED
      BY <3>1
  <2> HIDE DEF Op, V
  <2> QED
    BY <2>1
<1>4. /\ \E f : Recursion(f, n, V, base, step)
      /\ \A g : Follows(g, n, V, base, step) => \E r : Trace(r, g, n, V, base, step)
  <2> HIDE DEF n, V, step, base
  <2> QED
    BY <1>1, <1>2, <1>3, FoldTrace
<1>5. PICK f : Recursion(f, n, V, base, step)
  BY <1>4
<1>6. f = [s \in SUBSET DOMAIN q |-> IF s = {} THEN base ELSE Op(f[s \ {Max(s)}], q[Max(s)])]
  BY <1>1, <1>5, MaxChosen DEF Recursion
<1>7. PICK g : g = [s \in SUBSET DOMAIN q |-> IF s = {} THEN base ELSE Op(g[s \ {Max(s)}], q[Max(s)])]
               /\ Kept(q, rs) = g[DOMAIN q]
  BY <1>6 DEF Kept, FoldLeft, MapThenFoldSet
<1>8. Follows(g, n, V, base, step)
  BY <1>1, <1>7, MaxChosen DEF Follows
<1>9. PICK r : Trace(r, g, n, V, base, step)
  BY <1>4, <1>8
<1>10. \A i \in 1..n : r[i] = Op(r[i - 1], q[i])
  <2> TAKE i \in 1..n
  <2>1. <<r[i - 1], i>> \in V \X (1..n)
    <3>1. i - 1 \in 0..n
      BY <1>1
    <3> QED
      BY <1>9, <3>1 DEF Trace
  <2> QED
    BY <1>9, <2>1 DEF Trace
<1>11. r \in [0..n -> V] /\ r[0] = base /\ r[n] = g[1..n]
  BY <1>9 DEF Trace
<1>12. KeepTrail(r, V, q, rs)
  BY <1>1, <1>7, <1>10, <1>11 DEF KeepTrail
<1> QED
  BY <1>12

\* and ends with events on the routes that stay.
LEMMA KeptOn ==
  ASSUME NEW R, NEW rs, NEW q \in Seq(EventsOn(R))
  PROVE  Kept(q, rs) \in Seq(EventsOn(R \cap rs))
<1>1. PICK r : KeepTrail(r, Seq(EventsOn(R \cap rs)), q, rs)
  BY KeptTrail
<1>2. Len(q) \in 0..Len(q)
  OBVIOUS
<1> QED
  BY <1>1, <1>2 DEF KeepTrail

(* What Those keeps of a sequence, element by element.                     *)
Filtering(r, E, q, S, p) ==
  /\ r \in [0..Len(q) -> Seq(E \cap S)]
  /\ r[0] = <<>> /\ r[Len(q)] = p
  /\ \A i \in 1..Len(q) :
       /\ q[i] \in S => r[i] = Append(r[i - 1], q[i])
       /\ q[i] \notin S => r[i] = r[i - 1]

\* It goes through a sequence from its first element to the last.
LEMMA ThoseTrace ==
  ASSUME NEW E, NEW S, NEW q \in Seq(E)
  PROVE  \E r : Filtering(r, E, q, S, Those(q, S))
<1> DEFINE n == Len(q)
           V == Seq(E \cap S)
           base == <<>>
           Op(v, e) == IF e \in S THEN Append(v, e) ELSE v
           step == [p \in V \X (1..n) |-> Op(p[1], q[p[2]])]
<1>1. n \in Nat /\ DOMAIN q = 1..n /\ \A i \in 1..n : q[i] \in E
  OBVIOUS
<1>2. base \in V
  OBVIOUS
<1>3. step \in [V \X (1..n) -> V]
  BY <1>1, AppendProperties
<1>4. /\ \E f : Recursion(f, n, V, base, step)
      /\ \A g : Follows(g, n, V, base, step) => \E r : Trace(r, g, n, V, base, step)
  <2> HIDE DEF n, V, step, base
  <2> QED
    BY <1>1, <1>2, <1>3, FoldTrace
<1>5. PICK f : Recursion(f, n, V, base, step)
  BY <1>4
<1>6. f = [s \in SUBSET DOMAIN q |-> IF s = {} THEN <<>> ELSE Op(f[s \ {Max(s)}], q[Max(s)])]
  BY <1>1, <1>5, MaxChosen DEF Recursion
<1>7. PICK g : g = [s \in SUBSET DOMAIN q |-> IF s = {} THEN <<>> ELSE Op(g[s \ {Max(s)}], q[Max(s)])]
               /\ Those(q, S) = g[DOMAIN q]
  BY <1>6 DEF Those, FoldLeft, MapThenFoldSet
<1>8. Follows(g, n, V, base, step)
  BY <1>1, <1>7, MaxChosen DEF Follows
<1>9. PICK r : Trace(r, g, n, V, base, step)
  BY <1>4, <1>8
<1>10. \A i \in 1..n : r[i] = Op(r[i - 1], q[i])
  <2> TAKE i \in 1..n
  <2>1. <<r[i - 1], i>> \in V \X (1..n)
    <3>1. i - 1 \in 0..n
      BY <1>1
    <3> QED
      BY <1>9, <3>1 DEF Trace
  <2> QED
    BY <1>9, <2>1 DEF Trace
<1>11. r \in [0..n -> V] /\ r[0] = <<>> /\ r[n] = g[1..n]
  BY <1>9 DEF Trace
<1>12. Filtering(r, E, q, S, Those(q, S))
  BY <1>1, <1>7, <1>10, <1>11 DEF Filtering
<1> QED
  BY <1>12

(* What Those keeps of a sequence: the elements in the set, in their order.*)
(* f counts them along the sequence.                                       *)
Counts(f, q, S, p) ==
  /\ f \in [0..Len(q) -> Nat] /\ f[0] = 0
  /\ \A i \in 1..Len(q) : f[i] = IF q[i] \in S THEN f[i - 1] + 1 ELSE f[i - 1]
  /\ Len(p) = f[Len(q)]
  /\ \A i \in 1..Len(q) : q[i] \in S => f[i] \in 1..Len(p) /\ p[f[i]] = q[i]
  /\ \A k \in 1..Len(p) : \E i \in 1..Len(q) : q[i] \in S /\ f[i] = k
  /\ \A i, j \in 0..Len(q) : i <= j => f[i] <= f[j] /\ f[j] - f[i] <= j - i

LEMMA ThoseCounted ==
  ASSUME NEW E, NEW S, NEW q \in Seq(E)
  PROVE  /\ Those(q, S) \in Seq(E \cap S)
         /\ \E f : Counts(f, q, S, Those(q, S))
<1>t. PICK r : Filtering(r, E, q, S, Those(q, S))
  BY ThoseTrace
<1> DEFINE n == Len(q)
           p == Those(q, S)
<1>1. /\ r \in [0..n -> Seq(E \cap S)] /\ r[0] = <<>> /\ r[n] = p
      /\ \A i \in 1..n :
           /\ q[i] \in S => r[i] = Append(r[i - 1], q[i])
           /\ q[i] \notin S => r[i] = r[i - 1]
  BY <1>t DEF Filtering
<1>2. n \in Nat /\ DOMAIN q = 1..n /\ \A i \in 1..n : q[i] \in E
  OBVIOUS
<1> HIDE DEF p, n
<1> DEFINE f == [i \in 0..n |-> Len(r[i])]
<1>3. /\ f \in [0..n -> Nat] /\ f[0] = 0 /\ Len(p) = f[n]
      /\ \A i \in 0..n : f[i] = Len(r[i]) /\ r[i] \in Seq(E \cap S)
  <2>1. 0 \in 0..n /\ n \in 0..n
    BY <1>2
  <2>2. \A i \in 0..n : r[i] \in Seq(E \cap S)
    BY <1>1
  <2>3. \A i \in 0..n : Len(r[i]) \in Nat
    BY <2>2, LenProperties
  <2> QED
    BY <1>1, <2>1, <2>2, <2>3
<1> HIDE DEF f
<1>4. \A i \in 1..n :
        /\ i - 1 \in 0..n /\ i \in 0..n
        /\ q[i] \in S => f[i] = f[i - 1] + 1 /\ r[i] = Append(r[i - 1], q[i])
        /\ q[i] \notin S => f[i] = f[i - 1] /\ r[i] = r[i - 1]
  <2> TAKE i \in 1..n
  <2>1. i - 1 \in 0..n /\ i \in 0..n
    BY <1>2
  <2>2. CASE q[i] \in S
    <3>1. r[i] = Append(r[i - 1], q[i]) /\ r[i - 1] \in Seq(E \cap S)
      BY <1>1, <1>3, <2>1, <2>2
    <3> QED
      BY <1>3, <2>1, <2>2, <3>1
  <2>3. CASE q[i] \notin S
    BY <1>1, <1>3, <2>1, <2>3
  <2> QED
    BY <2>1, <2>2, <2>3
<1>5. \A j \in 0..n : \A i \in 0..j :
        /\ f[i] <= f[j] /\ f[j] - f[i] <= j - i
        /\ \A k \in 1..f[i] : r[j][k] = r[i][k]
  <2> DEFINE P(j) == \A i \in 0..j : /\ f[i] <= f[j] /\ f[j] - f[i] <= j - i
                                     /\ \A k \in 1..f[i] : r[j][k] = r[i][k]
             T == {j \in 0..n : ~P(j)}
  <2>1. SUFFICES ASSUME T # {} PROVE FALSE
    OBVIOUS
  <2>2. PICK j \in T : \A m \in T : j <= m
    <3>1. T \in SUBSET Nat
      BY <1>2
    <3> HIDE DEF T
    <3> QED
      BY <2>1, <3>1, Least
  <2>3. j \in 0..n /\ ~P(j)
    BY <2>2
  <2>4. j # 0
    <3>1. P(0)
      BY <1>3
    <3> QED
      BY <2>3, <3>1
  <2>5. j \in 1..n /\ j - 1 \in 0..n /\ P(j - 1)
    <3>1. j \in 1..n /\ j - 1 \in 0..n /\ ~(j <= j - 1)
      BY <1>2, <2>3, <2>4
    <3> HIDE DEF P
    <3> QED
      BY <2>2, <3>1
  <2>6. P(j)
    <3> TAKE i \in 0..j
    <3> HIDE DEF P, T
    <3>0. /\ j \in Nat /\ j <= n /\ j >= 1 /\ j \in 0..n /\ j - 1 \in 0..n /\ i \in Nat /\ i <= j
          /\ i \in 0..n /\ f[i] \in Nat /\ f[j] \in Nat /\ f[j - 1] \in Nat
      <4>1. /\ j \in Nat /\ j <= n /\ j >= 1 /\ j \in 0..n /\ j - 1 \in 0..n /\ i \in Nat /\ i <= j
            /\ i \in 0..n
        BY <1>2, <2>5
      <4> QED
        BY <1>3, <4>1
    <3>1. CASE i = j
      BY <3>0, <3>1
    <3>2. CASE i # j
      <4>1. i \in 0..(j - 1)
        BY <3>0, <3>2
      <4>2. /\ f[i] <= f[j - 1] /\ f[j - 1] - f[i] <= j - 1 - i
            /\ \A k \in 1..f[i] : r[j - 1][k] = r[i][k]
        BY <2>5, <4>1 DEF P
      <4>3. f[j - 1] <= f[j] /\ f[j] <= f[j - 1] + 1
        BY <1>4, <2>5, <3>0
      <4>4. \A k \in 1..f[j - 1] : r[j][k] = r[j - 1][k]
        <5>1. CASE q[j] \in S
          <6>1. r[j] = Append(r[j - 1], q[j]) /\ r[j - 1] \in Seq(E \cap S) /\ Len(r[j - 1]) = f[j - 1]
            BY <1>3, <1>4, <2>5, <5>1
          <6> QED
            BY <6>1
        <5>2. CASE q[j] \notin S
          BY <1>4, <2>5, <5>2
        <5> QED
          BY <5>1, <5>2
      <4>5. f[i] <= f[j] /\ f[j] - f[i] <= j - i
        BY <3>0, <4>2, <4>3
      <4>6. \A k \in 1..f[i] : r[j][k] = r[i][k]
        BY <3>0, <4>2, <4>3, <4>4
      <4> QED
        BY <4>5, <4>6
    <3> QED
      BY <3>1, <3>2
  <2> QED
    BY <2>3, <2>6
<1>6. ASSUME NEW i \in 1..n, q[i] \in S
      PROVE  f[i] \in 1..Len(p) /\ p[f[i]] = q[i]
  <2>1. f[i] = f[i - 1] + 1 /\ r[i] = Append(r[i - 1], q[i]) /\ i - 1 \in 0..n /\ i \in 0..n /\ n \in 0..n
    BY <1>2, <1>4, <1>6
  <2>2. r[i - 1] \in Seq(E \cap S) /\ Len(r[i - 1]) = f[i - 1] /\ f[i - 1] \in Nat /\ f[i] \in Nat /\ f[n] \in Nat
    BY <1>3, <2>1
  <2>3. r[i][f[i]] = q[i]
    BY <2>1, <2>2
  <2>4. i \in 0..n /\ f[i] <= f[n] /\ \A k \in 1..f[i] : r[n][k] = r[i][k]
    BY <1>5, <2>1
  <2>5. f[i] \in 1..f[i]
    BY <2>1, <2>2
  <2> QED
    BY <1>1, <1>3, <2>1, <2>2, <2>3, <2>4, <2>5
<1>7. ASSUME NEW k \in 1..Len(p)
      PROVE  \E i \in 1..n : q[i] \in S /\ f[i] = k
  <2> DEFINE T == {i \in 0..n : k <= f[i]}
  <2>1. T \in SUBSET Nat /\ n \in T
    BY <1>2, <1>3
  <2>2. PICK i \in T : \A m \in T : i <= m
    <3> HIDE DEF T
    <3> QED
      BY <2>1, Least
  <2>3. i \in 0..n /\ k <= f[i] /\ k \in Nat /\ k >= 1
    BY <1>2, <1>3, <2>2
  <2>4. i \in 1..n /\ i - 1 \in 0..n
    BY <1>2, <1>3, <2>3
  <2>5. ~(k <= f[i - 1])
    BY <2>2, <2>4
  <2>6. f[i] \in Nat /\ f[i - 1] \in Nat
    BY <1>3, <2>4
  <2> QED
    BY <1>4, <2>3, <2>4, <2>5, <2>6
<1>8. p \in Seq(E \cap S)
  BY <1>1, <1>2
<1>9. Counts(f, q, S, p)
  <2>1. \A i, j \in 0..n : i <= j => f[i] <= f[j] /\ f[j] - f[i] <= j - i
    <3> TAKE i, j \in 0..n
    <3> HAVE i <= j
    <3>1. i \in 0..j
      BY <1>2
    <3> QED
      BY <1>5, <3>1
  <2> QED
    BY <1>3, <1>4, <1>6, <1>7, <2>1 DEF Counts, n
<1> QED
  BY <1>8, <1>9 DEF p

\* What it keeps, as a set, and of a sequence without repetitions.
LEMMA ThoseKept ==
  ASSUME NEW E, NEW S, NEW q \in Seq(E)
  PROVE  /\ Those(q, S) \in Seq(E \cap S) /\ Those(q, S) \in Seq(E)
         /\ ToSet(Those(q, S)) = ToSet(q) \cap S
         /\ IsInjective(q) => IsInjective(Those(q, S))
<1> DEFINE p == Those(q, S)
<1>1. p \in Seq(E \cap S)
  BY ThoseCounted
<1>2. PICK f : Counts(f, q, S, p)
  BY ThoseCounted
<1> HIDE DEF p
<1>3. p \in Seq(E) /\ DOMAIN p = 1..Len(p) /\ DOMAIN q = 1..Len(q) /\ \A k \in 1..Len(p) : p[k] \in S
  BY <1>1
<1>4. \A k \in 1..Len(p) : \E i \in 1..Len(q) : q[i] \in S /\ f[i] = k /\ p[k] = q[i]
  <2>1. \A k \in 1..Len(p) : \E i \in 1..Len(q) : q[i] \in S /\ f[i] = k
    BY <1>2 DEF Counts
  <2>2. \A i \in 1..Len(q) : q[i] \in S => p[f[i]] = q[i]
    BY <1>2 DEF Counts
  <2> QED
    BY <2>1, <2>2
<1>5. \A i \in 1..Len(q) : q[i] \in S => f[i] \in 1..Len(p) /\ p[f[i]] = q[i]
  BY <1>2 DEF Counts
<1>6. ToSet(p) = ToSet(q) \cap S
  BY <1>3, <1>4, <1>5 DEF ToSet
<1>7. ASSUME IsInjective(q), NEW k \in 1..Len(p), NEW m \in 1..Len(p), p[k] = p[m]
      PROVE  k = m
  <2>1. PICK i \in 1..Len(q) : q[i] \in S /\ f[i] = k /\ p[k] = q[i]
    BY <1>4
  <2>2. PICK j \in 1..Len(q) : q[j] \in S /\ f[j] = m /\ p[m] = q[j]
    BY <1>4
  <2>3. i = j
    BY <1>3, <1>7, <2>1, <2>2 DEF IsInjective
  <2> QED
    BY <2>1, <2>2, <2>3
<1>8. IsInjective(q) => IsInjective(p)
  BY <1>3, <1>7 DEF IsInjective
<1> QED
  BY <1>1, <1>3, <1>6, <1>8 DEF p

\* Some of the elements of a sequence.
LEMMA ThoseIn ==
  ASSUME NEW E, NEW es, NEW q \in Seq(E)
  PROVE  Those(q, es) \in Seq(E)
BY ThoseKept

(* An event that others join one after the other.                          *)
MergeTrail(r, V, first, es) ==
  /\ r \in [0..Len(es) -> V] /\ r[0] = first /\ r[Len(es)] = FoldLeft(Merged, first, es)
  /\ \A i \in 1..Len(es) : r[i] = Merged(r[i - 1], es[i])

\* It becomes their whole,
LEMMA MergedTrail ==
  ASSUME NEW R, NEW first \in EventsOn(R), NEW es \in Seq(EventsOn(R))
  PROVE  \E r : MergeTrail(r, EventsOn(R), first, es)
<1> DEFINE n == Len(es)
           V == EventsOn(R)
           base == first
           Op(v, e) == Merged(v, e)
           step == [p \in V \X (1..n) |-> Op(p[1], es[p[2]])]
<1>1. n \in Nat /\ DOMAIN es = 1..n /\ \A i \in 1..n : es[i] \in EventsOn(R)
  OBVIOUS
<1>2. base \in V
  OBVIOUS
<1>3. step \in [V \X (1..n) -> V]
  <2>1. ASSUME NEW v \in V, NEW i \in 1..n PROVE Op(v, es[i]) \in V
    BY <1>1, MergedOn
  <2> HIDE DEF Op, V
  <2> QED
    BY <2>1
<1>4. /\ \E f : Recursion(f, n, V, base, step)
      /\ \A g : Follows(g, n, V, base, step) => \E r : Trace(r, g, n, V, base, step)
  <2> HIDE DEF n, V, step, base
  <2> QED
    BY <1>1, <1>2, <1>3, FoldTrace
<1>5. PICK f : Recursion(f, n, V, base, step)
  BY <1>4
<1>6. f = [s \in SUBSET DOMAIN es |-> IF s = {} THEN base ELSE Op(f[s \ {Max(s)}], es[Max(s)])]
  BY <1>1, <1>5, MaxChosen DEF Recursion
<1>7. PICK g : g = [s \in SUBSET DOMAIN es |-> IF s = {} THEN base ELSE Op(g[s \ {Max(s)}], es[Max(s)])]
               /\ FoldLeft(Merged, first, es) = g[DOMAIN es]
  BY <1>6 DEF FoldLeft, MapThenFoldSet
<1>8. Follows(g, n, V, base, step)
  BY <1>1, <1>7, MaxChosen DEF Follows
<1>9. PICK r : Trace(r, g, n, V, base, step)
  BY <1>4, <1>8
<1>10. \A i \in 1..n : r[i] = Op(r[i - 1], es[i])
  <2> TAKE i \in 1..n
  <2>1. <<r[i - 1], i>> \in V \X (1..n)
    <3>1. i - 1 \in 0..n
      BY <1>1
    <3> QED
      BY <1>9, <3>1 DEF Trace
  <2> QED
    BY <1>9, <2>1 DEF Trace
<1>11. r \in [0..n -> V] /\ r[0] = base /\ r[n] = g[1..n]
  BY <1>9 DEF Trace
<1>12. MergeTrail(r, V, first, es)
  BY <1>1, <1>7, <1>10, <1>11 DEF MergeTrail
<1> QED
  BY <1>12

\* on the same routes.
LEMMA JoinedOn ==
  ASSUME NEW R, NEW first \in EventsOn(R), NEW es \in Seq(EventsOn(R))
  PROVE  FoldLeft(Merged, first, es) \in EventsOn(R)
<1>1. PICK r : MergeTrail(r, EventsOn(R), first, es)
  BY MergedTrail
<1>2. Len(es) \in 0..Len(es)
  OBVIOUS
<1> QED
  BY <1>1, <1>2 DEF MergeTrail

\* The output that a close must not overtake, as one event.
LEMMA TogetherOn ==
  ASSUME NEW R, NEW es \in Seq(EventsOn(R)), es # <<>>
  PROVE  Together(es) \in EventsOn(R)
<1>1. Head(es) \in EventsOn(R) /\ Tail(es) \in Seq(EventsOn(R))
  OBVIOUS
<1> QED
  BY <1>1, JoinedOn DEF Together

\* Output joins an earlier one, or comes last,
LEMMA JoinOutputOn ==
  ASSUME NEW R, NEW es \in Seq(EventsOn(R)), NEW e \in EventsOn(R)
  PROVE  JoinOutput(es, e) \in Seq(EventsOn(R))
<1> DEFINE barrier == {i \in DOMAIN es : es[i].kind # "Output"}
           same == {i \in DOMAIN es : /\ es[i].kind = "Output" /\ es[i].route = e.route
                                      /\ \A b \in barrier : b < i}
           k == CHOOSE i \in same : TRUE
<1>1. JoinOutput(es, e) = IF e.kind = "Output" /\ same # {}
                          THEN [es EXCEPT ![k] = Merged(@, e)] ELSE Append(es, e)
  BY DEF JoinOutput
<1>2. same # {} => k \in DOMAIN es
  OBVIOUS
<1> HIDE DEF same, k
<1>3. CASE e.kind = "Output" /\ same # {}
  <2>1. k \in DOMAIN es /\ es[k] \in EventsOn(R)
    BY <1>2, <1>3
  <2>2. Merged(es[k], e) \in EventsOn(R)
    BY <2>1, MergedOn
  <2> QED
    BY <1>1, <1>3, <2>1, <2>2
<1>4. CASE ~(e.kind = "Output" /\ same # {})
  BY <1>1, <1>4
<1> QED
  BY <1>3, <1>4

\* and an event is put in its place.
LEMMA InsertedOn ==
  ASSUME NEW R, NEW es \in Seq(EventsOn(R)), NEW e \in EventsOn(R)
  PROVE  Inserted(es, e) \in Seq(EventsOn(R))
<1> DEFINE before == {i \in DOMAIN es : es[i].seq <= e.seq}
           k == Cardinality(before) + 1
<1>1. DOMAIN es = 1..Len(es) /\ Len(es) \in Nat
  OBVIOUS
<1>2. IsFiniteSet(1..Len(es)) /\ Cardinality(1..Len(es)) = Len(es)
  BY <1>1, FS_Interval
<1>3. Cardinality(before) \in Nat /\ Cardinality(before) <= Len(es)
  BY <1>1, <1>2, FS_Subset, FS_CardinalityType
<1>4. Inserted(es, e) = SubSeq(es, 1, k - 1) \o <<e>> \o SubSeq(es, k, Len(es))
  BY DEF Inserted, InsertAt
<1>5. k \in 1..(Len(es) + 1)
  BY <1>1, <1>3
<1> HIDE DEF k, before
<1>6. SubSeq(es, 1, k - 1) \in Seq(EventsOn(R)) /\ SubSeq(es, k, Len(es)) \in Seq(EventsOn(R))
      /\ <<e>> \in Seq(EventsOn(R))
  BY <1>1, <1>5
<1> QED
  BY <1>4, <1>6

(* The first pass of coalesce_backend_events,                              *)
JoinTrail(r, V, es) ==
  /\ r \in [0..Len(es) -> V] /\ r[0] = <<>> /\ r[Len(es)] = FoldLeft(JoinOutput, <<>>, es)
  /\ \A i \in 1..Len(es) : r[i] = JoinOutput(r[i - 1], es[i])

\* event by event,
LEMMA OutputTrail ==
  ASSUME NEW R, NEW es \in Seq(EventsOn(R))
  PROVE  \E r : JoinTrail(r, Seq(EventsOn(R)), es)
<1> DEFINE n == Len(es)
           V == Seq(EventsOn(R))
           base == <<>>
           Op(v, e) == JoinOutput(v, e)
           step == [p \in V \X (1..n) |-> Op(p[1], es[p[2]])]
<1>1. n \in Nat /\ DOMAIN es = 1..n /\ \A i \in 1..n : es[i] \in EventsOn(R)
  OBVIOUS
<1>2. base \in V
  OBVIOUS
<1>3. step \in [V \X (1..n) -> V]
  <2>1. ASSUME NEW v \in V, NEW i \in 1..n PROVE Op(v, es[i]) \in V
    BY <1>1, JoinOutputOn
  <2> HIDE DEF Op, V
  <2> QED
    BY <2>1
<1>4. /\ \E f : Recursion(f, n, V, base, step)
      /\ \A g : Follows(g, n, V, base, step) => \E r : Trace(r, g, n, V, base, step)
  <2> HIDE DEF n, V, step, base
  <2> QED
    BY <1>1, <1>2, <1>3, FoldTrace
<1>5. PICK f : Recursion(f, n, V, base, step)
  BY <1>4
<1>6. f = [s \in SUBSET DOMAIN es |-> IF s = {} THEN base ELSE Op(f[s \ {Max(s)}], es[Max(s)])]
  BY <1>1, <1>5, MaxChosen DEF Recursion
<1>7. PICK g : g = [s \in SUBSET DOMAIN es |-> IF s = {} THEN base ELSE Op(g[s \ {Max(s)}], es[Max(s)])]
               /\ FoldLeft(JoinOutput, <<>>, es) = g[DOMAIN es]
  BY <1>6 DEF FoldLeft, MapThenFoldSet
<1>8. Follows(g, n, V, base, step)
  BY <1>1, <1>7, MaxChosen DEF Follows
<1>9. PICK r : Trace(r, g, n, V, base, step)
  BY <1>4, <1>8
<1>10. \A i \in 1..n : r[i] = Op(r[i - 1], es[i])
  <2> TAKE i \in 1..n
  <2>1. <<r[i - 1], i>> \in V \X (1..n)
    <3>1. i - 1 \in 0..n
      BY <1>1
    <3> QED
      BY <1>9, <3>1 DEF Trace
  <2> QED
    BY <1>9, <2>1 DEF Trace
<1>11. r \in [0..n -> V] /\ r[0] = base /\ r[n] = g[1..n]
  BY <1>9 DEF Trace
<1>12. JoinTrail(r, V, es)
  BY <1>1, <1>7, <1>10, <1>11 DEF JoinTrail
<1> QED
  BY <1>12

\* and as a whole.
LEMMA OutputJoinedOn ==
  ASSUME NEW R, NEW es \in Seq(EventsOn(R))
  PROVE  FoldLeft(JoinOutput, <<>>, es) \in Seq(EventsOn(R))
<1>1. PICK r : JoinTrail(r, Seq(EventsOn(R)), es)
  BY OutputTrail
<1>2. Len(es) \in 0..Len(es)
  OBVIOUS
<1> QED
  BY <1>1, <1>2 DEF JoinTrail

(* The second pass,                                                        *)
SortTrail(r, V, es) ==
  /\ r \in [0..Len(es) -> V] /\ r[0] = <<>> /\ r[Len(es)] = FoldLeft(Inserted, <<>>, es)
  /\ \A i \in 1..Len(es) : r[i] = Inserted(r[i - 1], es[i])

\* event by event,
LEMMA SortedTrail ==
  ASSUME NEW R, NEW es \in Seq(EventsOn(R))
  PROVE  \E r : SortTrail(r, Seq(EventsOn(R)), es)
<1> DEFINE n == Len(es)
           V == Seq(EventsOn(R))
           base == <<>>
           Op(v, e) == Inserted(v, e)
           step == [p \in V \X (1..n) |-> Op(p[1], es[p[2]])]
<1>1. n \in Nat /\ DOMAIN es = 1..n /\ \A i \in 1..n : es[i] \in EventsOn(R)
  OBVIOUS
<1>2. base \in V
  OBVIOUS
<1>3. step \in [V \X (1..n) -> V]
  <2>1. ASSUME NEW v \in V, NEW i \in 1..n PROVE Op(v, es[i]) \in V
    BY <1>1, InsertedOn
  <2> HIDE DEF Op, V
  <2> QED
    BY <2>1
<1>4. /\ \E f : Recursion(f, n, V, base, step)
      /\ \A g : Follows(g, n, V, base, step) => \E r : Trace(r, g, n, V, base, step)
  <2> HIDE DEF n, V, step, base
  <2> QED
    BY <1>1, <1>2, <1>3, FoldTrace
<1>5. PICK f : Recursion(f, n, V, base, step)
  BY <1>4
<1>6. f = [s \in SUBSET DOMAIN es |-> IF s = {} THEN base ELSE Op(f[s \ {Max(s)}], es[Max(s)])]
  BY <1>1, <1>5, MaxChosen DEF Recursion
<1>7. PICK g : g = [s \in SUBSET DOMAIN es |-> IF s = {} THEN base ELSE Op(g[s \ {Max(s)}], es[Max(s)])]
               /\ FoldLeft(Inserted, <<>>, es) = g[DOMAIN es]
  BY <1>6 DEF FoldLeft, MapThenFoldSet
<1>8. Follows(g, n, V, base, step)
  BY <1>1, <1>7, MaxChosen DEF Follows
<1>9. PICK r : Trace(r, g, n, V, base, step)
  BY <1>4, <1>8
<1>10. \A i \in 1..n : r[i] = Op(r[i - 1], es[i])
  <2> TAKE i \in 1..n
  <2>1. <<r[i - 1], i>> \in V \X (1..n)
    <3>1. i - 1 \in 0..n
      BY <1>1
    <3> QED
      BY <1>9, <3>1 DEF Trace
  <2> QED
    BY <1>9, <2>1 DEF Trace
<1>11. r \in [0..n -> V] /\ r[0] = base /\ r[n] = g[1..n]
  BY <1>9 DEF Trace
<1>12. SortTrail(r, V, es)
  BY <1>1, <1>7, <1>10, <1>11 DEF SortTrail
<1> QED
  BY <1>12

\* and as a whole.
LEMMA SortedOn ==
  ASSUME NEW R, NEW es \in Seq(EventsOn(R))
  PROVE  FoldLeft(Inserted, <<>>, es) \in Seq(EventsOn(R))
<1>1. PICK r : SortTrail(r, Seq(EventsOn(R)), es)
  BY SortedTrail
<1>2. Len(es) \in 0..Len(es)
  OBVIOUS
<1> QED
  BY <1>1, <1>2 DEF SortTrail

\* A batch is of the routes of the events it was made of.
LEMMA CoalescedOn ==
  ASSUME NEW R, NEW es \in Seq(EventsOn(R))
  PROVE  CoalesceEvents(es) \in Seq(EventsOn(R))
BY OutputJoinedOn, SortedOn DEF CoalesceEvents

-----------------------------------------------------------------------------
(* The store.                                                              *)

OwnedBy(st, w) == {t \in Terminals : st.routes[t] = w}

StoreTyped(st) ==
  st \in [routes     : [Routes -> Owners \cup {Nobody}],
          pending    : [Owners -> Seq(EventsOn(Terminals))],
          unrouted   : [Routes -> Seq(EventsOn(Terminals))],
          seen       : Seq(Routes),
          tombstones : Seq(Routes)]

\* What waits for a route waits at its owner.
WellRouted(st) ==
  /\ StoreTyped(st)
  /\ \A w \in Owners : st.pending[w] \in Seq(EventsOn(OwnedBy(st, w)))
  /\ \A r \in Routes : st.unrouted[r] \in Seq(EventsOn({r} \cap Terminals))

\* Forgetting unrouted events.
LEMMA ForgetKeeps ==
  ASSUME NEW st, WellRouted(st), NEW gone
  PROVE  /\ WellRouted(ForgetUnrouted(st, gone))
         /\ ForgetUnrouted(st, gone).routes = st.routes
<1> DEFINE fg == ForgetUnrouted(st, gone)
           un == [r \in Routes |-> IF r \in gone THEN <<>> ELSE st.unrouted[r]]
           sn == Those(st.seen, Routes \ gone)
<1>1. fg = [st EXCEPT !.unrouted = un, !.seen = sn]
  BY DEF ForgetUnrouted
<1>2. sn \in Seq(Routes)
  BY ThoseIn DEF WellRouted, StoreTyped
<1>3. \A r \in Routes : un[r] \in Seq(EventsOn({r} \cap Terminals))
  BY DEF WellRouted
<1>4. un \in [Routes -> Seq(EventsOn(Terminals))]
  <2>1. \A r \in Routes : un[r] \in Seq(EventsOn(Terminals))
    BY DEF WellRouted, StoreTyped
  <2> QED
    BY <2>1
<1> HIDE DEF fg, un, sn
<1>5. /\ StoreTyped(fg) /\ fg.routes = st.routes /\ fg.pending = st.pending
      /\ fg.unrouted = un
  BY <1>1, <1>2, <1>4 DEF WellRouted, StoreTyped
<1>6. \A w \in Owners : OwnedBy(fg, w) = OwnedBy(st, w)
  BY <1>5 DEF OwnedBy
<1>7. WellRouted(fg)
  BY <1>3, <1>5, <1>6 DEF WellRouted
<1> QED
  BY <1>5, <1>7 DEF fg

\* Registering a route that no other window owns.
LEMMA RegisterKeeps ==
  ASSUME NEW st, WellRouted(st), NEW r \in Terminals, NEW w \in Owners,
         st.routes[r] \in {w, Nobody}
  PROVE  /\ WellRouted(RegisterRoute(st, r, w))
         /\ RegisterRoute(st, r, w).routes = [st.routes EXCEPT ![r] = w]
<1> DEFINE rs == [st.routes EXCEPT ![r] = w]
           ts == Those(st.tombstones, Routes \ {r})
           pu == Pushed(st.pending[w], st.unrouted[r])
           pd == [st.pending EXCEPT ![w] = pu]
           rg == [st EXCEPT !.tombstones = ts, !.routes = rs, !.pending = pd]
<1>1. RegisterRoute(st, r, w) = ForgetUnrouted(rg, {r})
  BY DEF RegisterRoute, WellRouted, StoreTyped
<1>2. r \in Routes /\ Nobody \notin Owners
  BY EventsAssumption, StoreAssumption
<1>3. ts \in Seq(Routes)
  BY ThoseIn DEF WellRouted, StoreTyped
<1>4. rs \in [Routes -> Owners \cup {Nobody}] /\ rs[r] = w
      /\ \A s \in Routes : s # r => rs[s] = st.routes[s]
  BY <1>2 DEF WellRouted, StoreTyped
<1> HIDE DEF ts, rs
<1>5. /\ OwnedBy([routes |-> rs], w) = OwnedBy(st, w) \cup {r}
      /\ \A v \in Owners : v # w => OwnedBy([routes |-> rs], v) = OwnedBy(st, v)
  BY <1>2, <1>4, EventsAssumption, StoreAssumption DEF OwnedBy
<1>6. pu \in Seq(EventsOn(OwnedBy([routes |-> rs], w)))
  <2>1. OwnedBy(st, w) \subseteq OwnedBy([routes |-> rs], w)
        /\ {r} \cap Terminals \subseteq OwnedBy([routes |-> rs], w)
    BY <1>5
  <2>2. st.pending[w] \in Seq(EventsOn(OwnedBy([routes |-> rs], w)))
    BY <2>1, MoreRoutes DEF WellRouted
  <2>3. st.unrouted[r] \in Seq(EventsOn(OwnedBy([routes |-> rs], w)))
    <3>1. st.unrouted[r] \in Seq(EventsOn({r} \cap Terminals))
      BY <1>2 DEF WellRouted
    <3> QED
      BY <2>1, <3>1, MoreRoutes
  <2> QED
    BY <2>2, <2>3, PushedOn
<1>7. pu \in Seq(EventsOn(Terminals))
  <2>1. OwnedBy([routes |-> rs], w) \subseteq Terminals
    BY DEF OwnedBy
  <2> QED
    BY <1>6, <2>1, MoreRoutes
<1> HIDE DEF pu
<1>8. pd \in [Owners -> Seq(EventsOn(Terminals))] /\ pd[w] = pu
      /\ \A v \in Owners : v # w => pd[v] = st.pending[v]
  BY <1>7 DEF WellRouted, StoreTyped
<1> HIDE DEF pd
<1>9. /\ StoreTyped(rg) /\ rg.routes = rs /\ rg.pending = pd /\ rg.unrouted = st.unrouted
  BY <1>3, <1>4, <1>8 DEF WellRouted, StoreTyped
<1> HIDE DEF rg
<1>10. \A v \in Owners : OwnedBy(rg, v) = OwnedBy([routes |-> rs], v)
  BY <1>9 DEF OwnedBy
<1>11. ASSUME NEW v \in Owners PROVE rg.pending[v] \in Seq(EventsOn(OwnedBy(rg, v)))
  <2>1. CASE v = w
    BY <1>6, <1>8, <1>9, <1>10, <2>1
  <2>2. CASE v # w
    BY <1>5, <1>8, <1>9, <1>10, <2>2 DEF WellRouted
  <2> QED
    BY <2>1, <2>2
<1>12. WellRouted(rg)
  BY <1>9, <1>11 DEF WellRouted
<1> QED
  BY <1>1, <1>9, <1>12, ForgetKeeps DEF rs

\* The tombstones of the routes removed last.
LEMMA TrimmedIn ==
  ASSUME NEW q \in Seq(Routes)
  PROVE  TrimTombstones(q) \in Seq(Routes)
<1> DEFINE k == IF Len(q) > MaxTombstones THEN Len(q) - MaxTombstones ELSE 0
<1>1. k \in Nat
  BY StoreAssumption
<1>2. TrimTombstones(q) = SubSeq(q, 1 + k, Len(q))
  BY DEF TrimTombstones
<1> HIDE DEF k
<1> QED
  BY <1>1, <1>2

\* Removing a route.
LEMMA UnregisterKeeps ==
  ASSUME NEW st, WellRouted(st), NEW r \in Terminals, NEW w \in Owners
  PROVE  /\ WellRouted(UnregisterRoute(st, r, w))
         /\ UnregisterRoute(st, r, w).routes =
              IF st.routes[r] = w THEN [st.routes EXCEPT ![r] = Nobody] ELSE st.routes
<1>1. CASE st.routes[r] # w
  BY <1>1 DEF UnregisterRoute
<1>2. CASE st.routes[r] = w
  <2> DEFINE rs == [st.routes EXCEPT ![r] = Nobody]
             ts == TrimTombstones(Append(Those(st.tombstones, Routes \ {r}), r))
             pd == [o \in Owners |-> Kept(st.pending[o], Routes \ {r})]
             un == [st EXCEPT !.routes = rs, !.tombstones = ts, !.pending = pd]
  <2>1. UnregisterRoute(st, r, w) = ForgetUnrouted(un, {r})
    BY <1>2 DEF UnregisterRoute, WellRouted, StoreTyped
  <2>2. r \in Routes /\ Nobody \notin Owners /\ Terminals \subseteq Routes
    BY EventsAssumption, StoreAssumption
  <2>3. ts \in Seq(Routes)
    <3>1. Those(st.tombstones, Routes \ {r}) \in Seq(Routes)
      BY ThoseIn DEF WellRouted, StoreTyped
    <3>2. Append(Those(st.tombstones, Routes \ {r}), r) \in Seq(Routes)
      BY <2>2, <3>1
    <3> QED
      BY <3>2, TrimmedIn
  <2>4. rs \in [Routes -> Owners \cup {Nobody}] /\ rs[r] = Nobody
        /\ \A s \in Routes : s # r => rs[s] = st.routes[s]
    BY <2>2 DEF WellRouted, StoreTyped
  <2> HIDE DEF ts, rs
  <2>5. ASSUME NEW o \in Owners
        PROVE  Kept(st.pending[o], Routes \ {r}) \in Seq(EventsOn(OwnedBy([routes |-> rs], o)))
    <3>1. OwnedBy([routes |-> rs], o) = OwnedBy(st, o) \cap (Routes \ {r})
      BY <2>2, <2>4 DEF OwnedBy
    <3> QED
      BY <3>1, KeptOn DEF WellRouted
  <2>6. pd \in [Owners -> Seq(EventsOn(Terminals))]
    <3>1. ASSUME NEW o \in Owners
          PROVE  Kept(st.pending[o], Routes \ {r}) \in Seq(EventsOn(Terminals))
      <4>1. OwnedBy([routes |-> rs], o) \subseteq Terminals
        BY DEF OwnedBy
      <4>2. Seq(EventsOn(OwnedBy([routes |-> rs], o))) \subseteq Seq(EventsOn(Terminals))
        BY <4>1, MoreRoutes
      <4> QED
        BY <2>5, <4>2
    <3> QED
      BY <3>1
  <2>7. \A o \in Owners : pd[o] \in Seq(EventsOn(OwnedBy([routes |-> rs], o)))
    BY <2>5
  <2> HIDE DEF pd
  <2>8. StoreTyped(un) /\ un.routes = rs /\ un.pending = pd /\ un.unrouted = st.unrouted
    BY <2>3, <2>4, <2>6 DEF WellRouted, StoreTyped
  <2> HIDE DEF un
  <2>9. \A o \in Owners : OwnedBy(un, o) = OwnedBy([routes |-> rs], o)
    BY <2>8 DEF OwnedBy
  <2>10. WellRouted(un)
    BY <2>7, <2>8, <2>9 DEF WellRouted
  <2> QED
    BY <1>2, <2>1, <2>8, <2>10, ForgetKeeps DEF rs
<1> QED
  BY <1>1, <1>2

\* Handing routes over to another window.
LEMMA MoveKeeps ==
  ASSUME NEW st, WellRouted(st), NEW rs \in SUBSET Terminals, NEW v \in Owners,
         NEW w \in Owners, v # w, CanMoveRoutes(st, rs, v)
  PROVE  /\ WellRouted(MoveRoutes(st, rs, v, w))
         /\ MoveRoutes(st, rs, v, w).routes =
              [r \in Routes |-> IF r \in rs THEN w ELSE st.routes[r]]
<1> DEFINE ro == [r \in Routes |-> IF r \in rs THEN w ELSE st.routes[r]]
           stays == Kept(st.pending[v], Routes \ rs)
           moved == Kept(st.pending[v], rs)
           left == [st.pending EXCEPT ![v] = stays]
           pu == Pushed(left[w], moved)
           pd == [left EXCEPT ![w] = pu]
           mv == [st EXCEPT !.routes = ro, !.pending = pd]
<1>1. MoveRoutes(st, rs, v, w) = mv
  BY DEF MoveRoutes, WellRouted, StoreTyped
<1>2. Nobody \notin Owners /\ Terminals \subseteq Routes /\ \A r \in rs : st.routes[r] = v
  BY EventsAssumption, StoreAssumption DEF CanMoveRoutes
<1>3. ro \in [Routes -> Owners \cup {Nobody}]
      /\ \A r \in Routes : ro[r] = IF r \in rs THEN w ELSE st.routes[r]
  BY DEF WellRouted, StoreTyped
<1> HIDE DEF ro
<1> DEFINE own(o) == OwnedBy([routes |-> ro], o)
<1>4. /\ own(v) = OwnedBy(st, v) \cap (Routes \ rs)
      /\ OwnedBy(st, w) \subseteq own(w) /\ OwnedBy(st, v) \cap rs \subseteq own(w)
      /\ \A o \in Owners \ {v, w} : own(o) = OwnedBy(st, o)
      /\ \A o \in Owners : own(o) \subseteq Terminals
  BY <1>2, <1>3 DEF OwnedBy
<1> HIDE DEF own
<1>5. stays \in Seq(EventsOn(own(v)))
  BY <1>4, KeptOn DEF WellRouted
<1>6. moved \in Seq(EventsOn(own(w)))
  <2>1. moved \in Seq(EventsOn(OwnedBy(st, v) \cap rs))
    BY KeptOn DEF WellRouted
  <2> HIDE DEF moved
  <2> QED
    BY <1>4, <2>1, MoreRoutes
<1> HIDE DEF stays, moved
<1>7. left[w] \in Seq(EventsOn(own(w)))
  <2>1. left[w] = st.pending[w]
    BY DEF WellRouted, StoreTyped
  <2>2. st.pending[w] \in Seq(EventsOn(OwnedBy(st, w)))
    BY DEF WellRouted
  <2> HIDE DEF left
  <2>3. Seq(EventsOn(OwnedBy(st, w))) \subseteq Seq(EventsOn(own(w)))
    BY <1>4, MoreRoutes
  <2> QED
    BY <2>1, <2>2, <2>3
<1>8. pu \in Seq(EventsOn(own(w)))
  <2> HIDE DEF left
  <2> QED
    BY <1>6, <1>7, PushedOn
<1>9. \A o \in Owners : Seq(EventsOn(own(o))) \subseteq Seq(EventsOn(Terminals))
  BY <1>4, MoreRoutes
<1>10. left \in [Owners -> Seq(EventsOn(Terminals))] /\ left[v] = stays
       /\ \A o \in Owners : o # v => left[o] = st.pending[o]
  BY <1>5, <1>9 DEF WellRouted, StoreTyped
<1> HIDE DEF left, pu
<1>11. pd \in [Owners -> Seq(EventsOn(Terminals))] /\ pd[w] = pu
       /\ \A o \in Owners : o # w => pd[o] = left[o]
  BY <1>8, <1>9, <1>10
<1> HIDE DEF pd
<1>12. StoreTyped(mv) /\ mv.routes = ro /\ mv.pending = pd /\ mv.unrouted = st.unrouted
  BY <1>3, <1>11 DEF WellRouted, StoreTyped
<1> HIDE DEF mv
<1>13. \A o \in Owners : OwnedBy(mv, o) = own(o)
  BY <1>12 DEF OwnedBy, own
<1>14. ASSUME NEW o \in Owners PROVE mv.pending[o] \in Seq(EventsOn(OwnedBy(mv, o)))
  <2>1. CASE o = v
    BY <1>5, <1>10, <1>11, <1>12, <1>13, <2>1
  <2>2. CASE o = w
    BY <1>8, <1>11, <1>12, <1>13, <2>2
  <2>3. CASE o \in Owners \ {v, w}
    BY <1>4, <1>10, <1>11, <1>12, <1>13, <2>3 DEF WellRouted
  <2> QED
    BY <2>1, <2>2, <2>3
<1>15. WellRouted(mv)
  BY <1>12, <1>14 DEF WellRouted
<1> QED
  BY <1>1, <1>12, <1>15 DEF ro

\* Making room among the unrouted events.
LEMMA RoomKeeps ==
  ASSUME NEW st, WellRouted(st), NEW e
  PROVE  WellRouted(MakeRoom(st, e)) /\ MakeRoom(st, e).routes = st.routes
<1> DEFINE enough == {n \in 0..Len(st.seen) : HasRoomFor(Pruned(st, n), e)} \cup {Len(st.seen)}
           n == CHOOSE m \in enough : \A k \in enough : m <= k
<1>1. MakeRoom(st, e) = Pruned(st, n)
  BY DEF MakeRoom
<1> HIDE DEF n
<1> QED
  BY <1>1, ForgetKeeps DEF Pruned

\* An event of a route that nobody has registered.
LEMMA EnqueueKeeps ==
  ASSUME NEW st, WellRouted(st), NEW e \in EventsOn(Terminals)
  PROVE  /\ WellRouted(EnqueueUnrouted(st, e))
         /\ EnqueueUnrouted(st, e).routes = st.routes
<1> DEFINE r == e.route
           known == \E i \in DOMAIN st.seen : st.seen[i] = r
           fewer == IF ~known /\ Len(st.seen) >= MaxUnroutedRoutes THEN EvictOldest(st) ELSE st
           roomy == MakeRoom(fewer, e)
           pu == PushBounded(roomy.unrouted[r], e, MaxUnrouted, MaxChunks)
           un == [roomy.unrouted EXCEPT ![r] = pu]
           sn == Append(Those(roomy.seen, Routes \ {r}), r)
           en == [roomy EXCEPT !.unrouted = un, !.seen = sn]
<1>1. WellRouted(fewer) /\ fewer.routes = st.routes
  <2>1. WellRouted(EvictOldest(st)) /\ EvictOldest(st).routes = st.routes
    BY ForgetKeeps DEF EvictOldest
  <2> QED
    BY <2>1
<1>2. WellRouted(roomy) /\ roomy.routes = st.routes
  <2> HIDE DEF fewer
  <2> QED
    BY <1>1, RoomKeeps
<1>3. EnqueueUnrouted(st, e) = [roomy EXCEPT !.unrouted[r] = PushBounded(@, e, MaxUnrouted, MaxChunks),
                                             !.seen = Append(Those(@, Routes \ {r}), r)]
  BY DEF EnqueueUnrouted
<1> HIDE DEF roomy
<1>4. EnqueueUnrouted(st, e) = en
  BY <1>2, <1>3 DEF WellRouted, StoreTyped
<1>5. r \in Terminals /\ r \in Routes
  BY EventsAssumption, StoreAssumption DEF EventsOn
<1>6. sn \in Seq(Routes)
  <2>1. Those(roomy.seen, Routes \ {r}) \in Seq(Routes)
    BY <1>2, ThoseIn DEF WellRouted, StoreTyped
  <2> QED
    BY <1>5, <2>1
<1>7. pu \in Seq(EventsOn({r} \cap Terminals))
  <2>1. e \in EventsOn({r} \cap Terminals)
    BY <1>5 DEF EventsOn
  <2>2. roomy.unrouted[r] \in Seq(EventsOn({r} \cap Terminals))
    BY <1>2, <1>5 DEF WellRouted
  <2> QED
    BY <2>1, <2>2, PushBoundedOn
<1>8. pu \in Seq(EventsOn(Terminals))
  <2>1. Seq(EventsOn({r} \cap Terminals)) \subseteq Seq(EventsOn(Terminals))
    BY MoreRoutes
  <2> QED
    BY <1>7, <2>1
<1> HIDE DEF r, pu, sn
<1>9. un \in [Routes -> Seq(EventsOn(Terminals))] /\ un[r] = pu
      /\ \A s \in Routes : s # r => un[s] = roomy.unrouted[s]
  BY <1>2, <1>5, <1>8 DEF WellRouted, StoreTyped
<1> HIDE DEF un
<1>10. StoreTyped(en) /\ en.routes = st.routes /\ en.pending = roomy.pending /\ en.unrouted = un
  BY <1>2, <1>6, <1>9 DEF WellRouted, StoreTyped
<1> HIDE DEF en
<1>11. \A o \in Owners : OwnedBy(en, o) = OwnedBy(roomy, o)
  BY <1>2, <1>10 DEF OwnedBy
<1>12. \A s \in Routes : un[s] \in Seq(EventsOn({s} \cap Terminals))
  <2> TAKE s \in Routes
  <2>1. CASE s = r
    BY <1>7, <1>9, <2>1
  <2>2. CASE s # r
    BY <1>2, <1>9, <2>2 DEF WellRouted
  <2> QED
    BY <2>1, <2>2
<1>13. WellRouted(en)
  BY <1>2, <1>10, <1>11, <1>12 DEF WellRouted
<1> QED
  BY <1>4, <1>10, <1>13

\* One event on its way to a window.
LEMMA RoutedKeeps ==
  ASSUME NEW st, WellRouted(st), NEW e \in EventsOn(Terminals)
  PROVE  WellRouted(Routed(st, e)) /\ Routed(st, e).routes = st.routes
<1> DEFINE w == st.routes[e.route]
<1>1. e.route \in Terminals /\ e.route \in Routes /\ Nobody \notin Owners
  BY EventsAssumption, StoreAssumption DEF EventsOn
<1>2. CASE w # Nobody
  <2> DEFINE pu == PushBounded(st.pending[w], e, MaxPending, MaxChunks)
             pd == [st.pending EXCEPT ![w] = pu]
             rt == [st EXCEPT !.pending = pd]
  <2>1. Routed(st, e) = rt
    BY <1>2 DEF Routed, WellRouted, StoreTyped
  <2>2. w \in Owners
    BY <1>1, <1>2 DEF WellRouted, StoreTyped
  <2>3. e \in EventsOn(OwnedBy(st, w)) /\ OwnedBy(st, w) \subseteq Terminals
    BY <1>1 DEF EventsOn, OwnedBy
  <2> HIDE DEF w
  <2>4. pu \in Seq(EventsOn(OwnedBy(st, w)))
    <3>1. st.pending[w] \in Seq(EventsOn(OwnedBy(st, w)))
      BY <2>2 DEF WellRouted
    <3> QED
      BY <2>3, <3>1, PushBoundedOn
  <2>5. pu \in Seq(EventsOn(Terminals))
    <3>1. Seq(EventsOn(OwnedBy(st, w))) \subseteq Seq(EventsOn(Terminals))
      BY <2>3, MoreRoutes
    <3> QED
      BY <2>4, <3>1
  <2> HIDE DEF pu
  <2>6. pd \in [Owners -> Seq(EventsOn(Terminals))] /\ pd[w] = pu
        /\ \A o \in Owners : o # w => pd[o] = st.pending[o]
    BY <2>2, <2>5 DEF WellRouted, StoreTyped
  <2> HIDE DEF pd
  <2>7. StoreTyped(rt) /\ rt.routes = st.routes /\ rt.pending = pd /\ rt.unrouted = st.unrouted
    BY <2>6 DEF WellRouted, StoreTyped
  <2> HIDE DEF rt
  <2>8. \A o \in Owners : OwnedBy(rt, o) = OwnedBy(st, o)
    BY <2>7 DEF OwnedBy
  <2>9. ASSUME NEW o \in Owners PROVE rt.pending[o] \in Seq(EventsOn(OwnedBy(rt, o)))
    <3>1. CASE o = w
      BY <2>4, <2>6, <2>7, <2>8, <3>1
    <3>2. CASE o # w
      BY <2>6, <2>7, <2>8, <3>2 DEF WellRouted
    <3> QED
      BY <3>1, <3>2
  <2>10. WellRouted(rt)
    BY <2>7, <2>9 DEF WellRouted
  <2> QED
    BY <2>1, <2>7, <2>10
<1>3. CASE w = Nobody
  <2>1. Routed(st, e) \in {st, EnqueueUnrouted(st, e)}
    BY <1>3 DEF Routed
  <2> QED
    BY <2>1, EnqueueKeeps
<1> QED
  BY <1>2, <1>3

-----------------------------------------------------------------------------
(* The inductive invariant.  Besides what the queues hold, a tab that was  *)
(* never opened has no route; and a batch holds events of routes of the    *)
(* window that handles it, or a late Connected could revive a tab that was *)
(* disconnected and has no route any more.                                 *)

Queues == {outputs, lifecycle, control, pendingLifecycle, pendingControl}
ChannelTyped ==
  /\ \A q \in Queues : q \in Seq(EventsOn(Terminals))
  /\ blocked \in EventsOn(Terminals) \cup {None}
  /\ sequence \in Nat

PumpTyped ==
  /\ phase \in {"idle", "poll", "receive", "handle"}
  /\ phase # "idle" => pump \in Owners
  /\ IF phase = "handle" THEN batch \in Seq(EventsOn(OwnedBy(store, pump))) ELSE batch = <<>>

TabsTyped ==
  /\ home \in [Terminals -> Owners \cup {Nobody}]
  /\ gen \in [Terminals -> Nat]
  /\ link \in [Terminals -> {"connecting", "connected", "down"}]

TabsRouted ==
  \A t \in Terminals :
    /\ gen[t] = 0 => home[t] = Nobody /\ store.routes[t] = Nobody
    /\ home[t] # Nobody =>
         \/ store.routes[t] = home[t]
         \/ store.routes[t] = Nobody /\ link[t] = "down"

EvIInv == ChannelTyped /\ WellRouted(store) /\ PumpTyped /\ TabsTyped /\ TabsRouted

\* The invariant holds at the start.
LEMMA EvStart == EvInit => EvIInv
<1> SUFFICES ASSUME EvInit PROVE EvIInv
  OBVIOUS
<1> USE DEF EvInit
<1>1. ChannelTyped
  <2>1. \A q \in Queues : q = <<>>
    BY DEF Queues
  <2>2. <<>> \in Seq(EventsOn(Terminals))
    OBVIOUS
  <2>3. \A q \in Queues : q \in Seq(EventsOn(Terminals))
    BY <2>1, <2>2
  <2>4. blocked = None /\ sequence = 1
    OBVIOUS
  <2> QED
    BY <2>3, <2>4 DEF ChannelTyped
<1>2. WellRouted(store)
  <2>1. store = EmptyStore
    OBVIOUS
  <2> QED
    BY <2>1 DEF EmptyStore, WellRouted, StoreTyped
<1>3. PumpTyped
  BY DEF PumpTyped
<1>4. TabsTyped
  BY DEF TabsTyped
<1>5. TabsRouted
  BY EventsAssumption, StoreAssumption DEF TabsRouted, EmptyStore
<1> QED
  BY <1>1, <1>2, <1>3, <1>4, <1>5 DEF EvIInv

\* The parts of the state that nothing but their own actions touch.
LEMMA ChannelStays ==
  ASSUME ChannelTyped, UNCHANGED chanVars
  PROVE  ChannelTyped'
BY DEF ChannelTyped, Queues, chanVars

\* The tabs stay routed while neither they nor the routes change.
LEMMA TabsStay ==
  ASSUME TabsTyped, TabsRouted, UNCHANGED <<home, gen, link>>, store'.routes = store.routes
  PROVE  TabsTyped' /\ TabsRouted'
BY DEF TabsTyped, TabsRouted

\* A send.
LEMMA SendTyped ==
  ASSUME ChannelTyped, NEW body \in [kind : Kinds, route : Terminals, gen : Nat, title : BOOLEAN],
         Send(body)
  PROVE  ChannelTyped'
<1> DEFINE e == Event(body)
<1>1. e \in EventsOn(Terminals)
  <2>1. body.gen \in Nat /\ sequence \in Nat /\ body.kind \in Kinds /\ body.route \in Terminals
        /\ body.title \in BOOLEAN
    BY DEF ChannelTyped
  <2>2. <<[gen |-> body.gen, seq |-> sequence]>> \in Seq([gen : Nat, seq : Nat])
    BY <2>1
  <2>3. e.chunks \in Seq([gen : Nat, seq : Nat])
    <3>1. e.chunks = IF body.kind = "Output" THEN <<[gen |-> body.gen, seq |-> sequence]>> ELSE <<>>
      BY DEF Event
    <3>2. <<>> \in Seq([gen : Nat, seq : Nat])
      OBVIOUS
    <3> QED
      BY <2>2, <3>1, <3>2
  <2> QED
    BY <2>1, <2>3 DEF Event, EventsOn
<1> HIDE DEF e
<1>2. outputs \in Seq(EventsOn(Terminals)) /\ lifecycle \in Seq(EventsOn(Terminals))
      /\ control \in Seq(EventsOn(Terminals)) /\ pendingLifecycle \in Seq(EventsOn(Terminals))
      /\ pendingControl \in Seq(EventsOn(Terminals))
  BY DEF ChannelTyped, Queues
<1>3. PushOutput(outputs, e) \in Seq(EventsOn(Terminals))
  <2>1. CASE Joins(outputs, e, MaxCoalesced)
    <3>1. outputs # <<>>
      BY <2>1 DEF Joins
    <3>2. MergedLast(outputs, e) \in Seq(EventsOn(Terminals))
      BY <1>1, <1>2, <3>1, MergedLastOn
    <3> QED
      BY <1>2, <2>1, <3>2 DEF PushOutput
  <2>2. CASE ~Joins(outputs, e, MaxCoalesced)
    BY <1>1, <1>2, <2>2 DEF PushOutput
  <2> QED
    BY <2>1, <2>2
<1>4. Append(lifecycle, e) \in Seq(EventsOn(Terminals)) /\ Append(control, e) \in Seq(EventsOn(Terminals))
  BY <1>1, <1>2
<1>5. /\ outputs' \in {outputs, PushOutput(outputs, e)}
      /\ lifecycle' \in {lifecycle, Append(lifecycle, e)}
      /\ control' \in {control, Append(control, e)}
      /\ blocked' \in {blocked, e}
      /\ pendingLifecycle' = pendingLifecycle /\ pendingControl' = pendingControl
      /\ sequence' = sequence + 1
  BY DEF Send, e
<1>6. \A q \in Queues' : q \in Seq(EventsOn(Terminals))
  BY <1>2, <1>3, <1>4, <1>5 DEF Queues
<1>7. blocked' \in EventsOn(Terminals) \cup {None} /\ sequence' \in Nat
  BY <1>1, <1>5 DEF ChannelTyped
<1> QED
  BY <1>6, <1>7 DEF ChannelTyped

-----------------------------------------------------------------------------
(* The actions.                                                            *)

\* The connections.
LEMMA SenderSteps ==
  ASSUME EvIInv,
         Unblock \/ \E t \in Terminals, g \in Gens : ConnectionSends(t, g)
  PROVE  EvIInv'
<1> USE DEF EvIInv
<1>1. CASE Unblock
  <2>1. ChannelTyped'
    <3>1. blocked \in EventsOn(Terminals) /\ lifecycle \in Seq(EventsOn(Terminals))
      BY <1>1 DEF Unblock, ChannelTyped, Queues
    <3>2. Append(lifecycle, blocked) \in Seq(EventsOn(Terminals))
      BY <3>1
    <3> QED
      BY <1>1, <3>2 DEF Unblock, ChannelTyped, Queues
  <2>2. UNCHANGED <<store, pumpVars, home, gen, link>>
    BY <1>1 DEF Unblock, tabVars
  <2> QED
    BY <2>1, <2>2, TabsStay DEF PumpTyped, pumpVars
<1>2. ASSUME NEW t \in Terminals, NEW g \in Gens, ConnectionSends(t, g)
      PROVE  EvIInv'
  <2>1. PICK kind \in Kinds, title \in BOOLEAN :
          Send([kind |-> kind, route |-> t, gen |-> g, title |-> title])
    BY <1>2 DEF ConnectionSends
  <2>2. g \in Nat
    BY StoreAssumption DEF Gens
  <2>3. [kind |-> kind, route |-> t, gen |-> g, title |-> title]
          \in [kind : Kinds, route : Terminals, gen : Nat, title : BOOLEAN]
    BY <2>2
  <2>4. ChannelTyped'
    BY <2>1, <2>3, SendTyped
  <2>5. UNCHANGED <<store, pumpVars, home, gen, link>>
    BY <1>2 DEF ConnectionSends
  <2> QED
    BY <2>4, <2>5, TabsStay DEF PumpTyped, pumpVars
<1> QED
  BY <1>1, <1>2

\* Where a drain receives an event and routes it.
LEMMA DeliverSteps ==
  ASSUME EvIInv, phase = "receive", NEW e \in EventsOn(Terminals), Deliver(e),
         ChannelTyped', UNCHANGED <<pump, batch, tabVars>>
  PROVE  EvIInv'
<1> USE DEF EvIInv
<1>1. store' = Routed(store, e) /\ phase' = "poll"
  BY DEF Deliver
<1>2. WellRouted(store') /\ store'.routes = store.routes
  BY <1>1, RoutedKeeps
<1>3. PumpTyped'
  BY <1>1 DEF PumpTyped
<1>4. UNCHANGED <<home, gen, link>>
  BY DEF tabVars
<1> QED
  BY <1>2, <1>3, <1>4, TabsStay

\* What the receiver can take.
LEMMA ControlTyped ==
  ASSUME ChannelTyped
  PROVE  /\ TakeControl \in Seq(EventsOn(Terminals))
         /\ RestOfControl \in Seq(EventsOn(Terminals))
<1>1. control \in Seq(EventsOn(Terminals)) /\ pendingControl \in Seq(EventsOn(Terminals))
  BY DEF ChannelTyped, Queues
<1>2. control # <<>> => Head(control) \in EventsOn(Terminals)
                        /\ Tail(control) \in Seq(EventsOn(Terminals))
  BY <1>1
<1> QED
  BY <1>1, <1>2 DEF TakeControl, RestOfControl

\* A reliable event, or what it must not overtake.
LEMMA ReceiveLifecycleStep ==
  ASSUME EvIInv, ReceiveLifecycle
  PROVE  EvIInv'
<1> USE DEF EvIInv
<1> DEFINE c == pendingLifecycle[1]
           first == TakeControl
           older == IF first = <<>> THEN FALSE ELSE first[1].seq < c.seq
           earlier == EarlierOutput(c)
<1>1. /\ outputs \in Seq(EventsOn(Terminals)) /\ pendingLifecycle \in Seq(EventsOn(Terminals))
      /\ lifecycle \in Seq(EventsOn(Terminals))
  BY DEF ChannelTyped, Queues
<1>2. first \in Seq(EventsOn(Terminals)) /\ RestOfControl \in Seq(EventsOn(Terminals))
  BY ControlTyped
<1>3. c \in EventsOn(Terminals)
  BY <1>1 DEF ReceiveLifecycle
<1>4. earlier \in Seq(EventsOn(Terminals)) /\ LaterOutput(c) \in Seq(EventsOn(Terminals))
  BY <1>1, ThoseIn DEF EarlierOutput, LaterOutput
<1>5. /\ control' = RestOfControl /\ phase = "receive"
      /\ lifecycle' = lifecycle /\ blocked' = blocked /\ sequence' = sequence
      /\ UNCHANGED <<pump, batch, tabVars>>
  BY DEF ReceiveLifecycle
<1>6. CASE older /\ Deliver(first[1]) /\ pendingControl' = <<>>
           /\ UNCHANGED <<pendingLifecycle, outputs>>
  <2>1. first[1] \in EventsOn(Terminals)
    BY <1>2, <1>6
  <2>2. ChannelTyped'
    BY <1>1, <1>2, <1>5, <1>6 DEF ChannelTyped, Queues
  <2> QED
    BY <1>5, <1>6, <2>1, <2>2, DeliverSteps
<1>7. CASE /\ pendingControl' = first /\ earlier # <<>> /\ Deliver(Together(earlier))
           /\ outputs' = LaterOutput(c) /\ UNCHANGED pendingLifecycle
  <2>1. Together(earlier) \in EventsOn(Terminals)
    BY <1>4, <1>7, TogetherOn
  <2> HIDE DEF first, earlier, c
  <2>2. ChannelTyped'
    BY <1>1, <1>2, <1>4, <1>5, <1>7 DEF ChannelTyped, Queues
  <2> QED
    BY <1>5, <1>7, <2>1, <2>2, DeliverSteps
<1>8. CASE /\ pendingControl' = first /\ Deliver(c)
           /\ pendingLifecycle' = <<>> /\ UNCHANGED outputs
  <2> HIDE DEF first, c
  <2>1. ChannelTyped'
    BY <1>1, <1>2, <1>5, <1>8 DEF ChannelTyped, Queues
  <2> QED
    BY <1>3, <1>5, <1>8, <2>1, DeliverSteps
<1>9. \/ older /\ Deliver(first[1]) /\ pendingControl' = <<>>
         /\ UNCHANGED <<pendingLifecycle, outputs>>
      \/ /\ pendingControl' = first /\ earlier # <<>> /\ Deliver(Together(earlier))
         /\ outputs' = LaterOutput(c) /\ UNCHANGED pendingLifecycle
      \/ /\ pendingControl' = first /\ Deliver(c)
         /\ pendingLifecycle' = <<>> /\ UNCHANGED outputs
  BY Zenon DEF ReceiveLifecycle
<1> QED
  BY <1>6, <1>7, <1>8, <1>9

\* Output and status.
LEMMA ReceiveSteps ==
  ASSUME EvIInv, ReceiveOutput \/ ReceiveControl
  PROVE  EvIInv'
<1> USE DEF EvIInv
<1>1. /\ outputs \in Seq(EventsOn(Terminals)) /\ lifecycle \in Seq(EventsOn(Terminals))
      /\ control \in Seq(EventsOn(Terminals)) /\ pendingLifecycle \in Seq(EventsOn(Terminals))
      /\ pendingControl \in Seq(EventsOn(Terminals))
  BY DEF ChannelTyped, Queues
<1>2. TakeControl \in Seq(EventsOn(Terminals)) /\ RestOfControl \in Seq(EventsOn(Terminals))
  BY ControlTyped
<1>3. CASE ReceiveOutput
  <2>1. Head(outputs) \in EventsOn(Terminals) /\ Tail(outputs) \in Seq(EventsOn(Terminals))
    BY <1>1, <1>3 DEF ReceiveOutput
  <2>2. ChannelTyped'
    BY <1>1, <1>3, <2>1 DEF ReceiveOutput, ChannelTyped, Queues
  <2>3. phase = "receive" /\ Deliver(Head(outputs)) /\ UNCHANGED <<pump, batch, tabVars>>
    BY <1>3 DEF ReceiveOutput
  <2> QED
    BY <2>1, <2>2, <2>3, DeliverSteps
<1>4. CASE ReceiveControl
  <2>1. TakeControl[1] \in EventsOn(Terminals)
    BY <1>2, <1>4 DEF ReceiveControl
  <2>2. ChannelTyped'
    BY <1>1, <1>2, <1>4 DEF ReceiveControl, ChannelTyped, Queues
  <2>3. phase = "receive" /\ Deliver(TakeControl[1]) /\ UNCHANGED <<pump, batch, tabVars>>
    BY <1>4 DEF ReceiveControl
  <2> QED
    BY <2>1, <2>2, <2>3, DeliverSteps
<1> QED
  BY <1>3, <1>4

\* The steps of a drain around them.
LEMMA DrainSteps ==
  ASSUME EvIInv,
         PollLifecycle \/ DrainPending \/ EndDrain \/ \E w \in Owners : BeginDrain(w)
  PROVE  EvIInv'
<1> USE DEF EvIInv
<1>1. CASE PollLifecycle
  <2>1. lifecycle \in Seq(EventsOn(Terminals)) /\ pendingLifecycle \in Seq(EventsOn(Terminals))
    BY DEF ChannelTyped, Queues
  <2>2. lifecycle # <<>> => <<Head(lifecycle)>> \in Seq(EventsOn(Terminals))
                            /\ Tail(lifecycle) \in Seq(EventsOn(Terminals))
    BY <2>1
  <2>3. ChannelTyped'
    BY <1>1, <2>1, <2>2 DEF PollLifecycle, ChannelTyped, Queues
  <2>4. phase = "poll" /\ phase' = "receive" /\ UNCHANGED <<store, pump, batch, home, gen, link>>
    BY <1>1 DEF PollLifecycle, tabVars
  <2> QED
    BY <2>3, <2>4, TabsStay DEF PumpTyped
<1>2. CASE DrainPending
  <2> DEFINE mine == store.pending[pump]
             n == IF Len(mine) < MaxTick THEN Len(mine) ELSE MaxTick
             pd == [store.pending EXCEPT ![pump] = SubSeq(mine, n + 1, Len(mine))]
  <2>1. phase \in {"poll", "receive"} /\ phase' = "handle" /\ pump' = pump
        /\ UNCHANGED chanVars /\ UNCHANGED <<home, gen, link>>
        /\ batch' = CoalesceEvents(SubSeq(mine, 1, n))
        /\ store' = [store EXCEPT !.pending[pump] = SubSeq(mine, n + 1, Len(mine))]
    BY <1>2 DEF DrainPending, tabVars
  <2>2. pump \in Owners
    BY <2>1 DEF PumpTyped
  <2>3. mine \in Seq(EventsOn(OwnedBy(store, pump))) /\ Len(mine) \in Nat
    BY <2>2 DEF WellRouted
  <2>4. n \in 0..Len(mine)
    <3> HIDE DEF mine
    <3> QED
      BY <2>3, EventsAssumption, StoreAssumption
  <2>5. /\ SubSeq(mine, 1, n) \in Seq(EventsOn(OwnedBy(store, pump)))
        /\ SubSeq(mine, n + 1, Len(mine)) \in Seq(EventsOn(OwnedBy(store, pump)))
    <3> HIDE DEF mine, n
    <3> QED
      BY <2>3, <2>4
  <2>6. batch' \in Seq(EventsOn(OwnedBy(store, pump)))
    <3> HIDE DEF mine, n
    <3> QED
      BY <2>1, <2>5, CoalescedOn
  <2>7. SubSeq(mine, n + 1, Len(mine)) \in Seq(EventsOn(Terminals))
    <3>1. OwnedBy(store, pump) \subseteq Terminals
      BY DEF OwnedBy
    <3>2. Seq(EventsOn(OwnedBy(store, pump))) \subseteq Seq(EventsOn(Terminals))
      BY <3>1, MoreRoutes
    <3> HIDE DEF mine, n
    <3> QED
      BY <2>5, <3>2
  <2>8. store' = [store EXCEPT !.pending = pd]
    <3> HIDE DEF n
    <3> QED
      BY <2>1 DEF WellRouted, StoreTyped
  <2> DEFINE rest == SubSeq(mine, n + 1, Len(mine))
  <2>9. pd = [store.pending EXCEPT ![pump] = rest]
    OBVIOUS
  <2> HIDE DEF mine, n, rest, pd
  <2>10. pd \in [Owners -> Seq(EventsOn(Terminals))] /\ pd[pump] = rest
         /\ \A o \in Owners : o # pump => pd[o] = store.pending[o]
    BY <2>2, <2>7, <2>9 DEF WellRouted, StoreTyped, rest
  <2>11. StoreTyped(store') /\ store'.routes = store.routes /\ store'.pending = pd
         /\ store'.unrouted = store.unrouted
    BY <2>8, <2>10 DEF WellRouted, StoreTyped
  <2>12. \A o \in Owners : OwnedBy(store', o) = OwnedBy(store, o)
    BY <2>11 DEF OwnedBy
  <2>13. ASSUME NEW o \in Owners PROVE store'.pending[o] \in Seq(EventsOn(OwnedBy(store', o)))
    <3>1. CASE o = pump
      BY <2>5, <2>10, <2>11, <2>12, <3>1 DEF rest
    <3>2. CASE o # pump
      BY <2>10, <2>11, <2>12, <3>2 DEF WellRouted
    <3> QED
      BY <3>1, <3>2
  <2>14. WellRouted(store')
    BY <2>11, <2>13 DEF WellRouted
  <2>15. PumpTyped'
    BY <2>1, <2>2, <2>6, <2>12 DEF PumpTyped
  <2>16. ChannelTyped'
    BY <2>1, ChannelStays
  <2> QED
    BY <2>1, <2>11, <2>14, <2>15, <2>16, TabsStay
<1>3. CASE EndDrain
  <2>1. phase' = "idle" /\ batch' = <<>> /\ UNCHANGED <<store, home, gen, link>> /\ UNCHANGED chanVars
    BY <1>3 DEF EndDrain, tabVars
  <2>2. ChannelTyped'
    BY <2>1, ChannelStays
  <2> QED
    BY <2>1, <2>2, TabsStay DEF PumpTyped
<1>4. ASSUME NEW w \in Owners, BeginDrain(w) PROVE EvIInv'
  <2>1. PICK n \in 0..Len(store.seen) : store' = Pruned(store, n)
    BY <1>4 DEF BeginDrain
  <2>2. WellRouted(store') /\ store'.routes = store.routes
    BY <2>1, ForgetKeeps DEF Pruned
  <2>3. phase = "idle" /\ phase' = "poll" /\ pump' = w /\ batch' = batch
        /\ UNCHANGED chanVars /\ UNCHANGED <<home, gen, link>>
    BY <1>4 DEF BeginDrain, tabVars
  <2>4. ChannelTyped'
    BY <2>3, ChannelStays
  <2>5. PumpTyped'
    BY <2>3 DEF PumpTyped
  <2> QED
    BY <2>2, <2>3, <2>4, <2>5, TabsStay
<1> QED
  BY <1>1, <1>2, <1>3, <1>4

\* The head of the batch is an event of a route of the window that handles it.
LEMMA BatchHead ==
  ASSUME EvIInv, phase = "handle", batch # <<>>
  PROVE  /\ Head(batch) \in EventsOn(Terminals)
         /\ Head(batch).route \in Terminals /\ store.routes[Head(batch).route] = pump
         /\ Tail(batch) \in Seq(EventsOn(OwnedBy(store, pump)))
         /\ pump \in Owners
<1>1. batch \in Seq(EventsOn(OwnedBy(store, pump))) /\ pump \in Owners
  BY DEF EvIInv, PumpTyped
<1>2. Head(batch) \in EventsOn(OwnedBy(store, pump))
      /\ Tail(batch) \in Seq(EventsOn(OwnedBy(store, pump)))
  BY <1>1
<1>3. OwnedBy(store, pump) \subseteq Terminals
  BY DEF OwnedBy
<1>4. Head(batch) \in EventsOn(Terminals)
  BY <1>2, <1>3, MoreRoutes
<1>5. Head(batch).route \in OwnedBy(store, pump)
  BY <1>2 DEF EventsOn
<1> QED
  BY <1>1, <1>2, <1>4, <1>5 DEF OwnedBy

\* The handlers of a batch.
LEMMA HandleSteps ==
  ASSUME EvIInv, HandleStale \/ HandleOutput \/ HandleNews \/ HandleClosed
  PROVE  EvIInv'
<1> USE DEF EvIInv
<1> DEFINE e == Head(batch)
<1>1. /\ phase = "handle" /\ batch # <<>>
      /\ batch' = Tail(batch) /\ UNCHANGED <<store, pump, phase, gen>>
  BY DEF HandleStale, HandleOutput, HandleNews, HandleClosed, tabVars
<1>2. /\ e \in EventsOn(Terminals) /\ e.route \in Terminals
      /\ store.routes[e.route] = pump /\ pump \in Owners
      /\ Tail(batch) \in Seq(EventsOn(OwnedBy(store, pump)))
  BY <1>1, BatchHead
<1> HIDE DEF e
<1>3. PumpTyped' /\ WellRouted(store)'
  BY <1>1, <1>2 DEF PumpTyped
<1>4. CASE HandleStale
  <2>1. UNCHANGED chanVars /\ UNCHANGED <<home, gen, link>>
    BY <1>4 DEF HandleStale, tabVars
  <2> QED
    BY <1>1, <1>3, <2>1, ChannelStays, TabsStay
<1>5. CASE HandleOutput
  <2>1. UNCHANGED <<home, gen, link>>
    BY <1>5 DEF HandleOutput, tabVars
  <2> DEFINE body == [kind |-> "Status", route |-> e.route, gen |-> 0, title |-> FALSE]
  <2>2. UNCHANGED chanVars \/ Send(body)
    BY <1>5 DEF HandleOutput, e
  <2>3. body \in [kind : Kinds, route : Terminals, gen : Nat, title : BOOLEAN]
    BY <1>2 DEF Kinds
  <2> HIDE DEF body
  <2>4. ChannelTyped'
    BY <2>2, <2>3, SendTyped, ChannelStays
  <2> QED
    BY <1>1, <1>3, <2>1, <2>4, TabsStay
<1>6. CASE HandleNews
  <2>1. ChannelTyped'
    BY <1>6, ChannelStays DEF HandleNews
  <2>2. UNCHANGED <<home, gen>>
        /\ link' \in {link, [link EXCEPT ![e.route] = "connected"]}
        /\ (link' # link => home[e.route] = pump)
    BY <1>6 DEF HandleNews, e
  <2>3. TabsTyped'
    BY <1>2, <2>2 DEF TabsTyped
  <2>4. TabsRouted'
    BY <1>1, <1>2, <2>2, StoreAssumption DEF TabsRouted, TabsTyped
  <2> QED
    BY <1>3, <2>1, <2>3, <2>4
<1>7. CASE HandleClosed
  <2>1. ChannelTyped'
    BY <1>7, ChannelStays DEF HandleClosed
  <2>2. gen' = gen /\ home' \in {home, [home EXCEPT ![e.route] = Nobody]}
        /\ link' \in {link, [link EXCEPT ![e.route] = "down"]}
    BY <1>7 DEF HandleClosed, e
  <2>3. TabsTyped'
    BY <1>2, <2>2 DEF TabsTyped
  <2>4. TabsRouted'
    BY <1>1, <1>2, <2>2 DEF TabsRouted, TabsTyped
  <2> QED
    BY <1>3, <2>1, <2>3, <2>4
<1> QED
  BY <1>4, <1>5, <1>6, <1>7

\* Registering the route of a tab that has none, or has it already.
LEMMA RegistersTyped ==
  ASSUME WellRouted(store), NEW t \in Terminals, NEW w \in Owners, Registers(t, w),
         store.routes[t] \in {w, Nobody}
  PROVE  WellRouted(store') /\ store'.routes = [store.routes EXCEPT ![t] = w]
<1>1. PICK n \in 0..Len(store.seen) : store' = RegisterRoute(Pruned(store, n), t, w)
  BY DEF Registers
<1>2. WellRouted(Pruned(store, n)) /\ Pruned(store, n).routes = store.routes
  BY ForgetKeeps DEF Pruned
<1> QED
  BY <1>1, <1>2, RegisterKeeps

\* No drain is under way while the user acts.
LEMMA IdleStays ==
  ASSUME PumpTyped, phase = "idle", UNCHANGED pumpVars
  PROVE  PumpTyped'
BY DEF PumpTyped, pumpVars

\* The user.
LEMMA UserSteps ==
  ASSUME EvIInv,
         \/ \E w \in Owners : OpenTab(w)
         \/ \E w \in Owners, t \in Terminals : MoveTab(t, w)
         \/ \E t \in Terminals : CloseTab(t) \/ Disconnect(t) \/ Retry(t)
  PROVE  EvIInv'
<1> USE DEF EvIInv
<1>1. Nobody \notin Owners /\ Terminals \subseteq Routes /\ store.routes \in [Routes -> Owners \cup {Nobody}]
  BY EventsAssumption, StoreAssumption DEF WellRouted, StoreTyped
<1>2. ASSUME NEW w \in Owners, OpenTab(w) PROVE EvIInv'
  <2> DEFINE t == CHOOSE u \in Terminals \ OpenedTabs : TRUE
  <2>1. t \in Terminals /\ gen[t] = 0
    BY <1>2 DEF OpenTab, OpenedTabs
  <2>2. /\ gen' = [gen EXCEPT ![t] = 1] /\ home' = [home EXCEPT ![t] = w] /\ link' = link
        /\ Registers(t, w) /\ phase = "idle" /\ UNCHANGED pumpVars /\ UNCHANGED chanVars
    BY <1>2 DEF OpenTab
  <2> HIDE DEF t
  <2>3. store.routes[t] = Nobody
    BY <2>1 DEF TabsRouted
  <2>4. WellRouted(store') /\ store'.routes = [store.routes EXCEPT ![t] = w]
    BY <2>1, <2>2, <2>3, RegistersTyped
  <2>5. TabsTyped'
    BY <2>1, <2>2 DEF TabsTyped
  <2>6. TabsRouted'
    BY <1>1, <2>1, <2>2, <2>4 DEF TabsRouted, TabsTyped
  <2> QED
    BY <2>2, <2>4, <2>5, <2>6, ChannelStays, IdleStays
<1>3. ASSUME NEW w \in Owners, NEW t \in Terminals, MoveTab(t, w) PROVE EvIInv'
  <2>1. /\ UNCHANGED <<gen, link>> /\ phase = "idle" /\ UNCHANGED pumpVars /\ UNCHANGED chanVars
        /\ home[t] \notin {Nobody, w}
    BY <1>3 DEF MoveTab, Asks
  <2>2. home[t] \in Owners /\ home[t] # w
    BY <2>1 DEF TabsTyped
  <2>3. CASE CanMoveRoutes(store, {t}, home[t])
    <3>1. store' = MoveRoutes(store, {t}, home[t], w) /\ home' = [home EXCEPT ![t] = w]
      BY <1>3, <2>3 DEF MoveTab
    <3>2. WellRouted(store') /\ store'.routes = [r \in Routes |-> IF r \in {t} THEN w ELSE store.routes[r]]
      BY <2>2, <2>3, <3>1, MoveKeeps
    <3>3. store.routes[t] = home[t]
      BY <2>3 DEF CanMoveRoutes
    <3>4. TabsTyped'
      BY <2>1, <3>1 DEF TabsTyped
    <3>5. TabsRouted'
      BY <1>1, <2>1, <2>2, <3>1, <3>2 DEF TabsRouted, TabsTyped
    <3> QED
      BY <2>1, <3>2, <3>4, <3>5, ChannelStays, IdleStays
  <2>4. CASE ~CanMoveRoutes(store, {t}, home[t])
    <3>1. Registers(t, home[t]) /\ home' = home
      BY <1>3, <2>4 DEF MoveTab
    <3>2. store.routes[t] \in {home[t], Nobody}
      BY <2>2, <1>1 DEF TabsRouted
    <3>3. WellRouted(store') /\ store'.routes = [store.routes EXCEPT ![t] = home[t]]
      BY <2>2, <3>1, <3>2, RegistersTyped
    <3>4. TabsTyped'
      BY <2>1, <3>1 DEF TabsTyped
    <3>5. TabsRouted'
      BY <1>1, <2>1, <2>2, <3>1, <3>3 DEF TabsRouted, TabsTyped
    <3> QED
      BY <2>1, <3>3, <3>4, <3>5, ChannelStays, IdleStays
  <2> QED
    BY <2>3, <2>4
<1>4. ASSUME NEW t \in Terminals, CloseTab(t) PROVE EvIInv'
  <2>1. /\ UNCHANGED <<gen, link>> /\ phase = "idle" /\ UNCHANGED pumpVars /\ UNCHANGED chanVars
        /\ home[t] # Nobody /\ store' = UnregisterRoute(store, t, home[t])
        /\ home' = [home EXCEPT ![t] = Nobody]
    BY <1>4 DEF CloseTab, Asks
  <2>2. home[t] \in Owners
    BY <2>1 DEF TabsTyped
  <2>3. /\ WellRouted(store')
        /\ store'.routes = IF store.routes[t] = home[t] THEN [store.routes EXCEPT ![t] = Nobody]
                           ELSE store.routes
    BY <2>1, <2>2, UnregisterKeeps
  <2>4. TabsTyped'
    BY <2>1 DEF TabsTyped
  <2>5. TabsRouted'
    BY <1>1, <2>1, <2>2, <2>3 DEF TabsRouted, TabsTyped
  <2> QED
    BY <2>1, <2>3, <2>4, <2>5, ChannelStays, IdleStays
<1>5. ASSUME NEW t \in Terminals, Disconnect(t) PROVE EvIInv'
  <2>1. /\ UNCHANGED <<gen, home>> /\ phase = "idle" /\ UNCHANGED pumpVars /\ UNCHANGED chanVars
        /\ home[t] # Nobody /\ store' = UnregisterRoute(store, t, home[t])
        /\ link' = [link EXCEPT ![t] = "down"]
    BY <1>5 DEF Disconnect, Asks
  <2>2. home[t] \in Owners
    BY <2>1 DEF TabsTyped
  <2>3. /\ WellRouted(store')
        /\ store'.routes = IF store.routes[t] = home[t] THEN [store.routes EXCEPT ![t] = Nobody]
                           ELSE store.routes
    BY <2>1, <2>2, UnregisterKeeps
  <2>4. TabsTyped'
    BY <2>1 DEF TabsTyped
  <2>5. TabsRouted'
    BY <1>1, <2>1, <2>2, <2>3 DEF TabsRouted, TabsTyped
  <2> QED
    BY <2>1, <2>3, <2>4, <2>5, ChannelStays, IdleStays
<1>6. ASSUME NEW t \in Terminals, Retry(t) PROVE EvIInv'
  <2>1. /\ home' = home /\ phase = "idle" /\ UNCHANGED pumpVars /\ UNCHANGED chanVars
        /\ home[t] # Nobody /\ Registers(t, home[t])
        /\ gen' = [gen EXCEPT ![t] = @ + 1] /\ link' = [link EXCEPT ![t] = "connecting"]
    BY <1>6 DEF Retry, Asks
  <2>2. home[t] \in Owners /\ gen[t] \in Nat
    BY <2>1 DEF TabsTyped
  <2>3. store.routes[t] \in {home[t], Nobody}
    BY <2>2, <1>1 DEF TabsRouted
  <2>4. WellRouted(store') /\ store'.routes = [store.routes EXCEPT ![t] = home[t]]
    BY <2>1, <2>2, <2>3, RegistersTyped
  <2>5. TabsTyped'
    BY <2>1, <2>2 DEF TabsTyped
  <2>6. TabsRouted'
    BY <1>1, <2>1, <2>2, <2>4 DEF TabsRouted, TabsTyped
  <2> QED
    BY <2>1, <2>4, <2>5, <2>6, ChannelStays, IdleStays
<1> QED
  BY <1>2, <1>3, <1>4, <1>5, <1>6

\* Every step keeps the invariant.
LEMMA EvStep == EvIInv /\ [EvNext]_evVars => EvIInv'
<1> SUFFICES ASSUME EvIInv, [EvNext]_evVars PROVE EvIInv'
  OBVIOUS
<1>1. CASE UNCHANGED evVars
  BY <1>1, ChannelStays, TabsStay
     DEF EvIInv, evVars, chanVars, pumpVars, tabVars, PumpTyped
<1>2. CASE EvNext
  BY <1>2, SenderSteps, ReceiveLifecycleStep, ReceiveSteps, DrainSteps, HandleSteps, UserSteps
     DEF EvNext, Noted, Moves, Drain
<1> QED
  BY <1>1, <1>2

\* An event waits at the owner of its route.
LEMMA EvEnough == EvIInv => RoutesFollowTabs
<1> SUFFICES ASSUME EvIInv PROVE RoutesFollowTabs
  OBVIOUS
<1>1. ASSUME NEW w \in Owners, NEW i \in DOMAIN store.pending[w]
      PROVE  store.routes[store.pending[w][i].route] = w
  <2>1. store.pending[w] \in Seq(EventsOn(OwnedBy(store, w)))
    BY DEF EvIInv, WellRouted
  <2>2. store.pending[w][i] \in EventsOn(OwnedBy(store, w))
    BY <2>1
  <2>3. store.pending[w][i].route \in OwnedBy(store, w)
    BY <2>2 DEF EventsOn
  <2> QED
    BY <2>3 DEF OwnedBy
<1>2. EventsFollowRoutes(store)
  BY <1>1 DEF EventsFollowRoutes
<1> QED
  BY <1>2 DEF EvIInv, TabsRouted, RoutesFollowTabs

(* Whatever connections send, however events queue up, join and are        *)
(* dropped, and wherever tabs are moved, closed, disconnected or retried   *)
(* meanwhile: a tab that is not disconnected has its route, to the window  *)
(* that holds it, and no event waits at a window that gave the tab away    *)
(* (register_event_route, move_event_routes, drain_events_for).            *)
THEOREM EventsReachTheirTab == EvSpec => []RoutesFollowTabs
<1>1. EvInit => EvIInv
  BY EvStart
<1>2. EvIInv /\ [EvNext]_evVars => EvIInv'
  BY EvStep
<1>3. EvIInv => RoutesFollowTabs
  BY EvEnough
<1> QED
  BY <1>1, <1>2, <1>3, PTL DEF EvSpec
-----------------------------------------------------------------------------
(* The order of events in a queue: Rel holds the pairs of events the first *)
(* of which may come before the second.                                    *)

Lined(q, Rel) == \A i, j \in DOMAIN q : i < j => <<q[i], q[j]>> \in Rel
Queued(q, C, Rel) == q \in Seq(C) /\ Lined(q, Rel)

\* What may come before and after two events may come before and after the
\* event they make when they join.
Blends(C, Rel) ==
  \A a, b \in C :
    a.kind = "Output" /\ b.kind = "Output" /\ a.route = b.route =>
      /\ Merged(a, b) \in C
      /\ \A x \in C : <<x, a>> \in Rel /\ <<x, b>> \in Rel => <<x, Merged(a, b)>> \in Rel
      /\ \A x \in C : <<a, x>> \in Rel /\ <<b, x>> \in Rel => <<Merged(a, b), x>> \in Rel

\* The order only matters for events of one route.
RoutesApart(C, Rel) == \A a, b \in C : a.route # b.route => <<a, b>> \in Rel

Before(C, U, Rel) == {x \in C : \A y \in U : <<x, y>> \in Rel}

\* It is the same of the events that may come before some others.
LEMMA BlendsBefore ==
  ASSUME NEW C, NEW Rel, Blends(C, Rel), NEW U \in SUBSET C
  PROVE  Blends(Before(C, U, Rel), Rel)
<1> SUFFICES ASSUME NEW a \in Before(C, U, Rel), NEW b \in Before(C, U, Rel),
                    a.kind = "Output", b.kind = "Output", a.route = b.route
             PROVE  /\ Merged(a, b) \in Before(C, U, Rel)
                    /\ \A x \in Before(C, U, Rel) :
                         <<x, a>> \in Rel /\ <<x, b>> \in Rel => <<x, Merged(a, b)>> \in Rel
                    /\ \A x \in Before(C, U, Rel) :
                         <<a, x>> \in Rel /\ <<b, x>> \in Rel => <<Merged(a, b), x>> \in Rel
  BY DEF Blends
<1>1. a \in C /\ b \in C /\ \A y \in U : <<a, y>> \in Rel /\ <<b, y>> \in Rel /\ y \in C
  BY DEF Before
<1>2. /\ Merged(a, b) \in C
      /\ \A x \in C : <<x, a>> \in Rel /\ <<x, b>> \in Rel => <<x, Merged(a, b)>> \in Rel
      /\ \A x \in C : <<a, x>> \in Rel /\ <<b, x>> \in Rel => <<Merged(a, b), x>> \in Rel
  BY <1>1, Zenon DEF Blends
<1>3. Merged(a, b) \in Before(C, U, Rel)
  BY <1>1, <1>2 DEF Before
<1> QED
  BY <1>2, <1>3 DEF Before

\* A queue of some events is one of more.
LEMMA QueuedMore ==
  ASSUME NEW C, NEW D, C \subseteq D, NEW Rel, NEW q, Queued(q, C, Rel)
  PROVE  Queued(q, D, Rel)
<1>1. q \in Seq(D)
  BY DEF Queued
<1> QED
  BY <1>1 DEF Queued

\* An event that comes last.
LEMMA AppendLined ==
  ASSUME NEW C, NEW Rel, NEW q, Queued(q, C, Rel), NEW e \in C,
         \A i \in DOMAIN q : <<q[i], e>> \in Rel
  PROVE  Queued(Append(q, e), C, Rel)
<1>1. q \in Seq(C) /\ DOMAIN q = 1..Len(q) /\ Len(q) \in Nat
  BY DEF Queued
<1>2. /\ Append(q, e) \in Seq(C) /\ DOMAIN Append(q, e) = 1..(Len(q) + 1)
      /\ Append(q, e)[Len(q) + 1] = e
      /\ \A i \in 1..Len(q) : Append(q, e)[i] = q[i]
  BY <1>1, AppendProperties
<1>3. ASSUME NEW i \in 1..(Len(q) + 1), NEW j \in 1..(Len(q) + 1), i < j
      PROVE  <<Append(q, e)[i], Append(q, e)[j]>> \in Rel
  <2>1. i \in 1..Len(q)
    BY <1>1, <1>3
  <2>2. CASE j \in 1..Len(q)
    BY <1>1, <1>2, <1>3, <2>1, <2>2 DEF Queued, Lined
  <2>3. CASE j = Len(q) + 1
    BY <1>1, <1>2, <2>1, <2>3
  <2> QED
    BY <1>1, <2>2, <2>3
<1> QED
  BY <1>2, <1>3 DEF Queued, Lined

\* A queue without the event at one place.
LEMMA RemoveLined ==
  ASSUME NEW C, NEW Rel, NEW q, Queued(q, C, Rel), NEW k \in DOMAIN q
  PROVE  /\ Queued(RemoveAt(q, k), C, Rel)
         /\ Len(RemoveAt(q, k)) = Len(q) - 1
         /\ \A j \in 1..(Len(q) - 1) : RemoveAt(q, k)[j] = IF j < k THEN q[j] ELSE q[j + 1]
<1> DEFINE p == RemoveAt(q, k)
           n == Len(q)
<1>1. q \in Seq(C) /\ DOMAIN q = 1..n /\ n \in Nat /\ k \in 1..n
  BY DEF Queued
<1>2. /\ SubSeq(q, 1, k - 1) \in Seq(C) /\ Len(SubSeq(q, 1, k - 1)) = k - 1
      /\ \A j \in 1..(k - 1) : SubSeq(q, 1, k - 1)[j] = q[j]
  BY <1>1
<1>3. /\ SubSeq(q, k + 1, n) \in Seq(C) /\ Len(SubSeq(q, k + 1, n)) = n - k
      /\ \A j \in 1..(n - k) : SubSeq(q, k + 1, n)[j] = q[j + k]
  BY <1>1
<1>4. p = SubSeq(q, 1, k - 1) \o SubSeq(q, k + 1, n)
  BY DEF RemoveAt
<1>5. p \in Seq(C) /\ Len(p) = n - 1
  BY <1>1, <1>2, <1>3, <1>4, ConcatProperties
<1>6. \A j \in 1..(n - 1) : p[j] = IF j < k THEN q[j] ELSE q[j + 1]
  <2> TAKE j \in 1..(n - 1)
  <2>1. CASE j < k
    BY <1>1, <1>2, <1>3, <1>4, <2>1, ConcatProperties
  <2>2. CASE ~(j < k)
    <3>1. j - (k - 1) \in 1..(n - k) /\ ~(j <= k - 1) /\ (j - (k - 1)) + k = j + 1
      BY <1>1, <2>2
    <3>2. j \in 1..(Len(SubSeq(q, 1, k - 1)) + Len(SubSeq(q, k + 1, n)))
      BY <1>1, <1>2, <1>3
    <3> HIDE DEF p
    <3>3. p[j] = SubSeq(q, k + 1, n)[j - Len(SubSeq(q, 1, k - 1))]
      BY <1>1, <1>2, <1>3, <1>4, <3>1, <3>2, ConcatProperties
    <3> QED
      BY <1>2, <1>3, <2>2, <3>1, <3>3
  <2> QED
    BY <2>1, <2>2
<1> HIDE DEF p, n
<1>7. ASSUME NEW i \in 1..(n - 1), NEW j \in 1..(n - 1), i < j
      PROVE  <<p[i], p[j]>> \in Rel
  <2> DEFINE a == IF i < k THEN i ELSE i + 1
             b == IF j < k THEN j ELSE j + 1
  <2>1. a \in 1..n /\ b \in 1..n /\ a < b /\ p[i] = q[a] /\ p[j] = q[b]
    BY <1>1, <1>6, <1>7
  <2> QED
    BY <1>1, <2>1 DEF Queued, Lined
<1>8. DOMAIN p = 1..(n - 1)
  BY <1>5
<1> QED
  BY <1>5, <1>6, <1>7, <1>8 DEF Queued, Lined, p, n

\* The last event of a queue with another joined to it.
LEMMA MergedLastLined ==
  ASSUME NEW C, NEW Rel, Blends(C, Rel), NEW q, Queued(q, C, Rel), NEW e \in C,
         \A i \in DOMAIN q : <<q[i], e>> \in Rel,
         q # <<>>, q[Len(q)].kind = "Output", e.kind = "Output", q[Len(q)].route = e.route
  PROVE  /\ Queued(MergedLast(q, e), C, Rel)
         /\ Len(MergedLast(q, e)) = Len(q)
         /\ MergedLast(q, e)[Len(q)] = Merged(q[Len(q)], e)
         /\ \A i \in 1..(Len(q) - 1) : MergedLast(q, e)[i] = q[i]
<1> DEFINE p == MergedLast(q, e)
           n == Len(q)
<1>1. q \in Seq(C) /\ DOMAIN q = 1..n /\ n \in Nat /\ n \in 1..n /\ q[n] \in C
  BY EmptySeq DEF Queued
<1>2. /\ Merged(q[n], e) \in C
      /\ \A x \in C : <<x, q[n]>> \in Rel /\ <<x, e>> \in Rel => <<x, Merged(q[n], e)>> \in Rel
  BY <1>1, Zenon DEF Blends
<1>3. p = [q EXCEPT ![n] = Merged(q[n], e)]
  BY DEF MergedLast
<1>4. /\ p \in Seq(C) /\ Len(p) = n /\ DOMAIN p = 1..n /\ p[n] = Merged(q[n], e)
      /\ \A i \in 1..(n - 1) : p[i] = q[i]
  BY <1>1, <1>2, <1>3
<1> HIDE DEF p, n
<1>5. ASSUME NEW i \in 1..n, NEW j \in 1..n, i < j PROVE <<p[i], p[j]>> \in Rel
  <2>0. i \in 1..(n - 1)
    BY <1>1, <1>5
  <2>a. i \in DOMAIN q /\ j \in DOMAIN q /\ Lined(q, Rel) /\ \A m \in DOMAIN q : q[m] \in C
    BY <1>1 DEF Queued
  <2>b. <<q[i], q[j]>> \in Rel
    BY <1>5, <2>a DEF Lined
  <2>1. p[i] = q[i] /\ q[i] \in C /\ <<q[i], e>> \in Rel /\ <<q[i], q[j]>> \in Rel
    BY <1>4, <2>0, <2>a, <2>b
  <2>2. CASE j = n
    BY <1>2, <1>4, <2>1, <2>2
  <2>3. CASE j # n
    <3>1. j \in 1..(n - 1)
      BY <1>1, <2>3
    <3> QED
      BY <1>4, <2>1, <3>1
  <2> QED
    BY <2>2, <2>3
<1> QED
  BY <1>4, <1>5 DEF Queued, Lined, p, n

\* What a queue is after an event was offered to it.
LEMMA PushBoundedShape ==
  ASSUME NEW C, NEW q \in Seq(C), NEW e, NEW n, NEW m
  PROVE  \/ PushBounded(q, e, n, m) = q
         \/ Joins(q, e, MaxMerged) /\ PushBounded(q, e, n, m) = MergedLast(q, e)
         \/ PushBounded(q, e, n, m) = Append(q, e)
         \/ \E k \in DOMAIN q : ~Reliable(q[k]) /\ PushBounded(q, e, n, m) = Append(RemoveAt(q, k), e)
<1> DEFINE ordinary == {i \in DOMAIN q : ~Reliable(q[i])}
           oldest   == CHOOSE i \in ordinary : \A j \in ordinary : i <= j
<1>1. ordinary # {} => oldest \in ordinary
  <2>1. ordinary \in SUBSET Nat
    OBVIOUS
  <2> HIDE DEF ordinary
  <2> QED
    BY <2>1, Least
<1>2. \/ PushBounded(q, e, n, m) = q
      \/ Joins(q, e, MaxMerged) /\ PushBounded(q, e, n, m) = MergedLast(q, e)
      \/ PushBounded(q, e, n, m) = Append(q, e)
      \/ ordinary # {} /\ PushBounded(q, e, n, m) = Append(RemoveAt(q, oldest), e)
  BY Zenon DEF PushBounded
<1> HIDE DEF oldest
<1> QED
  BY <1>1, <1>2

\* It keeps its order if the event may come after what is there.
LEMMA PushBoundedLined ==
  ASSUME NEW C, NEW Rel, Blends(C, Rel), NEW q, Queued(q, C, Rel), NEW e \in C,
         \A i \in DOMAIN q : <<q[i], e>> \in Rel, NEW n, NEW m
  PROVE  Queued(PushBounded(q, e, n, m), C, Rel)
<1>1. q \in Seq(C) /\ DOMAIN q = 1..Len(q) /\ Len(q) \in Nat
  BY DEF Queued
<1>2. CASE PushBounded(q, e, n, m) = q
  BY <1>2
<1>3. CASE Joins(q, e, MaxMerged) /\ PushBounded(q, e, n, m) = MergedLast(q, e)
  BY <1>3, MergedLastLined DEF Joins
<1>4. CASE PushBounded(q, e, n, m) = Append(q, e)
  BY <1>4, AppendLined
<1>5. ASSUME NEW k \in DOMAIN q PROVE Queued(Append(RemoveAt(q, k), e), C, Rel)
  <2> DEFINE p == RemoveAt(q, k)
  <2>1. Queued(p, C, Rel) /\ Len(p) = Len(q) - 1
        /\ \A j \in 1..(Len(q) - 1) : p[j] = IF j < k THEN q[j] ELSE q[j + 1]
    BY <1>5, RemoveLined
  <2> HIDE DEF p
  <2>2. \A j \in DOMAIN p : <<p[j], e>> \in Rel
    <3> TAKE j \in DOMAIN p
    <3>1. j \in 1..(Len(q) - 1)
      BY <2>1 DEF Queued
    <3>2. j \in 1..Len(q) /\ j + 1 \in 1..Len(q)
      BY <1>1, <3>1
    <3> QED
      BY <1>1, <2>1, <3>1, <3>2
  <2> QED
    BY <2>1, <2>2, AppendLined DEF p
<1> QED
  BY <1>1, <1>2, <1>3, <1>4, <1>5, PushBoundedShape

\* The same without bounds.
LEMMA PushPreservingLined ==
  ASSUME NEW C, NEW Rel, Blends(C, Rel), NEW q, Queued(q, C, Rel), NEW e \in C,
         \A i \in DOMAIN q : <<q[i], e>> \in Rel
  PROVE  Queued(PushPreserving(q, e), C, Rel)
<1>1. CASE Joins(q, e, MaxMerged)
  BY <1>1, MergedLastLined DEF Joins, PushPreserving
<1>2. CASE ~Joins(q, e, MaxMerged)
  BY <1>2, AppendLined DEF PushPreserving
<1> QED
  BY <1>1, <1>2

\* Events that are pushed one by one.
LEMMA PushedLined ==
  ASSUME NEW R, NEW C \in SUBSET EventsOn(R), NEW Rel, Blends(C, Rel),
         NEW q, Queued(q, C, Rel), NEW es, Queued(es, C, Rel),
         \A i \in DOMAIN q, j \in DOMAIN es : <<q[i], es[j]>> \in Rel
  PROVE  Queued(Pushed(q, es), C, Rel)
<1> DEFINE n == Len(es)
           D(i) == Before(C, {es[m] : m \in (i + 1)..n}, Rel)
           W == [i \in 0..n |-> {v \in Seq(C) : Queued(v, D(i), Rel)}]
<1>1. es \in Seq(C) /\ DOMAIN es = 1..n /\ n \in Nat /\ q \in Seq(C) /\ \A i \in 1..n : es[i] \in C
  BY DEF Queued
<1>2. q \in Seq(EventsOn(R)) /\ es \in Seq(EventsOn(R))
  BY <1>1
<1>3. PICK r : PushTrail(r, Seq(EventsOn(R)), q, es)
  BY <1>2, PushedTrail
<1>4. r[0] = q /\ r[n] = Pushed(q, es)
      /\ \A i \in 1..n : r[i] = PushBounded(r[i - 1], es[i], MaxPending, MaxChunks)
  BY <1>3 DEF PushTrail
<1> HIDE DEF n
<1>5. \A i \in 0..n : D(i) \subseteq C /\ Blends(D(i), Rel)
  <2> TAKE i \in 0..n
  <2>1. {es[m] : m \in (i + 1)..n} \in SUBSET C
    BY <1>1
  <2> QED
    BY <2>1, BlendsBefore DEF Before
<1>6. r[0] \in W[0]
  <2>1. q \in Seq(D(0))
    <3>1. \A i \in DOMAIN q : q[i] \in D(0)
      BY <1>1 DEF Before
    <3> QED
      BY <1>1, <3>1
  <2>2. Queued(q, D(0), Rel)
    BY <2>1 DEF Queued
  <2> QED
    BY <1>1, <1>4, <2>2
<1>7. ASSUME NEW i \in 1..n, r[i - 1] \in W[i - 1] PROVE r[i] \in W[i]
  <2>1. i \in 0..n /\ i - 1 \in 0..n /\ (i - 1) + 1 = i /\ i \in i..n
    BY <1>1
  <2>2. r[i - 1] \in Seq(C) /\ Queued(r[i - 1], D(i - 1), Rel)
    BY <1>7, <2>1
  <2>3. D(i - 1) \subseteq D(i) /\ \A x \in D(i - 1) : <<x, es[i]>> \in Rel
    BY <2>1 DEF Before
  <2>4. Queued(r[i - 1], D(i), Rel)
    <3> HIDE DEF D
    <3> QED
      BY <2>2, <2>3, QueuedMore
  <2>5. \A k \in DOMAIN r[i - 1] : <<r[i - 1][k], es[i]>> \in Rel
    <3>1. r[i - 1] \in Seq(D(i - 1))
      BY <2>2 DEF Queued
    <3> HIDE DEF D
    <3> QED
      BY <2>3, <3>1
  <2>6. es[i] \in D(i)
    BY <1>1, <2>1 DEF Before, Queued, Lined
  <2> HIDE DEF D
  <2>7. Queued(r[i], D(i), Rel)
    BY <1>4, <1>5, <2>1, <2>4, <2>5, <2>6, PushBoundedLined
  <2>8. r[i] \in Seq(C)
    BY <1>5, <2>1, <2>7 DEF Queued
  <2> QED
    BY <2>1, <2>7, <2>8
<1>8. r[n] \in W[n]
  <2> HIDE DEF W
  <2> QED
    BY <1>1, <1>6, <1>7, Along
<1>9. n \in 0..n
  BY <1>1
<1>10. Queued(r[n], D(n), Rel)
  BY <1>8, <1>9
<1> HIDE DEF D
<1> QED
  BY <1>4, <1>5, <1>9, <1>10, QueuedMore

\* The events on some of the routes.
LEMMA KeptLined ==
  ASSUME NEW R, NEW C \in SUBSET EventsOn(R), NEW Rel, Blends(C, Rel),
         NEW q, Queued(q, C, Rel), NEW rs
  PROVE  Queued(Kept(q, rs), C, Rel)
<1> DEFINE n == Len(q)
           D(i) == Before(C, {q[m] : m \in (i + 1)..n}, Rel)
           W == [i \in 0..n |-> {v \in Seq(C) : Queued(v, D(i), Rel)}]
<1>1. q \in Seq(C) /\ DOMAIN q = 1..n /\ n \in Nat /\ \A i \in 1..n : q[i] \in C
  BY DEF Queued
<1>2. q \in Seq(EventsOn(R))
  BY <1>1
<1>3. PICK r : KeepTrail(r, Seq(EventsOn(R \cap rs)), q, rs)
  BY <1>2, KeptTrail
<1>4. r[0] = <<>> /\ r[n] = Kept(q, rs)
      /\ \A i \in 1..n : r[i] = IF q[i].route \in rs THEN PushPreserving(r[i - 1], q[i]) ELSE r[i - 1]
  BY <1>3 DEF KeepTrail
<1> HIDE DEF n
<1>5. \A i \in 0..n : D(i) \subseteq C /\ Blends(D(i), Rel)
  <2> TAKE i \in 0..n
  <2>1. {q[m] : m \in (i + 1)..n} \in SUBSET C
    BY <1>1
  <2> QED
    BY <2>1, BlendsBefore DEF Before
<1>6. r[0] \in W[0]
  <2>1. <<>> \in Seq(C) /\ <<>> \in Seq(D(0)) /\ 0 \in 0..n
    BY <1>1
  <2>2. Queued(<<>>, D(0), Rel)
    BY <2>1 DEF Queued, Lined
  <2> QED
    BY <1>4, <2>1, <2>2
<1>7. ASSUME NEW i \in 1..n, r[i - 1] \in W[i - 1] PROVE r[i] \in W[i]
  <2>1. i \in 0..n /\ i - 1 \in 0..n /\ (i - 1) + 1 = i /\ i \in i..n
    BY <1>1
  <2>2. r[i - 1] \in Seq(C) /\ Queued(r[i - 1], D(i - 1), Rel)
    BY <1>7, <2>1
  <2>3. D(i - 1) \subseteq D(i) /\ \A x \in D(i - 1) : <<x, q[i]>> \in Rel
    BY <2>1 DEF Before
  <2>4. Queued(r[i - 1], D(i), Rel)
    <3> HIDE DEF D
    <3> QED
      BY <2>2, <2>3, QueuedMore
  <2>5. \A k \in DOMAIN r[i - 1] : <<r[i - 1][k], q[i]>> \in Rel
    <3>1. r[i - 1] \in Seq(D(i - 1))
      BY <2>2 DEF Queued
    <3> HIDE DEF D
    <3> QED
      BY <2>3, <3>1
  <2>6. q[i] \in D(i)
    BY <1>1, <2>1 DEF Before, Queued, Lined
  <2> HIDE DEF D
  <2>7. Queued(r[i], D(i), Rel)
    <3>1. Queued(PushPreserving(r[i - 1], q[i]), D(i), Rel)
      BY <1>5, <2>1, <2>4, <2>5, <2>6, PushPreservingLined
    <3> QED
      BY <1>4, <2>4, <3>1
  <2>8. r[i] \in Seq(C)
    BY <1>5, <2>1, <2>7 DEF Queued
  <2> QED
    BY <2>1, <2>7, <2>8
<1>8. r[n] \in W[n]
  <2> HIDE DEF W
  <2> QED
    BY <1>1, <1>6, <1>7, Along
<1>9. n \in 0..n
  BY <1>1
<1>10. Queued(r[n], D(n), Rel)
  BY <1>8, <1>9
<1> HIDE DEF D
<1> QED
  BY <1>4, <1>5, <1>9, <1>10, QueuedMore

-----------------------------------------------------------------------------
(* What the operations of the store change.                                *)

Entombed(st, r) == \E i \in DOMAIN st.tombstones : st.tombstones[i] = r

\* Nothing waits unrouted for a route that is registered or was removed.
Quiet(st) ==
  \A r \in Routes : st.routes[r] # Nobody \/ Entombed(st, r) => st.unrouted[r] = <<>>

\* Forgetting unrouted events.
LEMMA ForgetShape ==
  ASSUME NEW st, WellRouted(st), NEW gone
  PROVE  /\ WellRouted(ForgetUnrouted(st, gone))
         /\ ForgetUnrouted(st, gone).routes = st.routes
         /\ ForgetUnrouted(st, gone).pending = st.pending
         /\ ForgetUnrouted(st, gone).tombstones = st.tombstones
         /\ \A r \in Routes :
              ForgetUnrouted(st, gone).unrouted[r] = IF r \in gone THEN <<>> ELSE st.unrouted[r]
         /\ Quiet(st) => Quiet(ForgetUnrouted(st, gone))
<1> DEFINE fg == ForgetUnrouted(st, gone)
           un == [r \in Routes |-> IF r \in gone THEN <<>> ELSE st.unrouted[r]]
<1>1. fg = [st EXCEPT !.unrouted = un, !.seen = Those(st.seen, Routes \ gone)]
  BY DEF ForgetUnrouted
<1>2. /\ fg.routes = st.routes /\ fg.pending = st.pending /\ fg.tombstones = st.tombstones
      /\ fg.unrouted = un
  BY <1>1 DEF WellRouted, StoreTyped
<1>3. WellRouted(fg)
  BY ForgetKeeps
<1> HIDE DEF fg
<1>4. Quiet(st) => Quiet(fg)
  BY <1>2 DEF Quiet, Entombed
<1> QED
  BY <1>2, <1>3, <1>4 DEF fg

\* Registering a route.
RegisteredAt(st, re, r, w) ==
  /\ re.routes = [st.routes EXCEPT ![r] = w]
  /\ re.pending[w] = Pushed(st.pending[w], st.unrouted[r])
  /\ \A v \in Owners : v # w => re.pending[v] = st.pending[v]
  /\ \A s \in Routes : re.unrouted[s] = IF s = r THEN <<>> ELSE st.unrouted[s]

\* The events that waited for it go to the window.
LEMMA RegisterShape ==
  ASSUME NEW st, WellRouted(st), NEW r \in Terminals, NEW w \in Owners,
         st.routes[r] \in {w, Nobody}
  PROVE  /\ WellRouted(RegisterRoute(st, r, w))
         /\ RegisteredAt(st, RegisterRoute(st, r, w), r, w)
         /\ Quiet(st) => Quiet(RegisterRoute(st, r, w))
<1> DEFINE rs == [st.routes EXCEPT ![r] = w]
           ts == Those(st.tombstones, Routes \ {r})
           pd == [st.pending EXCEPT ![w] = Pushed(st.pending[w], st.unrouted[r])]
           rg == [st EXCEPT !.tombstones = ts, !.routes = rs, !.pending = pd]
           un == [s \in Routes |-> IF s \in {r} THEN <<>> ELSE rg.unrouted[s]]
           re == RegisterRoute(st, r, w)
<1>1. re = ForgetUnrouted(rg, {r})
  BY DEF RegisterRoute, WellRouted, StoreTyped
<1>2. ForgetUnrouted(rg, {r}) = [rg EXCEPT !.unrouted = un, !.seen = Those(rg.seen, Routes \ {r})]
  BY DEF ForgetUnrouted
<1>3. /\ rg.routes = rs /\ rg.pending = pd /\ rg.tombstones = ts /\ rg.unrouted = st.unrouted
      /\ re.routes = rs /\ re.pending = pd /\ re.tombstones = ts /\ re.unrouted = un
  BY <1>1, <1>2 DEF WellRouted, StoreTyped
<1>4. st.pending \in [Owners -> Seq(EventsOn(Terminals))] /\ st.tombstones \in Seq(Routes)
      /\ st.routes \in [Routes -> Owners \cup {Nobody}]
  BY DEF WellRouted, StoreTyped
<1>5. /\ WellRouted(re) /\ re.routes = rs
  BY RegisterKeeps
<1>6. ToSet(ts) \subseteq ToSet(st.tombstones)
  BY <1>4, ThoseKept
<1> HIDE DEF re, rg, ts
<1>7. ASSUME Quiet(st) PROVE Quiet(re)
  <2> SUFFICES ASSUME NEW s \in Routes, s # r, re.routes[s] # Nobody \/ Entombed(re, s)
               PROVE  st.unrouted[s] = <<>>
    BY <1>3 DEF Quiet
  <2>1. Entombed(re, s) => Entombed(st, s)
    BY <1>3, <1>6 DEF Entombed, ToSet
  <2> QED
    BY <1>3, <1>4, <1>7, <2>1 DEF Quiet
<1> HIDE DEF rs
<1>8. RegisteredAt(st, re, r, w)
  BY <1>3, <1>4 DEF RegisteredAt, rs
<1> QED
  BY <1>5, <1>7, <1>8 DEF re

\* The tombstones that stay.
LEMMA TrimmedSome ==
  ASSUME NEW q \in Seq(Routes)
  PROVE  TrimTombstones(q) \in Seq(Routes) /\ ToSet(TrimTombstones(q)) \subseteq ToSet(q)
<1> DEFINE k == IF Len(q) > MaxTombstones THEN Len(q) - MaxTombstones ELSE 0
<1>1. k \in Nat
  BY StoreAssumption
<1>2. TrimTombstones(q) = SubSeq(q, 1 + k, Len(q))
  BY DEF TrimTombstones
<1> HIDE DEF k
<1>3. ToSet(SubSeq(q, 1 + k, Len(q))) \subseteq ToSet(q)
  BY <1>1 DEF ToSet
<1> QED
  BY <1>2, <1>3, TrimmedIn

\* Removing a route.
Unregistered(st, re, r) ==
  /\ re.routes = [st.routes EXCEPT ![r] = Nobody]
  /\ \A o \in Owners : re.pending[o] = Kept(st.pending[o], Routes \ {r})
  /\ \A s \in Routes : re.unrouted[s] = IF s = r THEN <<>> ELSE st.unrouted[s]

\* What is pending for it is dropped everywhere.
LEMMA UnregisterShape ==
  ASSUME NEW st, WellRouted(st), NEW r \in Terminals, NEW w \in Owners
  PROVE  /\ WellRouted(UnregisterRoute(st, r, w))
         /\ st.routes[r] # w => UnregisterRoute(st, r, w) = st
         /\ st.routes[r] = w => Unregistered(st, UnregisterRoute(st, r, w), r)
         /\ Quiet(st) => Quiet(UnregisterRoute(st, r, w))
<1>1. st.routes[r] # w => UnregisterRoute(st, r, w) = st
  BY DEF UnregisterRoute
<1>2. CASE st.routes[r] = w
  <2> DEFINE rs == [st.routes EXCEPT ![r] = Nobody]
             ts == TrimTombstones(Append(Those(st.tombstones, Routes \ {r}), r))
             pd == [o \in Owners |-> Kept(st.pending[o], Routes \ {r})]
             ur == [st EXCEPT !.routes = rs, !.tombstones = ts, !.pending = pd]
             un == [s \in Routes |-> IF s \in {r} THEN <<>> ELSE ur.unrouted[s]]
             re == UnregisterRoute(st, r, w)
  <2>1. re = ForgetUnrouted(ur, {r})
    BY <1>2 DEF UnregisterRoute, WellRouted, StoreTyped
  <2>2. ForgetUnrouted(ur, {r}) = [ur EXCEPT !.unrouted = un, !.seen = Those(ur.seen, Routes \ {r})]
    BY DEF ForgetUnrouted
  <2>3. /\ ur.unrouted = st.unrouted
        /\ re.routes = rs /\ re.pending = pd /\ re.tombstones = ts /\ re.unrouted = un
    BY <2>1, <2>2 DEF WellRouted, StoreTyped
  <2>4. st.tombstones \in Seq(Routes) /\ st.routes \in [Routes -> Owners \cup {Nobody}] /\ r \in Routes
    BY EventsAssumption DEF WellRouted, StoreTyped
  <2>5. WellRouted(re)
    BY UnregisterKeeps
  <2>6. ToSet(ts) \subseteq ToSet(st.tombstones) \cup {r}
    <3> DEFINE old == Those(st.tombstones, Routes \ {r})
    <3>1. old \in Seq(Routes) /\ ToSet(old) \subseteq ToSet(st.tombstones)
      BY <2>4, ThoseKept
    <3> HIDE DEF old
    <3>2. Append(old, r) \in Seq(Routes) /\ ToSet(Append(old, r)) \subseteq ToSet(old) \cup {r}
      BY <2>4, <3>1 DEF ToSet
    <3> QED
      BY <3>1, <3>2, TrimmedSome DEF old
  <2> HIDE DEF re, ur, ts
  <2>7. ASSUME Quiet(st) PROVE Quiet(re)
    <3> SUFFICES ASSUME NEW s \in Routes, s # r, re.routes[s] # Nobody \/ Entombed(re, s)
                 PROVE  st.unrouted[s] = <<>>
      BY <2>3 DEF Quiet
    <3>1. Entombed(re, s) => Entombed(st, s)
      BY <2>3, <2>6 DEF Entombed, ToSet
    <3> QED
      BY <2>3, <2>4, <2>7, <3>1 DEF Quiet
  <2> HIDE DEF rs
  <2>8. Unregistered(st, re, r)
    BY <2>3 DEF Unregistered, rs
  <2> QED
    BY <1>2, <2>5, <2>7, <2>8 DEF re
<1> QED
  BY <1>1, <1>2

\* Handing routes over.
HandedOver(st, mv, rs, v, w) ==
  /\ \A r \in Routes : mv.routes[r] = IF r \in rs THEN w ELSE st.routes[r]
  /\ mv.pending[v] = Kept(st.pending[v], Routes \ rs)
  /\ mv.pending[w] = Pushed(st.pending[w], Kept(st.pending[v], rs))
  /\ \A o \in Owners \ {v, w} : mv.pending[o] = st.pending[o]
  /\ mv.unrouted = st.unrouted

\* What is pending for them goes along.
LEMMA MoveShape ==
  ASSUME NEW st, WellRouted(st), NEW rs \in SUBSET Terminals, NEW v \in Owners,
         NEW w \in Owners, v # w, CanMoveRoutes(st, rs, v)
  PROVE  /\ WellRouted(MoveRoutes(st, rs, v, w))
         /\ HandedOver(st, MoveRoutes(st, rs, v, w), rs, v, w)
         /\ Quiet(st) => Quiet(MoveRoutes(st, rs, v, w))
<1> DEFINE ro == [r \in Routes |-> IF r \in rs THEN w ELSE st.routes[r]]
           left == [st.pending EXCEPT ![v] = Kept(st.pending[v], Routes \ rs)]
           pd == [left EXCEPT ![w] = Pushed(left[w], Kept(st.pending[v], rs))]
           mv == [st EXCEPT !.routes = ro, !.pending = pd]
<1>1. MoveRoutes(st, rs, v, w) = mv
  BY DEF MoveRoutes, WellRouted, StoreTyped
<1>2. mv.routes = ro /\ mv.pending = pd /\ mv.unrouted = st.unrouted /\ mv.tombstones = st.tombstones
  BY DEF WellRouted, StoreTyped
<1>3. /\ st.pending \in [Owners -> Seq(EventsOn(Terminals))]
      /\ st.routes \in [Routes -> Owners \cup {Nobody}] /\ Nobody \notin Owners
      /\ \A r \in rs : st.routes[r] = v
  BY StoreAssumption DEF WellRouted, StoreTyped, CanMoveRoutes
<1> HIDE DEF mv
<1>4. WellRouted(MoveRoutes(st, rs, v, w))
  BY ONLY WellRouted(st), rs \in SUBSET Terminals, v \in Owners, w \in Owners, v # w,
          CanMoveRoutes(st, rs, v), MoveKeeps
<1>5. Quiet(st) => Quiet(mv)
  BY <1>2, <1>3 DEF Quiet, Entombed
<1>6. /\ pd[v] = Kept(st.pending[v], Routes \ rs)
      /\ pd[w] = Pushed(st.pending[w], Kept(st.pending[v], rs))
      /\ \A o \in Owners \ {v, w} : pd[o] = st.pending[o]
  BY <1>3
<1> HIDE DEF pd
<1>7. HandedOver(st, mv, rs, v, w)
  BY <1>2, <1>6 DEF HandedOver
<1> QED
  BY <1>1, <1>4, <1>5, <1>7

\* One event on its way to a window, or to wait for its route.
RoutesTo(st, ro, e, w) ==
  /\ ro.pending[w] = PushBounded(st.pending[w], e, MaxPending, MaxChunks)
  /\ \A o \in Owners : o # w => ro.pending[o] = st.pending[o]
  /\ ro.unrouted = st.unrouted
Unrouted(st, ro, e) ==
  /\ ro.pending = st.pending
  /\ \A s \in Routes : s # e.route => ro.unrouted[s] \in {<<>>, st.unrouted[s]}
  /\ \/ ro.unrouted[e.route] = <<>>
     \/ \E u \in {<<>>, st.unrouted[e.route]} :
          ro.unrouted[e.route] = PushBounded(u, e, MaxUnrouted, MaxChunks)

\* It goes to the owner of its route, or waits unrouted.
LEMMA RoutedShape ==
  ASSUME NEW st, WellRouted(st), Quiet(st), NEW e \in EventsOn(Terminals)
  PROVE  /\ WellRouted(Routed(st, e)) /\ Routed(st, e).routes = st.routes
         /\ st.routes[e.route] # Nobody => RoutesTo(st, Routed(st, e), e, st.routes[e.route])
         /\ st.routes[e.route] = Nobody => Unrouted(st, Routed(st, e), e)
         /\ Quiet(Routed(st, e))
<1> DEFINE w == st.routes[e.route]
           ro == Routed(st, e)
<1>1. e.route \in Terminals /\ e.route \in Routes /\ Nobody \notin Owners
  BY EventsAssumption, StoreAssumption DEF EventsOn
<1>2. st.pending \in [Owners -> Seq(EventsOn(Terminals))] /\ w \in Owners \cup {Nobody}
  BY <1>1 DEF WellRouted, StoreTyped
<1>3. WellRouted(ro) /\ ro.routes = st.routes
  BY RoutedKeeps
<1>4. CASE w # Nobody
  <2> DEFINE pd == [st.pending EXCEPT ![w] = PushBounded(st.pending[w], e, MaxPending, MaxChunks)]
             rt == [st EXCEPT !.pending = pd]
  <2>1. ro = rt
    BY <1>4 DEF Routed, WellRouted, StoreTyped
  <2>2. rt.pending = pd /\ rt.unrouted = st.unrouted /\ rt.tombstones = st.tombstones
    BY DEF WellRouted, StoreTyped
  <2> HIDE DEF rt, ro
  <2>3. Quiet(st) => Quiet(ro)
    BY <1>3, <2>1, <2>2 DEF Quiet, Entombed
  <2>4. /\ pd[w] = PushBounded(st.pending[w], e, MaxPending, MaxChunks)
        /\ \A o \in Owners : o # w => pd[o] = st.pending[o]
    BY <1>2, <1>4
  <2> HIDE DEF pd
  <2>5. RoutesTo(st, ro, e, w)
    BY <2>1, <2>2, <2>4 DEF RoutesTo
  <2> QED
    BY <1>3, <1>4, <2>3, <2>5 DEF ro
<1>5. CASE w = Nobody /\ Entombed(st, e.route)
  <2>1. ro = st
    BY <1>5 DEF Routed, Entombed
  <2>2. Unrouted(st, ro, e)
    BY <1>1, <1>5, <2>1 DEF Unrouted, Quiet
  <2> QED
    BY <1>3, <1>5, <2>1, <2>2
<1>6. CASE w = Nobody /\ ~Entombed(st, e.route)
  <2> DEFINE r == e.route
             known == \E i \in DOMAIN st.seen : st.seen[i] = r
             fewer == IF ~known /\ Len(st.seen) >= MaxUnroutedRoutes THEN EvictOldest(st) ELSE st
             roomy == MakeRoom(fewer, e)
             pu == PushBounded(roomy.unrouted[r], e, MaxUnrouted, MaxChunks)
             un == [roomy.unrouted EXCEPT ![r] = pu]
             sn == Append(Those(roomy.seen, Routes \ {r}), r)
             en == [roomy EXCEPT !.unrouted = un, !.seen = sn]
             Less(a, b) == /\ WellRouted(a) /\ a.routes = b.routes /\ a.pending = b.pending
                           /\ a.tombstones = b.tombstones
                           /\ \A s \in Routes : a.unrouted[s] \in {<<>>, b.unrouted[s]}
                           /\ Quiet(b) => Quiet(a)
  <2>1. ro = EnqueueUnrouted(st, e)
    BY <1>6 DEF Routed, Entombed
  <2>2. EnqueueUnrouted(st, e) = [roomy EXCEPT !.unrouted[r] = PushBounded(@, e, MaxUnrouted, MaxChunks),
                                               !.seen = Append(Those(@, Routes \ {r}), r)]
    BY DEF EnqueueUnrouted
  <2>3. Less(fewer, st)
    <3>1. Less(EvictOldest(st), st)
      BY ForgetShape DEF EvictOldest
    <3> QED
      BY <3>1
  <2> HIDE DEF fewer
  <2>4. Less(roomy, fewer)
    <3> DEFINE enough == {n \in 0..Len(fewer.seen) : HasRoomFor(Pruned(fewer, n), e)} \cup {Len(fewer.seen)}
               n == CHOOSE m \in enough : \A k \in enough : m <= k
    <3>1. roomy = Pruned(fewer, n)
      BY DEF MakeRoom
    <3> HIDE DEF n, roomy
    <3>2. Less(Pruned(fewer, n), fewer)
      BY <2>3, ForgetShape DEF Pruned
    <3> QED
      BY <3>1, <3>2
  <2> HIDE DEF roomy
  <2>5. Less(roomy, st)
    BY <2>3, <2>4
  <2>6. EnqueueUnrouted(st, e) = en
    BY <2>2, <2>5 DEF WellRouted, StoreTyped
  <2>7. /\ en.pending = st.pending /\ en.tombstones = st.tombstones /\ en.routes = st.routes
        /\ en.unrouted[r] = pu
        /\ \A s \in Routes : s # r => en.unrouted[s] = roomy.unrouted[s]
    BY <1>1, <2>5 DEF WellRouted, StoreTyped
  <2>8. roomy.unrouted[r] \in {<<>>, st.unrouted[r]}
    BY <1>1, <2>5
  <2> HIDE DEF en, ro, w
  <2>9. Quiet(st) => Quiet(ro)
    <3> SUFFICES ASSUME Quiet(st), NEW s \in Routes,
                        st.routes[s] # Nobody \/ Entombed(st, s)
                 PROVE  en.unrouted[s] = <<>>
      BY <2>1, <2>6, <2>7 DEF Quiet, Entombed
    <3>1. s # r
      BY <1>6 DEF w
    <3>2. st.unrouted[s] = <<>>
      BY DEF Quiet
    <3> QED
      BY <2>5, <2>7, <3>1, <3>2
  <2>10. \A s \in Routes : s # r => ro.unrouted[s] \in {<<>>, st.unrouted[s]}
    BY <2>1, <2>5, <2>6, <2>7
  <2>11. \E u \in {<<>>, st.unrouted[r]} : ro.unrouted[r] = PushBounded(u, e, MaxUnrouted, MaxChunks)
    BY <2>1, <2>6, <2>7, <2>8
  <2>12. ro.pending = st.pending
    BY <2>1, <2>6, <2>7
  <2>13. Unrouted(st, ro, e)
    BY <2>10, <2>11, <2>12 DEF Unrouted
  <2> QED
    BY <1>3, <1>6, <2>9, <2>13 DEF ro, w
<1> QED
  BY <1>4, <1>5, <1>6

-----------------------------------------------------------------------------
(* The order of events in the store.                                       *)

StoreQueued(st, C, Rel) ==
  /\ \A w \in Owners : Queued(st.pending[w], C, Rel)
  /\ \A r \in Routes : Queued(st.unrouted[r], C, Rel)

\* An event waits in the store.
In(q, x) == \E i \in DOMAIN q : x = q[i]
Waits(st, x) ==
  \/ \E w \in Owners : In(st.pending[w], x)
  \/ \E r \in Routes : In(st.unrouted[r], x)

Fits(C, Rel) == C \in SUBSET EventsOn(Terminals) /\ Blends(C, Rel) /\ RoutesApart(C, Rel)

\* Nothing is always in order.
LEMMA NothingQueued ==
  ASSUME NEW C, NEW Rel
  PROVE  Queued(<<>>, C, Rel)
BY DEF Queued, Lined

\* Forgetting unrouted events keeps it,
LEMMA ForgetQueued ==
  ASSUME NEW st, WellRouted(st), NEW C, NEW Rel, StoreQueued(st, C, Rel), NEW gone
  PROVE  StoreQueued(ForgetUnrouted(st, gone), C, Rel)
<1>1. Queued(<<>>, C, Rel)
  BY NothingQueued
<1> QED
  BY <1>1, ForgetShape DEF StoreQueued

\* registering a route,
LEMMA RegisterQueued ==
  ASSUME NEW st, WellRouted(st), Quiet(st), NEW C, NEW Rel, Fits(C, Rel),
         StoreQueued(st, C, Rel), NEW r \in Terminals, NEW w \in Owners,
         st.routes[r] \in {w, Nobody}
  PROVE  StoreQueued(RegisterRoute(st, r, w), C, Rel)
<1> DEFINE q == st.pending[w]
           u == st.unrouted[r]
<1>1. Queued(<<>>, C, Rel)
  BY NothingQueued
<1>2. r \in Routes /\ Nobody \notin Owners /\ C \in SUBSET EventsOn(Terminals)
      /\ Blends(C, Rel) /\ RoutesApart(C, Rel)
  BY EventsAssumption, StoreAssumption DEF Fits
<1>3. /\ Queued(q, C, Rel) /\ Queued(u, C, Rel)
      /\ q \in Seq(EventsOn(OwnedBy(st, w))) /\ u \in Seq(EventsOn({r} \cap Terminals))
  BY <1>2 DEF StoreQueued, WellRouted
<1>4. \A i \in DOMAIN q, j \in DOMAIN u : <<q[i], u[j]>> \in Rel
  <2>1. CASE st.routes[r] # Nobody
    <3>1. u = <<>>
      BY <1>2, <2>1 DEF Quiet
    <3> QED
      BY <3>1
  <2>2. CASE st.routes[r] = Nobody
    <3> TAKE i \in DOMAIN q, j \in DOMAIN u
    <3>1. q[i] \in EventsOn(OwnedBy(st, w)) /\ u[j] \in EventsOn({r} \cap Terminals)
      BY <1>3
    <3>2. q[i] \in C /\ u[j] \in C
      BY <1>3 DEF Queued
    <3>3. q[i].route # r /\ u[j].route = r
      BY <1>2, <2>2, <3>1 DEF EventsOn, OwnedBy
    <3> HIDE DEF q, u
    <3> QED
      BY <1>2, <3>2, <3>3 DEF RoutesApart
  <2> QED
    BY <2>1, <2>2
<1> HIDE DEF q, u
<1>5. Queued(Pushed(q, u), C, Rel)
  BY <1>2, <1>3, <1>4, PushedLined
<1> DEFINE re == RegisterRoute(st, r, w)
<1> HIDE DEF re
<1>5a. RegisteredAt(st, re, r, w)
  BY RegisterShape DEF re
<1>6. /\ re.pending[w] = Pushed(q, u) /\ \A v \in Owners : v # w => re.pending[v] = st.pending[v]
      /\ \A s \in Routes : re.unrouted[s] = IF s = r THEN <<>> ELSE st.unrouted[s]
  BY <1>5a DEF RegisteredAt, q, u
<1>7. \A v \in Owners : Queued(re.pending[v], C, Rel)
  BY <1>5, <1>6 DEF StoreQueued
<1>8. \A s \in Routes : Queued(re.unrouted[s], C, Rel)
  BY <1>1, <1>6 DEF StoreQueued
<1> QED
  BY <1>7, <1>8 DEF StoreQueued, re

\* removing one,
LEMMA UnregisterQueued ==
  ASSUME NEW st, WellRouted(st), NEW C, NEW Rel, Fits(C, Rel),
         StoreQueued(st, C, Rel), NEW r \in Terminals, NEW w \in Owners
  PROVE  StoreQueued(UnregisterRoute(st, r, w), C, Rel)
<1>1. Queued(<<>>, C, Rel)
  BY NothingQueued
<1>2. \A o \in Owners : Queued(Kept(st.pending[o], Routes \ {r}), C, Rel)
  BY KeptLined DEF StoreQueued, Fits
<1> DEFINE re == UnregisterRoute(st, r, w)
<1>3. /\ st.routes[r] # w => re = st
      /\ st.routes[r] = w => Unregistered(st, re, r)
  BY UnregisterShape
<1> HIDE DEF re
<1>4. CASE st.routes[r] = w
  <2>1. \A o \in Owners : Queued(re.pending[o], C, Rel)
    BY <1>2, <1>3, <1>4 DEF Unregistered
  <2>2. \A s \in Routes : Queued(re.unrouted[s], C, Rel)
    BY <1>1, <1>3, <1>4 DEF StoreQueued, Unregistered
  <2> QED
    BY <2>1, <2>2 DEF StoreQueued, re
<1> QED
  BY <1>3, <1>4 DEF re

\* handing routes over,
LEMMA MoveQueued ==
  ASSUME NEW st, WellRouted(st), NEW C, NEW Rel, Fits(C, Rel), StoreQueued(st, C, Rel),
         NEW rs \in SUBSET Terminals, NEW v \in Owners,
         NEW w \in Owners, v # w, CanMoveRoutes(st, rs, v)
  PROVE  StoreQueued(MoveRoutes(st, rs, v, w), C, Rel)
<1> DEFINE q == st.pending[w]
           moved == Kept(st.pending[v], rs)
<1>1. C \in SUBSET EventsOn(Terminals) /\ Blends(C, Rel) /\ RoutesApart(C, Rel)
      /\ Queued(st.pending[v], C, Rel) /\ Queued(q, C, Rel)
  BY DEF Fits, StoreQueued
<1>2. Queued(moved, C, Rel) /\ Queued(Kept(st.pending[v], Routes \ rs), C, Rel)
  BY <1>1, KeptLined
<1>3. q \in Seq(EventsOn(OwnedBy(st, w)))
  BY DEF WellRouted
<1>4. moved \in Seq(EventsOn(OwnedBy(st, v) \cap rs))
  BY KeptOn DEF WellRouted
<1> HIDE DEF q, moved
<1>5. \A i \in DOMAIN q, j \in DOMAIN moved : <<q[i], moved[j]>> \in Rel
  <2> TAKE i \in DOMAIN q, j \in DOMAIN moved
  <2>1. q[i] \in EventsOn(OwnedBy(st, w)) /\ moved[j] \in EventsOn(OwnedBy(st, v) \cap rs)
    BY <1>3, <1>4
  <2>2. q[i] \in C /\ moved[j] \in C
    BY <1>1, <1>2 DEF Queued
  <2>3. q[i].route # moved[j].route
    BY <2>1 DEF EventsOn, OwnedBy
  <2> QED
    BY <1>1, <2>2, <2>3 DEF RoutesApart
<1>6. Queued(Pushed(q, moved), C, Rel)
  BY <1>1, <1>2, <1>5, PushedLined
<1> DEFINE mv == MoveRoutes(st, rs, v, w)
<1>7. HandedOver(st, mv, rs, v, w)
  BY MoveShape
<1> HIDE DEF mv
<1>8. \A o \in Owners : Queued(mv.pending[o], C, Rel)
  BY <1>2, <1>6, <1>7 DEF StoreQueued, HandedOver, q, moved
<1> QED
  BY <1>7, <1>8 DEF StoreQueued, HandedOver, mv

\* and an event that may come after everything in the store.
LEMMA RoutedQueued ==
  ASSUME NEW st, WellRouted(st), Quiet(st), NEW C, NEW Rel, Fits(C, Rel), StoreQueued(st, C, Rel),
         NEW e \in C, \A x \in C : Waits(st, x) => <<x, e>> \in Rel
  PROVE  StoreQueued(Routed(st, e), C, Rel)
<1>1. C \in SUBSET EventsOn(Terminals) /\ Blends(C, Rel) /\ Queued(<<>>, C, Rel)
  BY NothingQueued DEF Fits
<1>2. e \in EventsOn(Terminals) /\ e.route \in Terminals /\ e.route \in Routes
  BY <1>1, EventsAssumption DEF EventsOn
<1>3. \A w \in Owners : Queued(PushBounded(st.pending[w], e, MaxPending, MaxChunks), C, Rel)
  <2> TAKE w \in Owners
  <2>1. Queued(st.pending[w], C, Rel) /\ \A i \in DOMAIN st.pending[w] : <<st.pending[w][i], e>> \in Rel
    BY DEF StoreQueued, Waits, In, Queued
  <2> QED
    BY <1>1, <2>1, PushBoundedLined
<1>4. \A s \in Routes : \A u \in {<<>>, st.unrouted[s]} :
        Queued(PushBounded(u, e, MaxUnrouted, MaxChunks), C, Rel)
  <2> TAKE s \in Routes
  <2> TAKE u \in {<<>>, st.unrouted[s]}
  <2>1. Queued(u, C, Rel)
    BY <1>1 DEF StoreQueued
  <2>2. \A i \in DOMAIN u : <<u[i], e>> \in Rel
    <3>1. CASE u = <<>>
      BY <3>1
    <3>2. CASE u = st.unrouted[s]
      BY <2>1, <3>2 DEF Waits, In, Queued
    <3> QED
      BY <3>1, <3>2
  <2> QED
    BY <1>1, <2>1, <2>2, PushBoundedLined
<1>5. CASE st.routes[e.route] # Nobody
  <2>1. st.routes[e.route] \in Owners
    BY <1>2, <1>5 DEF WellRouted, StoreTyped
  <2> QED
    BY <1>2, <1>3, <1>5, <2>1, RoutedShape DEF StoreQueued, RoutesTo
<1>6. CASE st.routes[e.route] = Nobody
  <2>1. \A s \in Routes : Queued(Routed(st, e).unrouted[s], C, Rel)
    BY <1>1, <1>2, <1>4, <1>6, RoutedShape DEF StoreQueued, Unrouted
  <2> QED
    BY <1>2, <1>6, <2>1, RoutedShape DEF StoreQueued, Unrouted
<1> QED
  BY <1>5, <1>6


-----------------------------------------------------------------------------
(* What becomes of the reliable events in the store.                       *)

\* In any order.
LEMMA AnyOrder ==
  ASSUME NEW C, NEW q \in Seq(C)
  PROVE  Queued(q, C, C \X C)
<1>1. \A i \in DOMAIN q : q[i] \in C
  OBVIOUS
<1> QED
  BY <1>1 DEF Queued, Lined

\* A reliable event stays when another is offered to its queue,
LEMMA PushBoundedKeeps ==
  ASSUME NEW R, NEW q \in Seq(EventsOn(R)), NEW e, NEW n, NEW m,
         NEW x, In(q, x), Reliable(x)
  PROVE  In(PushBounded(q, e, n, m), x)
<1>1. PICK i \in DOMAIN q : x = q[i]
  BY DEF In
<1>2. DOMAIN q = 1..Len(q) /\ Len(q) \in Nat
  OBVIOUS
<1>3. CASE Joins(q, e, MaxMerged) /\ PushBounded(q, e, n, m) = MergedLast(q, e)
  <2>1. i # Len(q)
    BY <1>1, <1>3 DEF Joins, Reliable
  <2>2. DOMAIN MergedLast(q, e) = DOMAIN q /\ MergedLast(q, e)[i] = q[i]
    BY <1>1, <2>1 DEF MergedLast
  <2> QED
    BY <1>1, <1>3, <2>2 DEF In
<1>4. CASE PushBounded(q, e, n, m) = Append(q, e)
  <2>1. i \in DOMAIN Append(q, e) /\ Append(q, e)[i] = q[i]
    BY <1>1, <1>2
  <2> QED
    BY <1>1, <1>4, <2>1 DEF In
<1>5. ASSUME NEW k \in DOMAIN q, ~Reliable(q[k]) PROVE In(Append(RemoveAt(q, k), e), x)
  <2> DEFINE p == RemoveAt(q, k)
             j == IF i < k THEN i ELSE i - 1
  <2>1. Queued(q, EventsOn(R), EventsOn(R) \X EventsOn(R))
    BY AnyOrder
  <2>2. /\ Queued(p, EventsOn(R), EventsOn(R) \X EventsOn(R)) /\ Len(p) = Len(q) - 1
        /\ \A h \in 1..(Len(q) - 1) : p[h] = IF h < k THEN q[h] ELSE q[h + 1]
    BY <1>5, <2>1, RemoveLined
  <2>3. i # k
    BY <1>1, <1>5
  <2>4. j \in 1..(Len(q) - 1) /\ (IF j < k THEN q[j] ELSE q[j + 1]) = q[i]
    BY <1>1, <1>2, <1>5, <2>3
  <2> HIDE DEF p, j
  <2>5. p \in Seq(EventsOn(R)) /\ p[j] = x
    BY <1>1, <2>2, <2>4 DEF Queued
  <2>6. j \in DOMAIN Append(p, e) /\ Append(p, e)[j] = x
    BY <2>2, <2>4, <2>5
  <2> QED
    BY <2>6 DEF In, p
<1> QED
  BY <1>3, <1>4, <1>5, PushBoundedShape

\* and it is taken itself, unless the queue is full of its like.
LEMMA PushBoundedTakes ==
  ASSUME NEW R, NEW q \in Seq(EventsOn(R)), NEW e \in EventsOn(R), NEW n \in Nat, NEW m,
         Reliable(e), e.chunks = <<>>
  PROVE  \/ In(PushBounded(q, e, n, m), e)
         \/ FullOfReliable(q, n) /\ PushBounded(q, e, n, m) = q
<1> DEFINE ordinary == {i \in DOMAIN q : ~Reliable(q[i])}
           oldest   == CHOOSE i \in ordinary : \A j \in ordinary : i <= j
<1>1. ~Joins(q, e, MaxMerged)
  BY DEF Joins, Reliable
<1>2. /\ Len(q) < n => PushBounded(q, e, n, m) = Append(q, e)
      /\ ~(Len(q) < n) /\ ordinary # {} =>
           PushBounded(q, e, n, m) = Append(RemoveAt(q, oldest), e)
      /\ ~(Len(q) < n) /\ ordinary = {} => PushBounded(q, e, n, m) = q
  <2>1. PushBounded(q, e, n, m) =
          IF Len(q) < n THEN Append(q, e)
          ELSE IF Reliable(e) /\ ordinary # {} THEN Append(RemoveAt(q, oldest), e)
          ELSE q
    <3> HIDE DEF ordinary, oldest
    <3>1. ~(e.chunks # <<>> /\ ChunksOf(q) + Len(e.chunks) > m)
      OBVIOUS
    <3> QED
      BY <1>1, <3>1, SMT DEF PushBounded, ordinary, oldest
  <2> HIDE DEF ordinary, oldest
  <2> QED
    BY <2>1
<1>3. ordinary # {} => oldest \in ordinary
  <2>1. ordinary \in SUBSET Nat
    OBVIOUS
  <2> HIDE DEF ordinary
  <2> QED
    BY <2>1, Least
<1>4. ASSUME NEW p \in Seq(EventsOn(R)) PROVE In(Append(p, e), e)
  <2>1. Len(p) + 1 \in DOMAIN Append(p, e) /\ Append(p, e)[Len(p) + 1] = e
    OBVIOUS
  <2> QED
    BY <2>1 DEF In
<1>5. CASE Len(q) < n
  BY <1>2, <1>4, <1>5
<1>6. CASE ~(Len(q) < n) /\ ordinary # {}
  <2>1. Queued(q, EventsOn(R), EventsOn(R) \X EventsOn(R))
    BY AnyOrder
  <2> HIDE DEF oldest
  <2>2. RemoveAt(q, oldest) \in Seq(EventsOn(R))
    BY <1>3, <1>6, <2>1, RemoveLined DEF Queued
  <2>3. PushBounded(q, e, n, m) = Append(RemoveAt(q, oldest), e)
    BY <1>2, <1>6
  <2> QED
    BY <1>4, <2>2, <2>3
<1>7. CASE ~(Len(q) < n) /\ ordinary = {}
  <2>1. Len(q) >= n /\ \A i \in DOMAIN q : Reliable(q[i])
    BY <1>7
  <2> QED
    BY <1>2, <1>7, <2>1 DEF FullOfReliable
<1> QED
  BY <1>5, <1>6, <1>7

\* A queue that is full of reliable events stays as it is.
LEMMA FullStays ==
  ASSUME NEW R, NEW q \in Seq(EventsOn(R)), NEW e, NEW n \in Nat \ {0}, NEW m,
         FullOfReliable(q, n)
  PROVE  PushBounded(q, e, n, m) = q
<1>1. Len(q) \in DOMAIN q /\ ~(Len(q) < n) /\ \A i \in DOMAIN q : Reliable(q[i])
  BY DEF FullOfReliable
<1>2. ~Joins(q, e, MaxMerged)
  BY <1>1 DEF Joins, Reliable
<1>3. {i \in DOMAIN q : ~Reliable(q[i])} = {}
  BY <1>1
<1> QED
  BY <1>1, <1>2, <1>3, Zenon DEF PushBounded

\* What is pushed one by one is taken as well.
LEMMA PushedKeeps ==
  ASSUME NEW R, NEW q \in Seq(EventsOn(R)), NEW es \in Seq(EventsOn(R)),
         NEW x \in EventsOn(R), Reliable(x),
         In(q, x) \/ (In(es, x) /\ x.chunks = <<>>)
  PROVE  In(Pushed(q, es), x) \/ FullOfReliable(Pushed(q, es), MaxPending)
<1> DEFINE n == Len(es)
           Todo(i) == x.chunks = <<>> /\ \E m \in (i + 1)..n : es[m] = x
           W == [i \in 0..n |-> {v \in Seq(EventsOn(R)) :
                                  In(v, x) \/ FullOfReliable(v, MaxPending) \/ Todo(i)}]
<1>1. DOMAIN es = 1..n /\ n \in Nat /\ MaxPending \in Nat \ {0} /\ 0 \in 0..n /\ n \in 0..n
  BY StoreAssumption
<1>2. PICK r : PushTrail(r, Seq(EventsOn(R)), q, es)
  BY PushedTrail
<1>3. r[0] = q /\ r[n] = Pushed(q, es) /\ r \in [0..n -> Seq(EventsOn(R))]
      /\ \A i \in 1..n : r[i] = PushBounded(r[i - 1], es[i], MaxPending, MaxChunks)
  BY <1>2 DEF PushTrail
<1> HIDE DEF n
<1>4. r[0] \in W[0]
  <2>1. In(q, x) \/ Todo(0)
    BY <1>1 DEF In
  <2> QED
    BY <1>1, <1>3, <2>1
<1>5. ASSUME NEW i \in 1..n, r[i - 1] \in W[i - 1] PROVE r[i] \in W[i]
  <2>1. i \in 0..n /\ i - 1 \in 0..n /\ (i - 1) + 1 = i /\ es[i] \in EventsOn(R)
    BY <1>1
  <2>2. r[i - 1] \in Seq(EventsOn(R)) /\ r[i] \in Seq(EventsOn(R))
        /\ r[i] = PushBounded(r[i - 1], es[i], MaxPending, MaxChunks)
    BY <1>3, <2>1
  <2>3. In(r[i - 1], x) \/ FullOfReliable(r[i - 1], MaxPending) \/ Todo(i - 1)
    BY <1>5, <2>1
  <2>4. CASE In(r[i - 1], x)
    <3>1. In(r[i], x)
      BY <2>2, <2>4, PushBoundedKeeps
    <3> QED
      BY <2>1, <2>2, <3>1
  <2>5. CASE FullOfReliable(r[i - 1], MaxPending)
    <3>1. r[i] = r[i - 1]
      BY <1>1, <2>2, <2>5, FullStays
    <3> QED
      BY <2>1, <2>2, <2>5, <3>1
  <2>6. CASE Todo(i - 1)
    <3>1. PICK m \in i..n : es[m] = x /\ x.chunks = <<>>
      BY <2>1, <2>6
    <3>2. CASE m = i
      <4>1. \/ In(PushBounded(r[i - 1], es[i], MaxPending, MaxChunks), es[i])
            \/ /\ FullOfReliable(r[i - 1], MaxPending)
               /\ PushBounded(r[i - 1], es[i], MaxPending, MaxChunks) = r[i - 1]
        BY <1>1, <2>1, <2>2, <3>1, <3>2, PushBoundedTakes
      <4>2. In(r[i], x) \/ FullOfReliable(r[i], MaxPending)
        BY <2>2, <3>1, <3>2, <4>1
      <4> QED
        BY <2>1, <2>2, <4>2
    <3>3. CASE m # i
      <4>1. m \in (i + 1)..n
        BY <1>1, <3>3
      <4>2. Todo(i)
        BY <3>1, <4>1
      <4> QED
        BY <2>1, <2>2, <4>2
    <3> QED
      BY <3>2, <3>3
  <2> QED
    BY <2>3, <2>4, <2>5, <2>6
<1>6. r[n] \in W[n]
  <2> HIDE DEF W
  <2> QED
    BY <1>1, <1>4, <1>5, Along
<1>7. ~Todo(n)
  BY <1>1
<1> HIDE DEF Todo
<1> QED
  BY <1>1, <1>3, <1>6, <1>7

\* A queue keeps the reliable events of the routes that stay.
LEMMA KeptKeeps ==
  ASSUME NEW R, NEW q \in Seq(EventsOn(R)), NEW rs,
         NEW x, In(q, x), Reliable(x), x.route \in rs
  PROVE  In(Kept(q, rs), x)
<1> DEFINE n == Len(q)
           E == EventsOn(R \cap rs)
           Todo(i) == \E m \in (i + 1)..n : q[m] = x
           W == [i \in 0..n |-> {v \in Seq(E) : In(v, x) \/ Todo(i)}]
<1>1. DOMAIN q = 1..n /\ n \in Nat /\ 0 \in 0..n /\ n \in 0..n
  OBVIOUS
<1>2. PICK r : KeepTrail(r, Seq(E), q, rs)
  BY KeptTrail
<1>3. r[0] = <<>> /\ r[n] = Kept(q, rs) /\ r \in [0..n -> Seq(E)]
      /\ \A i \in 1..n : r[i] = IF q[i].route \in rs THEN PushPreserving(r[i - 1], q[i]) ELSE r[i - 1]
  BY <1>2 DEF KeepTrail
<1> HIDE DEF n, E
<1>4. r[0] \in W[0]
  <2>1. Todo(0)
    BY <1>1 DEF In
  <2> QED
    BY <1>1, <1>3, <2>1
<1>5. ASSUME NEW i \in 1..n, r[i - 1] \in W[i - 1] PROVE r[i] \in W[i]
  <2>1. i \in 0..n /\ i - 1 \in 0..n /\ (i - 1) + 1 = i
    BY <1>1
  <2>2. r[i - 1] \in Seq(E) /\ r[i] \in Seq(E)
        /\ r[i] = IF q[i].route \in rs THEN PushPreserving(r[i - 1], q[i]) ELSE r[i - 1]
    BY <1>3, <2>1
  <2>3. In(r[i - 1], x) \/ Todo(i - 1)
    BY <1>5, <2>1
  <2>4. CASE In(r[i - 1], x)
    <3>1. PICK k \in DOMAIN r[i - 1] : x = r[i - 1][k]
      BY <2>4 DEF In
    <3>2. In(PushPreserving(r[i - 1], q[i]), x)
      <4>1. CASE Joins(r[i - 1], q[i], MaxMerged)
        <5>1. k # Len(r[i - 1])
          BY <3>1, <4>1 DEF Joins, Reliable
        <5>2. DOMAIN MergedLast(r[i - 1], q[i]) = DOMAIN r[i - 1]
              /\ MergedLast(r[i - 1], q[i])[k] = r[i - 1][k]
          BY <3>1, <5>1 DEF MergedLast
        <5> QED
          BY <3>1, <4>1, <5>2 DEF In, PushPreserving
      <4>2. CASE ~Joins(r[i - 1], q[i], MaxMerged)
        <5>1. k \in DOMAIN Append(r[i - 1], q[i]) /\ Append(r[i - 1], q[i])[k] = r[i - 1][k]
          BY <2>2, <3>1
        <5> QED
          BY <3>1, <4>2, <5>1 DEF In, PushPreserving
      <4> QED
        BY <4>1, <4>2
    <3>3. In(r[i], x)
      BY <2>2, <2>4, <3>2
    <3> QED
      BY <2>1, <2>2, <3>3
  <2>5. CASE Todo(i - 1)
    <3>1. PICK m \in i..n : q[m] = x
      BY <2>1, <2>5
    <3>2. CASE m = i
      <4>1. ~Joins(r[i - 1], q[i], MaxMerged)
        BY <3>1, <3>2 DEF Joins, Reliable
      <4>2. r[i] = Append(r[i - 1], x)
        BY <2>2, <3>1, <3>2, <4>1 DEF PushPreserving
      <4>3. Len(r[i - 1]) + 1 \in DOMAIN r[i] /\ r[i][Len(r[i - 1]) + 1] = x
        BY <2>2, <4>2
      <4>4. In(r[i], x)
        BY <4>3 DEF In
      <4> QED
        BY <2>1, <2>2, <4>4
    <3>3. CASE m # i
      <4>1. m \in (i + 1)..n
        BY <1>1, <3>3
      <4>2. Todo(i)
        BY <3>1, <4>1
      <4> QED
        BY <2>1, <2>2, <4>2
    <3> QED
      BY <3>2, <3>3
  <2> QED
    BY <2>3, <2>4, <2>5
<1>6. r[n] \in W[n]
  <2> HIDE DEF W
  <2> QED
    BY <1>1, <1>4, <1>5, Along
<1>7. ~Todo(n)
  BY <1>1
<1> HIDE DEF Todo
<1> QED
  BY <1>1, <1>3, <1>6, <1>7


-----------------------------------------------------------------------------
(* What the store keeps.  The events U are on their way to it.             *)

\* What a connection may have sent that is reliable carries no output.
Sendable == {e \in EventsOn(Terminals) : Reliable(e) => e.chunks = <<>> /\ e.gen \in Gens}

\* The store has nothing of a route, which nobody has registered, but U.
Lone(st, r, U) ==
  /\ st.routes[r] = Nobody
  /\ \A x \in EventsOn(Terminals) : Waits(st, x) /\ x.route = r => x \in U

KeepsReliable(st, to, U) ==
  \A y \in Sendable : Reliable(y) /\ (Waits(st, y) \/ y \in U) =>
    Waits(to, y) \/ Crowded(to) \/ Lone(to, y.route, U)

OnlyThese(st, to, U) ==
  \A y \in EventsOn(Terminals) : Reliable(y) /\ Waits(to, y) => Waits(st, y) \/ y \in U

\* An event waits where its route says.
LEMMA HeldWhere ==
  ASSUME NEW st, WellRouted(st), Quiet(st), NEW x, Waits(st, x)
  PROVE  /\ x \in EventsOn(Terminals) /\ x.route \in Terminals /\ x.route \in Routes
         /\ IF st.routes[x.route] = Nobody THEN In(st.unrouted[x.route], x)
            ELSE st.routes[x.route] \in Owners /\ In(st.pending[st.routes[x.route]], x)
<1>1. ASSUME NEW w \in Owners, In(st.pending[w], x)
      PROVE  x \in EventsOn(Terminals) /\ st.routes[x.route] = w
  <2>1. st.pending[w] \in Seq(EventsOn(OwnedBy(st, w)))
    BY DEF WellRouted
  <2>2. x \in EventsOn(OwnedBy(st, w))
    BY <1>1, <2>1 DEF In
  <2>3. x.route \in OwnedBy(st, w)
    BY <2>2 DEF EventsOn
  <2>4. OwnedBy(st, w) \subseteq Terminals
    BY DEF OwnedBy
  <2>5. x \in EventsOn(Terminals)
    BY <2>2, <2>4, MoreRoutes
  <2> QED
    BY <2>3, <2>5 DEF OwnedBy
<1>2. ASSUME NEW r \in Routes, In(st.unrouted[r], x)
      PROVE  x \in EventsOn(Terminals) /\ x.route = r /\ st.routes[r] = Nobody
  <2>1. st.unrouted[r] \in Seq(EventsOn({r} \cap Terminals))
    BY DEF WellRouted
  <2>2. x \in EventsOn({r} \cap Terminals)
    BY <1>2, <2>1 DEF In
  <2>3. x.route = r
    BY <2>2 DEF EventsOn
  <2>4. {r} \cap Terminals \subseteq Terminals
    OBVIOUS
  <2>5. x \in EventsOn(Terminals)
    BY <2>2, <2>4, MoreRoutes
  <2>6. st.unrouted[r] # <<>>
    BY <1>2 DEF In
  <2> QED
    BY <2>3, <2>5, <2>6 DEF Quiet
<1>3. x \in EventsOn(Terminals)
  BY <1>1, <1>2 DEF Waits
<1>4. x.route \in Terminals /\ x.route \in Routes
  BY <1>3, EventsAssumption DEF EventsOn
<1> QED
  BY <1>1, <1>2, <1>3, <1>4, StoreAssumption DEF Waits

\* The queues of a store that is well routed.
LEMMA QueuesOn ==
  ASSUME NEW st, WellRouted(st)
  PROVE  /\ \A w \in Owners : st.pending[w] \in Seq(EventsOn(Terminals))
         /\ \A r \in Routes : st.unrouted[r] \in Seq(EventsOn(Terminals))
         /\ st.routes \in [Routes -> Owners \cup {Nobody}]
         /\ Terminals \subseteq Routes /\ Nobody \notin Owners
         /\ MaxPending \in Nat \ {0} /\ MaxUnrouted \in Nat \ {0}
BY EventsAssumption, StoreAssumption DEF WellRouted, StoreTyped

\* Nothing new comes with a store whose queues hold but U and what was there.
LEMMA FreshBy ==
  ASSUME NEW st, NEW to, NEW U, NEW C, NEW Rel, StoreQueued(to, C, Rel),
         C = {y \in EventsOn(Terminals) : Reliable(y) => Waits(st, y) \/ y \in U}
  PROVE  OnlyThese(st, to, U)
<1> SUFFICES ASSUME NEW y \in EventsOn(Terminals), Reliable(y), Waits(to, y)
             PROVE  Waits(st, y) \/ y \in U
  BY DEF OnlyThese
<1>1. ASSUME NEW q \in Seq(C), In(q, y) PROVE y \in C
  BY <1>1 DEF In
<1>2. y \in C
  BY <1>1 DEF StoreQueued, Queued, Waits
<1> QED
  BY <1>2

\* These events fit in any order.
LEMMA FreshFits ==
  ASSUME NEW st, WellRouted(st), Quiet(st), NEW U, NEW C,
         C = {y \in EventsOn(Terminals) : Reliable(y) => Waits(st, y) \/ y \in U}
  PROVE  Fits(C, C \X C) /\ StoreQueued(st, C, C \X C)
<1>1. ASSUME NEW a \in C, NEW b \in C, a.kind = "Output" PROVE Merged(a, b) \in C
  <2>1. Merged(a, b) \in EventsOn(Terminals)
    BY MergedOn
  <2>2. Merged(a, b).kind = "Output"
    BY <1>1 DEF Merged, EventsOn
  <2> QED
    BY <2>1, <2>2 DEF Reliable
<1>2. Fits(C, C \X C)
  BY <1>1 DEF Fits, Blends, RoutesApart
<1>3. ASSUME NEW q \in Seq(EventsOn(Terminals)), \A x : In(q, x) => Waits(st, x)
      PROVE  Queued(q, C, C \X C)
  <2>1. \A i \in DOMAIN q : q[i] \in C
    BY <1>3 DEF In
  <2>2. q \in Seq(C)
    BY <2>1
  <2> QED
    BY <2>2, AnyOrder
<1>4. StoreQueued(st, C, C \X C)
  BY <1>3, QueuesOn DEF StoreQueued, Waits
<1> QED
  BY <1>2, <1>4

\* Forgetting unrouted events loses them for routes nobody has registered.
LEMMA ForgetFate ==
  ASSUME NEW st, WellRouted(st), Quiet(st), NEW gone
  PROVE  /\ KeepsReliable(st, ForgetUnrouted(st, gone), {}) /\ OnlyThese(st, ForgetUnrouted(st, gone), {})
         /\ \A y \in Sendable : Waits(st, y) => \/ Waits(ForgetUnrouted(st, gone), y)
                                          \/ Lone(ForgetUnrouted(st, gone), y.route, {})
<1> DEFINE to == ForgetUnrouted(st, gone)
<1>1. /\ WellRouted(to) /\ Quiet(to) /\ to.routes = st.routes /\ to.pending = st.pending
      /\ \A r \in Routes : to.unrouted[r] = IF r \in gone THEN <<>> ELSE st.unrouted[r]
  BY ForgetShape
<1> HIDE DEF to
<1>2. \A y \in Sendable : Waits(st, y) => Waits(to, y) \/ Lone(to, y.route, {})
  <2> SUFFICES ASSUME NEW y \in Sendable, Waits(st, y), ~Waits(to, y)
               PROVE  Lone(to, y.route, {})
    OBVIOUS
  <2>1. /\ y.route \in Routes
        /\ IF st.routes[y.route] = Nobody THEN In(st.unrouted[y.route], y)
           ELSE st.routes[y.route] \in Owners /\ In(st.pending[st.routes[y.route]], y)
    BY HeldWhere
  <2>2. st.routes[y.route] = Nobody /\ to.unrouted[y.route] = <<>>
    BY <1>1, <2>1 DEF Waits
  <2>3. ASSUME NEW x \in EventsOn(Terminals), Waits(to, x), x.route = y.route PROVE FALSE
    <3>1. In(to.unrouted[y.route], x)
      BY <1>1, <2>2, <2>3, HeldWhere
    <3> QED
      BY <2>2, <3>1 DEF In
  <2> QED
    BY <1>1, <2>2, <2>3 DEF Lone
<1>3. OnlyThese(st, to, {})
  BY <1>1 DEF OnlyThese, Waits, In
<1>4. KeepsReliable(st, to, {})
  BY <1>2 DEF KeepsReliable
<1> QED
  BY <1>2, <1>3, <1>4 DEF to

\* Registering a route keeps everything.
LEMMA RegisterFate ==
  ASSUME NEW st, WellRouted(st), Quiet(st), NEW r \in Terminals, NEW w \in Owners,
         st.routes[r] \in {w, Nobody}
  PROVE  KeepsReliable(st, RegisterRoute(st, r, w), {}) /\ OnlyThese(st, RegisterRoute(st, r, w), {})
<1> DEFINE to == RegisterRoute(st, r, w)
<1>1. WellRouted(to) /\ RegisteredAt(st, to, r, w)
  BY RegisterShape
<1>2. OnlyThese(st, to, {})
  <2> DEFINE C == {y \in EventsOn(Terminals) : Reliable(y) => Waits(st, y) \/ y \in {}}
  <2>1. Fits(C, C \X C) /\ StoreQueued(st, C, C \X C)
    <3> HIDE DEF C
    <3> QED
      BY FreshFits DEF C
  <2> HIDE DEF C
  <2>2. StoreQueued(to, C, C \X C)
    BY <2>1, RegisterQueued
  <2> QED
    BY <2>2, FreshBy DEF C
<1> HIDE DEF to
<1>3. KeepsReliable(st, to, {})
  <2> SUFFICES ASSUME NEW y \in Sendable, Reliable(y), Waits(st, y)
               PROVE  Waits(to, y) \/ Crowded(to)
    BY DEF KeepsReliable
  <2>1. y \in EventsOn(Terminals) /\ y.chunks = <<>>
    BY DEF Sendable
  <2>2. /\ y.route \in Routes
        /\ IF st.routes[y.route] = Nobody THEN In(st.unrouted[y.route], y)
           ELSE st.routes[y.route] \in Owners /\ In(st.pending[st.routes[y.route]], y)
    BY HeldWhere
  <2>3. ASSUME In(st.pending[w], y) \/ In(st.unrouted[r], y)
        PROVE  Waits(to, y) \/ Crowded(to)
    <3>1. st.pending[w] \in Seq(EventsOn(Terminals)) /\ st.unrouted[r] \in Seq(EventsOn(Terminals))
      BY QueuesOn
    <3>2. \/ In(Pushed(st.pending[w], st.unrouted[r]), y)
          \/ FullOfReliable(Pushed(st.pending[w], st.unrouted[r]), MaxPending)
      BY <2>1, <2>3, <3>1, PushedKeeps
    <3> QED
      BY <1>1, <3>2 DEF RegisteredAt, Waits, Crowded
  <2>4. CASE st.routes[y.route] = Nobody /\ y.route # r
    BY <1>1, <2>2, <2>4 DEF RegisteredAt, Waits
  <2>5. CASE st.routes[y.route] # Nobody /\ st.routes[y.route] # w
    BY <1>1, <2>2, <2>5 DEF RegisteredAt, Waits
  <2> QED
    BY <2>2, <2>3, <2>4, <2>5
<1> QED
  BY <1>2, <1>3 DEF to

\* Removing one loses what waits for it.
LEMMA UnregisterFate ==
  ASSUME NEW st, WellRouted(st), Quiet(st), NEW r \in Terminals, NEW w \in Owners
  PROVE  KeepsReliable(st, UnregisterRoute(st, r, w), {}) /\ OnlyThese(st, UnregisterRoute(st, r, w), {})
<1> DEFINE to == UnregisterRoute(st, r, w)
<1>1. /\ WellRouted(to) /\ Quiet(to)
      /\ st.routes[r] # w => to = st
      /\ st.routes[r] = w => Unregistered(st, to, r)
  BY UnregisterShape
<1>2. OnlyThese(st, to, {})
  <2> DEFINE C == {y \in EventsOn(Terminals) : Reliable(y) => Waits(st, y) \/ y \in {}}
  <2>1. Fits(C, C \X C) /\ StoreQueued(st, C, C \X C)
    <3> HIDE DEF C
    <3> QED
      BY FreshFits DEF C
  <2> HIDE DEF C
  <2>2. StoreQueued(to, C, C \X C)
    BY <2>1, UnregisterQueued
  <2> QED
    BY <2>2, FreshBy DEF C
<1> HIDE DEF to
<1>3. CASE st.routes[r] # w
  <2>1. KeepsReliable(st, to, {})
    BY <1>1, <1>3 DEF KeepsReliable
  <2> QED
    BY <1>2, <2>1 DEF to
<1>4. CASE st.routes[r] = w
  <2>1. Unregistered(st, to, r)
    BY <1>1, <1>4
  <2> SUFFICES KeepsReliable(st, to, {})
    BY <1>2 DEF to
  <2> SUFFICES ASSUME NEW y \in Sendable, Reliable(y), Waits(st, y), ~Waits(to, y)
               PROVE  Lone(to, y.route, {})
    BY DEF KeepsReliable
  <2>2. /\ y.route \in Routes
        /\ IF st.routes[y.route] = Nobody THEN In(st.unrouted[y.route], y)
           ELSE st.routes[y.route] \in Owners /\ In(st.pending[st.routes[y.route]], y)
    BY HeldWhere
  <2>3. y.route = r
    <3>1. SUFFICES ASSUME y.route # r PROVE FALSE
      OBVIOUS
    <3>2. CASE st.routes[y.route] = Nobody
      BY <2>1, <2>2, <3>1, <3>2 DEF Unregistered, Waits
    <3>3. CASE st.routes[y.route] # Nobody
      <4> DEFINE o == st.routes[y.route]
      <4>1. o \in Owners /\ st.pending[o] \in Seq(EventsOn(Terminals)) /\ In(st.pending[o], y)
        BY <2>2, <3>3, QueuesOn
      <4> HIDE DEF o
      <4>2. In(Kept(st.pending[o], Routes \ {r}), y)
        BY <2>2, <3>1, <4>1, KeptKeeps
      <4> QED
        BY <2>1, <4>1, <4>2 DEF Unregistered, Waits
    <3> QED
      BY <3>2, <3>3
  <2>4. to.routes[r] = Nobody /\ to.unrouted[r] = <<>>
    BY <2>1, <2>2, <2>3, QueuesOn DEF Unregistered
  <2>5. ASSUME NEW x \in EventsOn(Terminals), Waits(to, x), x.route = r PROVE FALSE
    <3>1. In(to.unrouted[r], x)
      BY <1>1, <2>4, <2>5, HeldWhere
    <3> QED
      BY <2>4, <3>1 DEF In
  <2> QED
    BY <2>3, <2>4, <2>5 DEF Lone
<1> QED
  BY <1>3, <1>4

\* Handing routes over keeps everything.
LEMMA MoveFate ==
  ASSUME NEW st, WellRouted(st), Quiet(st), NEW rs \in SUBSET Terminals, NEW v \in Owners,
         NEW w \in Owners, v # w, CanMoveRoutes(st, rs, v)
  PROVE  KeepsReliable(st, MoveRoutes(st, rs, v, w), {}) /\ OnlyThese(st, MoveRoutes(st, rs, v, w), {})
<1> DEFINE to == MoveRoutes(st, rs, v, w)
<1>1. WellRouted(to) /\ HandedOver(st, to, rs, v, w)
  BY MoveShape
<1>2. OnlyThese(st, to, {})
  <2> DEFINE C == {y \in EventsOn(Terminals) : Reliable(y) => Waits(st, y) \/ y \in {}}
  <2>1. Fits(C, C \X C) /\ StoreQueued(st, C, C \X C)
    <3> HIDE DEF C
    <3> QED
      BY FreshFits DEF C
  <2> HIDE DEF C
  <2>2. StoreQueued(to, C, C \X C)
    BY <2>1, MoveQueued
  <2> QED
    BY <2>2, FreshBy DEF C
<1> HIDE DEF to
<1>3. KeepsReliable(st, to, {})
  <2> SUFFICES ASSUME NEW y \in Sendable, Reliable(y), Waits(st, y)
               PROVE  Waits(to, y) \/ Crowded(to)
    BY DEF KeepsReliable
  <2>1. y \in EventsOn(Terminals) /\ y.chunks = <<>>
    BY DEF Sendable
  <2>2. /\ y.route \in Routes
        /\ IF st.routes[y.route] = Nobody THEN In(st.unrouted[y.route], y)
           ELSE st.routes[y.route] \in Owners /\ In(st.pending[st.routes[y.route]], y)
    BY HeldWhere
  <2> DEFINE moved == Kept(st.pending[v], rs)
             stays == Kept(st.pending[v], Routes \ rs)
  <2>3. st.pending[v] \in Seq(EventsOn(Terminals)) /\ st.pending[w] \in Seq(EventsOn(Terminals))
    BY QueuesOn
  <2>4. moved \in Seq(EventsOn(Terminals))
    <3>1. moved \in Seq(EventsOn(Terminals \cap rs)) /\ Terminals \cap rs \subseteq Terminals
      BY <2>3, KeptOn
    <3> HIDE DEF moved
    <3> QED
      BY <3>1, MoreRoutes
  <2>5. In(st.pending[v], y) => IF y.route \in rs THEN In(moved, y) ELSE In(stays, y)
    BY <2>2, <2>3, KeptKeeps
  <2> HIDE DEF moved, stays
  <2>6. ASSUME In(st.pending[w], y) \/ In(moved, y) PROVE Waits(to, y) \/ Crowded(to)
    <3>1. \/ In(Pushed(st.pending[w], moved), y)
          \/ FullOfReliable(Pushed(st.pending[w], moved), MaxPending)
      BY <2>1, <2>3, <2>4, <2>6, PushedKeeps
    <3> QED
      BY <1>1, <3>1 DEF HandedOver, Waits, Crowded, moved
  <2>7. CASE st.routes[y.route] = Nobody
    BY <1>1, <2>2, <2>7 DEF HandedOver, Waits
  <2>8. CASE st.routes[y.route] = v
    <3>1. In(stays, y) => Waits(to, y)
      BY <1>1 DEF HandedOver, Waits, stays
    <3> QED
      BY <2>2, <2>5, <2>6, <2>8, <3>1, QueuesOn
  <2>9. CASE st.routes[y.route] \in Owners \ {v, w}
    BY <1>1, <2>2, <2>9, QueuesOn DEF HandedOver, Waits
  <2> QED
    BY <2>2, <2>6, <2>7, <2>8, <2>9
<1> QED
  BY <1>2, <1>3 DEF to

\* An event that is routed is taken, and drives out no other, unless its route
\* is not registered and nothing else of it is left.
LEMMA RoutedFate ==
  ASSUME NEW st, WellRouted(st), Quiet(st), NEW e \in Sendable
  PROVE  KeepsReliable(st, Routed(st, e), {e}) /\ OnlyThese(st, Routed(st, e), {e})
<1> DEFINE to == Routed(st, e)
           r == e.route
<1>1. e \in EventsOn(Terminals) /\ r \in Terminals /\ r \in Routes
      /\ (Reliable(e) => e.chunks = <<>>)
  BY EventsAssumption DEF Sendable, EventsOn
<1>2. /\ WellRouted(to) /\ Quiet(to) /\ to.routes = st.routes
      /\ st.routes[r] # Nobody => RoutesTo(st, to, e, st.routes[r])
      /\ st.routes[r] = Nobody => Unrouted(st, to, e)
  BY <1>1, RoutedShape
<1>3. OnlyThese(st, to, {e})
  <2> DEFINE C == {y \in EventsOn(Terminals) : Reliable(y) => Waits(st, y) \/ y \in {e}}
  <2>1. Fits(C, C \X C) /\ StoreQueued(st, C, C \X C)
    <3> HIDE DEF C
    <3> QED
      BY FreshFits DEF C
  <2>2. e \in C /\ \A x \in C : <<x, e>> \in C \X C
    BY <1>1
  <2> HIDE DEF C
  <2>3. StoreQueued(to, C, C \X C)
    BY <2>1, <2>2, RoutedQueued
  <2> QED
    BY <2>3, FreshBy DEF C
<1> HIDE DEF to
<1>4. KeepsReliable(st, to, {e})
  <2> SUFFICES ASSUME NEW y \in Sendable, Reliable(y), Waits(st, y) \/ y = e
               PROVE  Waits(to, y) \/ Crowded(to) \/ Lone(to, y.route, {e})
    BY DEF KeepsReliable
  <2>1. Waits(st, y) =>
          /\ y.route \in Routes
          /\ IF st.routes[y.route] = Nobody THEN In(st.unrouted[y.route], y)
             ELSE st.routes[y.route] \in Owners /\ In(st.pending[st.routes[y.route]], y)
    BY HeldWhere
  <2>2. CASE st.routes[r] # Nobody
    <3> DEFINE w == st.routes[r]
               q == st.pending[w]
    <3>1. w \in Owners /\ q \in Seq(EventsOn(Terminals)) /\ MaxPending \in Nat
      BY <1>1, <2>2, QueuesOn
    <3>2. RoutesTo(st, to, e, w)
      BY <1>2, <2>2
    <3> HIDE DEF w, q
    <3>3. In(q, y) => In(PushBounded(q, e, MaxPending, MaxChunks), y)
      BY <3>1, PushBoundedKeeps
    <3>4. y = e => \/ In(PushBounded(q, e, MaxPending, MaxChunks), y)
                   \/ FullOfReliable(PushBounded(q, e, MaxPending, MaxChunks), MaxPending)
      BY <1>1, <3>1, PushBoundedTakes
    <3>5. In(q, y) \/ y = e => Waits(to, y) \/ Crowded(to)
      BY <3>1, <3>2, <3>3, <3>4 DEF RoutesTo, Waits, Crowded, q
    <3>6. CASE Waits(st, y) /\ ~In(q, y)
      BY <2>1, <3>1, <3>2, <3>6 DEF RoutesTo, Waits, q
    <3> QED
      BY <3>5, <3>6
  <2>3. CASE st.routes[r] = Nobody
    <3>1. Unrouted(st, to, e)
      BY <1>2, <2>3
    <3>2. ASSUME NEW s \in Routes, st.routes[s] = Nobody,
                 to.unrouted[s] = <<>> \/ to.unrouted[s] = <<e>>
          PROVE  Lone(to, s, {e})
      <4>1. ASSUME NEW x \in EventsOn(Terminals), Waits(to, x), x.route = s PROVE x \in {e}
        <5>1. In(to.unrouted[s], x)
          BY <1>2, <3>2, <4>1, HeldWhere
        <5> QED
          BY <3>2, <5>1 DEF In
      <4> QED
        BY <1>2, <3>2, <4>1 DEF Lone
    <3>3. CASE Waits(st, y) /\ st.routes[y.route] # Nobody
      BY <2>1, <3>1, <3>3 DEF Unrouted, Waits
    <3>4. CASE Waits(st, y) /\ st.routes[y.route] = Nobody /\ y.route # r
      BY <2>1, <3>1, <3>2, <3>4 DEF Unrouted, Waits
    <3>5. CASE (Waits(st, y) /\ st.routes[y.route] = Nobody /\ y.route = r) \/ y = e
      <4>0. y.route = r /\ (y = e \/ In(st.unrouted[r], y))
        BY <2>1, <3>5
      <4>1. CASE to.unrouted[r] = <<>>
        BY <1>1, <2>3, <3>2, <4>0, <4>1
      <4>2. ASSUME NEW u \in {<<>>, st.unrouted[r]},
                   to.unrouted[r] = PushBounded(u, e, MaxUnrouted, MaxChunks)
            PROVE  Waits(to, y) \/ Crowded(to) \/ Lone(to, y.route, {e})
        <5>1. u \in Seq(EventsOn(Terminals)) /\ MaxUnrouted \in Nat
          <6>1. st.unrouted[r] \in Seq(EventsOn(Terminals)) /\ MaxUnrouted \in Nat
            BY <1>1, QueuesOn
          <6>2. <<>> \in Seq(EventsOn(Terminals))
            OBVIOUS
          <6> QED
            BY <6>1, <6>2
        <5>2. CASE y = e
          <6>1. \/ In(PushBounded(u, e, MaxUnrouted, MaxChunks), y)
                \/ FullOfReliable(PushBounded(u, e, MaxUnrouted, MaxChunks), MaxUnrouted)
            BY <1>1, <5>1, <5>2, PushBoundedTakes
          <6> QED
            BY <1>1, <4>2, <6>1 DEF Waits, Crowded
        <5>3. CASE In(st.unrouted[r], y) /\ u = st.unrouted[r]
          <6>1. In(PushBounded(u, e, MaxUnrouted, MaxChunks), y)
            BY <5>1, <5>3, PushBoundedKeeps
          <6> QED
            BY <1>1, <4>2, <6>1 DEF Waits
        <5>4. CASE u = <<>>
          <6>1. ~Joins(u, e, MaxMerged) /\ DOMAIN u = {} /\ Append(u, e) = <<e>>
            BY <5>4 DEF Joins
          <6>2. \/ PushBounded(u, e, MaxUnrouted, MaxChunks) = u
                \/ Joins(u, e, MaxMerged)
                \/ PushBounded(u, e, MaxUnrouted, MaxChunks) = Append(u, e)
                \/ \E k \in DOMAIN u : TRUE
            BY <5>1, PushBoundedShape
          <6>3. to.unrouted[r] = <<>> \/ to.unrouted[r] = <<e>>
            BY <4>2, <5>4, <6>1, <6>2
          <6> QED
            BY <1>1, <2>3, <3>2, <4>0, <6>3
        <5> QED
          BY <4>0, <5>2, <5>3, <5>4
      <4> QED
        BY <3>1, <4>1, <4>2 DEF Unrouted
    <3> QED
      BY <3>3, <3>4, <3>5
  <2> QED
    BY <2>2, <2>3
<1> QED
  BY <1>3, <1>4 DEF to


-----------------------------------------------------------------------------
(* What becomes of the events of a batch (coalesce_backend_events).        *)

\* A sequence with an element put behind the first k.
LEMMA InsertShape ==
  ASSUME NEW C, NEW es \in Seq(C), NEW e \in C, NEW k \in 0..Len(es)
  PROVE  /\ InsertAt(es, k + 1, e) \in Seq(C) /\ Len(InsertAt(es, k + 1, e)) = Len(es) + 1
         /\ InsertAt(es, k + 1, e)[k + 1] = e
         /\ \A i \in 1..k : InsertAt(es, k + 1, e)[i] = es[i]
         /\ \A i \in (k + 1)..Len(es) : InsertAt(es, k + 1, e)[i + 1] = es[i]
<1> DEFINE n == Len(es)
           a == SubSeq(es, 1, k)
           b == SubSeq(es, k + 1, n)
           p == a \o <<e>>
<1>1. DOMAIN es = 1..n /\ n \in Nat /\ k \in 0..n
  OBVIOUS
<1>2. a \in Seq(C) /\ Len(a) = k /\ \A i \in 1..k : a[i] = es[i]
  BY <1>1
<1>3. b \in Seq(C) /\ Len(b) = n - k /\ \A i \in 1..(n - k) : b[i] = es[i + k]
  <2>1. k + 1 \in 1..(n + 1) /\ \A i \in (k + 1)..n : es[i] \in C
    BY <1>1
  <2>2. b \in Seq(C)
    BY <1>1, <2>1, SubSeqProperties
  <2>3. Len(b) = n - k
    <3>1. Len(b) = IF k + 1 <= n THEN n - (k + 1) + 1 ELSE 0
      BY <1>1, <2>1, SubSeqProperties
    <3> HIDE DEF b, n
    <3> QED
      BY <1>1, <3>1
  <2>4. ASSUME NEW i \in 1..(n - k) PROVE b[i] = es[i + k]
    BY <1>1, <2>1, SubSeqProperties
  <2> QED
    BY <2>2, <2>3, <2>4
<1>4. InsertAt(es, k + 1, e) = p \o b
  <2>1. (k + 1) - 1 = k
    BY <1>1
  <2> QED
    BY <2>1 DEF InsertAt
<1> HIDE DEF a, b, n
<1>5. /\ p \in Seq(C) /\ Len(p) = k + 1 /\ p[k + 1] = e
      /\ \A i \in 1..k : p[i] = a[i]
  BY <1>1, <1>2
<1> HIDE DEF p
<1>6. p \o b \in Seq(C) /\ Len(p \o b) = n + 1
  <2>1. (k + 1) + (n - k) = n + 1
    BY <1>1
  <2>2. p \o b \in Seq(C) /\ Len(p \o b) = Len(p) + Len(b)
    BY ONLY <1>3, <1>5, ConcatProperties
  <2> QED
    BY <1>3, <1>5, <2>1, <2>2
<1>7. ASSUME NEW i \in 1..(k + 1) PROVE (p \o b)[i] = p[i]
  BY <1>1, <1>3, <1>5, <1>7, ConcatProperties
<1>8. ASSUME NEW i \in (k + 1)..n PROVE (p \o b)[i + 1] = es[i]
  <2>1. /\ i + 1 \in 1..(Len(p) + Len(b)) /\ ~(i + 1 <= Len(p)) /\ (i + 1) - Len(p) = i - k
        /\ i - k \in 1..(n - k) /\ (i - k) + k = i
    BY <1>1, <1>3, <1>5
  <2>2. (p \o b)[i + 1] = b[(i + 1) - Len(p)]
    BY <1>3, <1>5, <2>1, ConcatProperties
  <2> QED
    BY <1>3, <2>1, <2>2
<1>9. k + 1 \in 1..(k + 1) /\ \A i \in 1..k : i \in 1..(k + 1)
  BY <1>1
<1> QED
  BY <1>2, <1>4, <1>5, <1>6, <1>7, <1>8, <1>9 DEF n

\* The place of an event that is inserted.
LEMMA InsertedShape ==
  ASSUME NEW R, NEW es \in Seq(EventsOn(R)), NEW e \in EventsOn(R), NEW k,
         k = Cardinality({i \in DOMAIN es : es[i].seq <= e.seq})
  PROVE  /\ k \in 0..Len(es) /\ Len(Inserted(es, e)) = Len(es) + 1
         /\ Inserted(es, e)[k + 1] = e
         /\ \A i \in 1..k : Inserted(es, e)[i] = es[i]
         /\ \A i \in (k + 1)..Len(es) : Inserted(es, e)[i + 1] = es[i]
<1> DEFINE before == {i \in DOMAIN es : es[i].seq <= e.seq}
           n == Len(es)
<1>1. before \subseteq 1..n /\ n \in Nat
  OBVIOUS
<1>2. IsFiniteSet(1..n) /\ Cardinality(1..n) = n
  BY <1>1, FS_Interval
<1> HIDE DEF before
<1>3. Cardinality(before) \in Nat /\ Cardinality(before) <= n
  BY <1>1, <1>2, FS_Subset, FS_CardinalityType
<1>4. k \in 0..n
  BY <1>1, <1>3 DEF before
<1>5. Inserted(es, e) = InsertAt(es, k + 1, e)
  BY DEF Inserted
<1>6. es \in Seq(EventsOn(R)) /\ e \in EventsOn(R)
  OBVIOUS
<1> HIDE DEF n
<1> DEFINE E == EventsOn(R)
<1> HIDE DEF E
<1>7. es \in Seq(E) /\ e \in E /\ k \in 0..Len(es)
  BY <1>4, <1>6 DEF E, n
<1>8. /\ Len(InsertAt(es, k + 1, e)) = Len(es) + 1
      /\ InsertAt(es, k + 1, e)[k + 1] = e
      /\ \A i \in 1..k : InsertAt(es, k + 1, e)[i] = es[i]
      /\ \A i \in (k + 1)..Len(es) : InsertAt(es, k + 1, e)[i + 1] = es[i]
  BY ONLY <1>7, InsertShape
<1> QED
  BY <1>5, <1>7, <1>8

InOrder(q) == \A i, j \in DOMAIN q : i < j => q[i].seq <= q[j].seq

\* Of events in order those up to a number come first.
LEMMA FirstOnes ==
  ASSUME NEW R, NEW es \in Seq(EventsOn(R)), InOrder(es), NEW v \in Nat, NEW k,
         k = Cardinality({i \in DOMAIN es : es[i].seq <= v})
  PROVE  \A i \in DOMAIN es : es[i].seq <= v <=> i <= k
<1> DEFINE n == Len(es)
           before == {i \in DOMAIN es : es[i].seq <= v}
           after == {i \in 1..n : ~(es[i].seq <= v)}
<1>1. DOMAIN es = 1..n /\ n \in Nat /\ \A i \in 1..n : es[i] \in EventsOn(R) /\ es[i].seq \in Nat
  <2>1. \A i \in 1..n : es[i] \in EventsOn(R)
    OBVIOUS
  <2> HIDE DEF n
  <2>2. \A i \in 1..n : es[i].seq \in Nat
    BY <2>1 DEF EventsOn
  <2> QED
    BY <2>1, <2>2 DEF n
<1>2. CASE after = {}
  <2>1. before = 1..n
    BY <1>1, <1>2
  <2>2. Cardinality(1..n) = n
    <3>1. n \in Nat
      BY <1>1
    <3> HIDE DEF n
    <3> QED
      BY <3>1, FS_Interval
  <2>3. k = n
    BY <2>1, <2>2
  <2>4. \A i \in 1..n : es[i].seq <= v /\ i <= n
    BY <1>1, <1>2
  <2> QED
    BY <1>1, <2>3, <2>4
<1>3. CASE after # {}
  <2>1. PICK m \in after : \A j \in after : m <= j
    <3>1. after \in SUBSET Nat
      OBVIOUS
    <3> HIDE DEF after
    <3> QED
      BY <1>3, <3>1, Least
  <2>2. m \in 1..n /\ ~(es[m].seq <= v)
    BY <2>1
  <2>3. ASSUME NEW i \in 1..n PROVE es[i].seq <= v <=> i <= m - 1
    <3>1. CASE i <= m - 1
      <4>1. i \notin after
        BY <2>1, <2>2, <3>1
      <4> QED
        BY <3>1, <4>1
    <3>2. CASE i = m
      BY <2>2, <3>2
    <3>3. CASE m < i
      <4>1. es[m].seq <= es[i].seq
        BY <1>1, <2>2, <3>3 DEF InOrder
      <4>2. es[m].seq \in Nat /\ es[i].seq \in Nat /\ ~(es[m].seq <= v)
        BY <1>1, <2>2
      <4> HIDE DEF after, before, n
      <4>3. ~(es[i].seq <= v)
        BY <4>1, <4>2
      <4> QED
        BY <1>1, <2>2, <3>3, <4>3
    <3> QED
      BY <1>1, <2>2, <3>1, <3>2, <3>3
  <2>4. before = 1..(m - 1)
    <3> HIDE DEF n
    <3> QED
      BY <1>1, <2>2, <2>3
  <2>5. Cardinality(1..(m - 1)) = m - 1
    <3>1. m - 1 \in Nat
      BY <2>2
    <3> QED
      BY <3>1, FS_Interval
  <2> QED
    BY <1>1, <2>3, <2>4, <2>5
<1> QED
  BY <1>2, <1>3

\* It leaves them in order.
LEMMA InsertedInOrder ==
  ASSUME NEW R, NEW es \in Seq(EventsOn(R)), InOrder(es), NEW e \in EventsOn(R)
  PROVE  InOrder(Inserted(es, e))
<1> DEFINE n == Len(es)
           k == Cardinality({i \in DOMAIN es : es[i].seq <= e.seq})
           p == Inserted(es, e)
<1>1. DOMAIN es = 1..n /\ n \in Nat /\ e.seq \in Nat /\ \A i \in 1..n : es[i].seq \in Nat
  <2>1. \A i \in 1..n : es[i] \in EventsOn(R)
    OBVIOUS
  <2> HIDE DEF n
  <2>2. e.seq \in Nat /\ \A i \in 1..n : es[i].seq \in Nat
    BY <2>1 DEF EventsOn
  <2> QED
    BY <2>2 DEF n
<1>2. /\ k \in 0..n /\ Len(p) = n + 1 /\ p[k + 1] = e
      /\ \A i \in 1..k : p[i] = es[i]
      /\ \A i \in (k + 1)..n : p[i + 1] = es[i]
  BY InsertedShape
<1>3. \A i \in DOMAIN es : es[i].seq <= e.seq <=> i <= k
  BY <1>1, FirstOnes
<1>4. DOMAIN p = 1..(n + 1)
  BY <1>2, InsertedOn
<1> HIDE DEF n, k, p
<1> SUFFICES ASSUME NEW i \in 1..(n + 1), NEW j \in 1..(n + 1), i < j
             PROVE  p[i].seq <= p[j].seq
  BY <1>4 DEF InOrder, p
<1>5. CASE j <= k
  <2>1. i \in 1..k /\ j \in 1..k /\ i \in 1..n /\ j \in 1..n
    BY <1>1, <1>2, <1>5
  <2> QED
    BY <1>1, <1>2, <2>1 DEF InOrder
<1>6. CASE j = k + 1
  <2>1. i \in 1..k /\ i \in 1..n
    BY <1>1, <1>2, <1>6
  <2> QED
    BY <1>1, <1>2, <1>3, <1>6, <2>1
<1>7. CASE k + 1 < j
  <2> DEFINE m == j - 1
  <2>1. m \in (k + 1)..n /\ m \in 1..n /\ m + 1 = j /\ p[j] = es[m] /\ ~(m <= k)
    BY <1>1, <1>2, <1>7
  <2>2. CASE i <= k
    <3>1. i \in 1..k /\ i \in 1..n /\ i < m /\ p[i] = es[i]
      BY <1>1, <1>2, <1>7, <2>2
    <3> QED
      BY <1>1, <2>1, <3>1 DEF InOrder
  <2>3. CASE i = k + 1
    <3>1. ~(es[m].seq <= e.seq) /\ es[m].seq \in Nat
      BY <1>1, <1>3, <2>1
    <3> QED
      BY <1>1, <1>2, <2>1, <2>3, <3>1
  <2>4. CASE k + 1 < i
    <3> DEFINE h == i - 1
    <3>1. h \in (k + 1)..n /\ h \in 1..n /\ h + 1 = i /\ p[i] = es[h] /\ h < m
      BY <1>1, <1>2, <2>1, <2>4
    <3> QED
      BY <1>1, <2>1, <3>1 DEF InOrder
  <2> QED
    BY <1>1, <1>2, <2>2, <2>3, <2>4
<1> QED
  BY <1>1, <1>2, <1>5, <1>6, <1>7

\* It holds the event and those that were there.
LEMMA InsertedHolds ==
  ASSUME NEW R, NEW es \in Seq(EventsOn(R)), NEW e \in EventsOn(R), NEW x
  PROVE  In(Inserted(es, e), x) <=> In(es, x) \/ x = e
<1> DEFINE n == Len(es)
           k == Cardinality({i \in DOMAIN es : es[i].seq <= e.seq})
           p == Inserted(es, e)
<1>1. DOMAIN es = 1..n /\ n \in Nat
  OBVIOUS
<1>2. /\ k \in 0..n /\ Len(p) = n + 1 /\ p[k + 1] = e
      /\ \A i \in 1..k : p[i] = es[i]
      /\ \A i \in (k + 1)..n : p[i + 1] = es[i]
  BY InsertedShape
<1>3. DOMAIN p = 1..(n + 1)
  BY <1>2, InsertedOn
<1> HIDE DEF n, k, p
<1>4. ASSUME NEW i \in 1..n PROVE \E j \in 1..(n + 1) : p[j] = es[i]
  <2>1. CASE i <= k
    <3>1. i \in 1..k /\ i \in 1..(n + 1)
      BY <1>1, <1>2, <2>1
    <3> QED
      BY <1>2, <3>1
  <2>2. CASE ~(i <= k)
    <3>1. i \in (k + 1)..n /\ i + 1 \in 1..(n + 1)
      BY <1>1, <1>2, <2>2
    <3> QED
      BY <1>2, <3>1
  <2> QED
    BY <2>1, <2>2
<1>5. ASSUME NEW j \in 1..(n + 1) PROVE p[j] = e \/ \E i \in 1..n : p[j] = es[i]
  <2>1. CASE j <= k
    <3>1. j \in 1..k /\ j \in 1..n
      BY <1>1, <1>2, <2>1
    <3> QED
      BY <1>2, <3>1
  <2>2. CASE j = k + 1
    BY <1>2, <2>2
  <2>3. CASE k + 1 < j
    <3>1. j - 1 \in (k + 1)..n /\ j - 1 \in 1..n /\ (j - 1) + 1 = j
      BY <1>1, <1>2, <2>3
    <3> QED
      BY <1>2, <3>1
  <2> QED
    BY <1>1, <1>2, <2>1, <2>2, <2>3
<1>6. k + 1 \in 1..(n + 1)
  BY <1>1, <1>2
<1> QED
  BY <1>1, <1>2, <1>3, <1>4, <1>5, <1>6 DEF In, p

\* The second pass holds what it is given, in order.
LEMMA SortedHolds ==
  ASSUME NEW R, NEW es \in Seq(EventsOn(R))
  PROVE  /\ InOrder(FoldLeft(Inserted, <<>>, es))
         /\ \A x : In(FoldLeft(Inserted, <<>>, es), x) <=> In(es, x)
<1> DEFINE n == Len(es)
           So(i, v) == /\ InOrder(v)
                       /\ \A x : In(v, x) <=> \E m \in 1..i : es[m] = x
           W == [i \in 0..n |-> {v \in Seq(EventsOn(R)) : So(i, v)}]
<1>1. DOMAIN es = 1..n /\ n \in Nat /\ 0 \in 0..n /\ n \in 0..n
  OBVIOUS
<1>2. PICK r : SortTrail(r, Seq(EventsOn(R)), es)
  BY SortedTrail
<1>3. r[0] = <<>> /\ r[n] = FoldLeft(Inserted, <<>>, es) /\ r \in [0..n -> Seq(EventsOn(R))]
      /\ \A i \in 1..n : r[i] = Inserted(r[i - 1], es[i])
  BY <1>2 DEF SortTrail
<1> HIDE DEF n
<1>4. r[0] \in W[0]
  <2>1. So(0, <<>>)
    BY DEF InOrder, In
  <2> QED
    BY <1>1, <1>3, <2>1
<1>5. ASSUME NEW i \in 1..n, r[i - 1] \in W[i - 1] PROVE r[i] \in W[i]
  <2>1. i \in 0..n /\ i - 1 \in 0..n /\ es[i] \in EventsOn(R)
    BY <1>1
  <2>2. r[i - 1] \in Seq(EventsOn(R)) /\ r[i] \in Seq(EventsOn(R)) /\ r[i] = Inserted(r[i - 1], es[i])
    BY <1>3, <2>1
  <2>3. So(i - 1, r[i - 1])
    BY <1>5, <2>1
  <2>4. InOrder(r[i])
    BY <2>1, <2>2, <2>3, InsertedInOrder
  <2>5. ASSUME NEW x PROVE In(r[i], x) <=> \E m \in 1..i : es[m] = x
    <3>1. In(r[i], x) <=> In(r[i - 1], x) \/ x = es[i]
      BY <2>1, <2>2, InsertedHolds
    <3>2. In(r[i - 1], x) <=> \E m \in 1..(i - 1) : es[m] = x
      BY <2>3
    <3>3. \A m : m \in 1..i <=> m \in 1..(i - 1) \/ m = i
      BY <2>1
    <3> QED
      BY <3>1, <3>2, <3>3
  <2>6. So(i, r[i])
    BY <2>4, <2>5
  <2> HIDE DEF So
  <2> QED
    BY <2>1, <2>2, <2>6
<1>6. r[n] \in W[n]
  <2> HIDE DEF W
  <2> QED
    BY <1>1, <1>4, <1>5, Along
<1>7. So(n, r[n])
  BY <1>1, <1>6
<1> QED
  BY <1>1, <1>3, <1>7 DEF In

\* Output joins or comes last; what is reliable is left alone.
LEMMA JoinOutputHolds ==
  ASSUME NEW R, NEW es \in Seq(EventsOn(R)), NEW e \in EventsOn(R), NEW x, Reliable(x)
  PROVE  In(JoinOutput(es, e), x) <=> In(es, x) \/ x = e
<1> DEFINE barrier == {i \in DOMAIN es : es[i].kind # "Output"}
           same == {i \in DOMAIN es : /\ es[i].kind = "Output" /\ es[i].route = e.route
                                      /\ \A b \in barrier : b < i}
           k == CHOOSE i \in same : TRUE
<1>1. JoinOutput(es, e) = IF e.kind = "Output" /\ same # {}
                          THEN [es EXCEPT ![k] = Merged(@, e)] ELSE Append(es, e)
  BY DEF JoinOutput
<1>2. same # {} => k \in DOMAIN es /\ es[k].kind = "Output"
  OBVIOUS
<1> HIDE DEF same, k
<1>3. CASE e.kind = "Output" /\ same # {}
  <2>1. k \in DOMAIN es /\ es[k] \in EventsOn(R) /\ es[k].kind = "Output"
    BY <1>2, <1>3
  <2>2. Merged(es[k], e).kind = "Output"
    BY <2>1 DEF Merged, EventsOn
  <2>3. /\ DOMAIN JoinOutput(es, e) = DOMAIN es
        /\ JoinOutput(es, e)[k] = Merged(es[k], e)
        /\ \A i \in DOMAIN es : i # k => JoinOutput(es, e)[i] = es[i]
    BY <1>1, <1>3, <2>1
  <2> QED
    BY <1>3, <2>1, <2>2, <2>3 DEF In, Reliable
<1>4. CASE ~(e.kind = "Output" /\ same # {})
  <2>1. JoinOutput(es, e) = Append(es, e)
    BY <1>1, <1>4
  <2>2. /\ DOMAIN es = 1..Len(es) /\ DOMAIN Append(es, e) = 1..(Len(es) + 1) /\ Len(es) \in Nat
        /\ Append(es, e)[Len(es) + 1] = e
        /\ \A i \in 1..Len(es) : Append(es, e)[i] = es[i]
    OBVIOUS
  <2>3. \A i : i \in 1..(Len(es) + 1) <=> i \in 1..Len(es) \/ i = Len(es) + 1
    BY <2>2
  <2> QED
    BY <2>1, <2>2, <2>3 DEF In
<1> QED
  BY <1>3, <1>4

\* The first pass.
LEMMA OutputJoinedHolds ==
  ASSUME NEW R, NEW es \in Seq(EventsOn(R)), NEW x, Reliable(x)
  PROVE  In(FoldLeft(JoinOutput, <<>>, es), x) <=> In(es, x)
<1> DEFINE n == Len(es)
           So(i, v) == In(v, x) <=> \E m \in 1..i : es[m] = x
           W == [i \in 0..n |-> {v \in Seq(EventsOn(R)) : So(i, v)}]
<1>1. DOMAIN es = 1..n /\ n \in Nat /\ 0 \in 0..n /\ n \in 0..n
  OBVIOUS
<1>2. PICK r : JoinTrail(r, Seq(EventsOn(R)), es)
  BY OutputTrail
<1>3. r[0] = <<>> /\ r[n] = FoldLeft(JoinOutput, <<>>, es) /\ r \in [0..n -> Seq(EventsOn(R))]
      /\ \A i \in 1..n : r[i] = JoinOutput(r[i - 1], es[i])
  BY <1>2 DEF JoinTrail
<1> HIDE DEF n
<1>4. r[0] \in W[0]
  <2>1. So(0, <<>>)
    BY DEF In
  <2> QED
    BY <1>1, <1>3, <2>1
<1>5. ASSUME NEW i \in 1..n, r[i - 1] \in W[i - 1] PROVE r[i] \in W[i]
  <2>1. i \in 0..n /\ i - 1 \in 0..n /\ es[i] \in EventsOn(R)
    BY <1>1
  <2>2. r[i - 1] \in Seq(EventsOn(R)) /\ r[i] \in Seq(EventsOn(R)) /\ r[i] = JoinOutput(r[i - 1], es[i])
    BY <1>3, <2>1
  <2>3. So(i - 1, r[i - 1])
    BY <1>5, <2>1
  <2>4. In(r[i], x) <=> In(r[i - 1], x) \/ x = es[i]
    BY <2>1, <2>2, JoinOutputHolds
  <2>5. \A m : m \in 1..i <=> m \in 1..(i - 1) \/ m = i
    BY <2>1
  <2>6. So(i, r[i])
    BY <2>3, <2>4, <2>5
  <2> HIDE DEF So
  <2> QED
    BY <2>1, <2>2, <2>6
<1>6. r[n] \in W[n]
  <2> HIDE DEF W
  <2> QED
    BY <1>1, <1>4, <1>5, Along
<1>7. So(n, r[n])
  BY <1>1, <1>6
<1> QED
  BY <1>1, <1>3, <1>7 DEF In

\* A batch is in order, and it has the reliable events it is made of.
LEMMA CoalescedHolds ==
  ASSUME NEW R, NEW es \in Seq(EventsOn(R))
  PROVE  /\ InOrder(CoalesceEvents(es))
         /\ \A x : Reliable(x) => (In(CoalesceEvents(es), x) <=> In(es, x))
<1> DEFINE out == FoldLeft(JoinOutput, <<>>, es)
<1>1. out \in Seq(EventsOn(R)) /\ \A x : Reliable(x) => (In(out, x) <=> In(es, x))
  BY OutputJoinedOn, OutputJoinedHolds
<1>2. CoalesceEvents(es) = FoldLeft(Inserted, <<>>, out)
  BY DEF CoalesceEvents
<1> HIDE DEF out
<1> QED
  BY <1>1, <1>2, SortedHolds


-----------------------------------------------------------------------------
(* Queues that are taken apart.                                            *)

\* A queue without its first event.
LEMMA HeadQueued ==
  ASSUME NEW C, NEW Rel, NEW q, Queued(q, C, Rel), q # <<>>
  PROVE  /\ Head(q) \in C /\ Queued(Tail(q), C, Rel)
         /\ \A x : In(q, x) <=> x = Head(q) \/ In(Tail(q), x)
         /\ \A x : In(Tail(q), x) => <<Head(q), x>> \in Rel
<1> DEFINE n == Len(q)
           t == Tail(q)
<1>1. q \in Seq(C) /\ DOMAIN q = 1..n /\ n \in Nat /\ 1 \in 1..n /\ Head(q) = q[1] /\ q[1] \in C
  BY EmptySeq DEF Queued
<1>2. t \in Seq(C) /\ Len(t) = n - 1 /\ \A i \in 1..(n - 1) : t[i] = q[i + 1]
  BY <1>1, HeadTailProperties
<1> HIDE DEF t, n
<1>3. DOMAIN t = 1..(n - 1)
  BY <1>2
<1>4. \A i, j \in 1..n : i < j => <<q[i], q[j]>> \in Rel
  BY <1>1 DEF Queued, Lined
<1>5. \A i \in 1..(n - 1) : i + 1 \in 1..n /\ 1 < i + 1
  BY <1>1
<1>6. Lined(t, Rel)
  <2> SUFFICES ASSUME NEW i \in 1..(n - 1), NEW j \in 1..(n - 1), i < j
               PROVE  <<t[i], t[j]>> \in Rel
    BY <1>3 DEF Lined
  <2>1. i + 1 < j + 1
    BY <1>1
  <2> QED
    BY <1>2, <1>4, <1>5, <2>1
<1>7. ASSUME NEW x PROVE In(q, x) <=> x = Head(q) \/ In(t, x)
  <2>1. ASSUME NEW i \in 1..n, i # 1 PROVE i - 1 \in 1..(n - 1) /\ q[i] = t[i - 1]
    <3>1. i - 1 \in 1..(n - 1) /\ (i - 1) + 1 = i
      BY <1>1, <2>1
    <3> QED
      BY <1>2, <3>1
  <2> QED
    BY <1>1, <1>2, <1>3, <1>5, <2>1 DEF In
<1>8. \A x : In(t, x) => <<Head(q), x>> \in Rel
  BY <1>1, <1>2, <1>3, <1>4, <1>5 DEF In
<1> QED
  BY <1>1, <1>2, <1>6, <1>7, <1>8 DEF Queued, t

\* The first of the events that come after one.
LEMMA HeadJoined ==
  ASSUME NEW C, NEW c \in C, NEW s \in Seq(C)
  PROVE  /\ <<c>> \o s \in Seq(C) /\ <<c>> \o s # <<>>
         /\ Head(<<c>> \o s) = c /\ Tail(<<c>> \o s) = s
<1> DEFINE one == <<c>>
           q == one \o s
<1>1. one \in Seq(C) /\ Len(one) = 1 /\ one[1] = c
  OBVIOUS
<1>2. Len(s) \in Nat
  OBVIOUS
<1> HIDE DEF one
<1>3. /\ q \in Seq(C) /\ Len(q) = 1 + Len(s)
      /\ \A i \in 1..(1 + Len(s)) : q[i] = IF i <= 1 THEN one[i] ELSE s[i - 1]
  BY <1>1, ConcatProperties
<1> HIDE DEF q
<1>4. q # <<>> /\ q[1] = c
  BY <1>1, <1>2, <1>3
<1>5. /\ Tail(q) \in Seq(C) /\ Len(Tail(q)) = Len(s)
      /\ \A i \in 1..Len(Tail(q)) : Tail(q)[i] = q[i + 1]
  BY <1>2, <1>3, <1>4, HeadTailProperties
<1>6. ASSUME NEW i \in 1..Len(Tail(q)) PROVE Tail(q)[i] = s[i]
  <2>1. i + 1 \in 1..(1 + Len(s)) /\ ~(i + 1 <= 1) /\ (i + 1) - 1 = i
    BY <1>2, <1>5
  <2> QED
    BY <1>3, <1>5, <2>1
<1>7. Tail(q) = s
  BY <1>5, <1>6, SeqEqual
<1> QED
  BY <1>3, <1>4, <1>7 DEF q, one

\* A queue in two.
LEMMA SplitQueued ==
  ASSUME NEW C, NEW Rel, NEW q, Queued(q, C, Rel), NEW k \in 0..Len(q)
  PROVE  /\ SubSeq(q, 1, k) \in Seq(C) /\ Queued(SubSeq(q, k + 1, Len(q)), C, Rel)
         /\ \A x : In(q, x) <=> In(SubSeq(q, 1, k), x) \/ In(SubSeq(q, k + 1, Len(q)), x)
         /\ \A x, y : In(SubSeq(q, 1, k), x) /\ In(SubSeq(q, k + 1, Len(q)), y) => <<x, y>> \in Rel
<1> DEFINE n == Len(q)
           a == SubSeq(q, 1, k)
           b == SubSeq(q, k + 1, n)
<1>1. q \in Seq(C) /\ DOMAIN q = 1..n /\ n \in Nat /\ k \in 0..n /\ k \in Int /\ n \in Int
      /\ \A i \in 1..n : q[i] \in C
  BY DEF Queued
<1>2. a \in Seq(C) /\ Len(a) = k /\ \A i \in 1..k : a[i] = q[i]
  BY <1>1
<1>3. b \in Seq(C) /\ Len(b) = n - k /\ \A i \in 1..(n - k) : b[i] = q[i + k]
  <2>1. k + 1 \in 1..(n + 1) /\ \A i \in (k + 1)..n : q[i] \in C
    BY <1>1
  <2>2. b \in Seq(C)
    BY <1>1, <2>1, SubSeqProperties
  <2>3. Len(b) = n - k
    <3>1. Len(b) = IF k + 1 <= n THEN n - (k + 1) + 1 ELSE 0
      BY <1>1, <2>1, SubSeqProperties
    <3> HIDE DEF b, n
    <3> QED
      BY <1>1, <3>1
  <2>4. ASSUME NEW i \in 1..(n - k) PROVE b[i] = q[i + k]
    BY <1>1, <2>1, SubSeqProperties
  <2> QED
    BY <2>2, <2>3, <2>4
<1> HIDE DEF a, b, n
<1>4. DOMAIN a = 1..k /\ DOMAIN b = 1..(n - k)
  BY <1>2, <1>3
<1>5. \A i, j \in 1..n : i < j => <<q[i], q[j]>> \in Rel
  BY <1>1 DEF Queued, Lined
<1>6. \A i \in 1..(n - k) : i + k \in 1..n
  BY <1>1
<1>7. Lined(b, Rel)
  <2> SUFFICES ASSUME NEW i \in 1..(n - k), NEW j \in 1..(n - k), i < j
               PROVE  <<b[i], b[j]>> \in Rel
    BY <1>4 DEF Lined
  <2>1. i + k < j + k
    BY <1>1
  <2> QED
    BY <1>3, <1>5, <1>6, <2>1
<1>8. ASSUME NEW x PROVE In(q, x) <=> In(a, x) \/ In(b, x)
  <2>1. ASSUME NEW i \in 1..n PROVE i \in 1..k \/ (i - k \in 1..(n - k) /\ (i - k) + k = i)
    BY <1>1
  <2>2. \A i \in 1..k : i \in 1..n
    BY <1>1
  <2>3. ASSUME In(q, x) PROVE In(a, x) \/ In(b, x)
    <3>1. PICK i \in 1..n : x = q[i]
      BY <1>1, <2>3 DEF In
    <3>2. CASE i \in 1..k
      BY <1>2, <1>4, <3>1, <3>2 DEF In
    <3>3. CASE i - k \in 1..(n - k) /\ (i - k) + k = i
      <4>1. b[i - k] = x
        BY <1>3, <3>1, <3>3
      <4> QED
        BY <1>4, <3>3, <4>1 DEF In
    <3> QED
      BY <2>1, <3>2, <3>3
  <2>4. In(a, x) => In(q, x)
    BY <1>1, <1>2, <1>4, <2>2 DEF In
  <2>5. In(b, x) => In(q, x)
    BY <1>1, <1>3, <1>4, <1>6 DEF In
  <2> QED
    BY <2>3, <2>4, <2>5
<1>9. ASSUME NEW x, NEW y, In(a, x), In(b, y) PROVE <<x, y>> \in Rel
  <2>1. PICK i \in 1..k : x = q[i]
    BY <1>2, <1>4, <1>9 DEF In
  <2>2. PICK j \in 1..(n - k) : y = q[j + k]
    BY <1>3, <1>4, <1>9 DEF In
  <2>3. i \in 1..n /\ j + k \in 1..n /\ i < j + k
    BY <1>1
  <2> QED
    BY <1>5, <2>1, <2>2, <2>3
<1> QED
  BY <1>2, <1>3, <1>7, <1>8, <1>9 DEF Queued, a, b, n


-----------------------------------------------------------------------------
(* The end of a connection.  `Coming` are the reliable events on their way *)
(* out of the channel, in order.  Wherever events wait, the end of a       *)
(* connection never waits before its beginning, which would revive the     *)
(* tab; and while the tab of a connection that ended does not show it, or  *)
(* may still be revived, the end is under way.                             *)

Coming == pendingLifecycle \o lifecycle \o (IF blocked = None THEN <<>> ELSE <<blocked>>)
Around(x) == Waits(store, x) \/ In(Coming, x) \/ In(batch, x)

IsOpen(e) == e.kind = "Connected"
IsEnd(e)  == e.kind \in {"Closed", "Exited"}
OfOne(a, b) == a.route = b.route /\ a.gen = b.gen
Revives(a, b) == IsEnd(a) /\ IsOpen(b) /\ OfOne(a, b)
NoRevival == {p \in Sendable \X Sendable : ~Revives(p[1], p[2])}

Plain == {e \in EventsOn(Terminals) : ~Reliable(e)}
Carried ==
  /\ Len(pendingLifecycle) <= 1
  /\ outputs \in Seq(Plain) /\ control \in Seq(Plain) /\ pendingControl \in Seq(Plain)

ConnsTyped ==
  /\ conns \in [Terminals -> [Gens -> {"none", "starting", "up", "done"}]]
  /\ \A t \in Terminals : gen[t] \in 0..MaxGen
  /\ \A t \in Terminals, g \in Gens : g > gen[t] => conns[t][g] = "none"

Ordered ==
  /\ Queued(Coming, Sendable, NoRevival)
  /\ StoreQueued(store, Sendable, NoRevival)
  /\ Queued(batch, Sendable, NoRevival)
  /\ \A x, y \in Sendable : Waits(store, x) /\ In(Coming, y) => ~Revives(x, y)
  /\ \A x, y \in Sendable : In(batch, x) /\ (Waits(store, y) \/ In(Coming, y)) => ~Revives(x, y)

Known ==
  /\ \A x \in Sendable : Reliable(x) /\ Around(x) =>
       /\ x.seq < sequence
       /\ IsOpen(x) => conns[x.route][x.gen] \in {"up", "done"}
       /\ IsEnd(x) => conns[x.route][x.gen] = "done"
  /\ \A x, y \in Sendable :
       Around(x) /\ Around(y) /\ IsOpen(x) /\ IsEnd(y) /\ OfOne(x, y) => x.seq < y.seq

Noticed(t) == home[t] = Nobody \/ link[t] = "down"
Ended(t) == gen[t] # 0 /\ conns[t][gen[t]] = "done"
OpenAround(t) == \E o \in Sendable : Around(o) /\ IsOpen(o) /\ o.route = t /\ o.gen = gen[t]
EndAround(t)  == \E y \in Sendable : Around(y) /\ IsEnd(y) /\ y.route = t /\ y.gen = gen[t]
EndsTold ==
  \A t \in Terminals :
    Ended(t) /\ ~crowded /\ (~Noticed(t) \/ OpenAround(t)) => EndAround(t)

EndsKept == Quiet(store) /\ Carried /\ ConnsTyped /\ Ordered /\ Known /\ EndsTold
ClIInv == EvIInv /\ EndsKept

\* Events may come in this order if they join or are of several tabs.
LEMMA SentFits == Fits(Sendable, NoRevival)
<1>1. Sendable \in SUBSET EventsOn(Terminals)
  BY DEF Sendable
<1>2. ASSUME NEW a \in Sendable, NEW b \in Sendable, a.kind = "Output", b.kind = "Output", a.route = b.route
      PROVE  /\ Merged(a, b) \in Sendable
             /\ \A x \in Sendable : <<x, a>> \in NoRevival /\ <<x, b>> \in NoRevival
                                 => <<x, Merged(a, b)>> \in NoRevival
             /\ \A x \in Sendable : <<a, x>> \in NoRevival /\ <<b, x>> \in NoRevival
                                 => <<Merged(a, b), x>> \in NoRevival
  <2>1. Merged(a, b) \in EventsOn(Terminals)
    BY <1>1, MergedOn
  <2>2. Merged(a, b).kind = "Output"
    BY <1>1, <1>2 DEF Merged, EventsOn
  <2>3. Merged(a, b) \in Sendable
    BY <2>1, <2>2 DEF Sendable, Reliable
  <2>4. \A x \in Sendable : ~Revives(x, Merged(a, b)) /\ ~Revives(Merged(a, b), x)
    BY <2>2 DEF Revives, IsOpen, IsEnd
  <2> QED
    BY <2>3, <2>4 DEF NoRevival
<1>3. \A a, b \in Sendable : a.route # b.route => <<a, b>> \in NoRevival
  BY DEF NoRevival, Revives, OfOne
<1> QED
  BY <1>1, <1>2, <1>3 DEF Fits, Blends, RoutesApart

\* Only the end of a connection revives.
LEMMA RevivesReliable ==
  ASSUME NEW x, NEW y, Revives(x, y)
  PROVE  Reliable(x) /\ Reliable(y)
BY DEF Revives, IsOpen, IsEnd, Reliable

\* Of the parts of an event that was sent.
LEMMA SentOf ==
  ASSUME NEW x \in Sendable
  PROVE  /\ x.route \in Terminals /\ x.seq \in Nat /\ x \in EventsOn(Terminals)
         /\ Reliable(x) => x.gen \in Gens /\ x.chunks = <<>>
BY DEF Sendable, EventsOn

\* The order stays if nothing reliable comes to another place.
LEMMA OrderedStays ==
  ASSUME Ordered,
         StoreQueued(store', Sendable, NoRevival), Queued(Coming', Sendable, NoRevival),
         Queued(batch', Sendable, NoRevival),
         \A x \in Sendable : Reliable(x) =>
           /\ Waits(store', x) => Waits(store, x)
           /\ In(Coming', x) => In(Coming, x)
           /\ In(batch', x) => In(batch, x)
  PROVE  Ordered'
BY RevivesReliable DEF Ordered

\* What is known of events stays true while no new one comes.
Older ==
  /\ sequence' \in {sequence, sequence + 1}
  /\ \A t \in Terminals, g \in Gens :
       conns[t][g] \in {"up", "done"} => conns'[t][g] = conns[t][g]
\* They are not sent anew.
LEMMA KnownStays ==
  ASSUME Known, Older, sequence \in Nat, \A x \in Sendable : Reliable(x) /\ Around(x)' => Around(x)
  PROVE  Known'
<1>1. ASSUME NEW x \in Sendable, Reliable(x), Around(x)'
      PROVE  /\ x.seq < sequence'
             /\ IsOpen(x) => conns'[x.route][x.gen] \in {"up", "done"}
             /\ IsEnd(x) => conns'[x.route][x.gen] = "done"
  <2>1. x.route \in Terminals /\ x.gen \in Gens
    BY <1>1, SentOf
  <2>2. /\ x.seq < sequence
        /\ IsOpen(x) => conns[x.route][x.gen] \in {"up", "done"}
        /\ IsEnd(x) => conns[x.route][x.gen] = "done"
    BY <1>1 DEF Known
  <2>3. x.seq < sequence'
    BY <2>2, SentOf DEF Older
  <2> QED
    BY <2>1, <2>2, <2>3 DEF Older
<1>2. ASSUME NEW x \in Sendable, NEW y \in Sendable, Around(x)', Around(y)', IsOpen(x), IsEnd(y), OfOne(x, y)
      PROVE  x.seq < y.seq
  <2>1. Reliable(x) /\ Reliable(y)
    BY <1>2 DEF IsOpen, IsEnd, Reliable
  <2> QED
    BY <1>2, <2>1 DEF Known
<1> QED
  BY <1>1, <1>2 DEF Known

\* What is told of connections stays true while none ends and no end is lost
\* that matters.
Steady ==
  /\ crowded => crowded'
  /\ \A t \in Terminals :
       Ended(t)' => /\ gen'[t] = gen[t] /\ Ended(t)
                    /\ Noticed(t) /\ ~OpenAround(t) => Noticed(t)'
\* Every end that is lost was noticed, or is not of a present connection.
LEMMA ToldStays ==
  ASSUME EndsTold, Steady,
         \A o \in Sendable : IsOpen(o) /\ Around(o)' => Around(o),
         \A y \in Sendable : IsEnd(y) /\ Around(y) =>
           \/ Around(y)' \/ crowded'
           \/ ~(Ended(y.route)' /\ y.gen = gen[y.route])
           \/ Noticed(y.route)' /\ \A o \in Sendable : Around(o)' => ~Revives(y, o)
  PROVE  EndsTold'
<1> SUFFICES ASSUME NEW t \in Terminals, Ended(t)', ~crowded', ~Noticed(t)' \/ OpenAround(t)'
             PROVE  EndAround(t)'
  BY DEF EndsTold
<1>1. gen'[t] = gen[t] /\ Ended(t) /\ ~crowded
  BY DEF Steady
<1>2. ~Noticed(t) \/ OpenAround(t)
  <2>1. OpenAround(t)' => OpenAround(t)
    BY <1>1 DEF OpenAround
  <2> QED
    BY <2>1 DEF Steady
<1>3. PICK y \in Sendable : Around(y) /\ IsEnd(y) /\ y.route = t /\ y.gen = gen[t]
  BY <1>1, <1>2 DEF EndsTold, EndAround
<1>4. ~(Noticed(t)' /\ \A o \in Sendable : Around(o)' => ~Revives(y, o))
  <2>1. ASSUME OpenAround(t)' PROVE \E o \in Sendable : Around(o)' /\ Revives(y, o)
    BY <1>1, <1>3, <2>1 DEF OpenAround, Revives, OfOne
  <2> QED
    BY <2>1
<1>5. Around(y)'
  BY <1>3, <1>4
<1> QED
  BY <1>1, <1>3, <1>5 DEF EndAround

\* What the store has of a route that is reliable is in U.
Bare(st, r, U) == \A x \in Sendable : Reliable(x) /\ Waits(st, x) /\ x.route = r => x \in U

\* The end of a connection is only lost where it does not matter.
Spared(U) ==
  \A y \in Sendable : IsEnd(y) /\ (Waits(store, y) \/ y \in U) =>
    \/ Waits(store', y) \/ crowded' \/ ~Ended(y.route)'
    \/ Noticed(y.route)' /\ Bare(store', y.route, U)

\* It is so where what is lost leaves nothing of a route nobody registered.
LEMMA KeepsEnough ==
  ASSUME EvIInv', NEW U, KeepsReliable(store, store', U), Crowded(store') => crowded'
  PROVE  Spared(U)
<1> SUFFICES ASSUME NEW y \in Sendable, IsEnd(y), Waits(store, y) \/ y \in U,
                    Lone(store', y.route, U)
             PROVE  Noticed(y.route)' /\ Bare(store', y.route, U)
  BY DEF Spared, KeepsReliable, IsEnd, Reliable
<1>1. y.route \in Terminals
  BY SentOf
<1>2. store'.routes[y.route] = Nobody
  BY DEF Lone
<1>3. home'[y.route] # Nobody =>
        \/ store'.routes[y.route] = home'[y.route]
        \/ store'.routes[y.route] = Nobody /\ link'[y.route] = "down"
  BY <1>1 DEF EvIInv, TabsRouted
<1>4. Noticed(y.route)'
  BY <1>2, <1>3 DEF Noticed
<1>5. Bare(store', y.route, U)
  BY SentOf DEF Lone, Bare
<1> QED
  BY <1>4, <1>5

\* Where events come to the store, move in it or are lost from it.  The
\* events U are taken out of the channel.
LEMMA StoreMoves ==
  ASSUME ClIInv, EvIInv', StoreQueued(store', Sendable, NoRevival), Queued(Coming', Sendable, NoRevival),
         NEW U \in SUBSET Sendable, Spared(U), OnlyThese(store, store', U),
         batch = <<>>, batch' = <<>>,
         \A x \in Sendable : Reliable(x) => (In(Coming, x) <=> In(Coming', x) \/ x \in U),
         \A u \in U, o \in U : ~Revives(u, o),
         \A u \in U, o \in Sendable : In(Coming', o) => ~Revives(u, o),
         Older, Steady
  PROVE  Ordered' /\ Known' /\ EndsTold'
<1> USE DEF ClIInv, EndsKept
<1>1. Queued(batch', Sendable, NoRevival)
  BY NothingQueued
<1>2. \A x : ~In(batch, x) /\ ~In(batch', x)
  BY DEF In
<1>3. \A x \in Sendable : Reliable(x) /\ Waits(store', x) => Waits(store, x) \/ x \in U
  BY SentOf DEF OnlyThese
<1>4. Ordered'
  <2>1. ASSUME NEW x \in Sendable, NEW y \in Sendable, Waits(store', x), In(Coming', y), Revives(x, y)
        PROVE  FALSE
    <3>1. Reliable(x) /\ Reliable(y)
      BY <2>1, RevivesReliable
    <3>2. Waits(store, x) \/ x \in U
      BY <1>3, <2>1, <3>1
    <3>3. In(Coming, y)
      BY <2>1, <3>1
    <3> QED
      BY <2>1, <3>2, <3>3 DEF Ordered
  <2>2. \A x, y \in Sendable : Waits(store', x) /\ In(Coming', y) => ~Revives(x, y)
    BY <2>1
  <2> QED
    BY <1>1, <1>2, <2>2 DEF Ordered
<1>5. \A x \in Sendable : Reliable(x) /\ Around(x)' => Around(x)
  BY <1>2, <1>3 DEF Around
<1>6. Known'
  BY <1>5, KnownStays DEF EvIInv, ChannelTyped
<1>7. \A o \in Sendable : IsOpen(o) /\ Around(o)' => Around(o)
  BY <1>5 DEF IsOpen, Reliable
<1>8. ASSUME NEW y \in Sendable, IsEnd(y), Around(y)
      PROVE  \/ Around(y)' \/ crowded'
             \/ ~Ended(y.route)'
             \/ Noticed(y.route)' /\ \A o \in Sendable : Around(o)' => ~Revives(y, o)
  <2>0. Reliable(y) /\ y.route \in Terminals
    BY <1>8, SentOf DEF IsEnd, Reliable
  <2>1. CASE In(Coming', y)
    BY <2>1 DEF Around
  <2>2. CASE Waits(store, y) \/ y \in U
    <3>1. \/ Waits(store', y) \/ crowded' \/ ~Ended(y.route)'
          \/ Noticed(y.route)' /\ Bare(store', y.route, U)
      BY <1>8, <2>2 DEF Spared
    <3>2. CASE Noticed(y.route)' /\ Bare(store', y.route, U)
      <4>2. ASSUME NEW o \in Sendable, Around(o)', Revives(y, o) PROVE FALSE
        <5>0. Reliable(o) /\ o.route = y.route /\ o \in EventsOn(Terminals)
          BY <4>2, RevivesReliable, SentOf DEF Revives, OfOne
        <5>1. CASE Waits(store', o)
          <6>1. o \in U
            BY <3>2, <5>0, <5>1 DEF Bare
          <6>2. In(Coming, o)
            BY <5>0, <6>1
          <6> QED
            BY <2>2, <4>2, <6>1, <6>2 DEF Ordered
        <5>2. CASE In(Coming', o)
          <6>1. In(Coming, o)
            BY <5>0, <5>2
          <6> QED
            BY <2>2, <4>2, <5>2, <6>1 DEF Ordered
        <5> QED
          BY <1>2, <4>2, <5>1, <5>2 DEF Around
      <4> QED
        BY <3>2, <4>2
    <3> QED
      BY <3>1, <3>2 DEF Around
  <2> QED
    BY <1>2, <1>8, <2>0, <2>1, <2>2 DEF Around
<1>9. EndsTold'
  BY <1>7, <1>8, ToldStays
<1> QED
  BY <1>4, <1>6, <1>9


-----------------------------------------------------------------------------
(* The steps, one after the other.                                         *)

\* At the start nothing is under way.
LEMMA EndsStart == EvInit => ClIInv
<1> SUFFICES ASSUME EvInit PROVE ClIInv
  OBVIOUS
<1>1. EvIInv
  BY EvStart
<1>2. Coming = <<>> /\ batch = <<>> /\ \A x : ~In(<<>>, x)
  BY DEF EvInit, Coming, In
<1>3. /\ \A w \in Owners : store.pending[w] = <<>>
      /\ \A r \in Routes : store.unrouted[r] = <<>>
  BY DEF EvInit, EmptyStore
<1>4. \A x : ~Waits(store, x) /\ ~Around(x)
  BY <1>2, <1>3 DEF Waits, Around
<1>5. Quiet(store)
  BY <1>3 DEF Quiet
<1>6. Carried
  BY DEF EvInit, Carried
<1>7. ConnsTyped
  <2>1. MaxGen \in Nat /\ Gens = 1..MaxGen
    BY EventsAssumption DEF Gens
  <2> QED
    BY <2>1 DEF EvInit, ConnsTyped
<1>8. Ordered
  BY <1>2, <1>3, <1>4, NothingQueued DEF Ordered, StoreQueued
<1>9. Known
  BY <1>4 DEF Known
<1>10. EndsTold
  <2>1. \A t \in Terminals : gen[t] = 0
    BY DEF EvInit
  <2> QED
    BY <2>1 DEF EndsTold, Ended
<1> QED
  BY <1>1, <1>5, <1>6, <1>7, <1>8, <1>9, <1>10 DEF ClIInv, EndsKept

\* Where only the batch gets shorter, and perhaps one tab shows what it took.
LEMMA BatchMoves ==
  ASSUME ClIInv, EvIInv', store' = store, Coming' = Coming,
         Queued(batch', Sendable, NoRevival),
         \A x \in Sendable : Reliable(x) /\ In(batch', x) => In(batch, x),
         Older, Steady, gen' = gen,
         \A y \in Sendable : IsEnd(y) /\ In(batch, y) =>
           \/ In(batch', y) \/ y.gen # gen[y.route]
           \/ Noticed(y.route)' /\ \A o \in Sendable : Around(o)' => ~Revives(y, o)
  PROVE  Ordered' /\ Known' /\ EndsTold'
<1> USE DEF ClIInv, EndsKept
<1>1. Ordered'
  <2>1. StoreQueued(store', Sendable, NoRevival) /\ Queued(Coming', Sendable, NoRevival)
    BY DEF Ordered
  <2> QED
    BY <2>1, OrderedStays
<1>2. \A x \in Sendable : Reliable(x) /\ Around(x)' => Around(x)
  BY DEF Around
<1>3. Known'
  BY <1>2, KnownStays DEF EvIInv, ChannelTyped
<1>4. \A o \in Sendable : IsOpen(o) /\ Around(o)' => Around(o)
  BY <1>2 DEF IsOpen, Reliable
<1>5. ASSUME NEW y \in Sendable, IsEnd(y), Around(y)
      PROVE  \/ Around(y)' \/ crowded'
             \/ ~(Ended(y.route)' /\ y.gen = gen[y.route])
             \/ Noticed(y.route)' /\ \A o \in Sendable : Around(o)' => ~Revives(y, o)
  BY <1>5 DEF Around
<1>6. EndsTold'
  BY <1>4, <1>5, ToldStays
<1> QED
  BY <1>1, <1>3, <1>6

\* Steps that leave the tabs and the connections alone.
LEMMA TabsSettled ==
  ASSUME UNCHANGED <<home, gen, link, conns>>, crowded => crowded'
  PROVE  Steady
BY DEF Steady, Ended, Noticed

\* Steps that leave what was sent and the connections alone.
LEMMA SettledOlder ==
  ASSUME UNCHANGED <<sequence, conns>>
  PROVE  Older
BY DEF Older

\* Nothing happens, or the batch is left alone.
LEMMA QuietStep ==
  ASSUME ClIInv, EvIInv', store' = store, Coming' = Coming, batch' = batch,
         UNCHANGED <<home, gen, link, conns, sequence>>, crowded => crowded', Carried'
  PROVE  ClIInv'
<1>1. Queued(batch', Sendable, NoRevival)
  BY DEF ClIInv, EndsKept, Ordered
<1>2. Older /\ Steady
  BY TabsSettled, SettledOlder
<1>3. Ordered' /\ Known' /\ EndsTold'
  BY <1>1, <1>2, BatchMoves
<1>4. ConnsTyped'
  BY DEF ClIInv, EndsKept, ConnsTyped
<1> QED
  BY <1>3, <1>4 DEF ClIInv, EndsKept

\* A blocked sender gets its room.
LEMMA UnblockEnds ==
  ASSUME ClIInv, EvIInv', Unblock, crowded => crowded'
  PROVE  ClIInv'
<1>1. Coming' = Coming
  <2>1. /\ pendingLifecycle \in Seq(EventsOn(Terminals)) /\ lifecycle \in Seq(EventsOn(Terminals))
        /\ blocked \in EventsOn(Terminals)
    BY DEF ClIInv, EvIInv, ChannelTyped, Queues, Unblock
  <2>2. Append(lifecycle, blocked) = lifecycle \o <<blocked>>
    BY <2>1
  <2>3. (pendingLifecycle \o (lifecycle \o <<blocked>>)) \o <<>>
          = (pendingLifecycle \o lifecycle) \o <<blocked>>
    BY <2>1
  <2> QED
    BY <2>2, <2>3 DEF Unblock, Coming
<1>2. Carried'
  BY DEF Unblock, ClIInv, EndsKept, Carried
<1> QED
  BY <1>1, <1>2, QuietStep DEF Unblock, pumpVars, tabVars

\* The look at the reliable events.
LEMMA PollEnds ==
  ASSUME ClIInv, EvIInv', PollLifecycle, crowded => crowded'
  PROVE  ClIInv'
<1>1. pendingLifecycle' \o lifecycle' = pendingLifecycle \o lifecycle /\ Len(pendingLifecycle') <= 1
  <2>1. /\ pendingLifecycle \in Seq(EventsOn(Terminals)) /\ lifecycle \in Seq(EventsOn(Terminals))
        /\ Len(pendingLifecycle) <= 1
    BY DEF ClIInv, EvIInv, ChannelTyped, Queues, EndsKept, Carried
  <2>2. CASE pendingLifecycle = <<>> /\ lifecycle # <<>>
    <3>1. pendingLifecycle' = <<Head(lifecycle)>> /\ lifecycle' = Tail(lifecycle)
      BY <2>2 DEF PollLifecycle
    <3>2. <<Head(lifecycle)>> \o Tail(lifecycle) = lifecycle
      BY <2>1, <2>2
    <3> QED
      BY <2>1, <2>2, <3>1, <3>2
  <2> QED
    BY <2>1, <2>2 DEF PollLifecycle
<1>2. Coming' = Coming
  BY <1>1 DEF Coming, PollLifecycle
<1>3. Carried'
  BY <1>1 DEF PollLifecycle, ClIInv, EndsKept, Carried
<1> QED
  BY <1>2, <1>3, QuietStep DEF PollLifecycle, tabVars

\* The end of a drain.
LEMMA EndDrainEnds ==
  ASSUME ClIInv, EvIInv', EndDrain, crowded => crowded'
  PROVE  ClIInv'
<1>1. Coming' = Coming /\ Carried'
  BY DEF EndDrain, chanVars, Coming, Carried, ClIInv, EndsKept
<1> QED
  BY <1>1, QuietStep DEF EndDrain, tabVars, chanVars


\* The head of the batch is handled.
LEMMA HandledEnds ==
  ASSUME ClIInv, EvIInv', phase = "handle", batch # <<>>, batch' = Tail(batch),
         store' = store, Coming' = Coming, Carried', Older, Steady, gen' = gen, conns' = conns,
         NEW c, c = Head(batch), IsEnd(c) => c.gen # gen[c.route] \/ Noticed(c.route)'
  PROVE  ClIInv'
<1>1. Queued(batch, Sendable, NoRevival)
  BY DEF ClIInv, EndsKept, Ordered
<1>2. /\ c \in Sendable /\ Queued(batch', Sendable, NoRevival)
      /\ \A x : In(batch, x) <=> x = c \/ In(batch', x)
      /\ \A x : In(batch', x) => <<c, x>> \in NoRevival
  BY <1>1, HeadQueued
<1>4. ASSUME NEW o \in Sendable, Around(o)' PROVE ~Revives(c, o)
  <2>1. In(batch, c)
    BY <1>2
  <2>2. CASE In(batch', o)
    BY <1>2, <2>2 DEF NoRevival
  <2>3. CASE Waits(store, o) \/ In(Coming, o)
    BY <1>2, <2>1, <2>3 DEF ClIInv, EndsKept, Ordered
  <2> QED
    BY <1>4, <2>2, <2>3 DEF Around
<1>5. ASSUME NEW y \in Sendable, IsEnd(y), In(batch, y)
      PROVE  \/ In(batch', y) \/ y.gen # gen[y.route]
             \/ Noticed(y.route)' /\ \A o \in Sendable : Around(o)' => ~Revives(y, o)
  BY <1>2, <1>4, <1>5
<1>6. \A x \in Sendable : Reliable(x) /\ In(batch', x) => In(batch, x)
  BY <1>2
<1>7. Queued(batch', Sendable, NoRevival)
  BY <1>2
<1>8. Ordered' /\ Known' /\ EndsTold'
  BY <1>5, <1>6, <1>7, BatchMoves
<1>9. Quiet(store') /\ ConnsTyped'
  BY DEF ClIInv, EndsKept, ConnsTyped
<1> QED
  BY <1>8, <1>9 DEF ClIInv, EndsKept

\* One that is stale.
LEMMA StaleEnds ==
  ASSUME ClIInv, EvIInv', HandleStale, crowded => crowded'
  PROVE  ClIInv'
<1>1. Coming' = Coming /\ Carried'
  BY DEF HandleStale, chanVars, Coming, Carried, ClIInv, EndsKept
<1>2. Older /\ Steady
  BY TabsSettled, SettledOlder DEF HandleStale, chanVars, tabVars
<1>3. PICK c : c = Head(batch)
  OBVIOUS
<1>4. c.gen # gen[c.route]
  BY <1>3 DEF HandleStale, Stale
<1> QED
  BY <1>1, <1>2, <1>3, <1>4, HandledEnds DEF HandleStale, tabVars

\* What a window sends itself about the title of a terminal.
LEMMA TitleSent ==
  ASSUME ClIInv, NEW t \in Terminals,
         Send([kind |-> "Status", route |-> t, gen |-> 0, title |-> FALSE])
  PROVE  Coming' = Coming /\ Carried' /\ sequence' = sequence + 1
<1> DEFINE body == [kind |-> "Status", route |-> t, gen |-> 0, title |-> FALSE]
           e == Event(body)
<1>1. sequence \in Nat
  BY DEF ClIInv, EvIInv, ChannelTyped
<1>2. e = [kind |-> "Status", route |-> t, gen |-> 0, title |-> FALSE, seq |-> sequence,
           chunks |-> <<>>]
  BY DEF Event
<1>3. e.kind = "Status" /\ ~Reliable(e) /\ e \in Plain
  <2>1. <<>> \in Seq([gen : Nat, seq : Nat]) /\ 0 \in Nat /\ "Status" \in Kinds
    BY DEF Kinds
  <2>2. e \in EventsOn(Terminals)
    <3> HIDE DEF e
    <3>1. FALSE \in BOOLEAN
      OBVIOUS
    <3> QED
      BY <1>1, <1>2, <2>1, <3>1, Zenon DEF EventsOn
  <2> QED
    BY <1>2, <2>2 DEF Plain, Reliable
<1>4. Send(body)
  OBVIOUS
<1>5. /\ sequence' = sequence + 1
      /\ control' = Append(control, e) \/ control' = control
      /\ UNCHANGED <<outputs, lifecycle, blocked, pendingLifecycle, pendingControl>>
  <2> HIDE DEF body
  <2>1. e.kind = "Status" /\ ~Reliable(e)
    BY <1>3
  <2> QED
    BY <1>4, <2>1 DEF Send
<1> HIDE DEF e
<1>6. Carried'
  <2>0. control \in Seq(Plain)
    BY DEF ClIInv, EndsKept, Carried
  <2>1. control' \in Seq(Plain)
    BY ONLY <1>3, <1>5, <2>0
  <2> QED
    BY <1>5, <2>1 DEF ClIInv, EndsKept, Carried
<1> QED
  BY <1>5, <1>6 DEF Coming

\* Output.
LEMMA OutputEnds ==
  ASSUME ClIInv, EvIInv', HandleOutput, crowded => crowded'
  PROVE  ClIInv'
<1>1. /\ Coming' = Coming /\ Carried'
      /\ sequence' \in {sequence, sequence + 1}
  <2>1. CASE UNCHANGED chanVars
    BY <2>1 DEF chanVars, Coming, Carried, ClIInv, EndsKept
  <2>2. CASE Send([kind |-> "Status", route |-> Head(batch).route, gen |-> 0, title |-> FALSE])
    <3>1. Head(batch).route \in Terminals
      BY BatchHead DEF HandleOutput, ClIInv
    <3> QED
      BY <2>2, <3>1, TitleSent
  <2> QED
    BY <2>1, <2>2 DEF HandleOutput
<1>2. Older /\ Steady
  <2>1. UNCHANGED <<home, gen, link, conns>>
    BY DEF HandleOutput, tabVars
  <2> QED
    BY <1>1, <2>1, TabsSettled DEF Older
<1>3. PICK c : c = Head(batch)
  OBVIOUS
<1>4. ~IsEnd(c)
  BY <1>3 DEF HandleOutput, IsEnd
<1> QED
  BY <1>1, <1>2, <1>3, <1>4, HandledEnds DEF HandleOutput, tabVars

\* The beginning of a connection, and what it has to say.
LEMMA NewsEnds ==
  ASSUME ClIInv, EvIInv', HandleNews, crowded => crowded'
  PROVE  ClIInv'
<1>0. PICK c : c = Head(batch)
  OBVIOUS
<1>1. Coming' = Coming /\ Carried' /\ Older
  BY SettledOlder DEF HandleNews, chanVars, Coming, Carried, ClIInv, EndsKept
<1>2. /\ c.kind \in {"Connected", "Status"} /\ ~Stale(c)
      /\ link' = IF c.kind = "Connected" /\ home[c.route] = pump
                 THEN [link EXCEPT ![c.route] = "connected"] ELSE link
      /\ UNCHANGED <<home, gen, conns>> /\ batch # <<>>
  BY <1>0 DEF HandleNews
<1>3. c \in Sendable /\ In(batch, c)
  <2>1. Queued(batch, Sendable, NoRevival)
    BY DEF ClIInv, EndsKept, Ordered
  <2> QED
    BY <1>0, <1>2, <2>1, HeadQueued
<1>4. c.kind = "Connected" /\ home[c.route] = pump => OpenAround(c.route)
  <2> SUFFICES ASSUME c.kind = "Connected", home[c.route] = pump PROVE OpenAround(c.route)
    OBVIOUS
  <2>1. c.gen \in Gens
    BY <1>3, SentOf DEF Reliable
  <2>2. c.gen = gen[c.route]
    BY <1>2, <2>1 DEF Stale, Gens
  <2> QED
    BY <1>3, <2>2 DEF OpenAround, IsOpen, Around
<1>5. Steady
  <2>1. ASSUME NEW t \in Terminals, Noticed(t), ~OpenAround(t) PROVE Noticed(t)'
    <3>1. link'[t] = link[t]
      <4>1. CASE c.kind = "Connected" /\ home[c.route] = pump
        <5>1. t # c.route
          BY <1>4, <2>1, <4>1
        <5> QED
          BY <1>2, <4>1, <5>1 DEF ClIInv, EvIInv, TabsTyped
      <4> QED
        BY <1>2, <4>1
    <3> QED
      BY <1>2, <2>1, <3>1 DEF Noticed
  <2> QED
    BY <1>2, <2>1 DEF Steady, Ended
<1>6. ~IsEnd(c)
  BY <1>2 DEF IsEnd
<1> QED
  BY <1>0, <1>1, <1>2, <1>5, <1>6, HandledEnds DEF HandleNews

\* The end.
LEMMA ClosedEnds ==
  ASSUME ClIInv, EvIInv', HandleClosed, crowded => crowded'
  PROVE  ClIInv'
<1>0. PICK c : c = Head(batch)
  OBVIOUS
<1>1. Coming' = Coming /\ Carried' /\ Older
  BY SettledOlder DEF HandleClosed, chanVars, Coming, Carried, ClIInv, EndsKept
<1>2. c.route \in Terminals /\ store.routes[c.route] = pump /\ pump \in Owners
  BY <1>0, BatchHead DEF HandleClosed, ClIInv
<1>3. /\ home' = IF home[c.route] = pump /\ c.kind = "Exited" /\ link[c.route] # "down"
                 THEN [home EXCEPT ![c.route] = Nobody] ELSE home
      /\ link' = IF home[c.route] = pump /\ ~(c.kind = "Exited" /\ link[c.route] # "down")
                 THEN [link EXCEPT ![c.route] = "down"] ELSE link
      /\ UNCHANGED <<gen, conns>>
  BY <1>0 DEF HandleClosed
<1>4. /\ home \in [Terminals -> Owners \cup {Nobody}]
      /\ link \in [Terminals -> {"connecting", "connected", "down"}]
  BY DEF ClIInv, EvIInv, TabsTyped
<1>5. \A t \in Terminals : Noticed(t) => Noticed(t)'
  BY <1>3, <1>4 DEF Noticed
<1>6. Steady
  BY <1>3, <1>5 DEF Steady, Ended
<1>7. Noticed(c.route)'
  <2>1. CASE home[c.route] = pump
    BY <1>2, <1>3, <1>4, <2>1 DEF Noticed
  <2>2. CASE home[c.route] # pump
    <3>1. home[c.route] = Nobody
      BY <1>2, <2>2, StoreAssumption DEF ClIInv, EvIInv, TabsRouted
    <3> QED
      BY <1>2, <1>5, <3>1 DEF Noticed
  <2> QED
    BY <2>1, <2>2
<1> QED
  BY <1>0, <1>1, <1>3, <1>6, <1>7, HandledEnds DEF HandleClosed


\* An event of one tab joins output.
LEMMA PlainBlends == Blends(Plain, Plain \X Plain)
<1>1. ASSUME NEW a \in Plain, NEW b \in Plain, a.kind = "Output" PROVE Merged(a, b) \in Plain
  <2>1. Merged(a, b) \in EventsOn(Terminals)
    BY MergedOn DEF Plain
  <2>2. Merged(a, b).kind = "Output"
    BY <1>1 DEF Merged, Plain, EventsOn
  <2> QED
    BY <2>1, <2>2 DEF Plain, Reliable
<1> QED
  BY <1>1 DEF Blends

\* A queue of plain events takes one more.
LEMMA PlainPushed ==
  ASSUME NEW q \in Seq(Plain), NEW e \in Plain
  PROVE  Append(q, e) \in Seq(Plain) /\ PushOutput(q, e) \in Seq(Plain)
<1>1. Queued(q, Plain, Plain \X Plain)
  BY AnyOrder
<1>2. \A i \in DOMAIN q : <<q[i], e>> \in Plain \X Plain
  OBVIOUS
<1>3. Append(q, e) \in Seq(Plain)
  OBVIOUS
<1>4. ASSUME Joins(q, e, MaxCoalesced) PROVE MergedLast(q, e) \in Seq(Plain)
  <2>1. q # <<>> /\ q[Len(q)].kind = "Output" /\ e.kind = "Output" /\ q[Len(q)].route = e.route
    BY <1>4 DEF Joins
  <2>2. Queued(MergedLast(q, e), Plain, Plain \X Plain)
    BY <1>1, <1>2, <2>1, PlainBlends, MergedLastLined
  <2> QED
    BY <2>2 DEF Queued
<1> QED
  BY <1>3, <1>4 DEF PushOutput

\* What a queue holds with an event more.
LEMMA AppendHolds ==
  ASSUME NEW C, NEW q \in Seq(C), NEW e, NEW x
  PROVE  In(Append(q, e), x) <=> In(q, x) \/ x = e
<1>1. /\ DOMAIN Append(q, e) = 1..(Len(q) + 1) /\ DOMAIN q = 1..Len(q) /\ Len(q) \in Nat
      /\ Append(q, e)[Len(q) + 1] = e /\ \A i \in 1..Len(q) : Append(q, e)[i] = q[i]
  OBVIOUS
<1>2. In(Append(q, e), x) => In(q, x) \/ x = e
  BY <1>1 DEF In
<1>3. In(q, x) => In(Append(q, e), x)
  <2> SUFFICES ASSUME In(q, x) PROVE In(Append(q, e), x)
    OBVIOUS
  <2>1. PICK i \in 1..Len(q) : x = q[i]
    BY <1>1 DEF In
  <2> QED
    BY <1>1, <2>1 DEF In
<1>4. x = e => In(Append(q, e), x)
  BY <1>1 DEF In
<1> QED
  BY <1>2, <1>3, <1>4

\* What a connection sends.
LEMMA SendCarries ==
  ASSUME ClIInv, NEW body \in [kind : Kinds, route : Terminals, gen : Gens, title : BOOLEAN],
         Send(body), NEW e, e = Event(body)
  PROVE  /\ e \in Sendable /\ sequence' = sequence + 1
         /\ e.kind = body.kind /\ e.route = body.route /\ e.gen = body.gen /\ e.seq = sequence
         /\ Coming' = IF Reliable(e) THEN Append(Coming, e) ELSE Coming
         /\ Carried'
<1>1. /\ sequence \in Nat /\ Gens \subseteq Nat
      /\ pendingLifecycle \in Seq(EventsOn(Terminals)) /\ lifecycle \in Seq(EventsOn(Terminals))
      /\ outputs \in Seq(Plain) /\ control \in Seq(Plain) /\ pendingControl \in Seq(Plain)
      /\ Len(pendingLifecycle) <= 1
  BY DEF ClIInv, EvIInv, ChannelTyped, Queues, Gens, EndsKept, Carried
<1>2. /\ e.kind = body.kind /\ e.route = body.route /\ e.gen = body.gen /\ e.seq = sequence
      /\ e.kind # "Output" => e.chunks = <<>>
  BY DEF Event
<1>3. e \in EventsOn(Terminals)
  <2>1. IF body.kind = "Output" THEN e.chunks = <<[gen |-> body.gen, seq |-> sequence]>>
                                ELSE e.chunks = <<>>
    BY DEF Event
  <2>2. e.chunks \in Seq([gen : Nat, seq : Nat])
    <3>1. [gen |-> body.gen, seq |-> sequence] \in [gen : Nat, seq : Nat]
      BY <1>1
    <3>2. \A E, x : x \in E => <<x>> \in Seq(E)
      OBVIOUS
    <3>3. <<[gen |-> body.gen, seq |-> sequence]>> \in Seq([gen : Nat, seq : Nat])
      BY <3>1, <3>2, Zenon
    <3>4. <<>> \in Seq([gen : Nat, seq : Nat])
      OBVIOUS
    <3> QED
      BY <2>1, <3>3, <3>4, Zenon
  <2>3. e = [kind |-> body.kind, route |-> body.route, gen |-> body.gen, title |-> body.title,
             seq |-> sequence, chunks |-> e.chunks]
    BY DEF Event
  <2> QED
    BY <1>1, <2>2, <2>3 DEF EventsOn
<1>4. e \in Sendable
  BY <1>2, <1>3 DEF Sendable, Reliable
<1>5. e # None
  BY <1>3, NoneAssumption DEF EventsOn
<1>6. ~Reliable(e) => e \in Plain
  BY <1>3 DEF Plain
<1>7. /\ blocked = None /\ sequence' = sequence + 1
      /\ UNCHANGED <<pendingLifecycle, pendingControl, streak>>
      /\ \/ /\ e.kind = "Output"
            /\ outputs' = PushOutput(outputs, e)
            /\ UNCHANGED <<lifecycle, control, blocked>>
         \/ /\ Reliable(e)
            /\ IF Len(lifecycle) < LifecycleCapacity
               THEN lifecycle' = Append(lifecycle, e) /\ UNCHANGED blocked
               ELSE blocked' = e /\ UNCHANGED lifecycle
            /\ UNCHANGED <<outputs, control>>
         \/ /\ e.kind = "Status"
            /\ control' = IF Len(control) < ControlCapacity THEN Append(control, e) ELSE control
            /\ UNCHANGED <<outputs, lifecycle, blocked>>
  BY DEF Send
<1>8. Coming' = IF Reliable(e) THEN Append(Coming, e) ELSE Coming
  <2>1. CASE Reliable(e)
    <3>1. e.kind # "Output" /\ e.kind # "Status"
      BY <2>1 DEF Reliable
    <3>2. /\ Append(lifecycle, e) = lifecycle \o <<e>>
          /\ Append(pendingLifecycle \o lifecycle, e) = (pendingLifecycle \o lifecycle) \o <<e>>
      <4>1. \A q \in Seq(EventsOn(Terminals)) : Append(q, e) = q \o <<e>>
        BY <1>3, AppendIsConcat
      <4>2. pendingLifecycle \o lifecycle \in Seq(EventsOn(Terminals))
        BY <1>1
      <4> QED
        BY <1>1, <4>1, <4>2
    <3>3. Coming = pendingLifecycle \o lifecycle
      BY <1>1, <1>7 DEF Coming
    <3>4. CASE lifecycle' = Append(lifecycle, e) /\ blocked' = None
      <4>1. Coming' = pendingLifecycle \o (lifecycle \o <<e>>)
        BY <1>1, <1>3, <1>7, <3>2, <3>4 DEF Coming
      <4>2. pendingLifecycle \o (lifecycle \o <<e>>) = (pendingLifecycle \o lifecycle) \o <<e>>
        BY <1>1, <1>3
      <4> QED
        BY <2>1, <3>2, <3>3, <4>1, <4>2
    <3>5. CASE blocked' = e /\ lifecycle' = lifecycle
      BY <1>5, <1>7, <2>1, <3>2, <3>3, <3>5 DEF Coming
    <3> QED
      BY <1>7, <3>1, <3>4, <3>5
  <2>2. CASE ~Reliable(e)
    BY <1>7, <2>2 DEF Coming
  <2> QED
    BY <2>1, <2>2
<1>9. Carried'
  <2>1. CASE Reliable(e)
    <3>1. e.kind # "Output" /\ e.kind # "Status"
      BY <2>1 DEF Reliable
    <3> QED
      BY <1>1, <1>7, <3>1 DEF Carried
  <2>2. CASE ~Reliable(e)
    BY <1>1, <1>6, <1>7, <2>2, PlainPushed DEF Carried
  <2> QED
    BY <2>1, <2>2
<1> QED
  BY <1>2, <1>4, <1>7, <1>8, <1>9


\* A connection begins, goes on or ends.
LEMMA ConnectionEnds ==
  ASSUME ClIInv, EvIInv', NEW t \in Terminals, NEW g \in Gens, ConnectionSends(t, g),
         crowded => crowded'
  PROVE  ClIInv'
<1> USE DEF ClIInv, EndsKept
<1>1. PICK kind \in Kinds, title \in BOOLEAN :
        /\ conns[t][g] = "starting" => kind \in {"Connected", "Closed"}
        /\ conns[t][g] = "up" => kind \notin {"Connected"}
        /\ conns[t][g] \in {"starting", "up"}
        /\ Send([kind |-> kind, route |-> t, gen |-> g, title |-> title])
        /\ conns' = [conns EXCEPT ![t][g] =
             CASE kind = "Connected" -> "up"
               [] kind \in {"Closed", "Exited"} -> "done"
               [] OTHER -> @]
  BY DEF ConnectionSends
<1>2. UNCHANGED <<store, home, gen, link, batch>>
  BY DEF ConnectionSends, pumpVars
<1>3. PICK e : e = Event([kind |-> kind, route |-> t, gen |-> g, title |-> title])
  OBVIOUS
<1>4. /\ e \in Sendable /\ sequence' = sequence + 1
      /\ e.kind = kind /\ e.route = t /\ e.gen = g /\ e.seq = sequence
      /\ Coming' = IF Reliable(e) THEN Append(Coming, e) ELSE Coming
      /\ Carried'
  <2> DEFINE body == [kind |-> kind, route |-> t, gen |-> g, title |-> title]
  <2>1. body \in [kind : Kinds, route : Terminals, gen : Gens, title : BOOLEAN]
    OBVIOUS
  <2>2. body.kind = kind /\ body.route = t /\ body.gen = g
    OBVIOUS
  <2>3. Send(body) /\ e = Event(body)
    BY <1>1, <1>3
  <2> HIDE DEF body
  <2> QED
    BY <2>1, <2>2, <2>3, SendCarries
<1>5. /\ sequence \in Nat /\ Coming \in Seq(Sendable)
      /\ conns \in [Terminals -> [Gens -> {"none", "starting", "up", "done"}]]
  BY DEF EvIInv, ChannelTyped, Ordered, Queued, ConnsTyped
<1>6. /\ \A u \in Terminals, k \in Gens : u # t \/ k # g => conns'[u][k] = conns[u][k]
      /\ IsOpen(e) => conns[t][g] = "starting" /\ conns'[t][g] = "up"
      /\ IsEnd(e) => conns'[t][g] = "done"
      /\ ~IsOpen(e) /\ ~IsEnd(e) => conns'[t][g] = conns[t][g]
      /\ conns' \in [Terminals -> [Gens -> {"none", "starting", "up", "done"}]]
  <2>1. PICK s : s = CASE kind = "Connected" -> "up"
                       [] kind \in {"Closed", "Exited"} -> "done"
                       [] OTHER -> conns[t][g]
    OBVIOUS
  <2>2. conns' = [conns EXCEPT ![t] = [conns[t] EXCEPT ![g] = s]]
    BY <1>1, <2>1
  <2>3. /\ IsOpen(e) => s = "up" /\ conns[t][g] = "starting"
        /\ IsEnd(e) => s = "done"
        /\ ~IsOpen(e) /\ ~IsEnd(e) => s = conns[t][g]
        /\ s \in {"none", "starting", "up", "done"}
    BY <1>1, <1>4, <2>1 DEF IsOpen, IsEnd
  <2> QED
    BY <1>5, <2>2, <2>3
<1>7. /\ \A x : In(Coming', x) <=> In(Coming, x) \/ (x = e /\ Reliable(e))
      /\ \A x : Around(x)' <=> Around(x) \/ (x = e /\ Reliable(e))
  <2>1. \A x : In(Append(Coming, e), x) <=> In(Coming, x) \/ x = e
    BY <1>5, AppendHolds
  <2>2. \A x : In(Coming', x) <=> In(Coming, x) \/ (x = e /\ Reliable(e))
    BY <1>4, <2>1
  <2> QED
    BY <1>2, <2>2 DEF Around
<1>8. ASSUME NEW x \in Sendable, Around(x), Revives(x, e) PROVE FALSE
  <2>1. conns[x.route][x.gen] = "done" /\ x.route = t /\ x.gen = g /\ IsOpen(e)
    BY <1>4, <1>8, RevivesReliable DEF Revives, OfOne, Known
  <2> QED
    BY <1>6, <2>1
<1>9. Ordered'
  <2>1. Queued(Coming', Sendable, NoRevival)
    <3>1. ASSUME NEW i \in DOMAIN Coming PROVE <<Coming[i], e>> \in NoRevival
      <4>1. In(Coming, Coming[i])
        BY DEF In
      <4> QED
        BY <1>4, <1>5, <1>8, <4>1 DEF Around, NoRevival
    <3> QED
      BY <1>4, <3>1, AppendLined DEF Ordered
  <2>2. StoreQueued(store', Sendable, NoRevival) /\ Queued(batch', Sendable, NoRevival)
    BY <1>2 DEF Ordered
  <2>3. \A x, y \in Sendable : Waits(store', x) /\ In(Coming', y) => ~Revives(x, y)
    BY <1>2, <1>7, <1>8 DEF Ordered, Around
  <2>4. \A x, y \in Sendable : In(batch', x) /\ (Waits(store', y) \/ In(Coming', y)) => ~Revives(x, y)
    BY <1>2, <1>7, <1>8 DEF Ordered, Around
  <2> QED
    BY <2>1, <2>2, <2>3, <2>4 DEF Ordered
<1>10. Known'
  <2>1. ASSUME NEW x \in Sendable, Reliable(x), Around(x)'
        PROVE  /\ x.seq < sequence'
               /\ IsOpen(x) => conns'[x.route][x.gen] \in {"up", "done"}
               /\ IsEnd(x) => conns'[x.route][x.gen] = "done"
    <3>1. CASE x = e
      BY <1>4, <1>5, <1>6, <3>1
    <3>2. CASE Around(x)
      <4>1. /\ x.seq < sequence /\ x.route \in Terminals /\ x.gen \in Gens /\ x.seq \in Nat
            /\ IsOpen(x) => conns[x.route][x.gen] \in {"up", "done"}
            /\ IsEnd(x) => conns[x.route][x.gen] = "done"
        BY <2>1, <3>2, SentOf DEF Known
      <4>2. conns'[x.route][x.gen] = conns[x.route][x.gen] \/ (x.route = t /\ x.gen = g)
        BY <1>6, <4>1
      <4>3. IsEnd(x) => ~(x.route = t /\ x.gen = g)
        BY <1>1, <4>1
      <4>4. IsOpen(x) /\ x.route = t /\ x.gen = g => conns'[t][g] \in {"up", "done"}
        BY <1>6, <4>1
      <4> QED
        BY <1>4, <1>5, <4>1, <4>2, <4>3, <4>4
    <3> QED
      BY <1>7, <2>1, <3>1, <3>2
  <2>2. ASSUME NEW x \in Sendable, NEW y \in Sendable, Around(x)', Around(y)',
               IsOpen(x), IsEnd(y), OfOne(x, y)
        PROVE  x.seq < y.seq
    <3>1. Reliable(x) /\ Reliable(y) /\ Revives(y, x)
      BY <2>2 DEF IsOpen, IsEnd, Reliable, Revives, OfOne
    <3>2. CASE Around(x) /\ Around(y)
      BY <2>2, <3>2 DEF Known
    <3>3. CASE Around(x) /\ y = e
      BY <1>4, <3>1, <3>3 DEF Known
    <3>4. CASE x = e /\ Around(y)
      BY <1>8, <3>1, <3>4
    <3>5. x # y
      BY <2>2 DEF IsOpen, IsEnd
    <3> QED
      BY <1>7, <2>2, <3>2, <3>3, <3>4, <3>5
  <2> QED
    BY <2>1, <2>2 DEF Known
<1>11. EndsTold'
  <2> SUFFICES ASSUME NEW u \in Terminals, Ended(u)', ~crowded', ~Noticed(u)' \/ OpenAround(u)'
               PROVE  EndAround(u)'
    BY DEF EndsTold
  <2>1. gen' = gen /\ gen[u] \in Gens
    BY <1>2, EventsAssumption DEF Ended, ConnsTyped, Gens
  <2>2. CASE u = t /\ gen[t] = g /\ IsEnd(e)
    <3>1. Around(e)'
      BY <1>7, <2>2 DEF IsEnd, Reliable
    <3> QED
      BY <1>4, <2>1, <2>2, <3>1 DEF EndAround
  <2>3. CASE ~(u = t /\ gen[t] = g /\ IsEnd(e))
    <3>1. conns'[u][gen[u]] = "done"
      BY <2>1 DEF Ended
    <3>2. ~(u = t /\ gen[t] = g /\ IsOpen(e))
      BY <1>6, <3>1
    <3>3. conns[u][gen[u]] = "done"
      BY <1>6, <2>1, <2>3, <3>1, <3>2
    <3>4. Ended(u)
      BY <2>1, <3>3, EventsAssumption DEF Ended, Gens
    <3>5. Noticed(u)' <=> Noticed(u)
      BY <1>2 DEF Noticed
    <3>6. OpenAround(u)' => OpenAround(u)
      BY <1>4, <1>7, <2>1, <3>2 DEF OpenAround
    <3>7. EndAround(u)
      BY <3>4, <3>5, <3>6 DEF EndsTold
    <3> QED
      BY <1>7, <2>1, <3>7 DEF EndAround
  <2> QED
    BY <2>2, <2>3
<1>12. ConnsTyped'
  <2>1. \A u \in Terminals, k \in Gens : k > gen[u] => conns'[u][k] = "none"
    BY <1>1, <1>6 DEF ConnsTyped
  <2> QED
    BY <1>2, <1>6, <2>1 DEF ConnsTyped
<1> QED
  BY <1>2, <1>4, <1>9, <1>10, <1>11, <1>12


\* An event that comes out of the channel goes to its window.
LEMMA DeliverEnds ==
  ASSUME ClIInv, EvIInv', phase = "receive", NEW e \in Sendable, Deliver(e),
         UNCHANGED <<batch, tabVars, conns, sequence>>, crowded' = (crowded \/ Crowded(store')),
         Carried', Queued(Coming', Sendable, NoRevival),
         \A x \in Sendable : Reliable(x) => (In(Coming, x) <=> In(Coming', x) \/ x = e),
         \A o \in Sendable : In(Coming', o) => ~Revives(e, o)
  PROVE  ClIInv'
<1>1. /\ WellRouted(store) /\ Quiet(store) /\ e \in EventsOn(Terminals)
      /\ StoreQueued(store, Sendable, NoRevival) /\ batch = <<>> /\ batch' = <<>>
  BY SentOf DEF ClIInv, EndsKept, Ordered, EvIInv, PumpTyped
<1>2. store' = Routed(store, e)
  BY DEF Deliver
<1>3. \A x \in Sendable : Waits(store, x) => <<x, e>> \in NoRevival
  <2> SUFFICES ASSUME NEW x \in Sendable, Waits(store, x), Revives(x, e) PROVE FALSE
    BY DEF NoRevival
  <2>1. Reliable(e)
    BY RevivesReliable
  <2>2. In(Coming, e)
    BY <2>1
  <2> QED
    BY <2>2 DEF ClIInv, EndsKept, Ordered
<1>4. StoreQueued(store', Sendable, NoRevival) /\ Quiet(store')
  BY <1>1, <1>2, <1>3, SentFits, RoutedQueued, RoutedShape
<1>5. KeepsReliable(store, store', {e}) /\ OnlyThese(store, store', {e})
  BY <1>1, <1>2, RoutedFate
<1>6. Spared({e})
  BY <1>5, KeepsEnough
<1>7. Older /\ Steady
  BY TabsSettled, SettledOlder DEF tabVars
<1>8. ~Revives(e, e)
  BY DEF Revives, IsOpen, IsEnd
<1>9. Ordered' /\ Known' /\ EndsTold'
  <2>1. PICK U \in SUBSET Sendable : U = {e}
    OBVIOUS
  <2>2. \A x \in Sendable : Reliable(x) => (In(Coming, x) <=> In(Coming', x) \/ x \in U)
    BY <2>1
  <2>3. /\ \A u \in U, o \in U : ~Revives(u, o)
        /\ \A u \in U, o \in Sendable : In(Coming', o) => ~Revives(u, o)
    BY <1>8, <2>1
  <2>4. Spared(U) /\ OnlyThese(store, store', U)
    BY <1>5, <1>6, <2>1
  <2> QED
    BY <1>1, <1>4, <1>7, <2>2, <2>3, <2>4, StoreMoves
<1>10. ConnsTyped'
  BY DEF ClIInv, EndsKept, ConnsTyped, tabVars
<1> QED
  BY <1>4, <1>9, <1>10 DEF ClIInv, EndsKept

\* An event that is not reliable is never missed.
LEMMA DeliverPlain ==
  ASSUME ClIInv, EvIInv', phase = "receive", NEW e \in Plain, Deliver(e),
         UNCHANGED <<batch, tabVars, conns, sequence, pendingLifecycle, lifecycle, blocked>>,
         crowded' = (crowded \/ Crowded(store')), Carried'
  PROVE  ClIInv'
<1>1. Coming' = Coming
  BY DEF Coming
<1>2. e \in Sendable /\ ~Reliable(e) /\ ~IsEnd(e)
  BY DEF Plain, Sendable, IsEnd, Reliable
<1>3. Queued(Coming', Sendable, NoRevival)
  BY <1>1 DEF ClIInv, EndsKept, Ordered
<1>4. /\ \A x \in Sendable : Reliable(x) => (In(Coming, x) <=> In(Coming', x) \/ x = e)
      /\ \A o \in Sendable : In(Coming', o) => ~Revives(e, o)
  BY <1>1, <1>2 DEF Revives
<1> QED
  BY <1>2, <1>3, <1>4, DeliverEnds

\* What is taken of the control queue, and what is left.
LEMMA ControlPlain ==
  ASSUME Carried
  PROVE  TakeControl \in Seq(Plain) /\ RestOfControl \in Seq(Plain)
<1>1. control \in Seq(Plain) /\ pendingControl \in Seq(Plain)
  BY DEF Carried
<1>2. CASE pendingControl = <<>> /\ control # <<>>
  <2>1. Head(control) \in Plain /\ Tail(control) \in Seq(Plain)
    BY <1>1, <1>2
  <2> QED
    BY <1>2, <2>1 DEF TakeControl, RestOfControl
<1>3. CASE ~(pendingControl = <<>> /\ control # <<>>)
  BY <1>1, <1>3 DEF TakeControl, RestOfControl
<1> QED
  BY <1>2, <1>3

\* Output that joins stays plain.
LEMMA TogetherPlain ==
  ASSUME NEW es \in Seq(Plain), es # <<>>
  PROVE  Together(es) \in Plain
<1>1. /\ Head(es) \in EventsOn(Terminals) /\ Tail(es) \in Seq(EventsOn(Terminals))
      /\ Head(es) \in Plain
  <2>1. Head(es) \in Plain /\ Tail(es) \in Seq(Plain)
    OBVIOUS
  <2>2. Plain \subseteq EventsOn(Terminals)
    BY DEF Plain
  <2> QED
    BY <2>1, <2>2
<1>2. PICK r : MergeTrail(r, EventsOn(Terminals), Head(es), Tail(es))
  BY <1>1, MergedTrail
<1> DEFINE n == Len(Tail(es))
<1>3. n \in Nat
  BY <1>1
<1>4. /\ r[0] = Head(es) /\ r[n] = Together(es) /\ r \in [0..n -> EventsOn(Terminals)]
      /\ \A i \in 1..n : r[i] = Merged(r[i - 1], Tail(es)[i])
  BY <1>2 DEF MergeTrail, Together
<1> HIDE DEF n
<1>5. ASSUME NEW i \in 1..n, r[i - 1] \in Plain PROVE r[i] \in Plain
  <2>1. r[i] \in EventsOn(Terminals)
    BY <1>3, <1>4
  <2>2. r[i].kind = r[i - 1].kind
    BY <1>4, <1>5 DEF Merged, Plain, EventsOn
  <2> QED
    BY <1>5, <2>1, <2>2 DEF Plain, Reliable
<1>6. r[n] \in Plain
  <2>1. PICK W : W = [i \in 0..n |-> Plain]
    OBVIOUS
  <2>2. r[0] \in W[0]
    BY <1>1, <1>3, <1>4, <2>1
  <2>3. \A i \in 1..n : r[i - 1] \in W[i - 1] => r[i] \in W[i]
    <3>1. \A i \in 1..n : i - 1 \in 0..n /\ i \in 0..n
      BY <1>3
    <3> QED
      BY <1>5, <2>1, <3>1
  <2>4. r[n] \in W[n]
    BY <1>3, <2>2, <2>3, Along
  <2> QED
    BY <1>3, <2>1, <2>4
<1> QED
  BY <1>4, <1>6


\* Output is received, or an event that is neither output nor reliable.
LEMMA ReceiveEnds ==
  ASSUME ClIInv, EvIInv', ReceiveOutput \/ ReceiveControl,
         crowded' = (crowded \/ Crowded(store'))
  PROVE  ClIInv'
<1>1. /\ outputs \in Seq(Plain) /\ pendingControl \in Seq(Plain) /\ control \in Seq(Plain)
      /\ TakeControl \in Seq(Plain) /\ RestOfControl \in Seq(Plain)
      /\ Len(pendingLifecycle) <= 1
  BY ControlPlain DEF ClIInv, EndsKept, Carried
<1>2. CASE ReceiveOutput
  <2>1. PICK e : e = Head(outputs)
    OBVIOUS
  <2>2. e \in Plain /\ Tail(outputs) \in Seq(Plain)
    BY <1>1, <1>2, <2>1 DEF ReceiveOutput
  <2>3. Carried'
    BY <1>1, <1>2, <2>2 DEF ReceiveOutput, Carried
  <2>4. Deliver(e) /\ phase = "receive"
    BY <1>2, <2>1 DEF ReceiveOutput
  <2>5. UNCHANGED <<batch, tabVars, conns, sequence, pendingLifecycle, lifecycle, blocked>>
    BY <1>2 DEF ReceiveOutput
  <2> QED
    BY <2>2, <2>3, <2>4, <2>5, DeliverPlain
<1>3. CASE ReceiveControl
  <2>1. PICK e : e = TakeControl[1]
    OBVIOUS
  <2>2. e \in Plain
    BY <1>1, <1>3, <2>1 DEF ReceiveControl
  <2>3. Carried'
    BY <1>1, <1>3 DEF ReceiveControl, Carried
  <2>4. Deliver(e) /\ phase = "receive"
    BY <1>3, <2>1 DEF ReceiveControl
  <2>5. UNCHANGED <<batch, tabVars, conns, sequence, pendingLifecycle, lifecycle, blocked>>
    BY <1>3 DEF ReceiveControl
  <2> QED
    BY <2>2, <2>3, <2>4, <2>5, DeliverPlain
<1> QED
  BY <1>2, <1>3

\* A reliable event is received, or what comes before it.
LEMMA ReceiveLifecycleEnds ==
  ASSUME ClIInv, EvIInv', ReceiveLifecycle, crowded' = (crowded \/ Crowded(store'))
  PROVE  ClIInv'
<1>1. /\ outputs \in Seq(Plain) /\ pendingControl \in Seq(Plain) /\ control \in Seq(Plain)
      /\ TakeControl \in Seq(Plain) /\ RestOfControl \in Seq(Plain)
      /\ Len(pendingLifecycle) <= 1 /\ Queued(Coming, Sendable, NoRevival)
      /\ pendingLifecycle \in Seq(EventsOn(Terminals)) /\ lifecycle \in Seq(EventsOn(Terminals))
  BY ControlPlain DEF ClIInv, EndsKept, Carried, EvIInv, ChannelTyped, Queues, Ordered
<1>2. phase = "receive" /\ UNCHANGED <<batch, tabVars, conns, sequence, lifecycle, blocked>>
  BY DEF ReceiveLifecycle
<1>3. PICK c : c = pendingLifecycle[1]
  OBVIOUS
<1>4. CASE /\ TakeControl # <<>> /\ Deliver(TakeControl[1]) /\ control' = RestOfControl
           /\ pendingControl' = <<>> /\ UNCHANGED <<pendingLifecycle, outputs>>
  <2>1. PICK e : e = TakeControl[1]
    OBVIOUS
  <2>2. e \in Plain
    BY <1>1, <1>4, <2>1
  <2>3. Carried'
    BY <1>1, <1>4 DEF Carried
  <2>4. Deliver(e)
    BY <1>4, <2>1
  <2> QED
    BY <1>2, <1>4, <2>2, <2>3, <2>4, DeliverPlain
<1>5. CASE /\ EarlierOutput(c) # <<>> /\ Deliver(Together(EarlierOutput(c)))
           /\ outputs' = LaterOutput(c) /\ control' = RestOfControl
           /\ pendingControl' = TakeControl /\ UNCHANGED pendingLifecycle
  <2>1. PICK e : e = Together(EarlierOutput(c))
    OBVIOUS
  <2>2. EarlierOutput(c) \in Seq(Plain) /\ LaterOutput(c) \in Seq(Plain)
    BY <1>1, ThoseIn DEF EarlierOutput, LaterOutput
  <2>3. e \in Plain
    BY <1>5, <2>1, <2>2, TogetherPlain
  <2>4. Carried'
    BY <1>1, <1>5, <2>2 DEF Carried
  <2>5. Deliver(e)
    BY <1>5, <2>1
  <2> QED
    BY <1>2, <1>5, <2>3, <2>4, <2>5, DeliverPlain
<1>6. CASE /\ Deliver(c) /\ pendingLifecycle' = <<>> /\ control' = RestOfControl
           /\ pendingControl' = TakeControl /\ UNCHANGED outputs
  <2>1. pendingLifecycle # <<>>
    BY DEF ReceiveLifecycle
  <2>2. c \in EventsOn(Terminals) /\ pendingLifecycle = <<c>>
    <3>0. PICK E : E = EventsOn(Terminals)
      OBVIOUS
    <3>1. Len(pendingLifecycle) = 1
      <4>1. pendingLifecycle \in Seq(E)
        BY <1>1, <3>0
      <4>2. PICK n : n = Len(pendingLifecycle)
        OBVIOUS
      <4>3. n \in Nat \ {0}
        BY <2>1, <4>1, <4>2, EmptySeq
      <4>4. n <= 1
        BY <1>1, <4>2
      <4>5. n = 1
        BY ONLY <4>3, <4>4
      <4> QED
        BY <4>2, <4>5
    <3>2. c \in EventsOn(Terminals)
      <4>1. pendingLifecycle \in Seq(E) /\ c = pendingLifecycle[1]
        BY <1>1, <1>3, <3>0
      <4> QED
        BY ONLY <3>0, <3>1, <4>1
    <3>3. <<c>> \in Seq(EventsOn(Terminals)) /\ Len(<<c>>) = 1 /\ <<c>>[1] = c
      BY <3>2
    <3> QED
      BY <1>1, <1>3, <3>1, <3>2, <3>3, SeqEqual
  <2>3. PICK b : b = IF blocked = None THEN <<>> ELSE <<blocked>>
    OBVIOUS
  <2>4. b \in Seq(EventsOn(Terminals))
    <3>1. blocked \in EventsOn(Terminals) \cup {None}
      BY DEF ClIInv, EvIInv, ChannelTyped
    <3> QED
      BY <2>3, <3>1
  <2>5. lifecycle \o b \in Seq(EventsOn(Terminals))
    BY <1>1, <2>4
  <2>6. Coming = <<c>> \o (lifecycle \o b)
    BY <1>1, <2>2, <2>3, <2>4 DEF Coming
  <2>7. Coming' = lifecycle \o b
    BY <1>1, <1>2, <1>6, <2>3, <2>4 DEF Coming
  <2>8. Head(Coming) = c /\ Tail(Coming) = Coming' /\ Coming # <<>>
    BY <2>2, <2>5, <2>6, <2>7, HeadJoined
  <2>9. /\ c \in Sendable /\ Queued(Coming', Sendable, NoRevival)
        /\ \A x : In(Coming, x) <=> x = c \/ In(Coming', x)
        /\ \A x : In(Coming', x) => <<c, x>> \in NoRevival
    BY <1>1, <2>8, HeadQueued
  <2>10. Carried'
    BY <1>1, <1>6 DEF Carried
  <2>11. /\ \A x \in Sendable : Reliable(x) => (In(Coming, x) <=> In(Coming', x) \/ x = c)
         /\ \A o \in Sendable : In(Coming', o) => ~Revives(c, o)
    BY <2>9 DEF NoRevival
  <2>12. Queued(Coming', Sendable, NoRevival) /\ Deliver(c)
    BY <1>6, <2>9
  <2> QED
    BY <1>2, <2>9, <2>10, <2>11, <2>12, DeliverEnds
<1> QED
  BY <1>3, <1>4, <1>5, <1>6 DEF ReceiveLifecycle

\* Events are lost, or go to another place of the store, while nothing leaves
\* the channel.
LEMMA StoreChanges ==
  ASSUME ClIInv, EvIInv', StoreQueued(store', Sendable, NoRevival), Quiet(store'),
         Spared({}), OnlyThese(store, store', {}), phase = "idle", UNCHANGED <<chanVars, batch>>,
         Older, Steady, ConnsTyped'
  PROVE  ClIInv'
<1>1. batch = <<>> /\ batch' = <<>>
  BY DEF ClIInv, EvIInv, PumpTyped
<1>2. Coming' = Coming /\ Carried'
  BY DEF chanVars, Coming, Carried, ClIInv, EndsKept
<1>3. Ordered' /\ Known' /\ EndsTold'
  <2>1. PICK U \in SUBSET Sendable : U = {}
    OBVIOUS
  <2>2. /\ \A x \in Sendable : Reliable(x) => (In(Coming, x) <=> In(Coming', x) \/ x \in U)
        /\ \A u \in U, o \in U : ~Revives(u, o)
        /\ \A u \in U, o \in Sendable : In(Coming', o) => ~Revives(u, o)
    BY <1>2, <2>1
  <2>3. Spared(U) /\ OnlyThese(store, store', U)
    BY <2>1
  <2>4. Queued(Coming', Sendable, NoRevival)
    BY <1>2 DEF ClIInv, EndsKept, Ordered
  <2> QED
    BY <1>1, <2>2, <2>3, <2>4, StoreMoves
<1> QED
  BY <1>2, <1>3 DEF ClIInv, EndsKept

\* A drain begins with the expiry of unrouted events.
LEMMA BeginDrainEnds ==
  ASSUME ClIInv, EvIInv', NEW w \in Owners, BeginDrain(w), crowded' = (crowded \/ Crowded(store'))
  PROVE  ClIInv'
<1>1. WellRouted(store) /\ Quiet(store) /\ StoreQueued(store, Sendable, NoRevival)
  BY DEF ClIInv, EndsKept, Ordered, EvIInv
<1>2. phase = "idle" /\ UNCHANGED <<chanVars, batch, tabVars, conns>>
  BY DEF BeginDrain
<1>3. PICK gone : store' = ForgetUnrouted(store, gone)
  BY DEF BeginDrain, Pruned
<1>4. Quiet(store') /\ StoreQueued(store', Sendable, NoRevival)
  BY <1>1, <1>3, ForgetShape, ForgetQueued
<1>5. KeepsReliable(store, store', {}) /\ OnlyThese(store, store', {})
  BY <1>1, <1>3, ForgetFate
<1>6. Spared({})
  BY <1>5, KeepsEnough
<1>7. Older /\ Steady
  BY <1>2, TabsSettled, SettledOlder DEF tabVars, chanVars
<1>8. ConnsTyped'
  BY <1>2 DEF ClIInv, EndsKept, ConnsTyped, tabVars
<1> QED
  BY <1>2, <1>4, <1>5, <1>6, <1>7, <1>8, StoreChanges


\* A window takes its share.
LEMMA ShareEnds ==
  ASSUME ClIInv, EvIInv', DrainPending, crowded => crowded'
  PROVE  ClIInv'
<1>1. /\ WellRouted(store) /\ Quiet(store) /\ StoreQueued(store, Sendable, NoRevival)
      /\ batch = <<>> /\ pump \in Owners
      /\ UNCHANGED <<chanVars, tabVars, conns>>
  BY DEF ClIInv, EndsKept, Ordered, EvIInv, PumpTyped, DrainPending
<1>2. PICK mine : mine = store.pending[pump]
  OBVIOUS
<1>3. PICK n : n = IF Len(mine) < MaxTick THEN Len(mine) ELSE MaxTick
  OBVIOUS
<1>4. PICK p : p = SubSeq(mine, 1, n)
  OBVIOUS
<1>5. PICK s : s = SubSeq(mine, n + 1, Len(mine))
  OBVIOUS
<1>6. batch' = CoalesceEvents(p) /\ store' = [store EXCEPT !.pending[pump] = s]
  BY <1>2, <1>3, <1>4, <1>5 DEF DrainPending
<1>7. Queued(mine, Sendable, NoRevival) /\ mine \in Seq(EventsOn(OwnedBy(store, pump)))
  BY <1>1, <1>2 DEF StoreQueued, WellRouted
<1>8. /\ p \in Seq(Sendable) /\ Queued(s, Sendable, NoRevival)
      /\ \A x : In(mine, x) <=> In(p, x) \/ In(s, x)
      /\ \A x, y : In(p, x) /\ In(s, y) => <<x, y>> \in NoRevival
  <2>1. n \in 0..Len(mine)
    BY <1>3, <1>7, EventsAssumption
  <2> QED
    BY <1>4, <1>5, <1>7, <2>1, SplitQueued
<1>9. p \in Seq(EventsOn(Terminals))
  <2>1. Sendable \subseteq EventsOn(Terminals)
    BY DEF Sendable
  <2> QED
    BY <1>8, <2>1
<1>10. /\ batch' \in Seq(EventsOn(Terminals)) /\ InOrder(batch')
       /\ \A x : Reliable(x) => (In(batch', x) <=> In(p, x))
  BY <1>6, <1>9, CoalescedOn, CoalescedHolds
<1>11. /\ store'.routes = store.routes /\ store'.unrouted = store.unrouted
       /\ store'.tombstones = store.tombstones
       /\ store'.pending[pump] = s
       /\ \A w \in Owners : w # pump => store'.pending[w] = store.pending[w]
  BY <1>1, <1>6 DEF WellRouted, StoreTyped
<1>12. \A x : Waits(store, x) <=> Waits(store', x) \/ In(p, x)
  BY <1>1, <1>2, <1>8, <1>11 DEF Waits
<1>13. Coming' = Coming /\ Carried'
  BY <1>1 DEF chanVars, Coming, Carried, ClIInv, EndsKept
<1>14. Quiet(store')
  BY <1>1, <1>11 DEF Quiet, Entombed
<1>15. \A x : Reliable(x) => (Around(x)' <=> Around(x))
  <2>1. \A x : ~In(batch, x)
    BY <1>1 DEF In
  <2> QED
    BY <1>10, <1>12, <1>13, <2>1 DEF Around
<1>16. Queued(batch', Sendable, NoRevival)
  <2>1. ASSUME NEW i \in DOMAIN batch' PROVE batch'[i] \in Sendable
    <3>1. In(batch', batch'[i]) /\ batch'[i] \in EventsOn(Terminals)
      BY <1>10 DEF In
    <3>2. CASE Reliable(batch'[i])
      <4>1. In(p, batch'[i])
        BY <1>10, <3>1, <3>2
      <4> QED
        BY <1>8, <4>1 DEF In
    <3>3. CASE ~Reliable(batch'[i])
      BY <3>1, <3>3 DEF Sendable
    <3> QED
      BY <3>2, <3>3
  <2>2. batch' \in Seq(Sendable)
    BY <1>10, <2>1
  <2>3. ASSUME NEW i \in DOMAIN batch', NEW j \in DOMAIN batch', i < j,
               Revives(batch'[i], batch'[j])
        PROVE  FALSE
    <3>1. PICK x \in Sendable, y \in Sendable : x = batch'[i] /\ y = batch'[j]
      BY <2>1
    <3>2. x.seq <= y.seq
      BY <1>10, <2>3, <3>1 DEF InOrder
    <3>3. Reliable(x) /\ Reliable(y) /\ IsEnd(x) /\ IsOpen(y) /\ OfOne(y, x)
      BY <2>3, <3>1, RevivesReliable DEF Revives, OfOne
    <3>4. In(batch', x) /\ In(batch', y)
      BY <3>1 DEF In
    <3>5. Around(x) /\ Around(y)
      BY <1>15, <3>3, <3>4 DEF Around
    <3>6. y.seq < x.seq
      BY <3>3, <3>5 DEF ClIInv, EndsKept, Known
    <3> QED
      BY <3>2, <3>6, SentOf
  <2> QED
    BY <2>1, <2>2, <2>3 DEF Queued, Lined, NoRevival
<1>17. StoreQueued(store', Sendable, NoRevival)
  BY <1>1, <1>8, <1>11 DEF StoreQueued
<1>18. Ordered'
  <2>1. \A x, y \in Sendable : Waits(store', x) /\ In(Coming', y) => ~Revives(x, y)
    BY <1>12, <1>13 DEF ClIInv, EndsKept, Ordered
  <2>2. ASSUME NEW x \in Sendable, NEW y \in Sendable, In(batch', x), Revives(x, y),
               Waits(store', y) \/ In(Coming', y)
        PROVE  FALSE
    <3>1. Reliable(x) /\ In(p, x) /\ Waits(store, x) /\ In(mine, x) /\ y.route = x.route
      BY <1>8, <1>10, <1>12, <2>2, RevivesReliable DEF Revives, OfOne
    <3>2. CASE In(Coming', y)
      BY <1>13, <2>2, <3>1, <3>2 DEF ClIInv, EndsKept, Ordered
    <3>3. CASE Waits(store', y)
      <4>1. store.routes[x.route] = pump
        <5>1. x \in EventsOn(OwnedBy(store, pump))
          BY <1>7, <3>1 DEF In
        <5> QED
          BY <5>1 DEF EventsOn, OwnedBy
      <4>2. store'.routes[y.route] = pump /\ pump # Nobody
        BY <1>1, <1>11, <3>1, <4>1, StoreAssumption
      <4>3. WellRouted(store')
        BY DEF EvIInv
      <4>4. In(store'.pending[pump], y)
        BY <1>14, <3>3, <4>2, <4>3, HeldWhere
      <4>5. <<x, y>> \in NoRevival
        BY <1>8, <1>11, <3>1, <4>4
      <4> QED
        BY <2>2, <4>5 DEF NoRevival
    <3> QED
      BY <2>2, <3>2, <3>3
  <2>3. Queued(Coming', Sendable, NoRevival)
    BY <1>13 DEF ClIInv, EndsKept, Ordered
  <2> QED
    BY <1>16, <1>17, <2>1, <2>2, <2>3 DEF Ordered
<1>19. Older /\ Steady
  BY <1>1, TabsSettled, SettledOlder DEF tabVars, chanVars
<1>20. Known' /\ EndsTold'
  <2>1. \A x \in Sendable : Reliable(x) /\ Around(x)' => Around(x)
    BY <1>15
  <2>2. Known'
    BY <1>19, <2>1, KnownStays DEF ClIInv, EndsKept, EvIInv, ChannelTyped
  <2>3. \A o \in Sendable : IsOpen(o) /\ Around(o)' => Around(o)
    BY <1>15 DEF IsOpen, Reliable
  <2>4. \A y \in Sendable : IsEnd(y) /\ Around(y) => Around(y)'
    BY <1>15 DEF IsEnd, Reliable
  <2> QED
    BY <1>19, <2>2, <2>3, <2>4, ToldStays DEF ClIInv, EndsKept
<1>21. ConnsTyped'
  BY <1>1 DEF ClIInv, EndsKept, ConnsTyped, tabVars
<1> QED
  BY <1>13, <1>14, <1>18, <1>20, <1>21 DEF ClIInv, EndsKept


\* A tab that is opened, retried or put back gets its route, behind the expiry
\* of unrouted events.
LEMMA RegistersSpare ==
  ASSUME ClIInv, EvIInv', NEW t \in Terminals, NEW w \in Owners, Registers(t, w),
         store.routes[t] \in {w, Nobody}, Crowded(store') => crowded',
         ~Ended(t)' \/ Noticed(t)'
  PROVE  /\ Quiet(store') /\ StoreQueued(store', Sendable, NoRevival)
         /\ Spared({}) /\ OnlyThese(store, store', {})
<1>1. WellRouted(store) /\ Quiet(store) /\ StoreQueued(store, Sendable, NoRevival)
  BY DEF ClIInv, EndsKept, Ordered, EvIInv
<1>2. PICK gone : store' = RegisterRoute(ForgetUnrouted(store, gone), t, w)
  BY DEF Registers, Pruned
<1>3. PICK mid : mid = ForgetUnrouted(store, gone)
  OBVIOUS
<1>4. /\ WellRouted(mid) /\ Quiet(mid) /\ mid.routes = store.routes
      /\ StoreQueued(mid, Sendable, NoRevival) /\ OnlyThese(store, mid, {})
      /\ \A y \in Sendable : Waits(store, y) => Waits(mid, y) \/ Lone(mid, y.route, {})
  BY <1>1, <1>3, ForgetShape, ForgetQueued, ForgetFate
<1>5. /\ Quiet(store') /\ StoreQueued(store', Sendable, NoRevival)
      /\ KeepsReliable(mid, store', {}) /\ OnlyThese(mid, store', {}) /\ RegisteredAt(mid, store', t, w)
  BY <1>2, <1>3, <1>4, SentFits, RegisterShape, RegisterQueued, RegisterFate
<1>6. OnlyThese(store, store', {})
  BY <1>4, <1>5 DEF OnlyThese
<1>7. \A r \in Terminals : store'.routes[r] = Nobody => Noticed(r)'
  BY DEF EvIInv, TabsRouted, Noticed
<1>8. ASSUME NEW y \in Sendable, IsEnd(y), Waits(store, y)
      PROVE  \/ Waits(store', y) \/ crowded' \/ ~Ended(y.route)'
             \/ Noticed(y.route)' /\ Bare(store', y.route, {})
  <2>0. y.route \in Terminals /\ y.route \in Routes /\ Reliable(y)
    BY <1>8, SentOf, EventsAssumption DEF IsEnd, Reliable
  <2>1. CASE Waits(mid, y)
    <3>1. \/ Waits(store', y) \/ Crowded(store') \/ Lone(store', y.route, {})
      BY <1>5, <2>0, <2>1 DEF KeepsReliable
    <3>2. CASE Lone(store', y.route, {})
      <4>1. Bare(store', y.route, {}) /\ store'.routes[y.route] = Nobody
        BY <3>2, SentOf DEF Lone, Bare
      <4> QED
        BY <1>7, <2>0, <4>1
    <3> QED
      BY <3>1, <3>2
  <2>2. CASE Lone(mid, y.route, {})
    <3>1. Bare(store', y.route, {})
      BY <1>5, <2>2, SentOf DEF Lone, Bare, OnlyThese
    <3>2. CASE y.route = t
      BY <3>1, <3>2
    <3>3. CASE y.route # t
      <4>1. mid.routes[y.route] = Nobody
        BY <2>2 DEF Lone
      <4>2. store'.routes = [mid.routes EXCEPT ![t] = w] /\ mid.routes \in [Routes -> Owners \cup {Nobody}]
        BY <1>4, <1>5 DEF RegisteredAt, WellRouted, StoreTyped
      <4>3. store'.routes[y.route] = Nobody
        BY <2>0, <3>3, <4>1, <4>2
      <4> QED
        BY <1>7, <2>0, <3>1, <4>3
    <3> QED
      BY <3>2, <3>3
  <2> QED
    BY <1>4, <1>8, <2>1, <2>2
<1>9. Spared({})
  BY <1>8 DEF Spared
<1> QED
  BY <1>5, <1>6, <1>9

\* A tab is opened.
LEMMA OpenTabEnds ==
  ASSUME ClIInv, EvIInv', NEW w \in Owners, OpenTab(w), crowded' = (crowded \/ Crowded(store'))
  PROVE  ClIInv'
<1> DEFINE z == CHOOSE u \in Terminals \ OpenedTabs : TRUE
<1>1. z \in Terminals /\ gen[z] = 0
  BY DEF OpenTab, OpenedTabs
<1>2. /\ gen' = [gen EXCEPT ![z] = 1] /\ home' = [home EXCEPT ![z] = w] /\ link' = link
      /\ conns' = [conns EXCEPT ![z][1] = "starting"]
      /\ Registers(z, w) /\ phase = "idle" /\ UNCHANGED <<pumpVars, chanVars>>
  BY DEF OpenTab
<1> HIDE DEF z
<1>3. PICK t \in Terminals : t = z
  BY <1>1
<1>4. /\ store.routes[t] = Nobody /\ 1 \in Gens /\ home[t] = Nobody
      /\ home \in [Terminals -> Owners \cup {Nobody}] /\ gen \in [Terminals -> Nat]
      /\ conns \in [Terminals -> [Gens -> {"none", "starting", "up", "done"}]]
      /\ \A u \in Terminals, k \in Gens : k > gen[u] => conns[u][k] = "none"
      /\ \A u \in Terminals : gen[u] \in 0..MaxGen
  BY <1>1, <1>3, EventsAssumption
     DEF ClIInv, EndsKept, ConnsTyped, EvIInv, TabsTyped, TabsRouted, Gens
<1>5. /\ conns[t][1] = "none" /\ gen'[t] = 1 /\ conns'[t][1] = "starting"
      /\ \A k \in Gens : k # 1 => conns'[t][k] = conns[t][k]
      /\ \A u \in Terminals : u # t => /\ gen'[u] = gen[u] /\ home'[u] = home[u]
                                       /\ \A k \in Gens : conns'[u][k] = conns[u][k]
      /\ conns' \in [Terminals -> [Gens -> {"none", "starting", "up", "done"}]]
  <2>1. conns' = [conns EXCEPT ![t] = [conns[t] EXCEPT ![1] = "starting"]]
    BY <1>2, <1>3
  <2>2. gen[t] = 0
    BY <1>1, <1>3
  <2>3. conns[t][1] = "none" /\ gen'[t] = 1
    BY <1>2, <1>3, <1>4, <2>2
  <2> QED
    BY <1>2, <1>3, <1>4, <2>1, <2>3
<1>6. ~Ended(t)'
  BY <1>5 DEF Ended
<1>7. /\ Quiet(store') /\ StoreQueued(store', Sendable, NoRevival)
      /\ Spared({}) /\ OnlyThese(store, store', {})
  BY <1>2, <1>3, <1>4, <1>6, RegistersSpare
<1>8. Older
  BY <1>2, <1>5 DEF Older, chanVars
<1>9. Steady
  <2>1. ASSUME NEW u \in Terminals, Ended(u)'
        PROVE  gen'[u] = gen[u] /\ Ended(u) /\ (Noticed(u) => Noticed(u)')
    <3>1. u # t
      BY <1>6, <2>1
    <3>2. gen[u] # 0 /\ gen[u] \in Gens /\ gen'[u] = gen[u]
      BY <1>4, <1>5, <2>1, <3>1 DEF Ended, Gens
    <3> QED
      BY <1>2, <1>5, <2>1, <3>1, <3>2 DEF Ended, Noticed
  <2> QED
    BY <2>1 DEF Steady
<1>10. ConnsTyped'
  <2>1. \A u \in Terminals : gen'[u] \in 0..MaxGen
    BY <1>4, <1>5, EventsAssumption
  <2>2. \A u \in Terminals, k \in Gens : k > gen'[u] => conns'[u][k] = "none"
    <3>1. ASSUME NEW k \in Gens, k > 1 PROVE conns'[t][k] = "none"
      BY <1>1, <1>3, <1>4, <1>5, <3>1 DEF Gens
    <3> QED
      BY <1>4, <1>5, <3>1
  <2> QED
    BY <1>5, <2>1, <2>2 DEF ConnsTyped
<1> QED
  BY <1>2, <1>7, <1>8, <1>9, <1>10, StoreChanges DEF pumpVars


\* A tab is retried.
LEMMA RetryEnds ==
  ASSUME ClIInv, EvIInv', NEW t \in Terminals, Retry(t), crowded' = (crowded \/ Crowded(store'))
  PROVE  ClIInv'
<1>1. /\ home[t] # Nobody /\ gen[t] < MaxGen /\ Registers(t, home[t]) /\ phase = "idle"
      /\ gen' = [gen EXCEPT ![t] = @ + 1] /\ link' = [link EXCEPT ![t] = "connecting"]
      /\ conns' = [conns EXCEPT ![t][gen[t] + 1] = "starting"] /\ home' = home
      /\ UNCHANGED <<pumpVars, chanVars>>
  BY DEF Retry, Asks
<1>2. PICK g : g = gen[t] + 1
  OBVIOUS
<1>3. /\ g \in Gens /\ home[t] \in Owners /\ store.routes[t] \in {home[t], Nobody}
      /\ gen \in [Terminals -> Nat]
      /\ link \in [Terminals -> {"connecting", "connected", "down"}]
      /\ conns \in [Terminals -> [Gens -> {"none", "starting", "up", "done"}]]
      /\ \A u \in Terminals, k \in Gens : k > gen[u] => conns[u][k] = "none"
      /\ \A u \in Terminals : gen[u] \in 0..MaxGen
  BY <1>1, <1>2, EventsAssumption
     DEF ClIInv, EndsKept, ConnsTyped, EvIInv, TabsTyped, TabsRouted, Gens
<1>4. /\ conns[t][g] = "none" /\ gen'[t] = g /\ conns'[t][g] = "starting"
      /\ \A k \in Gens : k # g => conns'[t][k] = conns[t][k]
      /\ \A u \in Terminals : u # t => /\ gen'[u] = gen[u] /\ link'[u] = link[u]
                                       /\ \A k \in Gens : conns'[u][k] = conns[u][k]
      /\ conns' \in [Terminals -> [Gens -> {"none", "starting", "up", "done"}]]
  <2>1. conns' = [conns EXCEPT ![t] = [conns[t] EXCEPT ![g] = "starting"]]
    BY <1>1, <1>2
  <2>2. g > gen[t] /\ gen'[t] = g
    BY <1>1, <1>2, <1>3
  <2>3. conns[t][g] = "none"
    BY <1>3, <2>2
  <2> QED
    BY <1>1, <1>3, <2>1, <2>2, <2>3
<1>5. ~Ended(t)'
  BY <1>4 DEF Ended
<1>6. /\ Quiet(store') /\ StoreQueued(store', Sendable, NoRevival)
      /\ Spared({}) /\ OnlyThese(store, store', {})
  BY <1>1, <1>3, <1>5, RegistersSpare
<1>7. Older
  BY <1>1, <1>4 DEF Older, chanVars
<1>8. Steady
  <2>1. ASSUME NEW u \in Terminals, Ended(u)'
        PROVE  gen'[u] = gen[u] /\ Ended(u) /\ (Noticed(u) => Noticed(u)')
    <3>1. u # t
      BY <1>5, <2>1
    <3>2. gen[u] # 0 /\ gen[u] \in Gens /\ gen'[u] = gen[u]
      BY <1>3, <1>4, <2>1, <3>1 DEF Ended, Gens
    <3> QED
      BY <1>1, <1>4, <2>1, <3>1, <3>2 DEF Ended, Noticed
  <2> QED
    BY <2>1 DEF Steady
<1>9. ConnsTyped'
  <2>1. \A u \in Terminals : gen'[u] \in 0..MaxGen
    BY <1>3, <1>4 DEF Gens
  <2>2. \A u \in Terminals, k \in Gens : k > gen'[u] => conns'[u][k] = "none"
    <3>1. ASSUME NEW k \in Gens, k > g PROVE conns'[t][k] = "none"
      BY <1>2, <1>3, <1>4, <3>1 DEF Gens
    <3> QED
      BY <1>3, <1>4, <3>1
  <2> QED
    BY <1>4, <2>1, <2>2 DEF ConnsTyped
<1> QED
  BY <1>1, <1>6, <1>7, <1>8, <1>9, StoreChanges DEF pumpVars

\* The store keeps what it does not lose with a route, and the tabs but notice
\* more.
LEMMA RouteChanges ==
  ASSUME ClIInv, EvIInv', StoreQueued(store', Sendable, NoRevival), Quiet(store'),
         KeepsReliable(store, store', {}), OnlyThese(store, store', {}), phase = "idle",
         UNCHANGED <<chanVars, batch, gen, conns>>, crowded' = (crowded \/ Crowded(store')),
         \A u \in Terminals : Noticed(u) => Noticed(u)'
  PROVE  ClIInv'
<1>1. Spared({})
  BY KeepsEnough
<1>2. Older
  BY SettledOlder DEF chanVars
<1>3. Steady
  BY DEF Steady, Ended
<1>4. ConnsTyped'
  BY DEF ClIInv, EndsKept, ConnsTyped
<1> QED
  BY <1>1, <1>2, <1>3, <1>4, StoreChanges

\* A tab is closed or disconnected: what waits for it is lost with its route.
LEMMA CloseTabEnds ==
  ASSUME ClIInv, EvIInv', NEW t \in Terminals, CloseTab(t) \/ Disconnect(t),
         crowded' = (crowded \/ Crowded(store'))
  PROVE  ClIInv'
<1>1. /\ home[t] # Nobody /\ store' = UnregisterRoute(store, t, home[t]) /\ phase = "idle"
      /\ UNCHANGED <<pumpVars, chanVars, gen, conns>>
      /\ \/ home' = [home EXCEPT ![t] = Nobody] /\ link' = link
         \/ link' = [link EXCEPT ![t] = "down"] /\ home' = home
  BY DEF CloseTab, Disconnect, Asks
<1>2. /\ WellRouted(store) /\ Quiet(store) /\ StoreQueued(store, Sendable, NoRevival)
      /\ home[t] \in Owners
      /\ home \in [Terminals -> Owners \cup {Nobody}]
      /\ link \in [Terminals -> {"connecting", "connected", "down"}]
  BY <1>1 DEF ClIInv, EndsKept, Ordered, EvIInv, TabsTyped
<1>3. Quiet(store') /\ StoreQueued(store', Sendable, NoRevival)
  BY <1>1, <1>2, SentFits, UnregisterShape, UnregisterQueued
<1>4. KeepsReliable(store, store', {}) /\ OnlyThese(store, store', {})
  BY <1>1, <1>2, UnregisterFate
<1>5. \A u \in Terminals : Noticed(u) => Noticed(u)'
  BY <1>1, <1>2 DEF Noticed
<1> QED
  BY <1>1, <1>3, <1>4, <1>5, RouteChanges DEF pumpVars

\* A tab goes to another window, or is put back.
LEMMA MoveTabEnds ==
  ASSUME ClIInv, EvIInv', NEW t \in Terminals, NEW w \in Owners, MoveTab(t, w),
         crowded' = (crowded \/ Crowded(store'))
  PROVE  ClIInv'
<1>1. /\ home[t] \notin {Nobody, w} /\ phase = "idle"
      /\ UNCHANGED <<pumpVars, chanVars, gen, link, conns>>
  BY DEF MoveTab, Asks
<1>2. /\ WellRouted(store) /\ Quiet(store) /\ StoreQueued(store, Sendable, NoRevival)
      /\ home[t] \in Owners /\ home[t] # w
      /\ home \in [Terminals -> Owners \cup {Nobody}]
  BY <1>1 DEF ClIInv, EndsKept, Ordered, EvIInv, TabsTyped
<1>3. CASE CanMoveRoutes(store, {t}, home[t])
  <2>1. PICK v \in Owners, rs \in SUBSET Terminals : v = home[t] /\ rs = {t}
    BY <1>2
  <2>2. store' = MoveRoutes(store, rs, v, w) /\ home' = [home EXCEPT ![t] = w]
    BY <1>3, <2>1 DEF MoveTab
  <2>3. CanMoveRoutes(store, rs, v) /\ v # w
    BY <1>2, <1>3, <2>1
  <2>4. Quiet(store') /\ StoreQueued(store', Sendable, NoRevival)
    BY <1>2, <2>2, <2>3, SentFits, MoveShape, MoveQueued
  <2>5. KeepsReliable(store, store', {}) /\ OnlyThese(store, store', {})
    BY <1>2, <2>2, <2>3, MoveFate
  <2>6. \A u \in Terminals : Noticed(u) => Noticed(u)'
    BY <1>1, <1>2, <2>2 DEF Noticed
  <2> QED
    BY <1>1, <2>4, <2>5, <2>6, RouteChanges DEF pumpVars
<1>4. CASE ~CanMoveRoutes(store, {t}, home[t])
  <2>1. Registers(t, home[t]) /\ home' = home
    BY <1>4 DEF MoveTab
  <2>2. store.routes[t] = Nobody /\ link[t] = "down"
    BY <1>1, <1>4 DEF ClIInv, EvIInv, TabsRouted, CanMoveRoutes
  <2>3. Noticed(t)'
    BY <1>1, <2>2 DEF Noticed
  <2>4. /\ Quiet(store') /\ StoreQueued(store', Sendable, NoRevival)
        /\ Spared({}) /\ OnlyThese(store, store', {})
    BY <1>2, <2>1, <2>2, <2>3, RegistersSpare
  <2>5. Older /\ Steady
    BY <1>1, <2>1, TabsSettled, SettledOlder DEF chanVars
  <2>6. ConnsTyped'
    BY <1>1 DEF ClIInv, EndsKept, ConnsTyped
  <2> QED
    BY <1>1, <2>4, <2>5, <2>6, StoreChanges DEF pumpVars
<1> QED
  BY <1>3, <1>4

\* Every step keeps the invariant.
LEMMA EndsStep == ClIInv /\ [EvNext]_evVars => ClIInv'
<1> SUFFICES ASSUME ClIInv, [EvNext]_evVars PROVE ClIInv'
  OBVIOUS
<1>1. EvIInv'
  BY EvStep DEF ClIInv
<1>2. CASE UNCHANGED evVars
  <2>1. store' = store /\ batch' = batch /\ UNCHANGED <<home, gen, link, conns, sequence, crowded>>
    BY <1>2 DEF evVars, chanVars, pumpVars, tabVars
  <2>2. Coming' = Coming /\ Carried'
    BY <1>2 DEF evVars, chanVars, Coming, Carried, ClIInv, EndsKept
  <2> QED
    BY <1>1, <2>1, <2>2, QuietStep
<1>3. CASE EvNext
  <2>1. crowded' = (crowded \/ Crowded(store')) /\ (crowded => crowded') /\ Moves
    BY <1>3 DEF EvNext, Noted
  <2>2. ASSUME NEW t \in Terminals, NEW g \in Gens, ConnectionSends(t, g) PROVE ClIInv'
    BY <1>1, <2>1, <2>2, ConnectionEnds
  <2>3. ASSUME Drain PROVE ClIInv'
    BY <1>1, <2>1, <2>3, PollEnds, ReceiveLifecycleEnds, ReceiveEnds, ShareEnds, StaleEnds,
       OutputEnds, NewsEnds, ClosedEnds, EndDrainEnds DEF Drain
  <2>4. ASSUME NEW w \in Owners, BeginDrain(w) \/ OpenTab(w) PROVE ClIInv'
    BY <1>1, <2>1, <2>4, BeginDrainEnds, OpenTabEnds
  <2>5. ASSUME NEW w \in Owners, NEW t \in Terminals, MoveTab(t, w) PROVE ClIInv'
    BY <1>1, <2>1, <2>5, MoveTabEnds
  <2>6. ASSUME NEW t \in Terminals, CloseTab(t) \/ Disconnect(t) \/ Retry(t) PROVE ClIInv'
    BY <1>1, <2>1, <2>6, CloseTabEnds, RetryEnds
  <2>7. ASSUME Unblock PROVE ClIInv'
    BY <1>1, <2>1, <2>7, UnblockEnds
  <2> QED
    BY <2>1, <2>2, <2>3, <2>4, <2>5, <2>6, <2>7 DEF Moves
<1> QED
  BY <1>2, <1>3

\* Once nothing is under way, the tab of a connection that ended shows it.
LEMMA EndsEnough == ClIInv => NoCloseLost
<1> SUFFICES ASSUME ClIInv, ~UnderWay, ~crowded, NEW t \in Terminals, Unnoticed(t) PROVE FALSE
  BY DEF NoCloseLost
<1>1. Ended(t) /\ ~Noticed(t)
  BY DEF Unnoticed, Ended, Noticed
<1>2. PICK y \in Sendable : Around(y) /\ IsEnd(y) /\ y.route = t /\ y.gen = gen[t]
  BY <1>1 DEF ClIInv, EndsKept, EndsTold, EndAround
<1>3. /\ blocked = None /\ phase = "idle" /\ pendingLifecycle = <<>> /\ lifecycle = <<>>
      /\ \A w \in Owners : store.pending[w] = <<>>
  <2>1. /\ outputs \in Seq(EventsOn(Terminals)) /\ lifecycle \in Seq(EventsOn(Terminals))
        /\ control \in Seq(EventsOn(Terminals)) /\ pendingLifecycle \in Seq(EventsOn(Terminals))
        /\ pendingControl \in Seq(EventsOn(Terminals))
    BY DEF ClIInv, EvIInv, ChannelTyped, Queues
  <2>2. outputs \o lifecycle \o control \o pendingLifecycle \o pendingControl = <<>>
    BY DEF UnderWay
  <2>3. lifecycle = <<>> /\ pendingLifecycle = <<>>
    BY <2>1, <2>2, ConcatEqualIffEmpty, ConcatProperties
  <2> QED
    BY <2>3 DEF UnderWay
<1>4. Coming = <<>> /\ batch = <<>> /\ \A x : ~In(<<>>, x)
  BY <1>3 DEF Coming, In, ClIInv, EvIInv, PumpTyped
<1>5. Waits(store, y)
  BY <1>2, <1>4 DEF Around
<1>6. store.routes[t] = Nobody
  BY <1>2, <1>3, <1>4, <1>5, HeldWhere DEF ClIInv, EndsKept, EvIInv
<1>7. Noticed(t)
  BY <1>6 DEF ClIInv, EvIInv, TabsRouted, Noticed
<1> QED
  BY <1>1, <1>7

(* However long the queues were full, whatever was moved, closed,          *)
(* disconnected or retried meanwhile, and wherever events waited, joined or *)
(* expired: once nothing is under way, the tab of every connection that    *)
(* ended shows it or is closed, as long as no queue of the store was full  *)
(* of reliable events (BackendEventSender::send, try_recv,                 *)
(* push_bounded_event, register_event_route, handle_terminal_closed).      *)
THEOREM ClosesReachTheirTab == EvSpec => []NoCloseLost
<1>1. EvInit => ClIInv
  BY EndsStart
<1>2. ClIInv /\ [EvNext]_evVars => ClIInv'
  BY EndsStep
<1>3. ClIInv => NoCloseLost
  BY EndsEnough
<1> QED
  BY <1>1, <1>2, <1>3, PTL DEF EvSpec
-----------------------------------------------------------------------------
(* The bounds of the queues.                                               *)

\* An event that joins the last one of a queue leaves its length.
LEMMA MergedLastLength ==
  ASSUME NEW C, NEW q \in Seq(C), NEW e
  PROVE  Len(MergedLast(q, e)) = Len(q)
BY DEF MergedLast

\* A queue that keeps to its bound keeps to it when an event is offered to it.
LEMMA PushBoundedLength ==
  ASSUME NEW R, NEW q \in Seq(EventsOn(R)), NEW e \in EventsOn(R), NEW n \in Nat \ {0}, NEW m,
         Len(q) <= n
  PROVE  Len(PushBounded(q, e, n, m)) <= n
<1> DEFINE ordinary == {i \in DOMAIN q : ~Reliable(q[i])}
           oldest   == CHOOSE i \in ordinary : \A j \in ordinary : i <= j
<1>1. Len(MergedLast(q, e)) = Len(q)
  BY MergedLastLength
<1>2. Len(q) < n => Len(Append(q, e)) <= n
  OBVIOUS
<1>3. ordinary # {} => Len(Append(RemoveAt(q, oldest), e)) <= n
  <2> HAVE ordinary # {}
  <2>1. ordinary \in SUBSET Nat
    OBVIOUS
  <2>2. oldest \in ordinary
    BY <2>1, Least
  <2>3. oldest \in DOMAIN q
    BY <2>2
  <2> HIDE DEF oldest
  <2>4. \A i, j \in DOMAIN q : i < j => <<q[i], q[j]>> \in EventsOn(R) \X EventsOn(R)
    OBVIOUS
  <2>5. Queued(q, EventsOn(R), EventsOn(R) \X EventsOn(R))
    BY <2>4 DEF Queued, Lined
  <2>6. Len(RemoveAt(q, oldest)) = Len(q) - 1 /\ RemoveAt(q, oldest) \in Seq(EventsOn(R))
    BY <2>3, <2>5, RemoveLined DEF Queued
  <2> QED
    BY <2>6
<1>4. \/ PushBounded(q, e, n, m) \in {q, MergedLast(q, e)}
      \/ Len(q) < n /\ PushBounded(q, e, n, m) = Append(q, e)
      \/ ordinary # {} /\ PushBounded(q, e, n, m) = Append(RemoveAt(q, oldest), e)
  BY Zenon DEF PushBounded
<1> HIDE DEF ordinary, oldest
<1> QED
  BY <1>1, <1>2, <1>3, <1>4

\* So it is while events are pushed one by one,
LEMMA PushedLength ==
  ASSUME NEW R, NEW q \in Seq(EventsOn(R)), NEW es \in Seq(EventsOn(R)), Len(q) <= MaxPending
  PROVE  Len(Pushed(q, es)) <= MaxPending
<1> DEFINE V == Seq(EventsOn(R))
           Some == {s \in V : Len(s) <= MaxPending}
           W == [i \in 0..Len(es) |-> Some]
<1>1. PICK r : PushTrail(r, V, q, es)
  BY PushedTrail
<1>2. MaxPending \in Nat \ {0} /\ Len(es) \in Nat
  BY StoreAssumption
<1>3. r[0] \in W[0]
  BY <1>1, <1>2 DEF PushTrail
<1>4. ASSUME NEW i \in 1..Len(es), r[i - 1] \in W[i - 1] PROVE r[i] \in W[i]
  <2>1. i - 1 \in 0..Len(es) /\ i \in 0..Len(es)
    OBVIOUS
  <2>2. r[i - 1] \in V /\ Len(r[i - 1]) <= MaxPending /\ es[i] \in EventsOn(R) /\ r[i] \in V
    BY <1>1, <1>4, <2>1 DEF PushTrail
  <2>3. r[i] = PushBounded(r[i - 1], es[i], MaxPending, MaxChunks)
    BY <1>1 DEF PushTrail
  <2>4. Len(r[i]) <= MaxPending
    BY <1>2, <2>2, <2>3, PushBoundedLength
  <2> QED
    BY <2>1, <2>2, <2>4
<1> HIDE DEF W
<1>5. r[Len(es)] \in W[Len(es)]
  BY <1>2, <1>3, <1>4, Along
<1> QED
  BY <1>1, <1>2, <1>5 DEF W, PushTrail

\* and a queue that keeps some of its events is not longer than before.
LEMMA KeptLength ==
  ASSUME NEW R, NEW q \in Seq(EventsOn(R)), NEW rs
  PROVE  Len(Kept(q, rs)) <= Len(q)
<1> DEFINE V == Seq(EventsOn(R \cap rs))
           W == [i \in 0..Len(q) |-> {s \in V : Len(s) <= i}]
<1>1. PICK r : KeepTrail(r, V, q, rs)
  BY KeptTrail
<1>2. Len(q) \in Nat
  OBVIOUS
<1>3. r[0] \in W[0]
  <2>1. r[0] = <<>> /\ <<>> \in V /\ Len(<<>>) = 0 /\ 0 \in 0..Len(q)
    BY <1>1 DEF KeepTrail
  <2> QED
    BY <2>1
<1>4. ASSUME NEW i \in 1..Len(q), r[i - 1] \in W[i - 1] PROVE r[i] \in W[i]
  <2>1. i - 1 \in 0..Len(q) /\ i \in 0..Len(q) /\ i - 1 \in Nat /\ i \in Nat
    OBVIOUS
  <2>2. r[i - 1] \in V /\ Len(r[i - 1]) <= i - 1 /\ r[i] \in V
    BY <1>1, <1>4, <2>1 DEF KeepTrail
  <2>3. r[i] = IF q[i].route \in rs THEN PushPreserving(r[i - 1], q[i]) ELSE r[i - 1]
    BY <1>1 DEF KeepTrail
  <2>4. r[i] \in {r[i - 1], MergedLast(r[i - 1], q[i]), Append(r[i - 1], q[i])}
    BY <2>3, Zenon DEF PushPreserving
  <2>5. Len(MergedLast(r[i - 1], q[i])) = Len(r[i - 1])
    BY <2>2, MergedLastLength
  <2>6. Len(Append(r[i - 1], q[i])) = Len(r[i - 1]) + 1
    BY <2>2
  <2>7. Len(r[i]) <= i
    BY <2>1, <2>2, <2>4, <2>5, <2>6
  <2> QED
    BY <2>1, <2>2, <2>7
<1> HIDE DEF W
<1>5. r[Len(q)] \in W[Len(q)]
  BY <1>2, <1>3, <1>4, Along
<1> QED
  BY <1>1, <1>2, <1>5 DEF W, KeepTrail

\* Some of the elements of a sequence are not more than all.
LEMMA ThoseLength ==
  ASSUME NEW E, NEW S, NEW q \in Seq(E)
  PROVE  Len(Those(q, S)) <= Len(q)
<1>1. PICK f : Counts(f, q, S, Those(q, S))
  BY ThoseCounted
<1>2. 0 \in 0..Len(q) /\ Len(q) \in 0..Len(q) /\ 0 <= Len(q)
  OBVIOUS
<1> QED
  BY <1>1, <1>2 DEF Counts

\* The tombstones that stay are not more than the bound.
LEMMA TrimmedLength ==
  ASSUME NEW q \in Seq(Routes)
  PROVE  Len(TrimTombstones(q)) <= MaxTombstones
<1>1. CASE Len(q) > MaxTombstones
  <2>1. TrimTombstones(q) = SubSeq(q, 1 + (Len(q) - MaxTombstones), Len(q))
    BY <1>1 DEF TrimTombstones
  <2> QED
    BY <1>1, <2>1, StoreAssumption
<1>2. CASE ~(Len(q) > MaxTombstones)
  <2>1. TrimTombstones(q) = SubSeq(q, 1, Len(q))
    BY <1>2, StoreAssumption DEF TrimTombstones
  <2> QED
    BY <1>2, <2>1, StoreAssumption
<1> QED
  BY <1>1, <1>2

(* The store keeps to its bounds.                                          *)
StoreBounded(st) ==
  /\ \A w \in Owners : Len(st.pending[w]) <= MaxPending
  /\ Len(st.tombstones) <= MaxTombstones

\* Forgetting unrouted events,
LEMMA ForgetBounded ==
  ASSUME NEW st, WellRouted(st), StoreBounded(st), NEW gone
  PROVE  StoreBounded(ForgetUnrouted(st, gone))
<1>1. /\ ForgetUnrouted(st, gone).pending = st.pending
      /\ ForgetUnrouted(st, gone).tombstones = st.tombstones
  BY ForgetShape
<1> QED
  BY <1>1 DEF StoreBounded

\* registering a route,
LEMMA RegisterBounded ==
  ASSUME NEW st, WellRouted(st), StoreBounded(st), NEW r \in Terminals, NEW w \in Owners
  PROVE  StoreBounded(RegisterRoute(st, r, w))
<1> DEFINE rs == [st.routes EXCEPT ![r] = w]
           ts == Those(st.tombstones, Routes \ {r})
           pd == [st.pending EXCEPT ![w] = Pushed(st.pending[w], st.unrouted[r])]
           rg == [st EXCEPT !.tombstones = ts, !.routes = rs, !.pending = pd]
           un == [s \in Routes |-> IF s \in {r} THEN <<>> ELSE rg.unrouted[s]]
           re == RegisterRoute(st, r, w)
<1>1. re = ForgetUnrouted(rg, {r})
  BY DEF RegisterRoute, WellRouted, StoreTyped
<1>2. ForgetUnrouted(rg, {r}) = [rg EXCEPT !.unrouted = un, !.seen = Those(rg.seen, Routes \ {r})]
  BY DEF ForgetUnrouted
<1>3. re.pending = pd /\ re.tombstones = ts
  BY <1>1, <1>2 DEF WellRouted, StoreTyped
<1>4. /\ st.pending \in [Owners -> Seq(EventsOn(Terminals))] /\ st.tombstones \in Seq(Routes)
      /\ r \in Routes /\ st.unrouted[r] \in Seq(EventsOn(Terminals))
  BY EventsAssumption DEF WellRouted, StoreTyped
<1>5. Len(ts) <= MaxTombstones
  <2>1. Len(ts) <= Len(st.tombstones) /\ ts \in Seq(Routes)
    BY <1>4, ThoseLength, ThoseIn
  <2> HIDE DEF ts
  <2> QED
    BY <1>4, <2>1, StoreAssumption DEF StoreBounded
<1>6. Len(Pushed(st.pending[w], st.unrouted[r])) <= MaxPending
  BY <1>4, PushedLength DEF StoreBounded
<1>7. ASSUME NEW v \in Owners PROVE Len(pd[v]) <= MaxPending
  BY <1>4, <1>6 DEF StoreBounded
<1> HIDE DEF re, pd, ts
<1>8. StoreBounded(re)
  BY <1>3, <1>5, <1>7 DEF StoreBounded
<1> QED
  BY <1>8 DEF re

\* removing one,
LEMMA UnregisterBounded ==
  ASSUME NEW st, WellRouted(st), StoreBounded(st), NEW r \in Terminals, NEW w \in Owners
  PROVE  StoreBounded(UnregisterRoute(st, r, w))
<1>1. CASE st.routes[r] # w
  BY <1>1 DEF UnregisterRoute
<1>2. CASE st.routes[r] = w
  <2> DEFINE rs == [st.routes EXCEPT ![r] = Nobody]
             ts == TrimTombstones(Append(Those(st.tombstones, Routes \ {r}), r))
             pd == [o \in Owners |-> Kept(st.pending[o], Routes \ {r})]
             ur == [st EXCEPT !.routes = rs, !.tombstones = ts, !.pending = pd]
             un == [s \in Routes |-> IF s \in {r} THEN <<>> ELSE ur.unrouted[s]]
             re == UnregisterRoute(st, r, w)
  <2>1. re = ForgetUnrouted(ur, {r})
    BY <1>2 DEF UnregisterRoute, WellRouted, StoreTyped
  <2>2. ForgetUnrouted(ur, {r}) = [ur EXCEPT !.unrouted = un, !.seen = Those(ur.seen, Routes \ {r})]
    BY DEF ForgetUnrouted
  <2>3. re.pending = pd /\ re.tombstones = ts
    BY <2>1, <2>2 DEF WellRouted, StoreTyped
  <2>4. /\ st.pending \in [Owners -> Seq(EventsOn(Terminals))]
        /\ st.tombstones \in Seq(Routes) /\ r \in Routes
    BY EventsAssumption DEF WellRouted, StoreTyped
  <2>5. Len(ts) <= MaxTombstones
    <3>1. Those(st.tombstones, Routes \ {r}) \in Seq(Routes)
      BY <2>4, ThoseIn
    <3>2. Append(Those(st.tombstones, Routes \ {r}), r) \in Seq(Routes)
      BY <2>4, <3>1
    <3> QED
      BY <3>2, TrimmedLength
  <2>6. ASSUME NEW o \in Owners PROVE Len(pd[o]) <= MaxPending
    <3>1. st.pending[o] \in Seq(EventsOn(Terminals)) /\ Len(st.pending[o]) <= MaxPending
      BY <2>4 DEF StoreBounded
    <3>2. Len(Kept(st.pending[o], Routes \ {r})) <= Len(st.pending[o])
      BY <3>1, KeptLength
    <3>3. Kept(st.pending[o], Routes \ {r}) \in Seq(EventsOn(Terminals \cap (Routes \ {r})))
      BY <3>1, KeptOn
    <3>4. Len(Kept(st.pending[o], Routes \ {r})) <= MaxPending
      BY <3>1, <3>2, <3>3, StoreAssumption
    <3> QED
      BY <3>4
  <2> HIDE DEF re, pd, ts
  <2>7. StoreBounded(re)
    BY <2>3, <2>5, <2>6 DEF StoreBounded
  <2> QED
    BY <2>7 DEF re
<1> QED
  BY <1>1, <1>2

\* handing routes over,
LEMMA MoveBounded ==
  ASSUME NEW st, WellRouted(st), StoreBounded(st), NEW rs \in SUBSET Terminals, NEW v \in Owners,
         NEW w \in Owners, v # w, CanMoveRoutes(st, rs, v)
  PROVE  StoreBounded(MoveRoutes(st, rs, v, w))
<1> DEFINE mv == MoveRoutes(st, rs, v, w)
<1>1. HandedOver(st, mv, rs, v, w)
  BY MoveShape
<1>2. mv.tombstones = st.tombstones
  BY DEF MoveRoutes, WellRouted, StoreTyped
<1>3. /\ st.pending[v] \in Seq(EventsOn(Terminals)) /\ Len(st.pending[v]) <= MaxPending
      /\ st.pending[w] \in Seq(EventsOn(Terminals)) /\ Len(st.pending[w]) <= MaxPending
  BY QueuesOn DEF StoreBounded
<1>4. Kept(st.pending[v], rs) \in Seq(EventsOn(Terminals))
  <2>1. Kept(st.pending[v], rs) \in Seq(EventsOn(Terminals \cap rs))
    BY <1>3, KeptOn
  <2>2. Terminals \cap rs \subseteq Terminals
    OBVIOUS
  <2> QED
    BY <2>1, <2>2, MoreRoutes
<1>5. Len(Pushed(st.pending[w], Kept(st.pending[v], rs))) <= MaxPending
  BY <1>3, <1>4, PushedLength
<1>6. Len(Kept(st.pending[v], Routes \ rs)) <= MaxPending
  <2>1. Kept(st.pending[v], Routes \ rs) \in Seq(EventsOn(Terminals \cap (Routes \ rs)))
    BY <1>3, KeptOn
  <2>2. Len(Kept(st.pending[v], Routes \ rs)) <= Len(st.pending[v])
    BY <1>3, KeptLength
  <2> QED
    BY <1>3, <2>1, <2>2, StoreAssumption
<1> HIDE DEF mv
<1>7. ASSUME NEW o \in Owners PROVE Len(mv.pending[o]) <= MaxPending
  BY <1>1, <1>5, <1>6 DEF HandedOver, StoreBounded
<1>8. StoreBounded(mv)
  BY <1>2, <1>7 DEF StoreBounded
<1> QED
  BY <1>8 DEF mv

\* and an event on its way to a window.
LEMMA RoutedBounded ==
  ASSUME NEW st, WellRouted(st), Quiet(st), StoreBounded(st), NEW e \in EventsOn(Terminals)
  PROVE  StoreBounded(Routed(st, e))
<1> DEFINE w == st.routes[e.route]
           ro == Routed(st, e)
<1>1. e.route \in Terminals /\ e.route \in Routes
  BY EventsAssumption DEF EventsOn
<1>2. w \in Owners \cup {Nobody} /\ \A o \in Owners : st.pending[o] \in Seq(EventsOn(Terminals))
  BY <1>1, QueuesOn
<1>3. CASE w # Nobody
  <2> DEFINE pd == [st.pending EXCEPT ![w] = PushBounded(st.pending[w], e, MaxPending, MaxChunks)]
             rt == [st EXCEPT !.pending = pd]
  <2>1. ro = rt
    BY <1>3 DEF Routed, WellRouted, StoreTyped
  <2>2. rt.tombstones = st.tombstones
    BY DEF WellRouted, StoreTyped
  <2>3. RoutesTo(st, ro, e, w)
    BY <1>3, RoutedShape
  <2> HIDE DEF rt, ro, w
  <2>4. Len(PushBounded(st.pending[w], e, MaxPending, MaxChunks)) <= MaxPending
    BY <1>2, <1>3, StoreAssumption, PushBoundedLength DEF StoreBounded
  <2>5. StoreBounded(ro)
    BY <2>1, <2>2, <2>3, <2>4 DEF StoreBounded, RoutesTo
  <2> QED
    BY <2>5 DEF ro
<1>4. CASE w = Nobody /\ Entombed(st, e.route)
  BY <1>4 DEF Routed, Entombed
<1>5. CASE w = Nobody /\ ~Entombed(st, e.route)
  <2> DEFINE r == e.route
             known == \E i \in DOMAIN st.seen : st.seen[i] = r
             fewer == IF ~known /\ Len(st.seen) >= MaxUnroutedRoutes THEN EvictOldest(st) ELSE st
             roomy == MakeRoom(fewer, e)
             pu == PushBounded(roomy.unrouted[r], e, MaxUnrouted, MaxChunks)
             un == [roomy.unrouted EXCEPT ![r] = pu]
             sn == Append(Those(roomy.seen, Routes \ {r}), r)
             en == [roomy EXCEPT !.unrouted = un, !.seen = sn]
  <2>1. ro = EnqueueUnrouted(st, e)
    BY <1>5 DEF Routed, Entombed
  <2>2. EnqueueUnrouted(st, e) = [roomy EXCEPT !.unrouted[r] = PushBounded(@, e, MaxUnrouted, MaxChunks),
                                               !.seen = Append(Those(@, Routes \ {r}), r)]
    BY DEF EnqueueUnrouted
  <2>3. StoreBounded(fewer) /\ WellRouted(fewer)
    <3>1. StoreBounded(EvictOldest(st)) /\ WellRouted(EvictOldest(st))
      BY ForgetBounded, ForgetKeeps DEF EvictOldest
    <3> QED
      BY <3>1
  <2> HIDE DEF fewer
  <2>4. StoreBounded(roomy) /\ WellRouted(roomy)
    <3> DEFINE enough == {n \in 0..Len(fewer.seen) : HasRoomFor(Pruned(fewer, n), e)} \cup {Len(fewer.seen)}
               n == CHOOSE m \in enough : \A k \in enough : m <= k
    <3>1. roomy = Pruned(fewer, n)
      BY DEF MakeRoom
    <3> HIDE DEF n, roomy
    <3> QED
      BY <2>3, <3>1, ForgetBounded, ForgetKeeps DEF Pruned
  <2> HIDE DEF roomy
  <2>5. ro = en
    BY <2>1, <2>2, <2>4 DEF WellRouted, StoreTyped
  <2>6. en.pending = roomy.pending /\ en.tombstones = roomy.tombstones
    BY <2>4 DEF WellRouted, StoreTyped
  <2> HIDE DEF en, ro
  <2>7. StoreBounded(ro)
    BY <2>4, <2>5, <2>6 DEF StoreBounded
  <2> QED
    BY <2>7 DEF ro
<1> QED
  BY <1>2, <1>3, <1>4, <1>5

(* The bounds of the channel, and of a drain.                              *)
ChannelBounded ==
  /\ blocked # None => Reliable(blocked)
  /\ Len(outputs) <= OutputCapacity /\ Len(lifecycle) <= LifecycleCapacity
  /\ Len(control) <= ControlCapacity
  /\ streak \in 0..ControlBurst
Bounded == ChannelBounded /\ StoreBounded(store) /\ (phase = "idle" => pump = Nobody)

\* At the start nothing is there.
LEMMA BoundedStart == EvInit => Bounded
<1> SUFFICES ASSUME EvInit PROVE Bounded
  OBVIOUS
<1>1. ChannelBounded
  BY EventsAssumption DEF EvInit, ChannelBounded
<1>2. StoreBounded(store)
  BY StoreAssumption DEF EvInit, EmptyStore, StoreBounded
<1> QED
  BY <1>1, <1>2 DEF EvInit, Bounded

\* A send waits for room, or finds it, or is lost.
LEMMA SendBounded ==
  ASSUME ChannelTyped, ChannelBounded,
         NEW body \in [kind : Kinds, route : Terminals, gen : Nat, title : BOOLEAN],
         Send(body)
  PROVE  ChannelBounded'
<1> PICK e : e = Event(body)
  OBVIOUS
<1>1. e.kind = body.kind
  BY DEF Event
<1>2. outputs \in Seq(EventsOn(Terminals)) /\ lifecycle \in Seq(EventsOn(Terminals))
      /\ control \in Seq(EventsOn(Terminals))
  BY DEF ChannelTyped, Queues
<1>3. Len(PushOutput(outputs, e)) <= OutputCapacity
  <2>1. Len(MergedLast(outputs, e)) = Len(outputs)
    BY <1>2, MergedLastLength
  <2>2. \/ PushOutput(outputs, e) \in {outputs, MergedLast(outputs, e)}
        \/ Len(outputs) < OutputCapacity /\ PushOutput(outputs, e) = Append(outputs, e)
    BY Zenon DEF PushOutput
  <2>3. Len(Append(outputs, e)) = Len(outputs) + 1
    BY <1>2
  <2> QED
    BY <1>2, <2>1, <2>2, <2>3, EventsAssumption DEF ChannelBounded
<1>4. Len(Append(lifecycle, e)) = Len(lifecycle) + 1 /\ Len(Append(control, e)) = Len(control) + 1
  BY <1>2
<1>5. blocked = None /\ streak' = streak
  BY DEF Send
<1>6. CASE outputs' = PushOutput(outputs, e) /\ UNCHANGED <<lifecycle, control, blocked>>
  BY <1>3, <1>5, <1>6 DEF ChannelBounded
<1>7. CASE /\ Reliable(e)
           /\ IF Len(lifecycle) < LifecycleCapacity
              THEN lifecycle' = Append(lifecycle, e) /\ UNCHANGED blocked
              ELSE blocked' = e /\ UNCHANGED lifecycle
           /\ UNCHANGED <<outputs, control>>
  BY <1>2, <1>4, <1>5, <1>7, EventsAssumption DEF ChannelBounded, Reliable
<1>8. CASE /\ control' = IF Len(control) < ControlCapacity THEN Append(control, e) ELSE control
           /\ UNCHANGED <<outputs, lifecycle, blocked>>
  BY <1>2, <1>4, <1>5, <1>8, EventsAssumption DEF ChannelBounded
<1> QED
  BY <1>6, <1>7, <1>8 DEF Send

\* Connections.
LEMMA SenderBounded ==
  ASSUME EvIInv, Bounded,
         Unblock \/ \E t \in Terminals, g \in Gens : ConnectionSends(t, g)
  PROVE  Bounded'
<1>1. CASE Unblock
  <2>1. lifecycle \in Seq(EventsOn(Terminals))
    BY DEF EvIInv, ChannelTyped, Queues
  <2>2. ChannelBounded'
    BY <1>1, <2>1, EventsAssumption DEF Unblock, ChannelBounded, Bounded
  <2> QED
    BY <1>1, <2>2 DEF Unblock, Bounded, pumpVars
<1>2. ASSUME NEW t \in Terminals, NEW g \in Gens, ConnectionSends(t, g)
      PROVE  Bounded'
  <2>1. PICK kind \in Kinds, title \in BOOLEAN :
          Send([kind |-> kind, route |-> t, gen |-> g, title |-> title])
    BY <1>2 DEF ConnectionSends
  <2>2. [kind |-> kind, route |-> t, gen |-> g, title |-> title]
          \in [kind : Kinds, route : Terminals, gen : Nat, title : BOOLEAN]
    BY StoreAssumption DEF Gens
  <2>3. ChannelBounded'
    BY <2>1, <2>2, SendBounded DEF EvIInv, Bounded
  <2>4. UNCHANGED <<store, phase, pump>>
    BY <1>2 DEF ConnectionSends, pumpVars
  <2> QED
    BY <2>3, <2>4 DEF Bounded
<1> QED
  BY <1>1, <1>2

\* Where a drain receives an event and routes it.
LEMMA DeliverBounded ==
  ASSUME EvIInv, Quiet(store), Bounded, NEW e \in EventsOn(Terminals), Deliver(e), ChannelBounded'
  PROVE  Bounded'
<1>1. store' = Routed(store, e) /\ phase' = "poll"
  BY DEF Deliver
<1>2. StoreBounded(store')
  BY <1>1, RoutedBounded DEF EvIInv, Bounded
<1> QED
  BY <1>1, <1>2 DEF Bounded

\* What is left of the queues is not more than before.
LEMMA ReceivedBounded ==
  ASSUME EvIInv, ChannelBounded, NEW S
  PROVE  /\ Len(RestOfControl) <= ControlCapacity
         /\ Len(Those(outputs, S)) <= OutputCapacity
         /\ outputs # <<>> => Len(Tail(outputs)) <= OutputCapacity
         /\ lifecycle # <<>> => Len(Tail(lifecycle)) <= LifecycleCapacity
         /\ MoreControl => streak' \in 0..ControlBurst
<1>1. /\ outputs \in Seq(EventsOn(Terminals)) /\ control \in Seq(EventsOn(Terminals))
      /\ lifecycle \in Seq(EventsOn(Terminals))
  BY DEF EvIInv, ChannelTyped, Queues
<1>2. /\ OutputCapacity \in Nat /\ ControlCapacity \in Nat /\ LifecycleCapacity \in Nat
      /\ ControlBurst \in Nat
  BY EventsAssumption
<1>3. Len(RestOfControl) <= ControlCapacity
  BY <1>1, <1>2 DEF RestOfControl, ChannelBounded
<1>4. Len(Those(outputs, S)) <= OutputCapacity
  <2>1. Those(outputs, S) \in Seq(EventsOn(Terminals)) /\ Len(Those(outputs, S)) <= Len(outputs)
    BY <1>1, ThoseIn, ThoseLength
  <2> QED
    BY <1>1, <1>2, <2>1 DEF ChannelBounded
<1>5. /\ outputs # <<>> => Len(Tail(outputs)) <= OutputCapacity
      /\ lifecycle # <<>> => Len(Tail(lifecycle)) <= LifecycleCapacity
  BY <1>1, <1>2 DEF ChannelBounded
<1>6. MoreControl => streak' \in 0..ControlBurst
  BY <1>2 DEF MoreControl, ChannelBounded
<1> QED
  BY <1>3, <1>4, <1>5, <1>6

\* The events that a drain may take.
LEMMA TakenOn ==
  ASSUME EvIInv
  PROVE  /\ TakeControl # <<>> => TakeControl[1] \in EventsOn(Terminals)
         /\ outputs # <<>> => Head(outputs) \in EventsOn(Terminals)
         /\ pendingLifecycle # <<>> =>
              /\ pendingLifecycle[1] \in EventsOn(Terminals)
              /\ LET c == pendingLifecycle[1] IN
                   EarlierOutput(c) # <<>> => Together(EarlierOutput(c)) \in EventsOn(Terminals)
<1>1. /\ outputs \in Seq(EventsOn(Terminals)) /\ pendingLifecycle \in Seq(EventsOn(Terminals))
      /\ TakeControl \in Seq(EventsOn(Terminals))
  BY ControlTyped DEF EvIInv, ChannelTyped, Queues
<1>2. ASSUME NEW c, EarlierOutput(c) # <<>>
      PROVE  Together(EarlierOutput(c)) \in EventsOn(Terminals)
  <2>1. EarlierOutput(c) \in Seq(EventsOn(Terminals))
    BY <1>1, ThoseIn DEF EarlierOutput
  <2> QED
    BY <1>2, <2>1, TogetherOn
<1>3. /\ TakeControl # <<>> => TakeControl[1] \in EventsOn(Terminals)
      /\ outputs # <<>> => Head(outputs) \in EventsOn(Terminals)
      /\ pendingLifecycle # <<>> => pendingLifecycle[1] \in EventsOn(Terminals)
  BY <1>1
<1> QED
  BY <1>2, <1>3

\* The receiver.
LEMMA ReceiveBounded ==
  ASSUME EvIInv, Quiet(store), Bounded, ReceiveLifecycle \/ ReceiveOutput \/ ReceiveControl
  PROVE  Bounded'
<1> USE DEF Bounded
<1>1. 0 \in 0..ControlBurst
  BY EventsAssumption
<1>2. CASE ReceiveLifecycle
  <2> DEFINE c == pendingLifecycle[1]
             first == TakeControl
             older == IF first = <<>> THEN FALSE ELSE first[1].seq < c.seq
  <2>1. UNCHANGED <<lifecycle, blocked>> /\ control' = RestOfControl
    BY <1>2 DEF ReceiveLifecycle
  <2>2. CASE older /\ Deliver(first[1]) /\ MoreControl /\ UNCHANGED outputs
    <3>1. first # <<>>
      BY <2>2
    <3>2. ChannelBounded'
      BY <2>1, <2>2, ReceivedBounded DEF ChannelBounded
    <3>3. first[1] \in EventsOn(Terminals)
      BY <3>1, TakenOn
    <3> QED
      BY <2>2, <3>2, <3>3, DeliverBounded
  <2>3. CASE /\ EarlierOutput(c) # <<>> /\ Deliver(Together(EarlierOutput(c)))
             /\ outputs' = LaterOutput(c) /\ streak' = 0 /\ pendingLifecycle # <<>>
    <3>1. ChannelBounded'
      BY <1>1, <2>1, <2>3, ReceivedBounded DEF ChannelBounded, LaterOutput
    <3>2. Together(EarlierOutput(c)) \in EventsOn(Terminals)
      BY <2>3, TakenOn
    <3> QED
      BY <2>3, <3>1, <3>2, DeliverBounded
  <2>4. CASE Deliver(c) /\ MoreControl /\ UNCHANGED outputs /\ pendingLifecycle # <<>>
    <3>1. ChannelBounded'
      BY <2>1, <2>4, ReceivedBounded DEF ChannelBounded
    <3>2. c \in EventsOn(Terminals)
      BY <2>4, TakenOn
    <3> QED
      BY <2>4, <3>1, <3>2, DeliverBounded
  <2> QED
    BY <1>2, <2>2, <2>3, <2>4, Zenon DEF ReceiveLifecycle
<1>3. CASE ReceiveOutput
  <2>1. /\ UNCHANGED <<lifecycle, control, blocked>> /\ outputs' = Tail(outputs) /\ streak' = 0
        /\ outputs # <<>> /\ Deliver(Head(outputs))
    BY <1>3 DEF ReceiveOutput
  <2>2. ChannelBounded'
    BY <1>1, <2>1, ReceivedBounded DEF ChannelBounded
  <2>3. Head(outputs) \in EventsOn(Terminals)
    BY <2>1, TakenOn
  <2> QED
    BY <2>1, <2>2, <2>3, DeliverBounded
<1>4. CASE ReceiveControl
  <2>1. /\ UNCHANGED <<outputs, lifecycle, blocked>> /\ control' = RestOfControl /\ MoreControl
        /\ TakeControl # <<>> /\ Deliver(TakeControl[1])
    BY <1>4 DEF ReceiveControl
  <2>2. ChannelBounded'
    BY <2>1, ReceivedBounded DEF ChannelBounded
  <2>3. TakeControl[1] \in EventsOn(Terminals)
    BY <2>1, TakenOn
  <2> QED
    BY <2>1, <2>2, <2>3, DeliverBounded
<1> QED
  BY <1>2, <1>3, <1>4

\* Steps that change neither the channel nor the store, and begin no rest.
LEMMA BoundedStays ==
  ASSUME Bounded, UNCHANGED chanVars, StoreBounded(store'), phase' = "idle" => pump' = Nobody
  PROVE  Bounded'
BY DEF Bounded, ChannelBounded, chanVars

\* The rest of a drain.
LEMMA DrainBounded ==
  ASSUME EvIInv, Bounded,
         \/ PollLifecycle \/ DrainPending \/ EndDrain \/ \E w \in Owners : BeginDrain(w)
         \/ HandleStale \/ HandleOutput \/ HandleNews \/ HandleClosed
  PROVE  Bounded'
<1>1. CASE PollLifecycle
  <2>1. ChannelBounded'
    BY <1>1, ReceivedBounded DEF PollLifecycle, Bounded, ChannelBounded
  <2> QED
    BY <1>1, <2>1 DEF PollLifecycle, Bounded
<1>2. CASE DrainPending
  <2> PICK mine, n : /\ mine = store.pending[pump]
                     /\ n = IF Len(mine) < MaxTick THEN Len(mine) ELSE MaxTick
    OBVIOUS
  <2>1. /\ store' = [store EXCEPT !.pending[pump] = SubSeq(mine, n + 1, Len(mine))]
        /\ UNCHANGED chanVars /\ UNCHANGED pump /\ phase' = "handle"
        /\ phase # "idle"
    BY <1>2 DEF DrainPending
  <2>2. pump \in Owners /\ store.pending \in [Owners -> Seq(EventsOn(Terminals))]
    BY <2>1 DEF EvIInv, PumpTyped, WellRouted, StoreTyped
  <2>3. mine \in Seq(EventsOn(Terminals)) /\ Len(mine) <= MaxPending
    BY <2>2 DEF Bounded, StoreBounded
  <2>4. n \in 0..Len(mine)
    BY <2>3, EventsAssumption
  <2>5. Len(SubSeq(mine, n + 1, Len(mine))) <= MaxPending
    BY <2>3, <2>4, StoreAssumption
  <2>6. /\ store'.pending = [store.pending EXCEPT ![pump] = SubSeq(mine, n + 1, Len(mine))]
        /\ store'.tombstones = store.tombstones
    BY <2>1 DEF EvIInv, WellRouted, StoreTyped
  <2>7. StoreBounded(store')
    BY <2>2, <2>5, <2>6 DEF Bounded, StoreBounded
  <2> QED
    BY <2>1, <2>7, BoundedStays
<1>3. CASE EndDrain
  BY <1>3, BoundedStays DEF EndDrain, Bounded
<1>4. ASSUME NEW w \in Owners, BeginDrain(w) PROVE Bounded'
  <2>1. StoreBounded(store')
    BY <1>4, ForgetBounded DEF BeginDrain, Pruned, EvIInv, Bounded
  <2> QED
    BY <1>4, <2>1, BoundedStays DEF BeginDrain
<1>5. CASE HandleOutput
  <2>1. UNCHANGED <<store, pump, phase>> /\ phase = "handle"
    BY <1>5 DEF HandleOutput
  <2>2. CASE UNCHANGED chanVars
    BY <2>1, <2>2, BoundedStays DEF Bounded
  <2>3. CASE ~UNCHANGED chanVars
    <3>1. batch # <<>>
      BY <1>5 DEF HandleOutput
    <3>2. Head(batch).route \in Terminals
      BY <2>1, <3>1, BatchHead
    <3> DEFINE body == [kind |-> "Status", route |-> Head(batch).route, gen |-> 0, title |-> FALSE]
    <3>3. Send(body)
      BY <1>5, <2>3 DEF HandleOutput
    <3>4. body \in [kind : Kinds, route : Terminals, gen : Nat, title : BOOLEAN]
      BY <3>2 DEF Kinds
    <3> HIDE DEF body
    <3>5. ChannelBounded'
      BY <3>3, <3>4, SendBounded DEF EvIInv, Bounded
    <3> QED
      BY <2>1, <3>5 DEF Bounded
  <2> QED
    BY <2>2, <2>3
<1>6. CASE HandleStale \/ HandleNews \/ HandleClosed
  BY <1>6, BoundedStays DEF HandleStale, HandleNews, HandleClosed, Bounded
<1> QED
  BY <1>1, <1>2, <1>3, <1>4, <1>5, <1>6

\* Registering a route.
LEMMA RegistersBounded ==
  ASSUME EvIInv, Bounded, NEW t \in Terminals, NEW w \in Owners, Registers(t, w)
  PROVE  StoreBounded(store')
<1>1. PICK n \in 0..Len(store.seen) : store' = RegisterRoute(Pruned(store, n), t, w)
  BY DEF Registers
<1>2. WellRouted(Pruned(store, n)) /\ StoreBounded(Pruned(store, n))
  BY ForgetBounded, ForgetKeeps DEF Pruned, EvIInv, Bounded
<1> QED
  BY <1>1, <1>2, RegisterBounded

\* The user.
LEMMA UserBounded ==
  ASSUME EvIInv, Bounded,
         \/ \E w \in Owners : OpenTab(w)
         \/ \E w \in Owners, t \in Terminals : MoveTab(t, w)
         \/ \E t \in Terminals : CloseTab(t) \/ Disconnect(t) \/ Retry(t)
  PROVE  Bounded'
<1>1. ASSUME UNCHANGED chanVars, UNCHANGED pumpVars, StoreBounded(store') PROVE Bounded'
  BY <1>1, BoundedStays DEF Bounded, pumpVars
<1>2. home \in [Terminals -> Owners \cup {Nobody}] /\ WellRouted(store) /\ StoreBounded(store)
  BY DEF EvIInv, TabsTyped, Bounded
<1>3. ASSUME NEW w \in Owners, OpenTab(w) PROVE Bounded'
  <2> PICK t : t = CHOOSE u \in Terminals \ OpenedTabs : TRUE
    OBVIOUS
  <2>1. t \in Terminals /\ Registers(t, w)
    BY <1>3 DEF OpenTab, OpenedTabs
  <2> QED
    BY <1>1, <1>3, <2>1, RegistersBounded DEF OpenTab
<1>4. ASSUME NEW w \in Owners, NEW t \in Terminals, MoveTab(t, w) PROVE Bounded'
  <2>1. home[t] \in Owners /\ home[t] # w /\ UNCHANGED chanVars /\ UNCHANGED pumpVars
    BY <1>2, <1>4 DEF MoveTab
  <2>2. CASE CanMoveRoutes(store, {t}, home[t])
    <3>1. store' = MoveRoutes(store, {t}, home[t], w)
      BY <1>4, <2>2 DEF MoveTab
    <3> QED
      BY <1>1, <1>2, <2>1, <2>2, <3>1, MoveBounded
  <2>3. CASE ~CanMoveRoutes(store, {t}, home[t])
    <3>1. Registers(t, home[t])
      BY <1>4, <2>3 DEF MoveTab
    <3> QED
      BY <1>1, <2>1, <3>1, RegistersBounded
  <2> QED
    BY <2>2, <2>3
<1>5. ASSUME NEW t \in Terminals, CloseTab(t) \/ Disconnect(t) PROVE Bounded'
  <2>1. /\ home[t] \in Owners /\ store' = UnregisterRoute(store, t, home[t])
        /\ UNCHANGED chanVars /\ UNCHANGED pumpVars
    BY <1>2, <1>5 DEF CloseTab, Disconnect
  <2> QED
    BY <1>1, <1>2, <2>1, UnregisterBounded
<1>6. ASSUME NEW t \in Terminals, Retry(t) PROVE Bounded'
  <2>1. home[t] \in Owners /\ Registers(t, home[t]) /\ UNCHANGED chanVars /\ UNCHANGED pumpVars
    BY <1>2, <1>6 DEF Retry
  <2> QED
    BY <1>1, <2>1, RegistersBounded
<1> QED
  BY <1>3, <1>4, <1>5, <1>6

\* Every step keeps the bounds.
LEMMA BoundedStep == ClIInv /\ Bounded /\ [EvNext]_evVars => Bounded'
<1> SUFFICES ASSUME ClIInv, Bounded, [EvNext]_evVars PROVE Bounded'
  OBVIOUS
<1>1. EvIInv /\ Quiet(store)
  BY DEF ClIInv, EndsKept
<1>2. CASE UNCHANGED evVars
  BY <1>2, BoundedStays DEF evVars, pumpVars, Bounded
<1>3. CASE EvNext
  BY <1>1, <1>3, SenderBounded, ReceiveBounded, DrainBounded, UserBounded
     DEF EvNext, Noted, Moves, Drain
<1> QED
  BY <1>2, <1>3

\* The invariants give the types.
LEMMA BoundedEnough == ClIInv /\ Bounded => EvTypeOK
<1> SUFFICES ASSUME ClIInv, Bounded PROVE EvTypeOK
  OBVIOUS
<1>1. pump \in Owners \cup {Nobody} /\ (pump = Nobody) = (phase = "idle")
  BY StoreAssumption DEF ClIInv, EvIInv, PumpTyped, Bounded
<1>2. \A t \in Terminals : gen[t] \in 0..MaxGen /\ home[t] \in Owners \cup {Nobody}
  BY DEF ClIInv, EndsKept, ConnsTyped, EvIInv, TabsTyped
<1> QED
  BY <1>1, <1>2 DEF EvTypeOK, Bounded, ChannelBounded, StoreBounded

(* However much is sent: every queue keeps to its capacity, and the store  *)
(* to the bounds of what is pending and of the routes it remembers         *)
(* (push_bounded_event, send_with_generation, unregister_event_route).     *)
THEOREM QueuesKeepTheirBounds == EvSpec => []EvTypeOK
<1>1. EvInit => ClIInv /\ Bounded
  BY EndsStart, BoundedStart
<1>2. ClIInv /\ Bounded /\ [EvNext]_evVars => ClIInv' /\ Bounded'
  BY EndsStep, BoundedStep
<1> QED
  BY <1>1, <1>2, BoundedEnough, PTL DEF EvSpec
=============================================================================
