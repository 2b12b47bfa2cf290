--------------------------- MODULE SequenceProofs ---------------------------
(***************************************************************************)
(* Facts about sequences: how to reason by induction over them, what is    *)
(* where in a sequence that is put together from others, and what the      *)
(* operations of TSQueue do to queues of any capacity.                     *)
(***************************************************************************)
EXTENDS TSQueue, Integers, WellFoundedInduction, TLAPS

-----------------------------------------------------------------------------
(* Induction *)

\* What holds of 0, and of n + 1 if it holds of n, holds of every number:
\* otherwise there would be a least one of which it does not.
LEMMA FromZeroUp ==
  ASSUME NEW S, 0 \in S, \A n \in Nat : n \in S => n + 1 \in S
  PROVE  Nat \subseteq S
<1> DEFINE T == Nat \ S
<1> SUFFICES ASSUME T # {} PROVE FALSE
  OBVIOUS
<1>1. T \subseteq Nat
  OBVIOUS
<1>2. PICK n \in T : \A m \in T : ~(<<m, n>> \in OpToRel(<, Nat))
  BY <1>1, NatLessThanWellFounded, WFMin
<1>3. \A m \in T : ~(m < n)
  BY <1>1, <1>2 DEF OpToRel
<1>4. n # 0 /\ n - 1 \in Nat /\ n - 1 \notin T
  BY <1>3
<1> QED
  BY <1>4

\* The same up to a bound.
LEMMA UpTo ==
  ASSUME NEW n \in Nat, NEW S, 0 \in S, \A k \in 1..n : k-1 \in S => k \in S
  PROVE  0..n \subseteq S
<1> DEFINE T == {k \in Nat : k <= n => k \in S}
<1>1. 0 \in T /\ \A k \in Nat : k \in T => k + 1 \in T
  <2>1. ASSUME NEW k \in Nat, k \in T, k + 1 <= n PROVE k + 1 \in S
    <3>1. k + 1 \in 1..n /\ (k + 1) - 1 = k /\ k \in S
      BY <2>1
    <3> QED BY <3>1
  <2> QED
    BY <2>1
<1>2. Nat \subseteq T
  <2> HIDE DEF T
  <2> QED BY <1>1, FromZeroUp
<1> QED
  BY <1>2

\* f[k] is what the first k steps make of base.
IsFold(f, n, V, base, step) ==
  /\ f \in [0..n -> V]
  /\ f[0] = base
  /\ \A k \in 1..n : f[k] = step[k][f[k-1]]

\* There is a function that takes the steps one after the other, so that
\* a definition by such a recursion says what it seems to say.
LEMMA FoldExists ==
  ASSUME NEW n \in Nat, NEW V, NEW base \in V, NEW step \in [1..n -> [V -> V]]
  PROVE  \E f : IsFold(f, n, V, base, step)
<1> DEFINE Good(m) == \E f \in [0..m -> V] :
                        f[0] = base /\ \A k \in 1..m : f[k] = step[k][f[k-1]]
           S == {m \in Nat : m <= n => Good(m)}
<1>1. Good(0)
  <2> DEFINE f == [k \in 0..0 |-> base]
  <2>1. f \in [0..0 -> V] /\ f[0] = base /\ 1..0 = {}
    OBVIOUS
  <2> HIDE DEF f
  <2> QED
    BY <2>1
<1>2. ASSUME NEW m \in Nat, Good(m), m + 1 <= n PROVE Good(m+1)
  <2>1. PICK f \in [0..m -> V] :
          f[0] = base /\ \A k \in 1..m : f[k] = step[k][f[k-1]]
    BY <1>2
  <2> DEFINE g == [k \in 0..(m+1) |-> IF k = m + 1 THEN step[m+1][f[m]] ELSE f[k]]
  <2>2. g[0] = base
    BY <2>1
  <2>3. ASSUME NEW k \in 1..(m+1) PROVE g[k] = step[k][g[k-1]]
    <3>1. CASE k = m + 1
      BY <3>1
    <3>2. CASE k \in 1..m
      BY <2>1, <3>2
    <3> QED
      BY <3>1, <3>2
  <2>4. g \in [0..(m+1) -> V]
    <3>1. step[m+1][f[m]] \in V
      BY <1>2
    <3> QED
      BY <3>1
  <2> HIDE DEF g
  <2> QED
    BY <2>2, <2>3, <2>4
<1> HIDE DEF Good
<1>3. 0 \in S /\ \A m \in Nat : m \in S => m + 1 \in S
  BY <1>1, <1>2
<1> HIDE DEF S
<1>4. Nat \subseteq S
  BY <1>3, FromZeroUp
<1> QED
  BY <1>4 DEF S, Good, IsFold

-----------------------------------------------------------------------------
(* What a sequence holds at an offset *)

\* The elements of t are in s, behind its first o elements.
Holds(s, o, t) ==
  o + Len(t) <= Len(s) /\ \A i \in 1..Len(t) : s[o + i] = t[i]

\* Both parts of a concatenation are in it.
LEMMA ConcatHolds ==
  ASSUME NEW S, NEW s \in Seq(S), NEW t \in Seq(S),
         NEW m, NEW n, Len(s) = m, Len(t) = n
  PROVE  /\ s \o t \in Seq(S)
         /\ Len(s \o t) = m + n
         /\ Holds(s \o t, 0, s)
         /\ Holds(s \o t, m, t)
<1>1. /\ s \o t \in Seq(S)
      /\ Len(s \o t) = m + n
      /\ \A i \in 1..(m + n) :
           (s \o t)[i] = IF i <= m THEN s[i] ELSE t[i - m]
  OBVIOUS
<1>2. \A i \in 1..n : m + i \in 1..(m + n) /\ ~(m + i <= m)
  OBVIOUS
<1>3. \A i \in 1..n : (s \o t)[m + i] = t[i]
  BY <1>1, <1>2
<1> QED
  BY <1>1, <1>3 DEF Holds

\* A part of a part is a part.
LEMMA HoldsTrans ==
  ASSUME NEW S, NEW s \in Seq(S), NEW t \in Seq(S), NEW u \in Seq(S),
         NEW o \in Nat, NEW p \in Nat, Holds(s, o, t), Holds(t, p, u)
  PROVE  Holds(s, o + p, u)
<1>1. \A i \in 1..Len(u) : p + i \in 1..Len(t) /\ (o + p) + i = o + (p + i)
  BY DEF Holds
<1>2. \A i \in 1..Len(u) : s[o + (p + i)] = t[p + i]
  BY <1>1 DEF Holds
<1> QED
  BY <1>1, <1>2 DEF Holds

\* What a sequence holds stays where it is when something is appended.
LEMMA AppendedHolds ==
  ASSUME NEW S, NEW s \in Seq(S), NEW t \in Seq(S), NEW u \in Seq(S),
         NEW o \in Nat, Holds(s, o, u)
  PROVE  Holds(s \o t, o, u)
<1>1. Holds(s \o t, 0, s) /\ s \o t \in Seq(S)
  BY ConcatHolds
<1>2. Holds(s \o t, 0 + o, u)
  BY <1>1, HoldsTrans
<1> QED
  BY <1>2

\* The beginning of a sequence holds what ends in it.
LEMMA PrefixHolds ==
  ASSUME NEW S, NEW s \in Seq(S), NEW n \in 0..Len(s)
  PROVE  /\ SubSeq(s, 1, n) \in Seq(S)
         /\ Len(SubSeq(s, 1, n)) = n
         /\ Holds(s, 0, SubSeq(s, 1, n))
         /\ \A o \in Nat, u \in Seq(S) :
              Holds(s, o, u) /\ o + Len(u) <= n => Holds(SubSeq(s, 1, n), o, u)
BY DEF Holds

\* A slice is what is held there.
LEMMA SliceHolds ==
  ASSUME NEW S, NEW s \in Seq(S), NEW t \in Seq(S), NEW o \in Nat, Holds(s, o, t)
  PROVE  SubSeq(s, o + 1, o + Len(t)) = t
<1> DEFINE n == Len(t)
           d == SubSeq(s, o + 1, o + n)
<1>1. n \in Nat /\ o + n <= Len(s)
  BY DEF Holds
<1>2. /\ d \in Seq(S)
      /\ Len(d) = n
      /\ \A i \in 1..n : d[i] = s[o + i]
  <2> HIDE DEF n
  <2> QED
    BY <1>1
<1>3. \A i \in 1..n : d[i] = t[i]
  BY <1>2 DEF Holds
<1>4. d = t
  <2> HIDE DEF d
  <2> QED
    BY <1>2, <1>3
<1> QED
  BY <1>4

\* A slice holds what the sequence holds in that place.
LEMMA SliceOfHolds ==
  ASSUME NEW S, NEW s \in Seq(S), NEW u \in Seq(S), NEW o \in Nat, NEW p \in Nat,
         NEW n \in Nat, o + n <= Len(s), p + Len(u) <= n, Holds(s, o + p, u)
  PROVE  Holds(SubSeq(s, o + 1, o + n), p, u)
<1> DEFINE d == SubSeq(s, o + 1, o + n)
<1>1. d \in Seq(S) /\ Len(d) = n /\ \A i \in 1..n : d[i] = s[o + i]
  OBVIOUS
<1>2. \A i \in 1..Len(u) : p + i \in 1..n /\ o + (p + i) = (o + p) + i
  OBVIOUS
<1> HIDE DEF d
<1>3. \A i \in 1..Len(u) : d[p + i] = u[i]
  BY <1>1, <1>2 DEF Holds
<1>4. Holds(d, p, u)
  BY <1>1, <1>3 DEF Holds
<1> QED
  BY <1>4 DEF d

-----------------------------------------------------------------------------
(* Queues *)

\* The shutdown marker is in the queue.
HasMarker(q) == \E k \in DOMAIN q : q[k] = Sentinel

\* Nothing but markers follows a marker.
MarkersLast(q) ==
  \A k, l \in DOMAIN q : k < l /\ q[k] = Sentinel => q[l] = Sentinel

\* Taking the first element out keeps the queue within its type, and brings
\* neither items nor markers into it.
LEMMA TailOfQueue ==
  ASSUME NEW S, NEW cap \in Nat, NEW q \in BoundedQueues(S, cap), q # <<>>
  PROVE  /\ Tail(q) \in BoundedQueues(S, cap)
         /\ Items(Tail(q)) \subseteq Items(q)
         /\ MarkersLast(q) => MarkersLast(Tail(q))
         /\ HasMarker(Tail(q)) => HasMarker(q)
<1> DEFINE t == Tail(q)
<1>1. q \in Seq(S \cup {Sentinel}) /\ Len(q) <= cap
  BY DEF BoundedQueues
<1>2. /\ t \in Seq(S \cup {Sentinel})
      /\ Len(t) = Len(q) - 1
      /\ \A k \in 1..Len(t) : k+1 \in 1..Len(q) /\ t[k] = q[k+1]
  BY <1>1
<1>3. t \in BoundedQueues(S, cap)
  BY <1>1, <1>2 DEF BoundedQueues
<1>4. DOMAIN t = 1..Len(t) /\ DOMAIN q = 1..Len(q)
  BY <1>1, <1>2
<1>5. Items(t) \subseteq Items(q)
  BY <1>2, <1>4 DEF Items
<1>6. MarkersLast(q) => MarkersLast(t)
  BY <1>2, <1>4 DEF MarkersLast
<1>7. HasMarker(t) => HasMarker(q)
  BY <1>2, <1>4 DEF HasMarker
<1> QED
  BY <1>3, <1>5, <1>6, <1>7

\* push: an item goes to the end of a queue that is not full.
LEMMA PushItem ==
  ASSUME NEW S, NEW cap \in Nat, NEW q \in BoundedQueues(S, cap),
         NEW x \in S \cup {Sentinel}, ~Full(q, cap)
  PROVE  /\ Append(q, x) \in BoundedQueues(S, cap)
         /\ ~HasMarker(q) => MarkersLast(Append(q, x))
         /\ HasMarker(Append(q, x)) => HasMarker(q) \/ x = Sentinel
         /\ Items(Append(q, x)) \subseteq Items(q) \cup {x}
<1> DEFINE a == Append(q, x)
<1>1. q \in Seq(S \cup {Sentinel}) /\ Len(q) < cap
  BY DEF BoundedQueues, Full
<1>2. /\ a \in Seq(S \cup {Sentinel})
      /\ Len(a) = Len(q) + 1
      /\ \A k \in 1..Len(q) : a[k] = q[k]
      /\ a[Len(q)+1] = x
  BY <1>1
<1>3. DOMAIN a = 1..Len(a) /\ DOMAIN q = 1..Len(q) /\ Len(q) \in Nat
  BY <1>1, <1>2
<1>4. a \in BoundedQueues(S, cap)
  BY <1>1, <1>2, <1>3 DEF BoundedQueues
<1>5. ~HasMarker(q) => MarkersLast(a)
  BY <1>2, <1>3 DEF HasMarker, MarkersLast
<1>6. HasMarker(a) => HasMarker(q) \/ x = Sentinel
  BY <1>2, <1>3 DEF HasMarker
<1>7. Items(a) \subseteq Items(q) \cup {x}
  BY <1>2, <1>3 DEF Items
<1> QED
  BY <1>4, <1>5, <1>6, <1>7

\* shutdown: the marker goes to the end if there is room, and is lost if not.
LEMMA PutMarker ==
  ASSUME NEW S, NEW cap \in Nat, NEW q \in BoundedQueues(S, cap)
  PROVE  /\ PutNowait(q, Sentinel, cap) \in BoundedQueues(S, cap)
         /\ MarkersLast(q) => MarkersLast(PutNowait(q, Sentinel, cap))
         /\ Items(PutNowait(q, Sentinel, cap)) = Items(q)
<1> DEFINE a == Append(q, Sentinel)
<1>1. CASE Full(q, cap)
  BY <1>1 DEF PutNowait
<1>2. CASE ~Full(q, cap)
  <2>1. q \in Seq(S \cup {Sentinel}) /\ Len(q) < cap
    BY <1>2 DEF BoundedQueues, Full
  <2>2. /\ a \in Seq(S \cup {Sentinel})
        /\ Len(a) = Len(q) + 1
        /\ \A k \in 1..Len(q) : a[k] = q[k]
        /\ a[Len(q)+1] = Sentinel
    BY <2>1
  <2>3. DOMAIN a = 1..Len(a) /\ DOMAIN q = 1..Len(q) /\ Len(q) \in Nat
    BY <2>1, <2>2
  <2>4. a \in BoundedQueues(S, cap)
    BY <2>1, <2>2, <2>3 DEF BoundedQueues
  <2>5. MarkersLast(q) => MarkersLast(a)
    BY <2>2, <2>3 DEF MarkersLast
  <2>6. Items(a) = Items(q)
    <3>1. ASSUME NEW y \in Items(a) PROVE y \in Items(q)
      BY <2>2, <2>3 DEF Items
    <3>2. ASSUME NEW y \in Items(q) PROVE y \in Items(a)
      BY <2>2, <2>3 DEF Items
    <3> QED BY <3>1, <3>2
  <2> QED
    BY <1>2, <2>4, <2>5, <2>6 DEF PutNowait
<1> QED
  BY <1>1, <1>2

\* pop and try_pop return None: a queue without an item in front has no item
\* at all, and still has none afterwards.
LEMMA PopNone ==
  ASSUME NEW S, NEW cap \in Nat, NEW q \in BoundedQueues(S, cap), ~HasItem(q)
  PROVE  /\ AfterNone(q, cap) \in BoundedQueues(S, cap)
         /\ MarkersLast(q) => /\ MarkersLast(AfterNone(q, cap))
                              /\ Items(q) = {}
                              /\ Items(AfterNone(q, cap)) = {}
         /\ HasMarker(AfterNone(q, cap)) => HasMarker(q)
<1>1. CASE q = <<>>
  BY <1>1 DEF AfterNone, Items
<1>2. CASE q # <<>>
  <2>1. q \in Seq(S \cup {Sentinel}) /\ q[1] = Sentinel
    BY <1>2 DEF BoundedQueues, HasItem
  <2>2. 1 \in DOMAIN q /\ DOMAIN q = 1..Len(q) /\ Len(q) \in Nat
    BY <1>2, <2>1
  <2>3. HasMarker(q)
    BY <2>1, <2>2 DEF HasMarker
  <2>4. MarkersLast(q) => Items(q) = {}
    <3>1. SUFFICES ASSUME MarkersLast(q), NEW k \in DOMAIN q PROVE q[k] = Sentinel
      BY DEF Items
    <3>2. k = 1 \/ 1 < k
      BY <2>2
    <3> QED
      BY <2>1, <2>2, <3>1, <3>2 DEF MarkersLast
  <2>5. AfterNone(q, cap) = PutNowait(Tail(q), Sentinel, cap)
    BY <1>2 DEF AfterNone
  <2>6. /\ Tail(q) \in BoundedQueues(S, cap)
        /\ Items(Tail(q)) \subseteq Items(q)
        /\ MarkersLast(q) => MarkersLast(Tail(q))
    BY <1>2, TailOfQueue
  <2> QED
    BY <2>3, <2>4, <2>5, <2>6, PutMarker
<1> QED
  BY <1>1, <1>2

-----------------------------------------------------------------------------
(* Queues in which items keep an order *)

\* Each item stands in the relation R to those behind it.
Sorted(q, R) ==
  \A k, l \in DOMAIN q :
    k < l /\ q[k] # Sentinel /\ q[l] # Sentinel => <<q[k], q[l]>> \in R

\* pop: the item leaves the queue, and all that stay are behind it.
LEMMA PopSorted ==
  ASSUME NEW S, NEW q \in Seq(S \cup {Sentinel}), HasItem(q),
         NEW R, \A x : <<x, x>> \notin R, Sorted(q, R)
  PROVE  /\ Head(q) \in Items(q)
         /\ Items(Tail(q)) = Items(q) \ {Head(q)}
         /\ \A x \in Items(Tail(q)) : <<Head(q), x>> \in R
         /\ Sorted(Tail(q), R)
<1> DEFINE t == Tail(q)
<1>1. /\ Len(q) \in Nat /\ Len(q) > 0 /\ Len(t) = Len(q) - 1
      /\ DOMAIN q = 1..Len(q) /\ DOMAIN t = 1..Len(t)
      /\ \A k \in 1..Len(t) : k+1 \in 1..Len(q) /\ t[k] = q[k+1]
      /\ Head(q) = q[1] /\ q[1] # Sentinel
  BY DEF HasItem
<1> HIDE DEF t
<1>2. \A x \in Items(t) : <<q[1], x>> \in R
  <2> SUFFICES ASSUME NEW k \in DOMAIN t, t[k] # Sentinel
               PROVE  <<q[1], t[k]>> \in R
    BY DEF Items
  <2>1. 1 \in DOMAIN q /\ k+1 \in DOMAIN q /\ 1 < k+1 /\ t[k] = q[k+1]
    BY <1>1
  <2> QED
    BY <1>1, <2>1 DEF Sorted
<1>3. Items(t) \subseteq Items(q) \ {q[1]}
  <2>1. \A x \in Items(t) : x # q[1]
    BY <1>2
  <2>2. Items(t) \subseteq Items(q)
    BY <1>1 DEF Items
  <2> QED
    BY <2>1, <2>2
<1>4. Items(q) \ {q[1]} \subseteq Items(t)
  <2> SUFFICES ASSUME NEW k \in DOMAIN q, q[k] # Sentinel, q[k] # q[1]
               PROVE  q[k] \in Items(t)
    BY DEF Items
  <2>1. k-1 \in DOMAIN t /\ t[k-1] = q[k]
    BY <1>1
  <2> QED
    BY <2>1 DEF Items
<1>5. Sorted(t, R)
  <2> SUFFICES ASSUME NEW k \in DOMAIN t, NEW l \in DOMAIN t, k < l,
                      t[k] # Sentinel, t[l] # Sentinel
               PROVE  <<t[k], t[l]>> \in R
    BY DEF Sorted
  <2>1. k+1 \in DOMAIN q /\ l+1 \in DOMAIN q /\ k+1 < l+1
        /\ t[k] = q[k+1] /\ t[l] = q[l+1]
    BY <1>1
  <2> QED
    BY <2>1 DEF Sorted
<1>6. q[1] \in Items(q)
  BY <1>1 DEF Items
<1> QED
  BY <1>1, <1>2, <1>3, <1>4, <1>5, <1>6 DEF t

\* push: the item goes behind all others.
LEMMA PushSorted ==
  ASSUME NEW S, NEW q \in Seq(S \cup {Sentinel}), NEW x \in S, x # Sentinel,
         NEW R, Sorted(q, R), \A y \in Items(q) : <<y, x>> \in R
  PROVE  /\ Items(Append(q, x)) = Items(q) \cup {x}
         /\ Sorted(Append(q, x), R)
<1> DEFINE a == Append(q, x)
<1>1. /\ Len(q) \in Nat /\ Len(a) = Len(q) + 1
      /\ DOMAIN q = 1..Len(q) /\ DOMAIN a = 1..Len(a)
      /\ \A k \in 1..Len(q) : a[k] = q[k]
      /\ a[Len(q)+1] = x
  OBVIOUS
<1> HIDE DEF a
<1>2. Items(a) = Items(q) \cup {x}
  <2>1. Items(a) \subseteq Items(q) \cup {x}
    BY <1>1 DEF Items
  <2>2. ASSUME NEW k \in DOMAIN q, q[k] # Sentinel PROVE q[k] \in Items(a)
    BY <1>1, <2>2 DEF Items
  <2>3. x \in Items(a)
    BY <1>1 DEF Items
  <2> QED
    BY <2>1, <2>2, <2>3 DEF Items
<1>3. Sorted(a, R)
  <2> SUFFICES ASSUME NEW k \in DOMAIN a, NEW l \in DOMAIN a, k < l,
                      a[k] # Sentinel, a[l] # Sentinel
               PROVE  <<a[k], a[l]>> \in R
    BY DEF Sorted
  <2>1. k \in DOMAIN q /\ a[k] = q[k] /\ q[k] \in Items(q)
    BY <1>1 DEF Items
  <2>2. CASE l = Len(q) + 1
    BY <1>1, <2>1, <2>2
  <2>3. CASE l # Len(q) + 1
    BY <1>1, <2>1, <2>3 DEF Sorted
  <2> QED
    BY <2>2, <2>3
<1> QED
  BY <1>2, <1>3 DEF a

\* shutdown: the marker is no item.
LEMMA MarkSorted ==
  ASSUME NEW S, NEW q \in Seq(S \cup {Sentinel}), NEW cap, NEW R, Sorted(q, R)
  PROVE  /\ Items(PutNowait(q, Sentinel, cap)) = Items(q)
         /\ Sorted(PutNowait(q, Sentinel, cap), R)
<1> DEFINE a == Append(q, Sentinel)
<1>1. /\ Len(q) \in Nat /\ Len(a) = Len(q) + 1
      /\ DOMAIN q = 1..Len(q) /\ DOMAIN a = 1..Len(a)
      /\ \A k \in 1..Len(q) : a[k] = q[k]
      /\ a[Len(q)+1] = Sentinel
  OBVIOUS
<1> HIDE DEF a
<1>2. Items(a) = Items(q)
  <2>1. Items(a) \subseteq Items(q)
    BY <1>1 DEF Items
  <2>2. ASSUME NEW k \in DOMAIN q, q[k] # Sentinel PROVE q[k] \in Items(a)
    BY <1>1, <2>2 DEF Items
  <2> QED
    BY <2>1, <2>2 DEF Items
<1>3. Sorted(a, R)
  BY <1>1 DEF Sorted
<1> QED
  BY <1>2, <1>3 DEF a, PutNowait

\* pop returns None: no item comes or goes.
LEMMA NoneSorted ==
  ASSUME NEW S, NEW q \in Seq(S \cup {Sentinel}), ~HasItem(q),
         NEW cap, NEW R, Sorted(q, R)
  PROVE  /\ Items(AfterNone(q, cap)) = Items(q)
         /\ Sorted(AfterNone(q, cap), R)
<1> DEFINE t == Tail(q)
<1>1. CASE q = <<>>
  BY <1>1 DEF AfterNone
<1>2. CASE q # <<>>
  <2>1. /\ Len(q) \in Nat /\ Len(q) > 0 /\ Len(t) = Len(q) - 1
        /\ DOMAIN q = 1..Len(q) /\ DOMAIN t = 1..Len(t)
        /\ \A k \in 1..Len(t) : k+1 \in 1..Len(q) /\ t[k] = q[k+1]
        /\ q[1] = Sentinel /\ t \in Seq(S \cup {Sentinel})
    BY <1>2 DEF HasItem
  <2> HIDE DEF t
  <2>2. Items(t) \subseteq Items(q)
    BY <2>1 DEF Items
  <2>3. ASSUME NEW k \in DOMAIN q, q[k] # Sentinel PROVE q[k] \in Items(t)
    <3>1. k-1 \in DOMAIN t /\ t[k-1] = q[k]
      BY <2>1, <2>3
    <3> QED
      BY <2>3, <3>1 DEF Items
  <2>4. Items(t) = Items(q)
    BY <2>2, <2>3 DEF Items
  <2>5. Sorted(t, R)
    <3> SUFFICES ASSUME NEW k \in DOMAIN t, NEW l \in DOMAIN t, k < l,
                        t[k] # Sentinel, t[l] # Sentinel
                 PROVE  <<t[k], t[l]>> \in R
      BY DEF Sorted
    <3>1. k+1 \in DOMAIN q /\ l+1 \in DOMAIN q /\ k+1 < l+1
          /\ t[k] = q[k+1] /\ t[l] = q[l+1]
      BY <2>1
    <3> QED
      BY <3>1 DEF Sorted
  <2> QED
    BY <1>2, <2>1, <2>4, <2>5, MarkSorted DEF AfterNone, t
<1> QED
  BY <1>1, <1>2

=============================================================================
