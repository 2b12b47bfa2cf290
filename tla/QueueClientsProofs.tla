------------------------- MODULE QueueClientsProofs -------------------------
(***************************************************************************)
(* Proofs about QueueClients, for any number of producers, consumers and   *)
(* items and any capacity: the marker is unique, whoever takes it out and  *)
(* puts it back, and to its users the queue is a bounded FIFO.             *)
(***************************************************************************)
EXTENDS QueueClients, SequenceProofs, SequenceTheorems

OneMarker(s) ==
  \A k, l \in DOMAIN s : s[k] = Sentinel /\ s[l] = Sentinel => k = l

\* There is one marker at most, in terms of the queue and of the consumers.
UniqueMarker ==
  /\ OneMarker(q)
  /\ \A c, d \in Consumers : HoldsMarker(c) /\ HoldsMarker(d) => c = d
  /\ (\E c \in Consumers : HoldsMarker(c)) => ~HasMarker(q)
  /\ HasMarker(q) \/ (\E c \in Consumers : HoldsMarker(c)) => closer = "shut"

Inv == TypeOK /\ UniqueMarker

\* What a queue may hold.
Things == AllItems \cup {Sentinel}

-----------------------------------------------------------------------------
(* Items *)

\* The items that producers push are items, and no markers.
LEMMA ItemIsItem ==
  ASSUME NEW p \in Producers, NEW n \in 1..PerProducer
  PROVE  Item(p, n) \in AllItems
BY DEF AllItems

LEMMA ItemsAreNumbers == AllItems \subseteq Nat \ {Sentinel}
<1> SUFFICES ASSUME NEW p \in Producers, NEW n \in 1..PerProducer
             PROVE  Item(p, n) \in Nat /\ Item(p, n) # 0
  BY DEF AllItems, Sentinel
<1>1. p - 1 \in Nat /\ PerProducer \in Nat /\ n \in Nat /\ n >= 1
  BY ClientsAssumption DEF Producers
<1>2. \A a, b \in Nat : a * b \in Nat
  OBVIOUS
<1>3. (p - 1) * PerProducer \in Nat
  BY <1>1, <1>2
<1> QED
  BY <1>1, <1>3 DEF Item

-----------------------------------------------------------------------------
(* The marker in a queue *)

LEMMA MarkerFacts == AtMostOneMarker <=> UniqueMarker
<1>1. ASSUME AtMostOneMarker, NEW k \in DOMAIN q, NEW l \in DOMAIN q,
             q[k] = Sentinel, q[l] = Sentinel
      PROVE  k = l
  <2>1. <<"queue", k>> \in Markers /\ <<"queue", l>> \in Markers
    BY <1>1 DEF Markers
  <2>2. <<"queue", k>> = <<"queue", l>>
    BY <1>1, <2>1 DEF AtMostOneMarker
  <2> QED
    BY <2>2
<1>2. ASSUME AtMostOneMarker, NEW c \in Consumers, NEW d \in Consumers,
             HoldsMarker(c), HoldsMarker(d)
      PROVE  c = d
  <2>1. <<"consumer", c>> \in Markers /\ <<"consumer", d>> \in Markers
    BY <1>2 DEF Markers
  <2>2. <<"consumer", c>> = <<"consumer", d>>
    BY <1>2, <2>1 DEF AtMostOneMarker
  <2> QED
    BY <2>2
<1>3. ASSUME AtMostOneMarker, NEW c \in Consumers, HoldsMarker(c),
             NEW k \in DOMAIN q, q[k] = Sentinel
      PROVE  FALSE
  <2>1. <<"queue", k>> \in Markers /\ <<"consumer", c>> \in Markers
    BY <1>3 DEF Markers
  <2> QED
    BY <1>3, <2>1 DEF AtMostOneMarker
<1>4. ASSUME AtMostOneMarker, NEW k \in DOMAIN q, q[k] = Sentinel
      PROVE  closer = "shut"
  <2>1. <<"queue", k>> \in Markers
    BY <1>4 DEF Markers
  <2> QED
    BY <1>4, <2>1 DEF AtMostOneMarker
<1>5. ASSUME AtMostOneMarker, NEW c \in Consumers, HoldsMarker(c)
      PROVE  closer = "shut"
  <2>1. <<"consumer", c>> \in Markers
    BY <1>5 DEF Markers
  <2> QED
    BY <1>5, <2>1 DEF AtMostOneMarker
<1>6. ASSUME UniqueMarker PROVE AtMostOneMarker
  <2>1. ASSUME NEW m \in Markers, NEW n \in Markers PROVE m = n
    <3>1. CASE (\E k \in DOMAIN q : m = <<"queue", k>> /\ q[k] = Sentinel)
      <4>1. ~ \E c \in Consumers : HoldsMarker(c)
        BY <1>6, <3>1 DEF UniqueMarker, HasMarker
      <4>2. \E l \in DOMAIN q : n = <<"queue", l>> /\ q[l] = Sentinel
        BY <4>1 DEF Markers
      <4> QED
        BY <1>6, <3>1, <4>2 DEF UniqueMarker, OneMarker
    <3>2. CASE (\E c \in Consumers : m = <<"consumer", c>> /\ HoldsMarker(c))
      <4>1. ~HasMarker(q)
        BY <1>6, <3>2 DEF UniqueMarker
      <4>2. \E d \in Consumers : n = <<"consumer", d>> /\ HoldsMarker(d)
        BY <4>1 DEF Markers, HasMarker
      <4> QED
        BY <1>6, <3>2, <4>2 DEF UniqueMarker
    <3> QED
      BY <3>1, <3>2 DEF Markers
  <2>2. Markers # {} => closer = "shut"
    BY <1>6 DEF UniqueMarker, Markers, HasMarker
  <2> QED
    BY <2>1, <2>2 DEF AtMostOneMarker
<1> QED
  BY <1>1, <1>2, <1>3, <1>4, <1>5, <1>6 DEF UniqueMarker, OneMarker, HasMarker

\* Taking the first element out of a queue moves the others one place up.
LEMMA TailElements ==
  ASSUME NEW s \in Seq(Things), s # <<>>
  PROVE  /\ DOMAIN s = 1..Len(s) /\ Len(s) \in Nat /\ Len(s) >= 1
         /\ DOMAIN Tail(s) = 1..(Len(s) - 1) /\ Len(Tail(s)) = Len(s) - 1
         /\ \A i \in 1..(Len(s) - 1) : Tail(s)[i] = s[i + 1]
         /\ Head(s) = s[1]
         /\ OneMarker(s) => OneMarker(Tail(s))
         /\ OneMarker(s) /\ Head(s) = Sentinel => ~HasMarker(Tail(s))
<1>2. DOMAIN s = 1..Len(s) /\ Len(s) \in Nat /\ Len(s) >= 1
  OBVIOUS
<1>3. /\ DOMAIN Tail(s) = 1..(Len(s) - 1) /\ Len(Tail(s)) = Len(s) - 1
      /\ \A i \in 1..(Len(s) - 1) : Tail(s)[i] = s[i + 1]
      /\ Head(s) = s[1]
  BY <1>2
<1>4. ASSUME OneMarker(s) PROVE OneMarker(Tail(s))
  <2>1. SUFFICES ASSUME NEW k \in DOMAIN Tail(s), NEW l \in DOMAIN Tail(s),
                        Tail(s)[k] = Sentinel, Tail(s)[l] = Sentinel
                 PROVE  k = l
    BY DEF OneMarker
  <2>2. /\ k + 1 \in DOMAIN s /\ s[k + 1] = Sentinel
        /\ l + 1 \in DOMAIN s /\ s[l + 1] = Sentinel
        /\ k \in Nat /\ l \in Nat
    BY <1>2, <1>3, <2>1
  <2>3. k + 1 = l + 1
    BY <1>4, <2>2 DEF OneMarker
  <2> QED
    BY <2>2, <2>3
<1>5. ASSUME OneMarker(s), Head(s) = Sentinel PROVE ~HasMarker(Tail(s))
  <2>1. SUFFICES ASSUME NEW k \in DOMAIN Tail(s), Tail(s)[k] = Sentinel PROVE FALSE
    BY DEF HasMarker
  <2>2. k + 1 \in DOMAIN s /\ s[k + 1] = Sentinel /\ k + 1 # 1
    BY <1>2, <1>3, <2>1
  <2>3. 1 \in DOMAIN s /\ s[1] = Sentinel
    BY <1>2, <1>3, <1>5
  <2> QED
    BY <1>5, <2>2, <2>3 DEF OneMarker
<1> QED
  BY <1>2, <1>3, <1>4, <1>5

\* Putting something at the end of a queue.
LEMMA AppendElements ==
  ASSUME NEW s \in Seq(Things), NEW x \in Things
  PROVE  /\ DOMAIN s = 1..Len(s) /\ Len(s) \in Nat
         /\ DOMAIN Append(s, x) = 1..(Len(s) + 1) /\ Len(Append(s, x)) = Len(s) + 1
         /\ \A i \in 1..Len(s) : Append(s, x)[i] = s[i]
         /\ Append(s, x)[Len(s) + 1] = x
         /\ x # Sentinel /\ OneMarker(s) => OneMarker(Append(s, x))
         /\ x # Sentinel => (HasMarker(Append(s, x)) <=> HasMarker(s))
         /\ ~HasMarker(s) => OneMarker(Append(s, x))
<1>2. DOMAIN s = 1..Len(s) /\ Len(s) \in Nat
  OBVIOUS
<1>3. /\ DOMAIN Append(s, x) = 1..(Len(s) + 1) /\ Len(Append(s, x)) = Len(s) + 1
      /\ \A i \in 1..Len(s) : Append(s, x)[i] = s[i]
      /\ Append(s, x)[Len(s) + 1] = x
  BY <1>2
<1>4. \A k \in DOMAIN Append(s, x) : k \in DOMAIN s \/ k = Len(s) + 1
  BY <1>2, <1>3
<1>5. x # Sentinel /\ OneMarker(s) => OneMarker(Append(s, x))
  BY <1>2, <1>3, <1>4 DEF OneMarker
<1>6. x # Sentinel => (HasMarker(Append(s, x)) <=> HasMarker(s))
  <2>1. \A k \in DOMAIN s : k \in DOMAIN Append(s, x)
    BY <1>2, <1>3
  <2> QED
    BY <1>2, <1>3, <1>4, <2>1 DEF HasMarker
<1>7. ~HasMarker(s) => OneMarker(Append(s, x))
  BY <1>2, <1>3, <1>4 DEF OneMarker, HasMarker
<1> QED
  BY <1>2, <1>3, <1>5, <1>6, <1>7

-----------------------------------------------------------------------------
(* What users see of a queue *)

LEMMA VisibleWithMarker ==
  ASSUME NEW s, OneMarker(s), NEW m \in DOMAIN s, s[m] = Sentinel
  PROVE  Visible(s) = [i \in 1..(Len(s) - 1) |-> IF i < m THEN s[i] ELSE s[i + 1]]
<1>1. (CHOOSE k \in DOMAIN s : s[k] = Sentinel) = m
  BY DEF OneMarker
<1> QED
  BY <1>1 DEF Visible

LEMMA VisibleWithoutMarker ==
  ASSUME NEW s, ~HasMarker(s) PROVE Visible(s) = s
BY DEF Visible, HasMarker

\* What is seen of a queue, element by element.
LEMMA VisibleElements ==
  ASSUME NEW s \in Seq(Things), OneMarker(s)
  PROVE  /\ Visible(s) \in Seq(Things)
         /\ Len(Visible(s)) = IF HasMarker(s) THEN Len(s) - 1 ELSE Len(s)
         /\ \A m \in DOMAIN s : s[m] = Sentinel =>
              \A i \in 1..(Len(s) - 1) :
                Visible(s)[i] = IF i < m THEN s[i] ELSE s[i + 1]
<1>1. CASE ~HasMarker(s)
  BY <1>1, VisibleWithoutMarker DEF HasMarker
<1>2. CASE HasMarker(s)
  <2>1. PICK m \in DOMAIN s : s[m] = Sentinel
    BY <1>2 DEF HasMarker
  <2>2. Visible(s) = [i \in 1..(Len(s) - 1) |-> IF i < m THEN s[i] ELSE s[i + 1]]
    BY <2>1, VisibleWithMarker
  <2>3. Len(s) - 1 \in Nat
    BY <2>1
  <2>4. \A i \in 1..(Len(s) - 1) : (IF i < m THEN s[i] ELSE s[i + 1]) \in Things
    BY <2>3
  <2>5. Visible(s) \in Seq(Things) /\ Len(Visible(s)) = Len(s) - 1
    BY <2>2, <2>3, <2>4
  <2>6. \A n \in DOMAIN s : s[n] = Sentinel => n = m
    BY <2>1 DEF OneMarker
  <2> QED
    BY <1>2, <2>2, <2>5, <2>6
<1> QED
  BY <1>1, <1>2

\* push: the item appears at the end.
LEMMA VisibleAppend ==
  ASSUME NEW s \in Seq(Things), OneMarker(s), NEW x \in AllItems, x # Sentinel
  PROVE  Visible(Append(s, x)) = Append(Visible(s), x)
<1> DEFINE a == Append(s, x)
<1>1. /\ DOMAIN s = 1..Len(s) /\ Len(s) \in Nat
      /\ DOMAIN a = 1..(Len(s) + 1) /\ Len(a) = Len(s) + 1
      /\ \A i \in 1..Len(s) : a[i] = s[i]
      /\ a[Len(s) + 1] = x
      /\ OneMarker(a)
      /\ HasMarker(a) <=> HasMarker(s)
  BY AppendElements DEF Things
<1>2. CASE ~HasMarker(s)
  BY <1>1, <1>2, VisibleWithoutMarker
<1>3. CASE HasMarker(s)
  <2>1. PICK m \in DOMAIN s : s[m] = Sentinel
    BY <1>3 DEF HasMarker
  <2>2. m \in DOMAIN a /\ a[m] = Sentinel /\ m \in 1..Len(s)
    BY <1>1, <2>1
  <2>3. /\ Visible(s) \in Seq(Things) /\ Len(Visible(s)) = Len(s) - 1
        /\ \A i \in 1..(Len(s) - 1) :
             Visible(s)[i] = IF i < m THEN s[i] ELSE s[i + 1]
    BY <1>3, <2>1, VisibleElements
  <2>4. /\ Visible(a) \in Seq(Things) /\ Len(Visible(a)) = Len(s)
        /\ \A i \in 1..Len(s) : Visible(a)[i] = IF i < m THEN a[i] ELSE a[i + 1]
    <3>1. a \in Seq(Things)
      BY DEF Things
    <3>2. HasMarker(a) /\ Len(a) - 1 = Len(s)
      BY <1>1, <1>3
    <3>3. /\ Visible(a) \in Seq(Things) /\ Len(Visible(a)) = Len(a) - 1
          /\ \A i \in 1..(Len(a) - 1) : Visible(a)[i] = IF i < m THEN a[i] ELSE a[i + 1]
      BY <1>1, <2>2, <3>1, <3>2, VisibleElements
    <3> QED
      BY <3>2, <3>3
  <2>5. /\ Append(Visible(s), x) \in Seq(Things)
        /\ Len(Append(Visible(s), x)) = Len(s)
        /\ \A i \in 1..(Len(s) - 1) : Append(Visible(s), x)[i] = Visible(s)[i]
        /\ Append(Visible(s), x)[Len(s)] = x
    <3>1. x \in Things
      BY DEF Things
    <3>2. /\ Append(Visible(s), x) \in Seq(Things)
          /\ Len(Append(Visible(s), x)) = Len(Visible(s)) + 1
          /\ \A i \in 1..Len(Visible(s)) : Append(Visible(s), x)[i] = Visible(s)[i]
          /\ Append(Visible(s), x)[Len(Visible(s)) + 1] = x
      BY <2>3, <3>1, AppendProperties
    <3>3. Len(Visible(s)) + 1 = Len(s)
      BY <1>1, <2>3
    <3> QED
      BY <2>3, <3>2, <3>3
  <2>6. ASSUME NEW i \in 1..Len(s)
        PROVE  Visible(a)[i] = Append(Visible(s), x)[i]
    <3>1. CASE i \in 1..(Len(s) - 1)
      <4>1. a[i] = s[i] /\ a[i + 1] = s[i + 1]
        BY <1>1, <3>1
      <4>2. Visible(a)[i] = IF i < m THEN s[i] ELSE s[i + 1]
        BY <2>4, <4>1
      <4>3. Append(Visible(s), x)[i] = Visible(s)[i]
        BY <2>5, <3>1
      <4> QED
        BY <2>3, <3>1, <4>2, <4>3
    <3>2. CASE i = Len(s)
      <4>1. ~(i < m) /\ a[i + 1] = x
        BY <1>1, <2>2, <3>2
      <4>2. Visible(a)[i] = x
        BY <2>4, <4>1
      <4> QED
        BY <2>5, <3>2, <4>2
    <3>3. i \in 1..(Len(s) - 1) \/ i = Len(s)
      <4>1. \A n \in Nat : i \in 1..n => i \in 1..(n - 1) \/ i = n
        OBVIOUS
      <4>2. Len(s) \in Nat /\ i \in 1..Len(s)
        BY <1>1, <2>6
      <4> QED
        BY <4>1, <4>2
    <3> QED
      BY <3>1, <3>2, <3>3
  <2> QED
    BY <2>4, <2>5, <2>6, SeqEqual
<1> QED
  BY <1>2, <1>3

\* pop of an item: it was the first that could be seen.
LEMMA VisibleTail ==
  ASSUME NEW s \in Seq(Things), OneMarker(s), HasItem(s)
  PROVE  /\ Visible(s) # <<>>
         /\ Head(Visible(s)) = Head(s)
         /\ Visible(Tail(s)) = Tail(Visible(s))
<1> DEFINE t == Tail(s)
<1>1. s # <<>> /\ Head(s) # Sentinel
  BY DEF HasItem
<1>2. /\ DOMAIN s = 1..Len(s) /\ Len(s) \in Nat /\ Len(s) >= 1
      /\ DOMAIN t = 1..(Len(s) - 1) /\ Len(t) = Len(s) - 1
      /\ \A i \in 1..(Len(s) - 1) : t[i] = s[i + 1]
      /\ Head(s) = s[1]
      /\ OneMarker(t)
  BY <1>1, TailElements
<1>3. CASE ~HasMarker(s)
  <2>1. ~HasMarker(t)
    BY <1>2, <1>3 DEF HasMarker
  <2> QED
    BY <1>1, <1>3, <2>1, VisibleWithoutMarker
<1>4. CASE HasMarker(s)
  <2>1. PICK m \in DOMAIN s : s[m] = Sentinel
    BY <1>4 DEF HasMarker
  <2>2. m \in 2..Len(s)
    BY <1>1, <1>2, <2>1
  <2>3. m - 1 \in DOMAIN t /\ t[m - 1] = Sentinel
    BY <1>2, <2>1, <2>2
  <2>4. /\ Visible(s) \in Seq(Things) /\ Len(Visible(s)) = Len(s) - 1
        /\ \A i \in 1..(Len(s) - 1) :
             Visible(s)[i] = IF i < m THEN s[i] ELSE s[i + 1]
    BY <1>4, <2>1, VisibleElements
  <2>5. /\ Visible(t) \in Seq(Things) /\ Len(Visible(t)) = Len(s) - 2
        /\ \A i \in 1..(Len(s) - 2) :
             Visible(t)[i] = IF i < m - 1 THEN t[i] ELSE t[i + 1]
    <3>1. HasMarker(t)
      BY <2>3 DEF HasMarker
    <3>2. t \in Seq(Things)
      BY <1>1
    <3>3. /\ Visible(t) \in Seq(Things) /\ Len(Visible(t)) = Len(t) - 1
          /\ \A i \in 1..(Len(t) - 1) :
               Visible(t)[i] = IF i < m - 1 THEN t[i] ELSE t[i + 1]
      BY <1>2, <2>3, <3>1, <3>2, VisibleElements
    <3>4. Len(t) - 1 = Len(s) - 2
      BY <1>2
    <3> QED
      BY <3>3, <3>4
  <2>6. 1 \in 1..(Len(s) - 1) /\ Visible(s)[1] = s[1] /\ Visible(s) # <<>>
    BY <1>2, <2>2, <2>4
  <2>7. Head(Visible(s)) = Head(s)
    BY <1>2, <2>4, <2>6
  <2>8. /\ Tail(Visible(s)) \in Seq(Things) /\ Len(Tail(Visible(s))) = Len(s) - 2
        /\ \A i \in 1..(Len(s) - 2) : Tail(Visible(s))[i] = Visible(s)[i + 1]
    <3>1. /\ Tail(Visible(s)) \in Seq(Things)
          /\ Len(Tail(Visible(s))) = Len(Visible(s)) - 1
          /\ \A i \in 1..Len(Tail(Visible(s))) : Tail(Visible(s))[i] = Visible(s)[i + 1]
      BY <2>4, <2>6, HeadTailProperties
    <3>2. Len(Visible(s)) - 1 = Len(s) - 2
      BY <1>2, <2>4
    <3> QED
      BY <3>1, <3>2
  <2>9. ASSUME NEW i \in 1..(Len(s) - 2)
        PROVE  Visible(t)[i] = Tail(Visible(s))[i]
    <3>1. /\ i + 1 \in 1..(Len(s) - 1) /\ i \in 1..(Len(s) - 1)
          /\ t[i] = s[i + 1] /\ t[i + 1] = s[(i + 1) + 1]
      BY <1>2
    <3>2. Visible(s)[i + 1] = IF i + 1 < m THEN s[i + 1] ELSE s[(i + 1) + 1]
      BY <2>4, <3>1
    <3>3. i < m - 1 <=> i + 1 < m
      BY <2>2
    <3> QED
      BY <2>5, <2>8, <3>1, <3>2, <3>3
  <2>10. Visible(t) = Tail(Visible(s))
    BY <2>5, <2>8, <2>9, SeqEqual
  <2> QED
    BY <2>6, <2>7, <2>10
<1> QED
  BY <1>3, <1>4

\* The marker is taken out: nobody sees it.
LEMMA VisibleMarkerOut ==
  ASSUME NEW s \in Seq(Things), OneMarker(s), s # <<>>, Head(s) = Sentinel
  PROVE  Visible(Tail(s)) = Visible(s)
<1> DEFINE t == Tail(s)
<1>1. /\ DOMAIN s = 1..Len(s) /\ Len(s) \in Nat /\ Len(s) >= 1
      /\ DOMAIN t = 1..(Len(s) - 1) /\ Len(t) = Len(s) - 1
      /\ \A i \in 1..(Len(s) - 1) : t[i] = s[i + 1]
      /\ Head(s) = s[1]
      /\ ~HasMarker(t)
  BY TailElements
<1>2. Visible(t) = t
  BY <1>1, VisibleWithoutMarker
<1>3. /\ Visible(s) \in Seq(Things) /\ Len(Visible(s)) = Len(t)
      /\ \A i \in 1..Len(t) : Visible(s)[i] = t[i]
  <2>1. 1 \in DOMAIN s /\ s[1] = Sentinel /\ HasMarker(s)
    BY <1>1 DEF HasMarker
  <2>2. /\ Visible(s) \in Seq(Things) /\ Len(Visible(s)) = Len(s) - 1
        /\ \A i \in 1..(Len(s) - 1) : Visible(s)[i] = IF i < 1 THEN s[i] ELSE s[i + 1]
    BY <2>1, VisibleElements
  <2> QED
    BY <1>1, <2>2
<1>4. t \in Seq(Things)
  OBVIOUS
<1> QED
  BY <1>2, <1>3, <1>4, SeqEqual

\* The marker is put in, if there is room: nobody sees it.
LEMMA VisibleMarkerIn ==
  ASSUME NEW s \in Seq(Things), ~HasMarker(s)
  PROVE  /\ Visible(PutNowait(s, Sentinel, Capacity)) = Visible(s)
         /\ OneMarker(PutNowait(s, Sentinel, Capacity))
<1> DEFINE a == Append(s, Sentinel)
<1>1. /\ DOMAIN s = 1..Len(s) /\ Len(s) \in Nat
      /\ DOMAIN a = 1..(Len(s) + 1) /\ Len(a) = Len(s) + 1
      /\ \A i \in 1..Len(s) : a[i] = s[i]
      /\ a[Len(s) + 1] = Sentinel
      /\ OneMarker(a)
  BY AppendElements DEF Things
<1>2. Visible(s) = s
  BY VisibleWithoutMarker
<1>3. a \in Seq(Things)
  BY DEF Things
<1>4. /\ Visible(a) \in Seq(Things) /\ Len(Visible(a)) = Len(s)
      /\ \A i \in 1..Len(s) : Visible(a)[i] = s[i]
  <2>1. Len(s) + 1 \in DOMAIN a /\ HasMarker(a)
    BY <1>1 DEF HasMarker
  <2>2. /\ Visible(a) \in Seq(Things) /\ Len(Visible(a)) = Len(a) - 1
        /\ \A i \in 1..(Len(a) - 1) :
             Visible(a)[i] = IF i < Len(s) + 1 THEN a[i] ELSE a[i + 1]
    BY <1>1, <1>3, <2>1, VisibleElements
  <2> QED
    BY <1>1, <2>2
<1>5. Visible(a) = s
  BY <1>4, SeqEqual
<1>6. OneMarker(s)
  BY DEF OneMarker, HasMarker
<1> QED
  BY <1>1, <1>2, <1>5, <1>6 DEF PutNowait
-----------------------------------------------------------------------------
(* The invariant *)

LEMMA InitInv == ASSUME Init PROVE Inv
<1>1. TypeOK
  <2>1. q \in BoundedQueues(AllItems, Capacity)
    BY ClientsAssumption DEF Init, BoundedQueues
  <2>2. pushed \in [Producers -> 0..PerProducer]
    BY ClientsAssumption DEF Init
  <2>3. taken \in Seq(AllItems)
    BY DEF Init
  <2>4. cpc \in [Consumers ->
          {"check", "pop", "putBack", "drain", "tryPop", "tryPutBack", "done"}]
    BY DEF Init
  <2>5. running \in BOOLEAN /\ early \in BOOLEAN
    BY Zenon DEF Init
  <2>6. closer \in {"open", "stopping", "shut"}
    BY DEF Init
  <2> QED
    BY <2>1, <2>2, <2>3, <2>4, <2>5, <2>6 DEF TypeOK
<1>2. UniqueMarker
  BY DEF Init, UniqueMarker, OneMarker, HasMarker, HoldsMarker
<1> QED
  BY <1>1, <1>2 DEF Inv

\* What the invariant says of the queue, in the form that the steps use.
LEMMA QueueFacts ==
  ASSUME Inv
  PROVE  /\ q \in BoundedQueues(AllItems, Capacity)
         /\ q \in Seq(Things) /\ Len(q) \in Nat
         /\ Capacity \in Nat
         /\ UniqueMarker
<1>1. q \in BoundedQueues(AllItems, Capacity)
  BY DEF Inv, TypeOK
<1>2. q \in Seq(Things) /\ Len(q) \in Nat
  BY <1>1 DEF BoundedQueues, Things
<1> QED
  BY <1>1, <1>2, ClientsAssumption DEF Inv

-----------------------------------------------------------------------------
(* Each step keeps the invariant *)

\* The part of TypeOK that a consumer's step to "there" needs.
LEMMA GotoType ==
  ASSUME TypeOK, NEW c \in Consumers,
         NEW there \in {"check", "pop", "putBack", "drain", "tryPop", "tryPutBack", "done"},
         Goto(c, there)
  PROVE  /\ cpc' \in [Consumers ->
              {"check", "pop", "putBack", "drain", "tryPop", "tryPutBack", "done"}]
         /\ cpc'[c] = there
         /\ \A d \in Consumers \ {c} : cpc'[d] = cpc[d]
BY DEF TypeOK, Goto

\* A step that brings no marker anywhere keeps it unique.
LEMMA NoNewMarker ==
  ASSUME UniqueMarker, OneMarker(q'), HasMarker(q') => HasMarker(q),
         \A c \in Consumers : HoldsMarker(c)' => HoldsMarker(c),
         closer = "shut" => closer' = "shut"
  PROVE  UniqueMarker'
BY DEF UniqueMarker

LEMMA PushStep ==
  ASSUME Inv, NEW p \in Producers, Push(p) PROVE Inv'
<1> DEFINE x == Item(p, pushed[p] + 1)
<1>1. TypeOK /\ UniqueMarker /\ q \in Seq(Things)
  BY QueueFacts DEF Inv
<1>2. pushed[p] \in 0..PerProducer /\ pushed[p] + 1 \in 1..PerProducer
  BY <1>1, ClientsAssumption DEF Push, TypeOK
<1>3. x \in AllItems /\ x # Sentinel
  BY <1>2, ItemIsItem, ItemsAreNumbers
<1>4. q' = Append(q, x) /\ ~Full(q, Capacity)
  BY DEF Push
<1>5. q' \in BoundedQueues(AllItems, Capacity)
  BY <1>3, <1>4, PushItem, QueueFacts
<1>6. pushed' \in [Producers -> 0..PerProducer]
  BY <1>1, <1>2 DEF Push, TypeOK
<1>7. TypeOK'
  BY <1>1, <1>5, <1>6 DEF Push, TypeOK
<1>8. UniqueMarker'
  <2>1. OneMarker(q') /\ (HasMarker(q') <=> HasMarker(q))
    BY <1>1, <1>3, <1>4, AppendElements DEF Things, UniqueMarker
  <2>2. \A c \in Consumers : HoldsMarker(c)' => HoldsMarker(c)
    BY DEF Push, HoldsMarker
  <2> QED
    BY <1>1, <2>1, <2>2, NoNewMarker DEF Push
<1> QED
  BY <1>7, <1>8 DEF Inv

LEMMA StopStep == ASSUME Inv, Stop PROVE Inv'
<1>1. TypeOK /\ UniqueMarker
  BY DEF Inv
<1>2. TypeOK'
  <2>1. running' \in BOOLEAN /\ early' \in BOOLEAN
    BY Zenon DEF Stop
  <2>2. closer' \in {"open", "stopping", "shut"}
    BY DEF Stop
  <2> QED
    BY <1>1, <2>1, <2>2 DEF Stop, TypeOK
<1>3. UniqueMarker'
  <2>1. closer # "shut" /\ q' = q /\ \A c \in Consumers : HoldsMarker(c)' <=> HoldsMarker(c)
    BY DEF Stop, HoldsMarker
  <2> QED
    BY <1>1, <2>1, NoNewMarker DEF UniqueMarker
<1> QED
  BY <1>2, <1>3 DEF Inv

LEMMA ShutdownStep == ASSUME Inv, Shutdown PROVE Inv'
<1>1. TypeOK /\ UniqueMarker /\ q \in Seq(Things)
  BY QueueFacts DEF Inv
<1>2. ~HasMarker(q) /\ \A c \in Consumers : ~HoldsMarker(c)
  BY <1>1 DEF Shutdown, UniqueMarker
<1>3. q' = PutNowait(q, Sentinel, Capacity) /\ closer' = "shut" /\ cpc' = cpc
  BY DEF Shutdown
<1>4. q' \in BoundedQueues(AllItems, Capacity)
  BY <1>3, PutMarker, QueueFacts
<1>5. TypeOK'
  BY <1>1, <1>3, <1>4 DEF Shutdown, TypeOK
<1>6. UniqueMarker'
  <2>1. OneMarker(q')
    BY <1>1, <1>2, <1>3, VisibleMarkerIn
  <2>2. \A c \in Consumers : ~HoldsMarker(c)'
    BY <1>2, <1>3 DEF HoldsMarker
  <2> QED
    BY <1>3, <2>1, <2>2 DEF UniqueMarker
<1> QED
  BY <1>5, <1>6 DEF Inv

-----------------------------------------------------------------------------
(* The steps of a consumer *)

\* The type part of every such step.
LEMMA ConsumerType ==
  ASSUME Inv, NEW c \in Consumers,
         NEW there \in {"check", "pop", "putBack", "drain", "tryPop", "tryPutBack", "done"},
         Goto(c, there),
         q' \in BoundedQueues(AllItems, Capacity), taken' \in Seq(AllItems),
         UNCHANGED <<pushed, running, closer, early>>
  PROVE  /\ TypeOK'
         /\ HoldsMarker(c)' <=> there \in {"putBack", "tryPutBack"}
         /\ \A d \in Consumers \ {c} : HoldsMarker(d)' <=> HoldsMarker(d)
<1>1. TypeOK
  BY DEF Inv
<1>2. /\ cpc' \in [Consumers ->
           {"check", "pop", "putBack", "drain", "tryPop", "tryPutBack", "done"}]
      /\ cpc'[c] = there
      /\ \A d \in Consumers \ {c} : cpc'[d] = cpc[d]
  BY <1>1, GotoType
<1>3. TypeOK'
  BY <1>1, <1>2 DEF TypeOK
<1> QED
  BY <1>2, <1>3 DEF HoldsMarker

\* Where a consumer goes that got None.
LEMMA NonePlace ==
  ASSUME NEW c \in Consumers, OnNone(c)
  PROVE  \E there \in {"check", "done"} : Goto(c, there)
<1>1. CASE cpc[c] \in {"pop", "putBack"}
  BY <1>1 DEF OnNone
<1>2. CASE cpc[c] \notin {"pop", "putBack"}
  BY <1>2 DEF OnNone
<1> QED
  BY <1>1, <1>2

\* Check, CheckEmpty and TakeNothing only move the consumer.
LEMMA MoveStep ==
  ASSUME Inv, NEW c \in Consumers, Check(c) \/ CheckEmpty(c) \/ TakeNothing(c)
  PROVE  Inv' /\ UNCHANGED <<q, taken>>
<1>1. TypeOK /\ UniqueMarker
  BY DEF Inv
<1>2. UNCHANGED <<q, pushed, taken, running, closer, early>>
  BY DEF Check, CheckEmpty, TakeNothing
<1>3. \E there \in {"check", "pop", "drain", "tryPop", "done"} : Goto(c, there)
  <2>1. CASE Check(c)
    BY <2>1 DEF Check
  <2>2. CASE CheckEmpty(c)
    BY <2>2 DEF CheckEmpty
  <2>3. CASE TakeNothing(c)
    BY <2>3, NonePlace DEF TakeNothing
  <2> QED
    BY <2>1, <2>2, <2>3
<1>4. PICK there \in {"check", "pop", "drain", "tryPop", "done"} : Goto(c, there)
  BY <1>3
<1>5. /\ TypeOK' /\ ~HoldsMarker(c)'
      /\ \A d \in Consumers \ {c} : HoldsMarker(d)' <=> HoldsMarker(d)
  <2>1. q' \in BoundedQueues(AllItems, Capacity) /\ taken' \in Seq(AllItems)
    BY <1>1, <1>2 DEF TypeOK
  <2> QED
    BY <1>2, <1>4, <2>1, ConsumerType
<1>6. UniqueMarker'
  <2>1. \A d \in Consumers : HoldsMarker(d)' => HoldsMarker(d)
    BY <1>5
  <2>2. OneMarker(q') /\ (HasMarker(q') => HasMarker(q))
    BY <1>1, <1>2 DEF UniqueMarker
  <2> QED
    BY <1>1, <1>2, <2>1, <2>2, NoNewMarker
<1> QED
  BY <1>2, <1>5, <1>6 DEF Inv

LEMMA TakeItemStep ==
  ASSUME Inv, NEW c \in Consumers, TakeItem(c) PROVE Inv'
<1>1. TypeOK /\ UniqueMarker /\ q \in Seq(Things)
  BY QueueFacts DEF Inv
<1>2. /\ q # <<>> /\ Head(q) # Sentinel /\ q' = Tail(q)
      /\ taken' = Append(taken, Head(q))
      /\ UNCHANGED <<pushed, running, closer, early>>
  BY DEF TakeItem, HasItem
<1>3. Head(q) \in AllItems
  BY <1>1, <1>2 DEF Things
<1>4. q' \in BoundedQueues(AllItems, Capacity) /\ (HasMarker(q') => HasMarker(q))
  BY <1>2, TailOfQueue, QueueFacts
<1>5. taken' \in Seq(AllItems)
  BY <1>1, <1>2, <1>3 DEF TypeOK
<1>6. PICK there \in {"check", "drain"} : Goto(c, there)
  <2>1. CASE cpc[c] = "pop"
    BY <2>1 DEF TakeItem
  <2>2. CASE cpc[c] # "pop"
    BY <2>2 DEF TakeItem
  <2> QED
    BY <2>1, <2>2
<1>7. /\ TypeOK' /\ ~HoldsMarker(c)'
      /\ \A d \in Consumers \ {c} : HoldsMarker(d)' <=> HoldsMarker(d)
  BY <1>2, <1>4, <1>5, <1>6, ConsumerType
<1>8. UniqueMarker'
  <2>1. OneMarker(q')
    BY <1>1, <1>2, TailElements DEF UniqueMarker
  <2>2. \A d \in Consumers : HoldsMarker(d)' => HoldsMarker(d)
    BY <1>7
  <2> QED
    BY <1>1, <1>2, <1>4, <2>1, <2>2, NoNewMarker
<1> QED
  BY <1>7, <1>8 DEF Inv

\* The marker goes from the queue to the consumer.
LEMMA TakeMarkerStep ==
  ASSUME Inv, NEW c \in Consumers, TakeMarker(c) PROVE Inv'
<1>1. TypeOK /\ UniqueMarker /\ q \in Seq(Things)
  BY QueueFacts DEF Inv
<1>2. /\ q # <<>> /\ Head(q) = Sentinel /\ q' = Tail(q)
      /\ UNCHANGED <<pushed, taken, running, closer, early>>
  BY DEF TakeMarker
<1>3. q' \in BoundedQueues(AllItems, Capacity)
  BY <1>2, TailOfQueue, QueueFacts
<1>4. PICK there \in {"putBack", "tryPutBack"} : Goto(c, there)
  <2>1. CASE cpc[c] = "pop"
    BY <2>1 DEF TakeMarker
  <2>2. CASE cpc[c] # "pop"
    BY <2>2 DEF TakeMarker
  <2> QED
    BY <2>1, <2>2
<1>5. /\ TypeOK'
      /\ \A d \in Consumers \ {c} : HoldsMarker(d)' <=> HoldsMarker(d)
  <2>1. taken' \in Seq(AllItems)
    BY <1>1, <1>2 DEF TypeOK
  <2> QED
    BY <1>2, <1>3, <1>4, <2>1, ConsumerType
<1>6. HasMarker(q) /\ closer' = "shut" /\ \A d \in Consumers : ~HoldsMarker(d)
  <2>1. 1 \in DOMAIN q /\ q[1] = Sentinel
    BY <1>1, <1>2, TailElements
  <2> QED
    BY <1>1, <1>2, <2>1 DEF HasMarker, UniqueMarker
<1>7. OneMarker(q') /\ ~HasMarker(q')
  BY <1>1, <1>2, TailElements DEF UniqueMarker
<1>8. UniqueMarker'
  <2>1. \A d \in Consumers : HoldsMarker(d)' => d = c
    BY <1>5, <1>6
  <2> QED
    BY <1>6, <1>7, <2>1 DEF UniqueMarker
<1> QED
  BY <1>5, <1>8 DEF Inv

\* The consumer has the only marker, and puts it back or drops it.
LEMMA PutBackStep ==
  ASSUME Inv, NEW c \in Consumers, PutBack(c) PROVE Inv'
<1>1. TypeOK /\ UniqueMarker /\ q \in Seq(Things)
  BY QueueFacts DEF Inv
<1>2. /\ HoldsMarker(c) /\ q' = PutNowait(q, Sentinel, Capacity)
      /\ UNCHANGED <<pushed, taken, running, closer, early>>
  BY DEF PutBack
<1>3. q' \in BoundedQueues(AllItems, Capacity)
  BY <1>2, PutMarker, QueueFacts
<1>4. PICK there \in {"check", "done"} : Goto(c, there)
  BY NonePlace DEF PutBack
<1>5. /\ TypeOK' /\ ~HoldsMarker(c)'
      /\ \A d \in Consumers \ {c} : HoldsMarker(d)' <=> HoldsMarker(d)
  <2>1. taken' \in Seq(AllItems)
    BY <1>1, <1>2 DEF TypeOK
  <2> QED
    BY <1>2, <1>3, <1>4, <2>1, ConsumerType
<1>6. ~HasMarker(q) /\ closer' = "shut" /\ \A d \in Consumers \ {c} : ~HoldsMarker(d)
  BY <1>1, <1>2 DEF UniqueMarker
<1>7. OneMarker(q')
  BY <1>1, <1>2, <1>6, VisibleMarkerIn
<1>8. UniqueMarker'
  <2>1. \A d \in Consumers : ~HoldsMarker(d)'
    BY <1>5, <1>6
  <2> QED
    BY <1>6, <1>7, <2>1 DEF UniqueMarker
<1> QED
  BY <1>5, <1>8 DEF Inv

LEMMA InvStep == ASSUME Inv, [Next]_vars PROVE Inv'
<1>1. CASE \E p \in Producers : Push(p)
  BY <1>1, PushStep
<1>2. CASE Stop
  BY <1>2, StopStep
<1>3. CASE Shutdown
  BY <1>3, ShutdownStep
<1>4. ASSUME NEW c \in Consumers, Consume(c) PROVE Inv'
  BY <1>4, MoveStep, TakeItemStep, TakeMarkerStep, PutBackStep DEF Consume
<1>5. CASE UNCHANGED vars
  BY <1>5 DEF vars, Inv, TypeOK, UniqueMarker, HoldsMarker
<1> QED
  BY <1>1, <1>2, <1>3, <1>4, <1>5 DEF Next

\* The invariant holds throughout.
LEMMA InvHolds == Spec => []Inv
<1>1. Init => Inv
  BY InitInv
<1>2. Inv /\ [Next]_vars => Inv'
  BY InvStep
<1> QED
  BY <1>1, <1>2, PTL DEF Spec

(***************************************************************************)
(* The queue never exceeds its capacity and holds only what was pushed and *)
(* the marker, and every consumer is at a place of its two loops           *)
(* (thread_safe_queue.py, with load_balancer.py's loops as consumers).     *)
(***************************************************************************)
THEOREM TypeCorrect == Spec => []TypeOK
<1>1. Inv => TypeOK
  BY DEF Inv
<1> QED
  BY <1>1, InvHolds, PTL

(***************************************************************************)
(* However many consumers take the marker out of the queue and put it back *)
(* (pop and try_pop), there is never a second one, and none at all before  *)
(* shutdown.                                                               *)
(***************************************************************************)
THEOREM MarkerIsUnique == Spec => []AtMostOneMarker
<1>1. Inv => AtMostOneMarker
  BY MarkerFacts DEF Inv
<1> QED
  BY <1>1, InvHolds, PTL

-----------------------------------------------------------------------------
(* The bounded FIFO *)

\* What users see fits into the capacity.
LEMMA VisibleFits ==
  ASSUME Inv PROVE Len(Visible(q)) <= Len(q) /\ OneMarker(q) /\ q \in Seq(Things)
<1>1. OneMarker(q) /\ q \in Seq(Things) /\ Len(q) \in Nat
  BY QueueFacts DEF UniqueMarker
<1>2. Len(Visible(q)) = IF HasMarker(q) THEN Len(q) - 1 ELSE Len(q)
  BY <1>1, VisibleElements
<1> QED
  BY <1>1, <1>2

LEMMA InitIsFifoInit == ASSUME Init PROVE Fifo!FifoInit
<1>1. q = <<>> /\ taken = <<>>
  BY DEF Init
<1>2. ~HasMarker(q)
  BY <1>1 DEF HasMarker
<1> QED
  BY <1>1, <1>2, VisibleWithoutMarker DEF Fifo!FifoInit

LEMMA PushIsPut ==
  ASSUME Inv, NEW p \in Producers, Push(p)
  PROVE  \E x \in AllItems : Fifo!Put(x)
<1> DEFINE x == Item(p, pushed[p] + 1)
<1>1. pushed[p] \in 0..PerProducer /\ pushed[p] + 1 \in 1..PerProducer
  BY ClientsAssumption DEF Push, Inv, TypeOK
<1>2. x \in AllItems /\ x # Sentinel
  BY <1>1, ItemIsItem, ItemsAreNumbers
<1>3. q' = Append(q, x) /\ Len(q) < Capacity /\ taken' = taken
  BY QueueFacts DEF Push, Full
<1>4. Visible(q)' = Append(Visible(q), x)
  <2>1. Visible(Append(q, x)) = Append(Visible(q), x)
    BY <1>2, VisibleFits, VisibleAppend
  <2>2. Visible(q)' = Visible(q')
    BY DEF Visible
  <2> QED
    BY <1>3, <2>1, <2>2
<1>5. Len(Visible(q)) < Capacity
  <2>1. Len(Visible(q)) = IF HasMarker(q) THEN Len(q) - 1 ELSE Len(q)
    BY VisibleFits, VisibleElements
  <2> QED
    BY <1>3, <2>1, QueueFacts
<1>6. Fifo!Put(x)
  BY <1>3, <1>4, <1>5 DEF Fifo!Put
<1> QED
  BY <1>2, <1>6

LEMMA TakeItemIsGet ==
  ASSUME Inv, NEW c \in Consumers, TakeItem(c) PROVE Fifo!Get
<1>1. HasItem(q) /\ q' = Tail(q) /\ taken' = Append(taken, Head(q))
  BY DEF TakeItem
<1>2. /\ Visible(q) # <<>> /\ Head(Visible(q)) = Head(q)
      /\ Visible(Tail(q)) = Tail(Visible(q))
  BY <1>1, VisibleFits, VisibleTail
<1>3. Visible(q)' = Visible(q')
  BY DEF Visible
<1> QED
  BY <1>1, <1>2, <1>3 DEF Fifo!Get

\* Every other step leaves what users see alone.
LEMMA MarkerUnseen ==
  ASSUME Inv,
         \/ Shutdown
         \/ Stop
         \/ UNCHANGED vars
         \/ \E c \in Consumers : \/ Check(c) \/ TakeNothing(c) \/ CheckEmpty(c)
                                 \/ TakeMarker(c) \/ PutBack(c)
  PROVE  UNCHANGED <<Visible(q), taken>>
<1>1. OneMarker(q) /\ q \in Seq(Things)
  BY VisibleFits
<1>2. Visible(q)' = Visible(q')
  BY DEF Visible
<1>3. CASE q' = q /\ taken' = taken
  BY <1>2, <1>3
<1>4. CASE Shutdown
  <2>1. ~HasMarker(q)
    BY <1>4, QueueFacts DEF Shutdown, UniqueMarker
  <2>2. q' = PutNowait(q, Sentinel, Capacity) /\ taken' = taken
    BY <1>4 DEF Shutdown
  <2> QED
    BY <1>1, <1>2, <2>1, <2>2, VisibleMarkerIn
<1>5. ASSUME NEW c \in Consumers, TakeMarker(c)
      PROVE  UNCHANGED <<Visible(q), taken>>
  <2>1. q # <<>> /\ Head(q) = Sentinel /\ q' = Tail(q) /\ taken' = taken
    BY <1>5 DEF TakeMarker
  <2> QED
    BY <1>1, <1>2, <2>1, VisibleMarkerOut
<1>6. ASSUME NEW c \in Consumers, PutBack(c)
      PROVE  UNCHANGED <<Visible(q), taken>>
  <2>1. ~HasMarker(q)
    BY <1>6, QueueFacts DEF PutBack, UniqueMarker
  <2>2. q' = PutNowait(q, Sentinel, Capacity) /\ taken' = taken
    BY <1>6 DEF PutBack
  <2> QED
    BY <1>1, <1>2, <2>1, <2>2, VisibleMarkerIn
<1>7. ASSUME NEW c \in Consumers, Check(c) \/ TakeNothing(c) \/ CheckEmpty(c)
      PROVE  q' = q /\ taken' = taken
  BY <1>7 DEF Check, TakeNothing, CheckEmpty
<1>8. CASE Stop \/ UNCHANGED vars
  BY <1>3, <1>8 DEF Stop, vars
<1> QED
  BY <1>3, <1>4, <1>5, <1>6, <1>7, <1>8

LEMMA StepIsFifoStep ==
  ASSUME Inv, [Next]_vars
  PROVE  [Fifo!Get \/ \E x \in AllItems : Fifo!Put(x)]_<<Visible(q), taken>>
<1>1. CASE \E p \in Producers : Push(p)
  BY <1>1, PushIsPut
<1>2. CASE \E c \in Consumers : TakeItem(c)
  BY <1>2, TakeItemIsGet
<1>3. CASE \/ Shutdown \/ Stop \/ UNCHANGED vars
           \/ \E c \in Consumers : \/ Check(c) \/ TakeNothing(c) \/ CheckEmpty(c)
                                   \/ TakeMarker(c) \/ PutBack(c)
  BY <1>3, MarkerUnseen
<1> QED
  BY <1>1, <1>2, <1>3 DEF Next, Consume

(***************************************************************************)
(* To its users TSQueue is a bounded FIFO, for any number of producers and *)
(* consumers and any capacity, whatever shutdown, pop and try_pop do with  *)
(* the marker: no item is lost, doubled or overtaken.                      *)
(***************************************************************************)
THEOREM QueueIsFifo == Spec => ImplementsFifo
<1>1. Init => Fifo!FifoInit
  BY InitIsFifoInit
<1>2. Inv /\ [Next]_vars
        => [Fifo!Get \/ \E x \in AllItems : Fifo!Put(x)]_<<Visible(q), taken>>
  BY StepIsFifoStep
<1> QED
  BY <1>1, <1>2, InvHolds, PTL DEF Spec, ImplementsFifo, Fifo!FifoSpec, Fifo!fifoVars

-----------------------------------------------------------------------------
(* What is left when all consumers have ended *)

\* If stop came after the last push, the marker is behind all items, and a
\* consumer gets at it, or finds nothing, only when they are gone.
DrainInv ==
  /\ running <=> closer = "open"
  /\ \A c \in Consumers : cpc[c] \in {"drain", "tryPop", "tryPutBack", "done"} => ~running
  /\ ~running /\ ~early =>
       /\ AllPushed
       /\ MarkersLast(q)
       /\ \A c \in Consumers : HoldsMarker(c) \/ cpc[c] = "done" => Items(q) = {}

LEMMA InitDrain == Init => DrainInv
BY DEF Init, DrainInv

LEMMA OthersDrain ==
  ASSUME Inv, DrainInv, (\E p \in Producers : Push(p)) \/ Stop \/ Shutdown \/ UNCHANGED vars
  PROVE  DrainInv'
<1> USE DEF DrainInv
<1>1. CASE \E p \in Producers : Push(p)
  <2>1. PICK p \in Producers : Push(p)
    BY <1>1
  <2>2. UNCHANGED <<running, closer, cpc, early>> /\ pushed[p] < PerProducer
    BY <2>1 DEF Push
  <2>3. CASE running \/ early
    BY <2>2, <2>3
  <2>4. CASE ~running /\ ~early
    <3>1. pushed[p] = PerProducer /\ PerProducer \in Nat
      BY <2>4, ClientsAssumption DEF AllPushed
    <3> QED
      BY <2>2, <3>1
  <2> QED
    BY <2>3, <2>4
<1>2. CASE Stop
  <2>1. /\ UNCHANGED <<q, pushed, cpc>> /\ early' = ~AllPushed
        /\ closer = "open" /\ closer' = "stopping" /\ running' = FALSE
    BY <1>2 DEF Stop
  <2>2. ~HasMarker(q) /\ \A c \in Consumers : ~HoldsMarker(c) /\ cpc[c] # "done"
    BY <2>1 DEF Inv, UniqueMarker
  <2>3. MarkersLast(q)
    BY <2>2 DEF MarkersLast, HasMarker
  <2> QED
    BY <2>1, <2>2, <2>3 DEF AllPushed, HoldsMarker
<1>3. CASE Shutdown
  <2>1. /\ UNCHANGED <<pushed, cpc, running, early>> /\ closer' = "shut"
        /\ closer = "stopping"
        /\ q' = PutNowait(q, Sentinel, Capacity)
    BY <1>3 DEF Shutdown
  <2>2. Items(q') = Items(q) /\ (MarkersLast(q) => MarkersLast(q'))
    BY <2>1, PutMarker, ClientsAssumption DEF Inv, TypeOK
  <2> QED
    BY <2>1, <2>2 DEF AllPushed, HoldsMarker
<1>4. CASE UNCHANGED vars
  BY <1>4 DEF vars, AllPushed, HoldsMarker, MarkersLast, Items
<1> QED
  BY <1>1, <1>2, <1>3, <1>4

LEMMA ConsumerDrains ==
  ASSUME Inv, DrainInv, NEW c \in Consumers, Consume(c)
  PROVE  DrainInv'
<1> USE DEF DrainInv
<1>1. UNCHANGED <<pushed, running, closer, early>> /\ AllPushed' = AllPushed
  BY DEF Consume, Check, TakeItem, TakeNothing, TakeMarker, PutBack, CheckEmpty, AllPushed
<1>2. PICK there : Goto(c, there)
  BY DEF Consume, Check, TakeItem, TakeNothing, TakeMarker, PutBack, CheckEmpty, OnNone
<1>3. /\ q \in BoundedQueues(AllItems, Capacity) /\ Capacity \in Nat
      /\ cpc \in [Consumers ->
           {"check", "pop", "putBack", "drain", "tryPop", "tryPutBack", "done"}]
  BY ClientsAssumption DEF Inv, TypeOK
<1>4. \A d \in Consumers : cpc'[d] = IF d = c THEN there ELSE cpc[d]
  BY <1>2, <1>3 DEF Goto
\* The drain loop begins and ends after the flag has been cleared.
<1>5. \A d \in Consumers : cpc'[d] \in {"drain", "tryPop", "tryPutBack", "done"} => ~running
  <2>1. there \in {"drain", "tryPop", "tryPutBack", "done"} => ~running
    BY <1>3, <1>4 DEF Consume, Check, TakeItem, TakeNothing, TakeMarker, PutBack, CheckEmpty,
       OnNone, Popping, HoldsMarker, Goto
  <2> QED
    BY <1>4, <2>1
<1>6. ASSUME ~running, ~early
      PROVE  /\ MarkersLast(q')
             /\ \A d \in Consumers : cpc'[d] \in {"putBack", "tryPutBack", "done"} => Items(q') = {}
  <2>1. MarkersLast(q)
    BY <1>6
  <2>2. \A d \in Consumers : cpc[d] \in {"putBack", "tryPutBack", "done"} => Items(q) = {}
    BY <1>6 DEF HoldsMarker
  <2>3. CASE Check(c)
    <3>1. q' = q /\ there \in {"pop", "drain"}
      BY <1>3, <1>4, <2>3 DEF Check, Goto
    <3> QED
      BY <1>4, <2>1, <2>2, <3>1
  <2>4. CASE TakeItem(c)
    <3>1. q' = Tail(q) /\ HasItem(q) /\ there \in {"check", "drain"}
      BY <1>3, <1>4, <2>4 DEF TakeItem, Goto
    <3>2. Head(q) \in Items(q)
      <4>1. q \in Seq(AllItems \cup {Sentinel}) /\ q # <<>> /\ Head(q) # Sentinel
        BY <1>3, <3>1 DEF HasItem, BoundedQueues
      <4>2. 1 \in DOMAIN q /\ Head(q) = q[1]
        BY <4>1
      <4> QED
        BY <4>1, <4>2 DEF Items
    <3>3. MarkersLast(q')
      BY <1>3, <2>1, <3>1, TailOfQueue DEF HasItem
    <3> QED
      BY <1>4, <2>2, <3>1, <3>2, <3>3
  <2>5. CASE TakeNothing(c) \/ CheckEmpty(c)
    <3>1. q' = q /\ (there \in {"putBack", "tryPutBack", "done"} => q = <<>>)
      BY <1>3, <1>4, <2>5 DEF TakeNothing, CheckEmpty, OnNone, Goto
    <3>2. q = <<>> => Items(q) = {}
      BY DEF Items
    <3> QED
      BY <1>4, <2>1, <2>2, <3>1, <3>2
  <2>6. CASE TakeMarker(c)
    <3>1. q' = Tail(q) /\ q # <<>> /\ ~HasItem(q)
      BY <2>6 DEF TakeMarker, HasItem
    <3>2. Items(q) = {}
      BY <1>3, <2>1, <3>1, PopNone
    <3> QED
      BY <1>3, <2>1, <3>1, <3>2, TailOfQueue
  <2>7. CASE PutBack(c)
    <3>1. q' = PutNowait(q, Sentinel, Capacity) /\ Items(q) = {}
      BY <1>6, <2>7 DEF PutBack
    <3> QED
      BY <1>3, <2>1, <3>1, PutMarker
  <2> QED
    BY <2>3, <2>4, <2>5, <2>6, <2>7 DEF Consume
<1> QED
  BY <1>1, <1>5, <1>6 DEF HoldsMarker

(***************************************************************************)
(* If the producers were through when stop was called, any positive number *)
(* of consumers empties the queue before the last one ends, although each  *)
(* may break off at the marker or at an empty queue (load_balancer.py and  *)
(* fast_path.py, the loops around pop and try_pop).                        *)
(***************************************************************************)
THEOREM NothingLeft ==
  ASSUME NumConsumers # 0
  PROVE  Spec => []DrainedTogether
<1>1. Init => DrainInv
  BY InitDrain
<1>2. Inv /\ DrainInv /\ [Next]_vars => DrainInv'
  BY OthersDrain, ConsumerDrains DEF Next
<1>3. DrainInv => DrainedTogether
  <2> SUFFICES ASSUME DrainInv, closer = "shut", ~early,
                      \A c \in Consumers : cpc[c] = "done"
               PROVE  \A k \in DOMAIN q : q[k] = Sentinel
    BY DEF DrainedTogether
  <2>1. 1 \in Consumers
    BY ClientsAssumption DEF Consumers
  <2>2. Items(q) = {}
    BY <2>1 DEF DrainInv
  <2> QED
    BY <2>2 DEF Items
<1> QED
  BY <1>1, <1>2, <1>3, InvHolds, PTL DEF Spec

=============================================================================
