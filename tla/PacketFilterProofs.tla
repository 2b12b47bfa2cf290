-------------------------- MODULE PacketFilterProofs ------------------------
(***************************************************************************)
(* Theorems about the packet filter that both engines implement, for every *)
(* capture and every set of rules.                                         *)
(***************************************************************************)
EXTENDS PacketFilter, FastPathProofs, SequenceProofs

\* Positions of the capture, and what stands at them.
LEMMA PositionTypes ==
  ASSUME TypeOK
  PROVE  /\ Len(input) \in Nat
         /\ \A p \in Packets : p \in Nat /\ input[p] \in PacketRecords
         /\ \A p \in Packets : Earlier(p) \subseteq Packets
         /\ \A p \in Packets : HasFlow(p) => input[p].tuple \in Tuples
<1>1. input \in Seq(PacketRecords)
  BY DEF TypeOK
<1>2. Len(input) \in Nat /\ \A p \in Packets : p \in Nat /\ input[p] \in PacketRecords
  BY <1>1 DEF Packets
<1>3. \A p \in Packets : 1..(p-1) \subseteq Packets
  BY <1>2 DEF Packets
<1>4. \A p \in Packets : Earlier(p) \subseteq Packets
  BY <1>3 DEF Earlier
<1> QED
  BY <1>2, <1>4 DEF HasFlow, PacketRecords

LEMMA InitType == Init => TypeOK
<1> SUFFICES ASSUME Init PROVE TypeOK
  OBVIOUS
<1>1. input \in Seq(PacketRecords) /\ Len(input) \in Nat
  BY InputsAssumption DEF Init
<1> QED
  BY <1>1, NewFlowType DEF Init, TypeOK, Packets

LEMMA NextType == TypeOK /\ [Next]_vars => TypeOK'
<1> SUFFICES ASSUME TypeOK, [Next]_vars PROVE TypeOK'
  OBVIOUS
<1> USE PositionTypes
<1>1. CASE Arrive
  BY <1>1 DEF Arrive, TypeOK, Packets
<1>2. ASSUME NEW p \in Packets, Decide(p) PROVE TypeOK'
  <2> DEFINE t == input[p].tuple
             flow == Inspect(input[p], flows[t])
  <2>1. t \in Tuples
    BY <1>2 DEF Decide
  <2>2. flow \in Flows
    BY <2>1, InspectType DEF TypeOK
  <2>3. /\ flows' = [flows EXCEPT ![t] = flow]
        /\ fate' = [fate EXCEPT ![p] = IF flow.blocked THEN "drop" ELSE "forward"]
        /\ UNCHANGED <<input, arrived, file>>
    BY <1>2 DEF Decide
  <2> HIDE DEF t, flow
  <2>4. flows' \in [Tuples -> Flows]
    BY <2>2, <2>3 DEF TypeOK
  <2>5. fate' \in [Packets -> {"none", "forward", "drop"}]
    BY <2>3 DEF TypeOK
  <2> QED
    BY <2>3, <2>4, <2>5 DEF TypeOK, Packets
<1>3. ASSUME NEW p \in Packets, PassThrough(p) PROVE TypeOK'
  BY <1>3 DEF PassThrough, TypeOK, Packets
<1>4. ASSUME NEW p \in Packets, Emit(p) PROVE TypeOK'
  BY <1>4 DEF Emit, TypeOK, Packets
<1>5. CASE UNCHANGED vars
  BY <1>5 DEF vars, TypeOK, Packets
<1> QED
  BY <1>1, <1>2, <1>3, <1>4, <1>5 DEF Next

\* The filter's fates, its file and its flow table keep their types, for every
\* capture and every set of rules: a flow that inspection rewrites (_classify
\* of fast_path.py and of main_simple.py) stays a flow of its tuple.
THEOREM TypeCorrect == Spec => []TypeOK
BY InitType, NextType, PTL DEF Spec

-----------------------------------------------------------------------------
(* Sticky verdicts *)

\* Flows are decided from their first packet on.
DecidedInOrder ==
  \A p \in Packets : HasFlow(p) /\ fate[p] # "none" =>
    \A q \in Earlier(p) : fate[q] # "none"

\* A flow remembers that a packet of it has been dropped.
DropIsRemembered ==
  \A p \in Packets : HasFlow(p) /\ fate[p] = "drop" => flows[input[p].tuple].blocked

StickyInv == TypeOK /\ DecidedInOrder /\ DropIsRemembered /\ StickyBlock

LEMMA InitSticky == Init => StickyInv
BY InitType DEF Init, StickyInv, DecidedInOrder, DropIsRemembered, StickyBlock

LEMMA NextSticky == StickyInv /\ [Next]_vars => StickyInv'
<1> SUFFICES ASSUME StickyInv, [Next]_vars PROVE StickyInv'
  OBVIOUS
<1> USE DEF StickyInv
<1>1. TypeOK' /\ TypeOK
  BY NextType
<1>2. UNCHANGED input
  BY DEF Next, Arrive, Decide, PassThrough, Emit, vars
<1>3. Packets' = Packets
  BY <1>2 DEF Packets
<1>4. \A p : (HasFlow(p)' <=> HasFlow(p)) /\ Earlier(p)' = Earlier(p)
  BY <1>2 DEF HasFlow, Earlier
<1>5. CASE UNCHANGED <<flows, fate>>
  BY <1>1, <1>2, <1>3, <1>4, <1>5 DEF DecidedInOrder, DropIsRemembered, StickyBlock
<1>6. ASSUME NEW p \in Packets, Decide(p) PROVE StickyInv'
  <2> DEFINE t == input[p].tuple
             flow == Inspect(input[p], flows[t])
  <2>1. t \in Tuples /\ input[p] \in PacketRecords /\ flows[t] \in Flows
    BY <1>1, <1>6, PositionTypes DEF Decide, TypeOK
  <2>2. flows[t].blocked => flow.blocked
    BY <2>1, InspectKeepsBlock
  <2>3. /\ flows' = [flows EXCEPT ![t] = flow]
        /\ fate' = [fate EXCEPT ![p] = IF flow.blocked THEN "drop" ELSE "forward"]
        /\ HasFlow(p) /\ fate[p] = "none"
        /\ \A q \in Earlier(p) : fate[q] # "none"
    BY <1>6 DEF Decide
  <2>4. flows[t].blocked => flows'[t].blocked
    BY <1>1, <2>1, <2>2, <2>3 DEF TypeOK
  <2>5. /\ \A q \in Packets : q # p => fate'[q] = fate[q]
        /\ fate'[p] = IF flow.blocked THEN "drop" ELSE "forward"
        /\ flows'[t] = flow
        /\ \A s \in Tuples : s # t => flows'[s] = flows[s]
    BY <1>1, <2>1, <2>3 DEF TypeOK
  <2>6. \A q \in Earlier(p) : q \in Packets /\ q # p /\ HasFlow(q) /\ input[q].tuple = t
    BY <1>1, <2>3, PositionTypes DEF Earlier, HasFlow
  <2>7. \A q \in Packets : HasFlow(q) /\ p \in Earlier(q) => fate[q] = "none"
    BY <2>3 DEF DecidedInOrder
  <2>8. \A q \in Packets : Earlier(q) \subseteq Packets
    BY <1>1, PositionTypes
  <2> HIDE DEF t, flow
  <2>9. DecidedInOrder'
    BY <1>3, <1>4, <2>3, <2>5, <2>6, <2>7, <2>8 DEF DecidedInOrder
  <2>10. DropIsRemembered'
    <3> SUFFICES ASSUME NEW q \in Packets, HasFlow(q), fate'[q] = "drop"
                 PROVE  flows'[input[q].tuple].blocked
      BY <1>2, <1>3, <1>4 DEF DropIsRemembered
    <3>1. input[q].tuple \in Tuples
      BY <1>1, PositionTypes
    <3>2. CASE q = p
      BY <2>5, <3>2 DEF t
    <3>3. CASE q # p
      <4>1. flows[input[q].tuple].blocked
        BY <2>5, <3>3 DEF DropIsRemembered
      <4> QED
        BY <2>4, <2>5, <3>1, <4>1
    <3> QED
      BY <3>2, <3>3
  <2>11. StickyBlock'
    <3> SUFFICES ASSUME NEW q \in Packets, HasFlow(q), fate'[q] = "forward",
                        NEW r \in Earlier(q)
                 PROVE  fate'[r] = "forward"
      BY <1>3, <1>4 DEF StickyBlock
    <3>1. CASE q = p
      <4>1. ~flow.blocked
        BY <2>5, <3>1
      <4>2. fate[r] # "drop"
        BY <2>2, <2>6, <3>1, <4>1 DEF DropIsRemembered, t
      <4>3. r \in Packets /\ r # p /\ fate[r] \in {"none", "forward", "drop"}
        BY <1>1, <2>6, <3>1 DEF TypeOK
      <4> QED
        BY <2>3, <2>5, <3>1, <4>2, <4>3
    <3>2. CASE q # p
      <4>1. fate[q] = "forward" /\ r # p
        BY <2>5, <2>7, <3>2
      <4> QED
        BY <2>5, <2>8, <4>1 DEF StickyBlock
    <3> QED
      BY <3>1, <3>2
  <2> QED
    BY <1>1, <2>9, <2>10, <2>11
<1>7. ASSUME NEW p \in Packets, PassThrough(p) PROVE StickyInv'
  <2>1. /\ \A q \in Packets : q # p => fate'[q] = fate[q]
        /\ ~HasFlow(p)
        /\ UNCHANGED flows
    BY <1>1, <1>7 DEF PassThrough, TypeOK, HasFlow
  <2>2. \A q \in Packets : HasFlow(q) => p \notin Earlier(q) /\ Earlier(q) \subseteq Packets
    BY <1>1, <2>1, PositionTypes DEF Earlier, HasFlow
  <2>3. DecidedInOrder' /\ DropIsRemembered' /\ StickyBlock'
    BY <1>2, <1>3, <1>4, <2>1, <2>2 DEF DecidedInOrder, DropIsRemembered, StickyBlock
  <2> QED
    BY <1>1, <2>3
<1> QED
  BY <1>5, <1>6, <1>7 DEF Next, Arrive, Emit, vars

(***************************************************************************)
(* Once a packet of a flow is dropped, nothing of the flow passes any more *)
(* (flow.blocked), for every capture and every set of rules.               *)
(***************************************************************************)
THEOREM BlocksAreSticky == Spec => []StickyBlock
<1>1. Spec => []StickyInv
  BY InitSticky, NextSticky, PTL DEF Spec
<1>2. StickyInv => StickyBlock
  BY DEF StickyInv
<1> QED
  BY <1>1, <1>2, PTL

-----------------------------------------------------------------------------
(* Blocked names *)

\* A packet that shows no name leaves the names of its flow alone.
LEMMA QuietPacket ==
  ASSUME NEW p \in Packets, HasFlow(p), ~ShowsName(p), NEW flow \in Flows
  PROVE  /\ Inspect(input[p], flow).sni = flow.sni
         /\ Inspect(input[p], flow).host = flow.host
<1> DEFINE pkt == input[p]
           counted == [flow EXCEPT !.packets = @ + 1]
<1>1. counted \in Flows /\ counted.sni = flow.sni /\ counted.host = flow.host
  BY DEF Flows
<1>2. \A label : /\ LabelUnknown(counted, label).sni = counted.sni
                 /\ LabelUnknown(counted, label).host = counted.host
                 /\ DOMAIN LabelUnknown(counted, label) = DOMAIN counted
  BY <1>1 DEF LabelUnknown, Flows
<1>3. \/ pkt.name = NoName
      \/ /\ ~(DstPort[pkt.tuple] = HTTPS_PORT /\ pkt.size >= TLS_MIN_PAYLOAD)
         /\ ~(DstPort[pkt.tuple] = HTTP_PORT /\ pkt.size > 0)
  BY DEF ShowsName
<1> HIDE DEF counted, pkt
<1>4. \/ Classify(pkt, counted) = counted
      \/ \E label : Classify(pkt, counted) = LabelUnknown(counted, label)
  BY <1>3 DEF Classify
<1>5. /\ Classify(pkt, counted).sni = counted.sni
      /\ Classify(pkt, counted).host = counted.host
      /\ DOMAIN Classify(pkt, counted) = DOMAIN counted
  BY <1>2, <1>4
<1>6. DOMAIN counted = {"sni", "host", "app", "blocked", "packets"}
  BY <1>1 DEF Flows
<1> QED
  BY <1>1, <1>5, <1>6 DEF Inspect, counted, pkt

\* The first name of a flow, if it is blocked, blocks the flow.
LEMMA FirstName ==
  ASSUME NEW p \in Packets, HasFlow(p), input[p] \in PacketRecords,
         ShowsName(p), BlockedName(input[p].name),
         NEW flow \in Flows, flow.sni = NoName, flow.host = NoName
  PROVE  Inspect(input[p], flow).blocked
<1> DEFINE pkt == input[p]
           counted == [flow EXCEPT !.packets = @ + 1]
           seen == Classify(pkt, counted)
<1>1. counted \in Flows /\ counted.sni = NoName /\ counted.host = NoName
      /\ counted.blocked = flow.blocked
  BY DEF Flows
<1>2. CASE flow.blocked
  BY <1>2, InspectKeepsBlock
<1>3. CASE ~flow.blocked
  <2>1. \/ seen = [counted EXCEPT !.sni = pkt.name, !.app = SniToAppType(pkt.name)]
        \/ seen = [counted EXCEPT !.host = pkt.name, !.sni = pkt.name,
                                  !.app = SniToAppType(pkt.name)]
    <3> HIDE DEF counted
    <3>1. pkt.name # NoName
      BY DEF ShowsName
    <3>2. CASE DstPort[pkt.tuple] = HTTPS_PORT /\ pkt.size >= TLS_MIN_PAYLOAD
      <4> HIDE DEF pkt
      <4> QED
        BY <1>1, <3>1, <3>2 DEF Classify, LabelUnknown, HTTPS_PORT, HTTP_PORT,
                                DNS_PORT, TLS_MIN_PAYLOAD
    <3>3. CASE DstPort[pkt.tuple] = HTTP_PORT /\ pkt.size > 0
      <4>1. ~(DstPort[pkt.tuple] = HTTPS_PORT /\ pkt.size >= TLS_MIN_PAYLOAD)
        BY <3>3 DEF HTTPS_PORT, HTTP_PORT
      <4> HIDE DEF pkt
      <4> QED
        BY <1>1, <3>1, <3>3, <4>1 DEF Classify, HTTPS_PORT, HTTP_PORT, DNS_PORT
    <3> QED
      BY <3>2, <3>3 DEF ShowsName
  <2>2. seen \in Flows
    BY <1>1, ClassifyType
  <2>3. seen.sni = pkt.name /\ seen.app = SniToAppType(pkt.name)
    <3> HIDE DEF counted, seen, pkt
    <3> QED
      BY <1>1, <2>1 DEF Flows
  <2>4. IsBlocked(SrcIp[pkt.tuple], seen.app, seen.sni)
    BY <2>3 DEF BlockedName, IsBlocked
  <2>5. Inspect(pkt, flow) =
          [seen EXCEPT !.blocked = @ \/ IsBlocked(SrcIp[pkt.tuple], seen.app, seen.sni)]
    BY <1>1, <1>3 DEF Inspect
  <2> HIDE DEF seen, counted, pkt
  <2>6. Inspect(pkt, flow).blocked
    BY <2>2, <2>4, <2>5 DEF Flows
  <2> QED
    BY <2>6 DEF pkt
<1> QED
  BY <1>2, <1>3

\* A flow none of whose decided packets has shown a name has no name.
Nameless ==
  \A t \in Tuples :
    (\A p \in Packets : HasFlow(p) /\ input[p].tuple = t /\ fate[p] # "none" => ~ShowsName(p))
      => flows[t].sni = NoName /\ flows[t].host = NoName

\* The packet with the first name of its flow, if that is blocked.
ShowsBlockedFirst(p) ==
  /\ ShowsName(p)
  /\ BlockedName(input[p].name)
  /\ \A r \in Earlier(p) : ~ShowsName(r)

BlockedFirstDropped ==
  \A p \in Packets : HasFlow(p) /\ ShowsBlockedFirst(p) => fate[p] # "forward"

NameInv == Nameless /\ BlockedFirstDropped

LEMMA InitName == Init => NameInv
<1> SUFFICES ASSUME Init PROVE NameInv
  OBVIOUS
<1>1. \A t \in Tuples : flows[t].sni = NoName /\ flows[t].host = NoName
  BY DEF Init, NewFlow
<1> QED
  BY <1>1 DEF Init, NameInv, Nameless, BlockedFirstDropped

LEMMA NextName == NameInv /\ StickyInv /\ [Next]_vars => NameInv'
<1> SUFFICES ASSUME NameInv, StickyInv, [Next]_vars PROVE NameInv'
  OBVIOUS
<1>1. TypeOK /\ DecidedInOrder
  BY DEF StickyInv
<1>2. UNCHANGED input
  BY DEF Next, Arrive, Decide, PassThrough, Emit, vars
<1>3. Packets' = Packets
  BY <1>2 DEF Packets
<1>4. \A p : /\ HasFlow(p)' <=> HasFlow(p)
             /\ ShowsName(p)' <=> ShowsName(p)
             /\ ShowsBlockedFirst(p)' <=> ShowsBlockedFirst(p)
  BY <1>2 DEF HasFlow, ShowsName, ShowsBlockedFirst, Earlier
<1>5. CASE UNCHANGED <<flows, fate>>
  BY <1>2, <1>3, <1>4, <1>5 DEF NameInv, Nameless, BlockedFirstDropped
<1>6. ASSUME NEW p \in Packets, Decide(p) PROVE NameInv'
  <2> DEFINE t == input[p].tuple
             flow == Inspect(input[p], flows[t])
  <2>1. t \in Tuples /\ input[p] \in PacketRecords /\ flows[t] \in Flows
    BY <1>1, <1>6, PositionTypes DEF Decide, TypeOK
  <2>2. /\ flows' = [flows EXCEPT ![t] = flow]
        /\ fate' = [fate EXCEPT ![p] = IF flow.blocked THEN "drop" ELSE "forward"]
        /\ HasFlow(p) /\ fate[p] = "none"
        /\ \A q \in Earlier(p) : fate[q] # "none"
    BY <1>6 DEF Decide
  <2>3. ~ShowsName(p) => flow.sni = flows[t].sni /\ flow.host = flows[t].host
    BY <2>1, <2>2, QuietPacket
  <2>4. ShowsName(p) /\ BlockedName(input[p].name)
          /\ flows[t].sni = NoName /\ flows[t].host = NoName => flow.blocked
    BY <2>1, <2>2, FirstName
  <2>5. /\ \A q \in Packets : q # p => fate'[q] = fate[q]
        /\ fate'[p] = IF flow.blocked THEN "drop" ELSE "forward"
        /\ flows'[t] = flow
        /\ \A s \in Tuples : s # t => flows'[s] = flows[s]
    BY <1>1, <2>1, <2>2 DEF TypeOK
  <2>6. \A q \in Packets : HasFlow(q) /\ input[q].tuple = t /\ fate[q] # "none"
                             => q \in Earlier(p)
    <3> SUFFICES ASSUME NEW q \in Packets, HasFlow(q), input[q].tuple = t,
                        fate[q] # "none"
                 PROVE  q \in Earlier(p)
      OBVIOUS
    <3>1. p \in Nat /\ q \in Nat /\ p >= 1 /\ q >= 1 /\ q # p
      BY <1>1, <2>2 DEF Packets
    <3>2. p \notin Earlier(q)
      BY <1>1, <2>2 DEF DecidedInOrder
    <3>3. ~(p < q)
      BY <2>2, <3>1, <3>2 DEF Earlier, HasFlow
    <3> QED
      BY <3>1, <3>3 DEF Earlier, HasFlow
  <2> HIDE DEF t, flow
  <2>7. Nameless'
    <3> SUFFICES ASSUME NEW s \in Tuples,
                        \A q \in Packets : HasFlow(q) /\ input[q].tuple = s
                                             /\ fate'[q] # "none" => ~ShowsName(q)
                 PROVE  flows'[s].sni = NoName /\ flows'[s].host = NoName
      BY <1>2, <1>3, <1>4 DEF Nameless
    <3>1. \A q \in Packets : HasFlow(q) /\ input[q].tuple = s /\ fate[q] # "none"
                               => ~ShowsName(q)
      BY <2>2, <2>5
    <3>2. flows[s].sni = NoName /\ flows[s].host = NoName
      BY <3>1 DEF NameInv, Nameless
    <3>3. CASE s = t
      <4>1. fate'[p] # "none" /\ input[p].tuple = s
        BY <2>5, <3>3 DEF t
      <4>2. ~ShowsName(p)
        BY <2>2, <4>1
      <4> QED
        BY <2>3, <2>5, <3>2, <3>3, <4>2
    <3> QED
      BY <2>5, <3>2, <3>3
  <2>8. BlockedFirstDropped'
    <3> SUFFICES ASSUME NEW q \in Packets, HasFlow(q), ShowsBlockedFirst(q)
                 PROVE  fate'[q] # "forward"
      BY <1>3, <1>4 DEF BlockedFirstDropped
    <3>1. CASE q = p
      <4>1. \A r \in Packets : HasFlow(r) /\ input[r].tuple = t /\ fate[r] # "none"
                                 => ~ShowsName(r)
        BY <2>6, <3>1 DEF ShowsBlockedFirst
      <4>2. flows[t].sni = NoName /\ flows[t].host = NoName
        BY <2>1, <4>1 DEF NameInv, Nameless
      <4> QED
        BY <2>4, <2>5, <3>1, <4>2 DEF ShowsBlockedFirst
    <3>2. CASE q # p
      BY <2>5, <3>2 DEF NameInv, BlockedFirstDropped
    <3> QED
      BY <3>1, <3>2
  <2> QED
    BY <2>7, <2>8 DEF NameInv
<1>7. ASSUME NEW p \in Packets, PassThrough(p) PROVE NameInv'
  <2>1. /\ \A q \in Packets : q # p => fate'[q] = fate[q]
        /\ ~HasFlow(p)
        /\ UNCHANGED flows
    BY <1>1, <1>7 DEF PassThrough, TypeOK, HasFlow
  <2> QED
    BY <1>2, <1>3, <1>4, <2>1 DEF NameInv, Nameless, BlockedFirstDropped
<1> QED
  BY <1>5, <1>6, <1>7 DEF Next, Arrive, Emit, vars

(***************************************************************************)
(* A flow whose first name is blocked gets nothing through from the packet *)
(* that shows the name onwards (--block-domain and --block-app), for every *)
(* capture and every set of rules.                                         *)
(***************************************************************************)
THEOREM BlockedNamesStop == Spec => []BlockedNameStopsFlow
<1>1. Spec => []StickyInv
  BY InitSticky, NextSticky, PTL DEF Spec
<1>2. Spec => []NameInv
  BY <1>1, InitName, NextName, PTL DEF Spec
<1>3. ASSUME StickyInv, NameInv PROVE BlockedNameStopsFlow
  <2> SUFFICES ASSUME NEW p \in Packets, HasFlow(p), fate[p] = "forward",
                      NEW q \in Earlier(p) \cup {p},
                      ShowsBlockedFirst(q)
               PROVE  FALSE
    BY DEF BlockedNameStopsFlow, ShowsBlockedFirst
  <2>1. q \in Packets /\ HasFlow(q)
    BY <1>3, PositionTypes DEF StickyInv, Earlier, HasFlow
  <2>2. fate[q] = "forward"
    BY <1>3 DEF StickyInv, StickyBlock
  <2> QED
    BY <1>3, <2>1, <2>2 DEF NameInv, BlockedFirstDropped
<1> QED
  BY <1>1, <1>2, <1>3, PTL

-----------------------------------------------------------------------------
(* Verdicts in turn *)

\* The packet belongs to the flow of t.
OfFlow(pkt, t) == pkt.parsed /\ pkt.tuple # NoTuple /\ pkt.tuple = t

\* The recursion of FlowsOf says what it seems to say.
LEMMA InTurn ==
  ASSUME NEW capture \in Seq(PacketRecords)
  PROVE  /\ FlowsOf(capture) \in [0..Len(capture) -> [Tuples -> Flows]]
         /\ FlowsOf(capture)[0] = [t \in Tuples |-> NewFlow]
         /\ \A n \in 1..Len(capture), t \in Tuples :
              FlowsOf(capture)[n][t] =
                IF OfFlow(capture[n], t)
                THEN Inspect(capture[n], FlowsOf(capture)[n-1][t])
                ELSE FlowsOf(capture)[n-1][t]
<1> DEFINE n == Len(capture)
           V == [Tuples -> Flows]
           base == [t \in Tuples |-> NewFlow]
           Judge(pkt, f) == IF pkt.parsed /\ pkt.tuple # NoTuple
                            THEN [f EXCEPT ![pkt.tuple] = Inspect(pkt, @)]
                            ELSE f
           step == [k \in 1..n |-> [f \in V |-> Judge(capture[k], f)]]
           Rec(g) == [k \in 0..n |-> IF k = 0 THEN base ELSE Judge(capture[k], g[k-1])]
<1>1. n \in Nat /\ \A k \in 1..n : capture[k] \in PacketRecords
  OBVIOUS
<1>2. base \in V
  BY NewFlowType
<1>3. ASSUME NEW pkt \in PacketRecords, NEW f \in V
      PROVE  /\ Judge(pkt, f) \in V
             /\ \A t \in Tuples : Judge(pkt, f)[t] =
                  IF OfFlow(pkt, t) THEN Inspect(pkt, f[t]) ELSE f[t]
  <2>1. CASE pkt.parsed /\ pkt.tuple # NoTuple
    <3>1. pkt.tuple \in Tuples
      BY <2>1 DEF PacketRecords
    <3>2. Inspect(pkt, f[pkt.tuple]) \in Flows
      BY <3>1, InspectType
    <3>3. Judge(pkt, f) = [f EXCEPT ![pkt.tuple] = Inspect(pkt, @)]
      BY <2>1
    <3> HIDE DEF Judge
    <3> QED
      BY <2>1, <3>1, <3>2, <3>3 DEF OfFlow
  <2>2. CASE ~(pkt.parsed /\ pkt.tuple # NoTuple)
    BY <2>2 DEF OfFlow
  <2> QED
    BY <2>1, <2>2
<1>4. \A k \in 1..n : capture[k] \in PacketRecords
  OBVIOUS
<1> HIDE DEF Judge, V, base
<1>5. step \in [1..n -> [V -> V]]
  BY <1>3, <1>4
<1>6. PICK g : IsFold(g, n, V, base, step)
  <2> HIDE DEF step, n
  <2> QED BY <1>1, <1>2, <1>5, FoldExists
<1>7. g = Rec(g)
  <2>1. ASSUME NEW k \in 0..n PROVE g[k] = Rec(g)[k]
    <3>1. CASE k = 0
      BY <3>1, <1>6 DEF IsFold
    <3>2. CASE k \in 1..n
      <4>1. k - 1 \in 0..n /\ g[k-1] \in V
        BY <1>6, <3>2, <1>1 DEF IsFold
      <4> QED
        BY <1>6, <3>2, <4>1, <1>1 DEF IsFold
    <3> QED BY <3>1, <3>2, <1>1
  <2>2. DOMAIN g = 0..n /\ g = [k \in 0..n |-> g[k]]
    BY <1>6 DEF IsFold
  <2> QED BY <2>1, <2>2
<1>8. FlowsOf(capture) = CHOOSE h : h = Rec(h)
  BY DEF FlowsOf, Judge, base
<1>9. FlowsOf(capture) = Rec(FlowsOf(capture))
  <2> HIDE DEF Rec
  <2> QED BY <1>7, <1>8
<1> DEFINE F == FlowsOf(capture)
<1>10. F[0] = base /\ \A k \in 1..n : F[k] = Judge(capture[k], F[k-1])
  BY <1>1, <1>9
<1>11. \A k \in 0..n : F[k] \in V
  <2> DEFINE S == {k \in 0..n : F[k] \in V}
  <2> HIDE DEF F, n
  <2>1. 0 \in S
    BY <1>1, <1>2, <1>10
  <2>2. \A k \in 1..n : k - 1 \in S => k \in S
    BY <1>1, <1>3, <1>10
  <2>3. 0..n \subseteq S
    <3> HIDE DEF S
    <3> QED BY <1>1, <2>1, <2>2, UpTo
  <2> QED BY <2>3
<1>12. F \in [0..n -> V]
  BY <1>9, <1>11
<1>13. ASSUME NEW k \in 1..n, NEW t \in Tuples
       PROVE  F[k][t] = IF OfFlow(capture[k], t)
                        THEN Inspect(capture[k], F[k-1][t])
                        ELSE F[k-1][t]
  <2>1. k - 1 \in 0..n
    BY <1>1
  <2>2. F[k-1] \in V /\ F[k] = Judge(capture[k], F[k-1]) /\ capture[k] \in PacketRecords
    BY <1>10, <1>11, <2>1, <1>4
  <2> HIDE DEF F, n
  <2> QED BY <1>3, <2>2
<1> QED
  BY <1>10, <1>12, <1>13 DEF V, base

\* Packets of other flows do not touch a flow.
LEMMA NothingBetween ==
  ASSUME NEW capture \in Seq(PacketRecords), NEW t \in Tuples,
         NEW m \in 0..Len(capture), NEW n \in 0..Len(capture), m <= n,
         \A k \in (m+1)..n : ~OfFlow(capture[k], t)
  PROVE  FlowsOf(capture)[n][t] = FlowsOf(capture)[m][t]
<1> DEFINE F == FlowsOf(capture)
           S == {k \in 0..(n-m) : F[m+k][t] = F[m][t]}
<1>1. Len(capture) \in Nat /\ n - m \in Nat /\ m \in Nat
  OBVIOUS
<1>2. 0 \in S
  BY <1>1
<1>3. ASSUME NEW k \in 1..(n-m), k - 1 \in S PROVE k \in S
  <2>1. m + k \in (m+1)..n /\ m + k \in 1..Len(capture) /\ (m + k) - 1 = m + (k - 1)
    BY <1>1
  <2>2. F[m+k][t] = F[(m+k)-1][t]
    BY <2>1, InTurn
  <2> QED BY <1>3, <2>1, <2>2, <1>1
<1>4. 0..(n-m) \subseteq S
  <2> HIDE DEF S
  <2> QED BY <1>1, <1>2, <1>3, UpTo
<1>5. n - m \in 0..(n-m) /\ m + (n - m) = n
  BY <1>1
<1>6. n - m \in S
  <2> HIDE DEF S
  <2> QED BY <1>4, <1>5
<1> QED
  BY <1>5, <1>6

\* A flow whose next packet is p has been through what comes before p.
UpToNext ==
  \A p \in Packets :
    HasFlow(p) /\ fate[p] = "none" /\ (\A q \in Earlier(p) : fate[q] # "none")
      => flows[input[p].tuple] = FlowsOf(input)[p-1][input[p].tuple]

TurnInv == UpToNext /\ JudgedInTurn

\* What HasFlow and Earlier say of the packets of a flow.
LEMMA PositionsOf ==
  ASSUME TypeOK
  PROVE  /\ input \in Seq(PacketRecords) /\ Len(input) \in Nat
         /\ \A p \in Packets : p \in 1..Len(input) /\ p - 1 \in 0..Len(input)
         /\ \A p \in Packets : \A t :
              OfFlow(input[p], t) <=> HasFlow(p) /\ input[p].tuple = t
         /\ \A p, q \in Packets : q \in Earlier(p) <=>
               q < p /\ input[q].parsed /\ input[q].tuple = input[p].tuple
<1>1. input \in Seq(PacketRecords) /\ Len(input) \in Nat
  BY PositionTypes DEF TypeOK
<1>2. \A p \in Packets : p \in 1..Len(input) /\ p - 1 \in 0..Len(input)
  BY <1>1 DEF Packets
<1>3. \A p, q \in Packets : q \in Earlier(p) <=>
               q < p /\ input[q].parsed /\ input[q].tuple = input[p].tuple
  BY <1>1, <1>2 DEF Earlier
<1> QED
  BY <1>1, <1>2, <1>3 DEF OfFlow, HasFlow

LEMMA InitTurn == Init => TurnInv
<1> SUFFICES ASSUME Init PROVE TurnInv
  OBVIOUS
<1>1. TypeOK
  BY InitType
<1>2. JudgedInTurn
  BY DEF Init, JudgedInTurn
<1>3. ASSUME NEW p \in Packets, HasFlow(p), \A q \in Earlier(p) : fate[q] # "none"
      PROVE  flows[input[p].tuple] = FlowsOf(input)[p-1][input[p].tuple]
  <2> DEFINE t == input[p].tuple
  <2>1. t \in Tuples /\ flows[t] = NewFlow
    BY <1>1, <1>3, PositionTypes DEF Init
  <2>2. \A q \in Earlier(p) : q \in Packets /\ fate[q] = "none"
    BY <1>1, PositionTypes DEF Init
  <2>3. Earlier(p) = {}
    BY <1>3, <2>2
  <2>4. /\ input \in Seq(PacketRecords) /\ Len(input) \in Nat
        /\ p \in 1..Len(input) /\ p - 1 \in 0..Len(input) /\ 0 \in 0..Len(input)
        /\ 0 <= p - 1 /\ 0 + 1 = 1
    BY <1>1, PositionsOf
  <2>5. \A k \in (0+1)..(p-1) : k \in Packets /\ k < p
    BY <2>4 DEF Packets
  <2>6. \A k \in (0+1)..(p-1) : ~OfFlow(input[k], t)
    BY <1>1, <2>3, <2>5, PositionsOf DEF HasFlow
  <2>7. FlowsOf(input)[p-1][t] = FlowsOf(input)[0][t]
    <3> HIDE DEF t
    <3> QED BY <2>1, <2>4, <2>6, NothingBetween
  <2>8. FlowsOf(input)[0][t] = NewFlow
    BY <2>1, <2>4, InTurn
  <2> QED
    BY <2>1, <2>7, <2>8
<1> QED
  BY <1>2, <1>3 DEF TurnInv, UpToNext

LEMMA NextTurn == TurnInv /\ StickyInv /\ [Next]_vars => TurnInv'
<1> SUFFICES ASSUME TurnInv, StickyInv, [Next]_vars PROVE TurnInv'
  OBVIOUS
<1>1. TypeOK /\ DecidedInOrder /\ UpToNext /\ JudgedInTurn
  BY DEF StickyInv, TurnInv
<1>2. UNCHANGED input
  BY DEF Next, Arrive, Decide, PassThrough, Emit, vars
<1>3. Packets' = Packets /\ FlowsOf(input)' = FlowsOf(input)
  BY <1>2 DEF Packets
<1>4. \A p : (HasFlow(p)' <=> HasFlow(p)) /\ Earlier(p)' = Earlier(p)
  BY <1>2 DEF HasFlow, Earlier
<1>5. CASE UNCHANGED <<flows, fate>>
  BY <1>1, <1>2, <1>3, <1>4, <1>5 DEF TurnInv, UpToNext, JudgedInTurn
<1>6. ASSUME NEW p \in Packets, Decide(p) PROVE TurnInv'
  <2> DEFINE t == input[p].tuple
             F == FlowsOf(input)
             flow == Inspect(input[p], flows[t])
  <2>1. /\ flows' = [flows EXCEPT ![t] = flow]
        /\ fate' = [fate EXCEPT ![p] = IF flow.blocked THEN "drop" ELSE "forward"]
        /\ HasFlow(p) /\ fate[p] = "none"
        /\ \A q \in Earlier(p) : fate[q] # "none"
    BY <1>6 DEF Decide
  <2>2. t \in Tuples /\ input[p] \in PacketRecords /\ flows[t] \in Flows
    BY <1>1, <1>6, PositionTypes DEF Decide, TypeOK
  <2>3. /\ \A q \in Packets : q # p => fate'[q] = fate[q]
        /\ fate'[p] = IF flow.blocked THEN "drop" ELSE "forward"
        /\ flows'[t] = flow
        /\ \A s \in Tuples : s # t => flows'[s] = flows[s]
    BY <1>1, <2>1, <2>2 DEF TypeOK
  <2>4. flows[t] = F[p-1][t]
    BY <1>1, <2>1 DEF UpToNext
  <2>5. F[p][t] = flow
    <3>1. OfFlow(input[p], t) /\ p \in 1..Len(input) /\ input \in Seq(PacketRecords)
      BY <1>1, <2>1, PositionsOf
    <3> QED
      BY <2>2, <2>4, <3>1, InTurn
  <2> HIDE DEF flow, F
  <2>6. JudgedInTurn'
    <3> SUFFICES ASSUME NEW q \in Packets, HasFlow(q), fate'[q] # "none"
                 PROVE  fate'[q] = "drop" <=> F[q][input[q].tuple].blocked
      BY <1>2, <1>3, <1>4 DEF JudgedInTurn, F
    <3>1. CASE q = p
      BY <2>3, <2>5, <3>1
    <3>2. CASE q # p
      BY <1>1, <2>3, <3>2 DEF JudgedInTurn, F
    <3> QED
      BY <3>1, <3>2
  <2>7. UpToNext'
    <3> SUFFICES ASSUME NEW q \in Packets, HasFlow(q), fate'[q] = "none",
                        \A r \in Earlier(q) : fate'[r] # "none"
                 PROVE  flows'[input[q].tuple] = F[q-1][input[q].tuple]
      BY <1>2, <1>3, <1>4 DEF UpToNext, F
    <3>1. q # p /\ fate[q] = "none" /\ input[q].tuple \in Tuples
      BY <1>1, <2>3, PositionTypes
    <3>2. CASE input[q].tuple # t
      <4>1. p \notin Earlier(q)
        BY <1>1, <3>2, PositionsOf
      <4>2. \A r \in Earlier(q) : fate[r] # "none"
        BY <1>1, <2>3, <4>1, PositionTypes
      <4>3. flows[input[q].tuple] = F[q-1][input[q].tuple]
        BY <1>1, <3>1, <4>2 DEF UpToNext, F
      <4> QED
        BY <2>3, <3>1, <3>2, <4>3
    <3>3. CASE input[q].tuple = t
      <4>1. p \in Nat /\ q \in Nat /\ p < q
        <5>1. p \in Nat /\ q \in Nat
          BY <1>1, PositionTypes
        <5>2. q \notin Earlier(p)
          BY <2>1, <3>1
        <5>3. ~(q < p)
          BY <1>1, <3>3, <5>2, PositionsOf DEF HasFlow
        <5> QED
          BY <3>1, <5>1, <5>3
      <4>2. ASSUME NEW k \in (p+1)..(q-1) PROVE ~OfFlow(input[k], t)
        <5>1. k \in Packets /\ p < k /\ k < q /\ k # p
          BY <1>1, <4>1, PositionsOf DEF Packets
        <5> SUFFICES ASSUME OfFlow(input[k], t) PROVE FALSE
          OBVIOUS
        <5>2. HasFlow(k) /\ input[k].tuple = t
          BY <1>1, <5>1, PositionsOf
        <5>3. k \in Earlier(q) /\ p \in Earlier(k)
          BY <1>1, <2>1, <3>3, <5>1, <5>2, PositionsOf DEF HasFlow
        <5>4. fate[k] # "none"
          BY <2>3, <5>1, <5>3
        <5> QED
          BY <1>1, <2>1, <5>1, <5>2, <5>3, <5>4 DEF DecidedInOrder
      <4>3. p \in 0..Len(input) /\ q - 1 \in 0..Len(input) /\ p <= q - 1
            /\ input \in Seq(PacketRecords)
        BY <1>1, <4>1, PositionsOf
      <4>4. F[q-1][t] = F[p][t]
        <5> HIDE DEF t
        <5> QED BY <2>2, <4>2, <4>3, NothingBetween DEF F
      <4> QED
        BY <2>3, <2>5, <3>3, <4>4
    <3> QED
      BY <3>2, <3>3
  <2> QED
    BY <2>6, <2>7 DEF TurnInv
<1>7. ASSUME NEW p \in Packets, PassThrough(p) PROVE TurnInv'
  <2>1. /\ \A q \in Packets : q # p => fate'[q] = fate[q]
        /\ ~HasFlow(p) /\ UNCHANGED flows
    BY <1>1, <1>7 DEF PassThrough, TypeOK, HasFlow
  <2>2. \A q \in Packets : HasFlow(q) => p \notin Earlier(q)
    BY <2>1 DEF Earlier, HasFlow
  <2>3. \A q \in Packets : HasFlow(q) => \A r \in Earlier(q) : fate'[r] = fate[r]
    BY <1>1, <2>1, <2>2, PositionTypes
  <2>4. \A q \in Packets : HasFlow(q) => fate'[q] = fate[q]
    BY <2>1
  <2> QED
    BY <1>1, <1>2, <1>3, <1>4, <2>1, <2>3, <2>4 DEF TurnInv, UpToNext, JudgedInTurn
<1> QED
  BY <1>5, <1>6, <1>7 DEF Next, Arrive, Emit, vars

(***************************************************************************)
(* The verdict on a packet follows from the capture and the rules alone,   *)
(* for every capture and every set of rules: it is the one that judging    *)
(* the whole capture one packet after the other gives.                     *)
(***************************************************************************)
THEOREM VerdictsFollowCapture == Spec => []JudgedInTurn
<1>1. Spec => []StickyInv
  BY InitSticky, NextSticky, PTL DEF Spec
<1>2. Spec => []TurnInv
  BY <1>1, InitTurn, NextTurn, PTL DEF Spec
<1>3. TurnInv => JudgedInTurn
  BY DEF TurnInv
<1> QED
  BY <1>2, <1>3, PTL

=============================================================================
