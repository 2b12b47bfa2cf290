-------------------------- MODULE SimpleEngineProofs ------------------------
(***************************************************************************)
(* Theorems about the single-threaded engine, for every capture and every  *)
(* set of rules: it implements the packet filter, and everything is        *)
(* settled when it ends.                                                   *)
(***************************************************************************)
EXTENDS SimpleEngine, FastPathProofs, SequenceTheorems, FiniteSetTheorems

-----------------------------------------------------------------------------
(* The two classifiers *)

\* The copy in main_simple.py does what _classify of fast_path.py does.
LEMMA ClassifiersAgree ==
  ASSUME NEW pkt \in PacketRecords, NEW flow \in Flows
  PROVE  ClassifySimple(pkt, flow) = Classify(pkt, flow)
<1> DEFINE port == DstPort[pkt.tuple]
           tls  == port = HTTPS_PORT /\ pkt.size >= 6
           http == port = HTTP_PORT /\ pkt.size # 0
<1>1. pkt.size > 0 <=> pkt.size # 0
  BY DEF PacketRecords
<1>2. CASE tls
  BY <1>2 DEF ClassifySimple, Classify, LabelUnknown, HTTPS_PORT, HTTP_PORT,
              DNS_PORT, TLS_MIN_PAYLOAD
<1>3. CASE http
  <2>1. \A n, a : [[flow EXCEPT !.sni = n, !.app = a] EXCEPT !.host = n]
                    = [flow EXCEPT !.host = n, !.sni = n, !.app = a]
    BY DEF Flows
  <2>2. port = 80 /\ port # 443 /\ pkt.size > 0
    BY <1>1, <1>3 DEF HTTP_PORT
  <2>3. CASE flow.host = NoName /\ pkt.name # NoName
    <3>1. ClassifySimple(pkt, flow) =
            [[flow EXCEPT !.sni = pkt.name, !.app = SniToAppType(pkt.name)]
               EXCEPT !.host = pkt.name]
      BY <1>3, <2>2, <2>3 DEF ClassifySimple, HTTPS_PORT, HTTP_PORT
    <3>2. Classify(pkt, flow) =
            [flow EXCEPT !.host = pkt.name, !.sni = pkt.name,
                         !.app = SniToAppType(pkt.name)]
      BY <2>2, <2>3 DEF Classify, LabelUnknown, HTTPS_PORT, HTTP_PORT, DNS_PORT,
                        TLS_MIN_PAYLOAD
    <3> QED
      BY <2>1, <3>1, <3>2
  <2>4. CASE ~(flow.host = NoName /\ pkt.name # NoName)
    BY <1>3, <2>2, <2>4 DEF ClassifySimple, Classify, LabelUnknown, HTTPS_PORT,
                            HTTP_PORT, DNS_PORT
  <2> QED
    BY <2>3, <2>4
<1>4. CASE ~tls /\ ~http
  BY <1>1, <1>4 DEF ClassifySimple, Classify, LabelUnknown, HTTPS_PORT, HTTP_PORT,
                    DNS_PORT, TLS_MIN_PAYLOAD
<1> QED
  BY <1>2, <1>3, <1>4

\* The flow that InspectFlow of the engine leaves behind.
SimpleInspect(pkt, before) ==
  LET counted == [before EXCEPT !.packets = @ + 1]
      flow    == IF counted.blocked THEN counted ELSE ClassifySimple(pkt, counted)
  IN  [flow EXCEPT !.blocked =
         flow.blocked \/ IsBlocked(SrcIp[pkt.tuple], flow.app, flow.sni)]

LEMMA InspectsAgree ==
  ASSUME NEW pkt \in PacketRecords, NEW before \in Flows
  PROVE  SimpleInspect(pkt, before) = Inspect(pkt, before)
<1> DEFINE counted == [before EXCEPT !.packets = @ + 1]
<1>1. counted \in Flows
  BY DEF Flows
<1>2. ClassifySimple(pkt, counted) = Classify(pkt, counted)
  BY <1>1, ClassifiersAgree
<1> QED
  BY <1>2 DEF SimpleInspect, Inspect

\* The packet filter that the refinement speaks of uses the same classifier.
LEMMA FilterInspects ==
  ASSUME NEW pkt, NEW before
  PROVE  Filter!Inspect(pkt, before) = Inspect(pkt, before)
<1>1. \A name : Filter!SniToAppType(name) = SniToAppType(name)
  BY DEF Filter!SniToAppType, SniToAppType, Filter!SniMapping, SniMapping
<1>2. \A flow : Filter!Classify(pkt, flow) = Classify(pkt, flow)
  BY <1>1 DEF Filter!Classify, Classify, Filter!LabelUnknown, LabelUnknown,
              Filter!HTTPS_PORT, Filter!HTTP_PORT, Filter!DNS_PORT,
              Filter!TLS_MIN_PAYLOAD, HTTPS_PORT, HTTP_PORT, DNS_PORT, TLS_MIN_PAYLOAD
<1>3. \A ip, app, sni : Filter!IsBlocked(ip, app, sni) <=> IsBlocked(ip, app, sni)
  BY DEF Filter!IsBlocked, IsBlocked
<1> QED
  BY <1>2, <1>3 DEF Filter!Inspect, Inspect

-----------------------------------------------------------------------------
(* The invariant *)

\* A packet is in hand between its "read" step and the decision or the writing.
Busy == pc \in {"inspect", "write"}

Settled(p) == p < next /\ (Busy => p # Current)

Written(p) == \E k \in DOMAIN file : file[k] = p

Dropped == {p \in Packets : fate[p] = "drop"}

\* Where the engine is in the capture, and what it has in hand.
Place ==
  /\ Busy => next >= 2 /\ input[Current].parsed
  /\ pc = "inspect" => fate[Current] = "none"
  /\ pc = "write" => fate[Current] = "forward"
  /\ pc \in {"report", "raised", "done"} => closed /\ next = Len(input) + 1

\* What lies behind it has been dealt with, and nothing ahead of it.
Behind ==
  \A p \in Packets :
    /\ p >= next => fate[p] = "none"
    /\ Settled(p) => /\ input[p].parsed => fate[p] # "none"
                     /\ fate[p] = "forward" => Written(p)

FileOrder ==
  /\ \A k \in DOMAIN file : Settled(file[k])
  /\ \A k, l \in DOMAIN file : k < l => file[k] < file[l]

Counters ==
  /\ total = forwarded + dropped + (IF Busy THEN 1 ELSE 0)
  /\ forwarded = Len(file)
  /\ dropped = Cardinality(Dropped)

Inv == TypeOK /\ Place /\ Behind /\ FileOrder /\ Counters

\* Positions of the capture, and what stands at them.
LEMMA Positions ==
  ASSUME TypeOK
  PROVE  /\ input \in Seq(PacketRecords) /\ Len(input) \in Nat
         /\ next \in Nat /\ next >= 1 /\ next <= Len(input) + 1
         /\ \A p \in Packets : p \in Nat /\ p >= 1 /\ p <= Len(input)
                                 /\ input[p] \in PacketRecords
         /\ \A n \in Nat : n >= 1 /\ n <= Len(input) => n \in Packets
<1>1. input \in Seq(PacketRecords)
  BY InputsAssumption DEF TypeOK
<1>2. Len(input) \in Nat /\ \A p \in 1..Len(input) : input[p] \in PacketRecords
  BY <1>1
<1>3. next \in 1..(Len(input) + 1)
  BY DEF TypeOK
<1> QED
  BY <1>1, <1>2, <1>3 DEF Packets

\* The packet in hand.
LEMMA InHand ==
  ASSUME Inv, Busy
  PROVE  /\ Current \in Packets /\ Current + 1 = next /\ input[Current] \in PacketRecords
         /\ Current \in Nat
         /\ input[Current].parsed
         /\ \A p \in Packets : p < next => p < Current \/ p = Current
<1>1. next \in Nat /\ next >= 2 /\ next <= Len(input) + 1 /\ Len(input) \in Nat
  BY Positions DEF Inv, Place
<1>2. Current \in Nat /\ Current >= 1 /\ Current <= Len(input) /\ Current + 1 = next
  BY <1>1 DEF Current
<1>3. Current \in Packets /\ input[Current] \in PacketRecords
  BY <1>2, Positions DEF Inv
<1>4. \A p \in Packets : p < next => p < Current \/ p = Current
  BY <1>2, Positions DEF Inv
<1> QED
  BY <1>2, <1>3, <1>4 DEF Inv, Place

LEMMA InitInv == ASSUME Init PROVE Inv
<1>1. input \in Seq(PacketRecords) /\ Len(input) \in Nat
  BY InputsAssumption DEF Init
<1>2. /\ next = 1 /\ pc = "read" /\ file = <<>> /\ closed = FALSE /\ input \in Inputs
      /\ total = 0 /\ forwarded = 0 /\ dropped = 0 /\ truncated \in BOOLEAN
      /\ flows = [t \in Tuples |-> NewFlow] /\ fate = [p \in Packets |-> "none"]
  BY DEF Init
<1>3. TypeOK
  <2>1. next \in 1..(Len(input) + 1)
    BY <1>1, <1>2
  <2>2. flows \in [Tuples -> Flows]
    BY <1>2, NewFlowType
  <2>3. fate \in [Packets -> {"none", "forward", "drop"}] /\ file \in Seq(Packets)
    BY <1>2
  <2>4. closed \in BOOLEAN
    BY <1>2
  <2> QED
    BY <1>2, <2>1, <2>2, <2>3, <2>4 DEF TypeOK
<1>4. Place /\ Behind /\ FileOrder
  BY <1>1, <1>2 DEF Place, Behind, FileOrder, Busy, Settled, Packets
<1>5. Counters
  <2>1. Dropped = {}
    BY <1>2 DEF Dropped
  <2>2. Cardinality(Dropped) = 0
    BY <2>1, FS_EmptySet
  <2> QED
    BY <1>2, <2>2 DEF Counters, Busy
<1> QED
  BY <1>3, <1>4, <1>5 DEF Inv

-----------------------------------------------------------------------------
(* Each step keeps the invariant *)

LEMMA ReadStep == ASSUME Inv, Read PROVE Inv'
<1>1. /\ pc = "read" /\ next <= Len(input) /\ next' = next + 1
      /\ pc' = (IF ~input[next].parsed THEN "read" ELSE "inspect")
      /\ total' = total + (IF input[next].parsed THEN 1 ELSE 0)
      /\ UNCHANGED <<input, truncated, flows, file, closed, forwarded, dropped, fate>>
  BY DEF Read
<1>2. next \in Packets /\ input[next] \in PacketRecords /\ next \in Nat
      /\ Len(input) \in Nat
  BY <1>1, Positions DEF Inv
<1>3. Packets' = Packets /\ Current' = next
  BY <1>1, <1>2 DEF Packets, Current
<1>4. TypeOK'
  <2>1. next' \in 1..(Len(input') + 1)
    BY <1>1, <1>2
  <2>2. total' \in Nat
    BY <1>1 DEF Inv, TypeOK
  <2> QED
    BY <1>1, <1>3, <2>1, <2>2 DEF Inv, TypeOK
<1>5. /\ Busy' <=> input[next].parsed
      /\ ~Busy
  BY <1>1 DEF Busy
<1>6. fate[next] = "none"
  BY <1>2 DEF Inv, Behind
<1>7. Place'
  BY <1>1, <1>2, <1>3, <1>5, <1>6, Positions DEF Inv, Place, Busy
<1>8. \A p \in Packets : /\ Settled(p)' => Settled(p) \/ (p = next /\ ~input[next].parsed)
                         /\ Settled(p) => Settled(p)'
  BY <1>1, <1>2, <1>3, <1>5, Positions DEF Settled, Inv
<1>9. Behind'
  <2> SUFFICES ASSUME NEW p \in Packets
               PROVE  /\ p >= next' => fate'[p] = "none"
                      /\ Settled(p)' => /\ input'[p].parsed => fate'[p] # "none"
                                        /\ fate'[p] = "forward" => Written(p)'
    BY <1>3 DEF Behind
  <2>1. p >= next' => p >= next
    BY <1>1, <1>2, Positions DEF Inv
  <2>2. Written(p)' <=> Written(p)
    BY <1>1 DEF Written
  <2> QED
    BY <1>1, <1>6, <1>8, <2>1, <2>2 DEF Inv, Behind
<1>10. FileOrder'
  <2>1. \A k \in DOMAIN file : file[k] \in Packets
    BY DEF Inv, TypeOK
  <2> QED
    BY <1>1, <1>8, <2>1 DEF Inv, FileOrder
<1>11. Counters'
  <2>1. Dropped' = Dropped
    BY <1>1, <1>3 DEF Dropped
  <2> QED
    BY <1>1, <1>5, <2>1 DEF Inv, TypeOK, Counters
<1> QED
  BY <1>4, <1>7, <1>9, <1>10, <1>11 DEF Inv

\* What InspectFlow does, in terms of the classifier of fast_path.py.
LEMMA InspectFlowFacts ==
  ASSUME Inv, InspectFlow,
         NEW t, t = input[Current].tuple,
         NEW flow, flow = Inspect(input[Current], flows[t])
  PROVE  /\ Busy /\ t \in Tuples /\ flow \in Flows /\ flow.blocked \in BOOLEAN
         /\ flows' = [flows EXCEPT ![t] = flow]
         /\ fate' = [fate EXCEPT ![Current] = IF flow.blocked THEN "drop" ELSE "forward"]
         /\ dropped' = dropped + (IF flow.blocked THEN 1 ELSE 0)
         /\ pc' = IF flow.blocked THEN "read" ELSE "write"
<1> DEFINE pkt     == input[Current]
           counted == [flows[t] EXCEPT !.packets = @ + 1]
           seen    == IF counted.blocked THEN counted ELSE ClassifySimple(pkt, counted)
           drop    == seen.blocked \/ IsBlocked(SrcIp[t], seen.app, seen.sni)
<1>1. Busy
  BY DEF InspectFlow, Busy
<1>2. pkt \in PacketRecords
  BY <1>1, InHand
<1>3. t \in Tuples
  BY <1>2 DEF InspectFlow, PacketRecords
<1>4. flows[t] \in Flows
  BY <1>3 DEF Inv, TypeOK
<1>5. flow \in Flows
  BY <1>2, <1>4, InspectType
<1>6. seen \in Flows
  <2>1. counted \in Flows
    BY <1>4 DEF Flows
  <2>2. ClassifySimple(pkt, counted) \in Flows
    BY <1>2, <2>1, ClassifiersAgree, ClassifyType
  <2> QED
    BY <2>1, <2>2
<1>7. flow = [seen EXCEPT !.blocked = drop]
  BY <1>2, <1>4, InspectsAgree DEF SimpleInspect
<1>8. /\ flows' = [flows EXCEPT ![t] = [seen EXCEPT !.blocked = drop]]
      /\ dropped' = dropped + (IF drop THEN 1 ELSE 0)
      /\ fate' = [fate EXCEPT ![Current] = IF drop THEN "drop" ELSE "forward"]
      /\ pc' = IF drop THEN "read" ELSE "write"
  BY DEF InspectFlow
<1>9. flow.blocked = drop
  <2> HIDE DEF drop, seen
  <2> QED
    BY <1>6, <1>7 DEF Flows
<1>10. flow.blocked \in BOOLEAN
  BY <1>5 DEF Flows
<1> QED
  BY <1>1, <1>3, <1>5, <1>7, <1>8, <1>9, <1>10

\* A packet is decided; it may be dropped or let through.
LEMMA DecideStep ==
  ASSUME Inv, pc = "inspect", NEW drop \in BOOLEAN,
         flows' \in [Tuples -> Flows],
         fate' = [fate EXCEPT ![Current] = IF drop THEN "drop" ELSE "forward"],
         dropped' = dropped + (IF drop THEN 1 ELSE 0),
         pc' = (IF drop THEN "read" ELSE "write"),
         UNCHANGED <<input, truncated, next, file, closed, total, forwarded>>
  PROVE  Inv'
<1>1. /\ Busy /\ Current \in Packets /\ Current + 1 = next /\ Current \in Nat
      /\ input[Current].parsed
      /\ \A p \in Packets : p < next => p < Current \/ p = Current
  BY InHand DEF Busy
<1>2. Packets' = Packets /\ Current' = Current
  BY DEF Packets, Current
<1>3. fate \in [Packets -> {"none", "forward", "drop"}] /\ fate[Current] = "none"
  BY DEF Inv, TypeOK, Place
<1>4. /\ \A p \in Packets : p # Current => fate'[p] = fate[p]
      /\ fate'[Current] = IF drop THEN "drop" ELSE "forward"
  BY <1>1, <1>3
<1>5. TypeOK'
  <2>1. fate' \in [Packets -> {"none", "forward", "drop"}]
    BY <1>1, <1>3
  <2>2. dropped' \in Nat
    BY DEF Inv, TypeOK
  <2>3. pc' \in {"read", "inspect", "write", "report", "raised", "done"}
    OBVIOUS
  <2> QED
    BY <1>2, <2>1, <2>2, <2>3 DEF Inv, TypeOK
<1>6. Busy' <=> ~drop
  BY DEF Busy
<1>7. Place'
  BY <1>1, <1>2, <1>4, <1>6 DEF Inv, Place, Busy
<1>8. \A p \in Packets : Settled(p)' <=> (Settled(p) \/ (p = Current /\ drop))
  BY <1>1, <1>2, <1>6, Positions DEF Settled, Inv
<1>9. Behind'
  <2> SUFFICES ASSUME NEW p \in Packets
               PROVE  /\ p >= next => fate'[p] = "none"
                      /\ Settled(p)' => /\ input[p].parsed => fate'[p] # "none"
                                        /\ fate'[p] = "forward" => Written(p)'
    BY <1>2 DEF Behind
  <2>1. Written(p)' <=> Written(p)
    BY DEF Written
  <2>2. CASE p = Current
    BY <1>1, <1>4, <1>8, <2>2 DEF Settled
  <2>3. CASE p # Current
    BY <1>4, <1>8, <2>1, <2>3 DEF Inv, Behind
  <2> QED
    BY <2>2, <2>3
<1>10. FileOrder'
  <2>1. \A k \in DOMAIN file : file[k] \in Packets
    BY DEF Inv, TypeOK
  <2> QED
    BY <1>8, <2>1 DEF Inv, FileOrder
<1>11. Counters'
  <2>1. IsFiniteSet(Dropped)
    <3>1. IsFiniteSet(Packets)
      BY Positions, FS_Interval DEF Inv, Packets
    <3> QED
      BY <3>1, FS_Subset DEF Dropped
  <2>2. Current \notin Dropped
    BY <1>3 DEF Dropped
  <2>3. Dropped' = IF drop THEN Dropped \cup {Current} ELSE Dropped
    BY <1>1, <1>2, <1>3, <1>4 DEF Dropped
  <2>4. Cardinality(Dropped') = Cardinality(Dropped) + (IF drop THEN 1 ELSE 0)
    <3>1. Cardinality(Dropped) \in Nat
      BY <2>1, FS_CardinalityType
    <3>2. Cardinality(Dropped \cup {Current}) = Cardinality(Dropped) + 1
      BY <2>1, <2>2, FS_AddElement
    <3> QED
      BY <2>3, <3>1, <3>2
  <2>5. total = forwarded + dropped + 1 /\ forwarded = Len(file)
        /\ dropped = Cardinality(Dropped)
    BY <1>1 DEF Inv, Counters
  <2>6. total' = forwarded' + dropped' + (IF Busy' THEN 1 ELSE 0)
    BY <1>6, <2>5 DEF Inv, TypeOK
  <2> QED
    BY <2>4, <2>5, <2>6 DEF Counters
<1> QED
  BY <1>5, <1>7, <1>9, <1>10, <1>11 DEF Inv

LEMMA InspectFlowStep == ASSUME Inv, InspectFlow PROVE Inv'
<1> DEFINE t == input[Current].tuple
           flow == Inspect(input[Current], flows[t])
<1>1. /\ t \in Tuples /\ flow \in Flows /\ flow.blocked \in BOOLEAN
      /\ flows' = [flows EXCEPT ![t] = flow]
      /\ fate' = [fate EXCEPT ![Current] = IF flow.blocked THEN "drop" ELSE "forward"]
      /\ dropped' = dropped + (IF flow.blocked THEN 1 ELSE 0)
      /\ pc' = IF flow.blocked THEN "read" ELSE "write"
  BY InspectFlowFacts
<1> HIDE DEF flow, t
<1>2. flows' \in [Tuples -> Flows]
  BY <1>1 DEF Inv, TypeOK
<1>3. pc = "inspect" /\ UNCHANGED <<input, truncated, next, file, closed, total, forwarded>>
  BY DEF InspectFlow
<1> QED
  BY <1>1, <1>2, <1>3, DecideStep

LEMMA InspectNoFlowStep == ASSUME Inv, InspectNoFlow PROVE Inv'
<1>1. /\ pc = "inspect" /\ pc' = "write"
      /\ fate' = [fate EXCEPT ![Current] = "forward"]
      /\ UNCHANGED <<input, truncated, next, flows, file, closed, total, forwarded, dropped>>
  BY DEF InspectNoFlow
<1>2. flows' \in [Tuples -> Flows] /\ dropped \in Nat
  BY <1>1 DEF Inv, TypeOK
<1>3. dropped' = dropped + (IF FALSE THEN 1 ELSE 0)
  BY <1>1, <1>2
<1>4. /\ fate' = [fate EXCEPT ![Current] = IF FALSE THEN "drop" ELSE "forward"]
      /\ pc' = IF FALSE THEN "read" ELSE "write"
  BY <1>1
<1> QED
  BY <1>1, <1>2, <1>3, <1>4, DecideStep

LEMMA WriteStep == ASSUME Inv, Write PROVE Inv'
<1>1. /\ pc = "write" /\ pc' = "read"
      /\ file' = Append(file, Current) /\ forwarded' = forwarded + 1
      /\ UNCHANGED <<input, truncated, next, flows, closed, total, dropped, fate>>
  BY DEF Write
<1>2. /\ Busy /\ ~Busy' /\ Current \in Packets /\ Current + 1 = next /\ Current \in Nat
      /\ \A p \in Packets : p < next => p < Current \/ p = Current
  BY <1>1, InHand DEF Busy
<1>3. Packets' = Packets /\ Current' = Current
  BY <1>1 DEF Packets, Current
<1>4. /\ file \in Seq(Packets) /\ Len(file) \in Nat
      /\ file' \in Seq(Packets) /\ Len(file') = Len(file) + 1
      /\ DOMAIN file = 1..Len(file) /\ DOMAIN file' = 1..(Len(file) + 1)
      /\ \A k \in 1..Len(file) : file'[k] = file[k]
      /\ file'[Len(file) + 1] = Current
  <2>1. file \in Seq(Packets)
    BY DEF Inv, TypeOK
  <2> QED
    BY <1>1, <1>2, <2>1, AppendProperties
<1>5. TypeOK'
  <2>1. forwarded' \in Nat
    BY <1>1 DEF Inv, TypeOK
  <2> QED
    BY <1>1, <1>3, <1>4, <2>1 DEF Inv, TypeOK
<1>6. Place'
  BY <1>1, <1>2 DEF Inv, Place, Busy
<1>7. \A p \in Packets : Settled(p)' <=> (Settled(p) \/ p = Current)
  BY <1>1, <1>2, <1>3, Positions DEF Settled, Inv
<1>8. Written(Current)' /\ \A p \in Packets : Written(p) => Written(p)'
  <2>1. Len(file) + 1 \in DOMAIN file' /\ file'[Len(file) + 1] = Current'
    BY <1>3, <1>4
  <2>2. \A k \in DOMAIN file : k \in DOMAIN file' /\ file'[k] = file[k]
    BY <1>4
  <2> QED
    BY <2>1, <2>2 DEF Written
<1>9. Behind'
  BY <1>1, <1>3, <1>7, <1>8, <1>2 DEF Inv, Behind, Place
<1>10. FileOrder'
  <2>1. ASSUME NEW k \in 1..Len(file)
        PROVE  file[k] \in Packets /\ file[k] \in Nat /\ file[k] < Current
    <3>1. file[k] \in Packets
      BY <1>4
    <3>2. file[k] < next /\ file[k] # Current
      BY <1>2, <1>4 DEF Inv, FileOrder, Settled
    <3> QED
      BY <1>2, <3>1, <3>2, Positions DEF Inv
  <2>2. \A k \in DOMAIN file' : file'[k] < next'
    <3> SUFFICES ASSUME NEW k \in DOMAIN file' PROVE file'[k] < next
      BY <1>1
    <3>1. k \in 1..Len(file) \/ k = Len(file) + 1
      BY <1>4
    <3> QED
      BY <1>2, <1>4, <2>1, <3>1
  <2>3. ASSUME NEW k \in DOMAIN file', NEW l \in DOMAIN file', k < l
        PROVE  file'[k] < file'[l]
    <3>1. k \in 1..Len(file)
      BY <1>4, <2>3
    <3>2. CASE l \in 1..Len(file)
      BY <1>4, <2>3, <3>1, <3>2 DEF Inv, FileOrder
    <3>3. CASE l = Len(file) + 1
      BY <1>4, <2>1, <3>1, <3>3
    <3> QED
      BY <1>4, <3>2, <3>3
  <2> QED
    BY <1>2, <2>2, <2>3 DEF FileOrder, Settled
<1>11. Counters'
  <2>1. Dropped' = Dropped
    BY <1>1, <1>3 DEF Dropped
  <2> QED
    BY <1>1, <1>2, <1>4, <2>1 DEF Inv, TypeOK, Counters
<1> QED
  BY <1>5, <1>6, <1>9, <1>10, <1>11 DEF Inv

\* The end of the capture and the report touch nothing that was decided.
LEMMA EndStep ==
  ASSUME Inv, EndOfCapture \/ Report \/ UNCHANGED vars PROVE Inv'
<1>1. UNCHANGED <<input, truncated, next, flows, file, total, forwarded, dropped, fate>>
  BY DEF EndOfCapture, Report, vars
<1>2. /\ pc' \in {"read", "inspect", "write", "report", "raised", "done"}
      /\ closed' \in BOOLEAN
  BY DEF EndOfCapture, Report, vars, Inv, TypeOK
<1>3. TypeOK'
  BY <1>1, <1>2 DEF Inv, TypeOK, Packets
<1>4. (Busy' <=> Busy) /\ Packets' = Packets /\ Current' = Current
      /\ (pc' = "inspect" <=> pc = "inspect") /\ (pc' = "write" <=> pc = "write")
  BY <1>1 DEF EndOfCapture, Report, vars, Busy, Packets, Current
<1>5. pc' \in {"report", "raised", "done"} => closed' /\ next' = Len(input') + 1
  <2>1. CASE EndOfCapture
    BY <1>1, <2>1, Positions DEF EndOfCapture, Inv
  <2>2. CASE Report
    BY <1>1, <2>2 DEF Report, Inv, Place
  <2>3. CASE UNCHANGED vars
    BY <2>3 DEF vars, Inv, Place
  <2> QED
    BY <2>1, <2>2, <2>3
<1>6. Place'
  BY <1>1, <1>4, <1>5 DEF Inv, Place
<1>7. Behind' /\ FileOrder' /\ Counters'
  BY <1>1, <1>4 DEF Inv, Behind, FileOrder, Counters, Settled, Written, Dropped
<1> QED
  BY <1>3, <1>6, <1>7 DEF Inv

LEMMA InvStep == ASSUME Inv, [Next]_vars PROVE Inv'
BY ReadStep, InspectFlowStep, InspectNoFlowStep, WriteStep, EndStep DEF Next, Terminated

LEMMA InvHolds == Spec => []Inv
<1>1. Init => Inv
  BY InitInv
<1>2. Inv /\ [Next]_vars => Inv'
  BY InvStep
<1> QED
  BY <1>1, <1>2, PTL DEF Spec

(***************************************************************************)
(* The variables of run() in main_simple.py keep their types; every flow   *)
(* stays a flow, and only packets of the capture are written.              *)
(***************************************************************************)
THEOREM TypeCorrect == Spec => []TypeOK
<1>1. Inv => TypeOK
  BY DEF Inv
<1> QED
  BY <1>1, InvHolds, PTL

(***************************************************************************)
(* When run() ends, by a report or by the ValueError of a truncated        *)
(* capture, the output is closed and holds in capture order what was let   *)
(* through, everything that was parsed is decided, and the counters of the *)
(* report add up.                                                          *)
(***************************************************************************)
THEOREM AllIsSettled == Spec => []EverythingSettled
<1>1. Inv => EverythingSettled
  <2> SUFFICES ASSUME Inv, pc \in {"report", "raised", "done"}
               PROVE  /\ closed
                      /\ total = forwarded + dropped
                      /\ forwarded = Len(file)
                      /\ dropped = Cardinality({p \in Packets : fate[p] = "drop"})
                      /\ \A k, l \in DOMAIN file : k < l => file[k] < file[l]
                      /\ \A p \in Packets : fate[p] = "forward" =>
                           \E k \in DOMAIN file : file[k] = p
                      /\ \A p \in Packets : input[p].parsed => fate[p] # "none"
    BY DEF EverythingSettled
  <2>1. ~Busy
    BY DEF Busy
  <2>2. \A p \in Packets : Settled(p)
    BY <2>1, Positions DEF Inv, Place, Settled
  <2>3. total = forwarded + dropped /\ forwarded = Len(file)
        /\ dropped = Cardinality({p \in Packets : fate[p] = "drop"})
    BY <2>1 DEF Inv, TypeOK, Counters, Dropped
  <2> QED
    BY <2>2, <2>3 DEF Inv, Place, Behind, FileOrder, Written
<1> QED
  BY <1>1, InvHolds, PTL

-----------------------------------------------------------------------------
(* The packet filter *)

LEMMA InitIsFilterInit == ASSUME Init PROVE Filter!Init
BY DEF Init, Filter!Init, Packets, Filter!Packets, NewFlow, Filter!NewFlow

\* Of the flow of the packet in hand everything before it is settled.
LEMMA EarlierSettled ==
  ASSUME Inv, Busy, NEW q \in Filter!Earlier(Current)
  PROVE  q \in Packets /\ Settled(q) /\ input[q].parsed
<1>1. q \in 1..(Current - 1) /\ input[q].parsed
  BY DEF Filter!Earlier
<1>2. Current \in Nat /\ Current <= Len(input) /\ next = Current + 1 /\ Len(input) \in Nat
  BY InHand, Positions DEF Inv
<1> QED
  BY <1>1, <1>2 DEF Packets, Settled

LEMMA InspectFlowIsDecide ==
  ASSUME Inv, InspectFlow PROVE Filter!Decide(Current)
<1> DEFINE t == input[Current].tuple
           flow == Inspect(input[Current], flows[t])
<1>1. /\ Busy
      /\ flows' = [flows EXCEPT ![t] = flow]
      /\ fate' = [fate EXCEPT ![Current] = IF flow.blocked THEN "drop" ELSE "forward"]
  BY InspectFlowFacts
<1>2. Filter!Inspect(input[Current], flows[t]) = flow
  BY FilterInspects
<1>3. Current <= next - 1 /\ Filter!HasFlow(Current) /\ fate[Current] = "none"
  <2>1. Current <= next - 1 /\ input[Current].parsed
    BY <1>1, InHand
  <2> QED
    BY <2>1 DEF InspectFlow, Filter!HasFlow, Inv, Place
<1>4. \A q \in Filter!Earlier(Current) : fate[q] # "none"
  BY <1>1, EarlierSettled DEF Inv, Behind
<1>5. UNCHANGED <<input, next - 1, file>>
  BY DEF InspectFlow
<1> QED
  BY <1>1, <1>2, <1>3, <1>4, <1>5 DEF Filter!Decide

LEMMA InspectNoFlowIsPass ==
  ASSUME Inv, InspectNoFlow PROVE Filter!PassThrough(Current)
<1>1. Busy
  BY DEF InspectNoFlow, Busy
<1>2. Current <= next - 1 /\ input[Current].parsed /\ fate[Current] = "none"
  BY <1>1, InHand DEF InspectNoFlow, Inv, Place
<1> QED
  BY <1>2 DEF InspectNoFlow, Filter!PassThrough

LEMMA WriteIsEmit ==
  ASSUME Inv, Write PROVE Filter!Emit(Current)
<1>1. Busy /\ fate[Current] = "forward"
  BY DEF Write, Busy, Inv, Place
<1>2. ~Filter!Written(Current)
  BY <1>1 DEF Inv, FileOrder, Settled, Filter!Written
<1>3. \A q \in Filter!Earlier(Current) : fate[q] = "forward" => Filter!Written(q)
  BY <1>1, EarlierSettled DEF Inv, Behind, Written, Filter!Written
<1> QED
  BY <1>1, <1>2, <1>3 DEF Write, Filter!Emit

LEMMA StepIsFilterStep ==
  ASSUME Inv, [Next]_vars PROVE [Filter!Next]_(Filter!vars)
<1>1. CASE Read
  <2>1. next - 1 < Len(input) /\ (next - 1)' = (next - 1) + 1
    BY <1>1, Positions DEF Read, Inv
  <2> QED
    BY <1>1, <2>1 DEF Read, Filter!Arrive, Filter!Next
<1>2. CASE InspectFlow
  <2>1. Current \in Filter!Packets
    BY <1>2, InHand DEF InspectFlow, Busy, Packets, Filter!Packets
  <2> QED
    BY <1>2, <2>1, InspectFlowIsDecide DEF Filter!Next
<1>3. CASE InspectNoFlow
  <2>1. Current \in Filter!Packets
    BY <1>3, InHand DEF InspectNoFlow, Busy, Packets, Filter!Packets
  <2> QED
    BY <1>3, <2>1, InspectNoFlowIsPass DEF Filter!Next
<1>4. CASE Write
  <2>1. Current \in Filter!Packets
    BY <1>4, InHand DEF Write, Busy, Packets, Filter!Packets
  <2> QED
    BY <1>4, <2>1, WriteIsEmit DEF Filter!Next
<1>5. CASE EndOfCapture \/ Report \/ UNCHANGED vars
  BY <1>5 DEF EndOfCapture, Report, vars, Filter!vars
<1> QED
  BY <1>1, <1>2, <1>3, <1>4, <1>5 DEF Next, Terminated

(***************************************************************************)
(* The single-threaded engine implements the packet filter, although       *)
(* main_simple.py has its own copies of the classifier and of the code     *)
(* around it.                                                              *)
(***************************************************************************)
THEOREM SimpleIsFilter == Spec => ImplementsFilter
<1>1. Init => Filter!Init
  BY InitIsFilterInit
<1>2. Inv /\ [Next]_vars => [Filter!Next]_(Filter!vars)
  BY StepIsFilterStep
<1> QED
  BY <1>1, <1>2, InvHolds, PTL DEF Spec, ImplementsFilter, Filter!Spec

-----------------------------------------------------------------------------
(* What holds of the filter holds of the engine *)

FilterProofs == INSTANCE PacketFilterProofs WITH arrived <- next - 1

\* The filter of the refinement is the one that PacketFilterProofs is about.
LEMMA OneFilter ==
  /\ Filter!Init <=> FilterProofs!Init
  /\ [Filter!Next]_(Filter!vars) <=> [FilterProofs!Next]_(FilterProofs!vars)
  /\ Filter!StickyBlock <=> FilterProofs!StickyBlock
  /\ Filter!BlockedNameStopsFlow <=> FilterProofs!BlockedNameStopsFlow
  /\ Filter!JudgedInTurn <=> FilterProofs!JudgedInTurn
<1>1. \A pkt, flow : Filter!Inspect(pkt, flow) = FilterProofs!Inspect(pkt, flow)
  <2> SUFFICES ASSUME NEW pkt, NEW flow
               PROVE  FilterProofs!Inspect(pkt, flow) = Inspect(pkt, flow)
    BY FilterInspects
  <2>1. \A name : FilterProofs!SniToAppType(name) = SniToAppType(name)
    BY DEF FilterProofs!SniToAppType, SniToAppType, FilterProofs!SniMapping, SniMapping
  <2>2. \A seen : FilterProofs!Classify(pkt, seen) = Classify(pkt, seen)
    BY <2>1 DEF FilterProofs!Classify, Classify, FilterProofs!LabelUnknown, LabelUnknown,
                FilterProofs!HTTPS_PORT, FilterProofs!HTTP_PORT, FilterProofs!DNS_PORT,
                FilterProofs!TLS_MIN_PAYLOAD,
                HTTPS_PORT, HTTP_PORT, DNS_PORT, TLS_MIN_PAYLOAD
  <2>3. \A ip, app, sni : FilterProofs!IsBlocked(ip, app, sni) <=> IsBlocked(ip, app, sni)
    BY DEF FilterProofs!IsBlocked, IsBlocked
  <2> QED
    BY <2>2, <2>3 DEF FilterProofs!Inspect, Inspect
<1>2. /\ Filter!Packets = FilterProofs!Packets
      /\ \A p : /\ Filter!Earlier(p) = FilterProofs!Earlier(p)
                /\ Filter!HasFlow(p) <=> FilterProofs!HasFlow(p)
                /\ Filter!Written(p) <=> FilterProofs!Written(p)
  BY DEF Filter!Packets, Filter!Earlier, Filter!HasFlow, Filter!Written,
         FilterProofs!Packets, FilterProofs!Earlier, FilterProofs!HasFlow,
         FilterProofs!Written
<1>3. Filter!Init <=> FilterProofs!Init
  BY <1>2 DEF Filter!Init, Filter!NewFlow, FilterProofs!Init, FilterProofs!NewFlow
<1>4. Filter!Arrive <=> FilterProofs!Arrive
  BY DEF Filter!Arrive, FilterProofs!Arrive
<1>5. \A p : Filter!Decide(p) <=> FilterProofs!Decide(p)
  BY <1>1, <1>2 DEF Filter!Decide, FilterProofs!Decide
<1>6. \A p : Filter!PassThrough(p) <=> FilterProofs!PassThrough(p)
  BY DEF Filter!PassThrough, FilterProofs!PassThrough
<1>7. \A p : Filter!Emit(p) <=> FilterProofs!Emit(p)
  BY <1>2 DEF Filter!Emit, FilterProofs!Emit
<1>8. Filter!Next <=> FilterProofs!Next
  BY <1>2, <1>4, <1>5, <1>6, <1>7 DEF Filter!Next, FilterProofs!Next
<1>9. UNCHANGED Filter!vars <=> UNCHANGED FilterProofs!vars
  BY DEF Filter!vars, FilterProofs!vars
<1>10. Filter!StickyBlock <=> FilterProofs!StickyBlock
  BY <1>2 DEF Filter!StickyBlock, FilterProofs!StickyBlock
<1>11. \A p : Filter!ShowsName(p) <=> FilterProofs!ShowsName(p)
  BY <1>2 DEF Filter!ShowsName, Filter!HTTPS_PORT, Filter!HTTP_PORT,
              Filter!TLS_MIN_PAYLOAD, FilterProofs!ShowsName,
              FilterProofs!HTTPS_PORT, FilterProofs!HTTP_PORT,
              FilterProofs!TLS_MIN_PAYLOAD
<1>12. \A name : Filter!BlockedName(name) <=> FilterProofs!BlockedName(name)
  BY DEF Filter!BlockedName, Filter!SniToAppType, Filter!SniMapping,
         FilterProofs!BlockedName, FilterProofs!SniToAppType, FilterProofs!SniMapping
<1>13. Filter!BlockedNameStopsFlow <=> FilterProofs!BlockedNameStopsFlow
  BY <1>2, <1>11, <1>12
     DEF Filter!BlockedNameStopsFlow, FilterProofs!BlockedNameStopsFlow
<1>14. \A capture : Filter!FlowsOf(capture) = FilterProofs!FlowsOf(capture)
  <2>1. Filter!NewFlow = FilterProofs!NewFlow
    BY DEF Filter!NewFlow, FilterProofs!NewFlow
  <2> SUFFICES ASSUME NEW capture
               PROVE  Filter!FlowsOf(capture) = FilterProofs!FlowsOf(capture)
    OBVIOUS
  <2> DEFINE
        Judge(pkt, f) == IF pkt.parsed /\ pkt.tuple # NoTuple
                         THEN [f EXCEPT ![pkt.tuple] = Filter!Inspect(pkt, @)]
                         ELSE f
        JudgeToo(pkt, f) == IF pkt.parsed /\ pkt.tuple # NoTuple
                            THEN [f EXCEPT ![pkt.tuple] = FilterProofs!Inspect(pkt, @)]
                            ELSE f
        Rec(g) == [n \in 0..Len(capture) |->
                     IF n = 0 THEN [t \in Tuples |-> Filter!NewFlow]
                     ELSE Judge(capture[n], g[n-1])]
        RecToo(g) == [n \in 0..Len(capture) |->
                        IF n = 0 THEN [t \in Tuples |-> FilterProofs!NewFlow]
                        ELSE JudgeToo(capture[n], g[n-1])]
  <2>2. \A pkt, f : Judge(pkt, f) = JudgeToo(pkt, f)
    BY <1>1
  <2>3. Filter!FlowsOf(capture) = CHOOSE g : g = Rec(g)
    BY DEF Filter!FlowsOf
  <2>4. FilterProofs!FlowsOf(capture) = CHOOSE g : g = RecToo(g)
    BY DEF FilterProofs!FlowsOf
  <2> HIDE DEF Judge, JudgeToo
  <2>5. \A g : Rec(g) = RecToo(g)
    BY <2>1, <2>2
  <2> HIDE DEF Rec, RecToo
  <2>6. (CHOOSE g : g = Rec(g)) = (CHOOSE g : g = RecToo(g))
    BY <2>5, Zenon
  <2> QED
    BY <2>3, <2>4, <2>6
<1>15. Filter!JudgedInTurn <=> FilterProofs!JudgedInTurn
  BY <1>2, <1>14 DEF Filter!JudgedInTurn, FilterProofs!JudgedInTurn
<1> QED
  BY <1>3, <1>8, <1>9, <1>10, <1>13, <1>15

\* So what is proved of the filter holds of the engine.
LEMMA FilterHolds == Spec => FilterProofs!Spec
BY SimpleIsFilter, OneFilter, PTL DEF ImplementsFilter, Filter!Spec, FilterProofs!Spec

\* What the filter's theorems assume of its constants is assumed here too.
LEMMA FilterAssumptions ==
  /\ NoTuple \notin Tuples
  /\ DOMAIN SrcIp = Tuples
  /\ DstPort \in [Tuples -> Nat]
  /\ Hash \in [Tuples -> Int]
  /\ NoName \notin Names
  /\ DOMAIN Within = Names \cup {NoName}
  /\ Inputs \subseteq Seq(FilterProofs!PacketRecords)
  /\ DOMAIN Rules = {"ips", "apps", "domains"}
  /\ Rules.apps \subseteq FilterProofs!AppTypes
<1>1. FilterProofs!PacketRecords = PacketRecords
  BY DEF FilterProofs!PacketRecords, PacketRecords
<1>2. FilterProofs!AppTypes = AppTypes
  BY DEF FilterProofs!AppTypes, AppTypes
<1> QED
  BY <1>1, <1>2, TuplesAssumption, NamesAssumption, InputsAssumption, RulesAssumption

(***************************************************************************)
(* Once main_simple.py has dropped a packet of a flow, it lets no later    *)
(* packet of that flow through.                                            *)
(***************************************************************************)
THEOREM BlocksAreSticky == Spec => []Filter!StickyBlock
BY FilterAssumptions, FilterHolds, OneFilter, FilterProofs!BlocksAreSticky, PTL

(***************************************************************************)
(* A flow whose first name is blocked gets nothing through main_simple.py  *)
(* from the packet that shows the name onwards.                            *)
(***************************************************************************)
THEOREM BlockedNamesStop == Spec => []Filter!BlockedNameStopsFlow
BY FilterAssumptions, FilterHolds, OneFilter, FilterProofs!BlockedNamesStop, PTL

(***************************************************************************)
(* main_simple.py gives every packet the verdict that judging the capture  *)
(* one packet after the other with fast_path.py's classifier gives it:     *)
(* with the same theorem about the other engine, the two never disagree on *)
(* a packet that both have judged.                                         *)
(***************************************************************************)
THEOREM VerdictsFollowCapture == Spec => []JudgedInTurn
<1>1. Filter!JudgedInTurn <=> JudgedInTurn
  BY DEF JudgedInTurn
<1> QED
  BY <1>1, FilterAssumptions, FilterHolds, OneFilter,
     FilterProofs!VerdictsFollowCapture, PTL

=============================================================================
