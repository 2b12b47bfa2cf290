--------------------------- MODULE FastPathProofs ---------------------------
(***************************************************************************)
(* Facts about the classification of flows and about the verdict on a      *)
(* packet, for every traffic and every set of rules.                       *)
(***************************************************************************)
EXTENDS FastPath, WellFoundedInduction, TLAPS

\* Every entry of the keyword table names an application.
LEMMA SniMappingTypes ==
  /\ DOMAIN SniMapping = 1..24
  /\ \A k \in 1..24 : SniMapping[k][2] \in AppTypes
BY DEF SniMapping, AppTypes

\* A set of positions has a first one, so that the CHOOSE of SniToAppType
\* finds what the loop of the code finds.
LEMMA FirstHit ==
  ASSUME NEW hits, hits \subseteq 1..24, hits # {}
  PROVE  \E k \in hits : \A l \in hits : k <= l
<1>1. hits \subseteq Nat
  OBVIOUS
<1>2. PICK k \in hits : \A l \in hits : ~(<<l, k>> \in OpToRel(<, Nat))
  BY <1>1, NatLessThanWellFounded, WFMin
<1>3. \A l \in hits : ~(l < k)
  BY <1>1, <1>2 DEF OpToRel
<1> QED
  BY <1>1, <1>3

\* sni_to_app_type always returns an application.
LEMMA SniToAppTypeType == \A name : SniToAppType(name) \in AppTypes
<1> SUFFICES ASSUME NEW name PROVE SniToAppType(name) \in AppTypes
  OBVIOUS
<1> DEFINE hits == {k \in DOMAIN SniMapping : SniMapping[k][1] \in Within[name]}
           first == CHOOSE k \in hits : \A l \in hits : k <= l
<1>1. CASE hits = {}
  BY <1>1 DEF SniToAppType, AppTypes
<1>2. CASE hits # {}
  <2>1. hits \subseteq 1..24
    BY SniMappingTypes
  <2>2. first \in hits
    BY <1>2, <2>1, FirstHit
  <2>3. SniMapping[first][2] \in AppTypes
    BY <2>1, <2>2, SniMappingTypes
  <2> QED
    BY <1>2, <2>3 DEF SniToAppType
<1> QED
  BY <1>1, <1>2

\* A packet that has a tuple takes a flow to a flow.
LEMMA ClassifyType ==
  ASSUME NEW pkt \in PacketRecords, NEW flow \in Flows
  PROVE  Classify(pkt, flow) \in Flows
<1>1. SniToAppType(pkt.name) \in AppTypes
  BY SniToAppTypeType
<1>2. pkt.name \in Names \cup {NoName}
  BY DEF PacketRecords
<1>3. \A label \in AppTypes : LabelUnknown(flow, label) \in Flows
  BY DEF LabelUnknown, Flows
<1>4. {"HTTPS", "HTTP", "DNS"} \subseteq AppTypes
  BY DEF AppTypes
<1>5. [flow EXCEPT !.sni = pkt.name, !.app = SniToAppType(pkt.name)] \in Flows
  BY <1>1, <1>2 DEF Flows
<1>6. [flow EXCEPT !.host = pkt.name, !.sni = pkt.name,
                   !.app = SniToAppType(pkt.name)] \in Flows
  BY <1>1, <1>2 DEF Flows
<1> QED
  BY <1>3, <1>4, <1>5, <1>6 DEF Classify

LEMMA InspectType ==
  ASSUME NEW pkt \in PacketRecords, NEW flow \in Flows
  PROVE  Inspect(pkt, flow) \in Flows
<1> DEFINE counted == [flow EXCEPT !.packets = @ + 1]
           seen    == IF counted.blocked THEN counted ELSE Classify(pkt, counted)
<1>1. counted \in Flows
  BY DEF Flows
<1>2. seen \in Flows
  BY <1>1, ClassifyType
<1>3. IsBlocked(SrcIp[pkt.tuple], seen.app, seen.sni) \in BOOLEAN
  BY DEF IsBlocked
<1> HIDE DEF counted, seen
<1>4. [seen EXCEPT !.blocked = @ \/ IsBlocked(SrcIp[pkt.tuple], seen.app, seen.sni)] \in Flows
  BY <1>2, <1>3 DEF Flows
<1> QED
  BY <1>4 DEF Inspect, counted, seen

\* A blocked flow stays blocked.
LEMMA InspectKeepsBlock ==
  ASSUME NEW pkt \in PacketRecords, NEW flow \in Flows, flow.blocked
  PROVE  Inspect(pkt, flow).blocked
BY DEF Inspect, Flows

LEMMA NewFlowType == NewFlow \in Flows
BY DEF NewFlow, Flows, AppTypes

=============================================================================
