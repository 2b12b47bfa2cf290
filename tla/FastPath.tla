------------------------------ MODULE FastPath ------------------------------
(***************************************************************************)
(* What a Fast Path thread does with one packet once it has popped it      *)
(* (fast_path.py): count it in its flow, classify the flow, and decide     *)
(* whether the flow is blocked.  The thread itself is in FastPathThread.   *)
(***************************************************************************)
EXTENDS RuleManager

HTTPS_PORT == 443
HTTP_PORT  == 80
DNS_PORT   == 53

TLS_MIN_PAYLOAD == 6  \* shorter payloads are never tried as a Client Hello

\* The label a flow gets when its packets show no name.
LabelUnknown(flow, label) ==
  IF flow.app = "UNKNOWN" THEN [flow EXCEPT !.app = label] ELSE flow

\* _classify: the first name seen on the port decides the application; until
\* there is one, the flow is labelled after the port.
Classify(pkt, flow) ==
  LET port == DstPort[pkt.tuple]
      app  == SniToAppType(pkt.name)
  IN  CASE port = HTTPS_PORT /\ pkt.size >= TLS_MIN_PAYLOAD ->
             IF flow.sni = NoName /\ pkt.name # NoName
             THEN [flow EXCEPT !.sni = pkt.name, !.app = app]
             ELSE LabelUnknown(flow, "HTTPS")
        [] port = HTTP_PORT /\ pkt.size > 0 ->
             IF flow.host = NoName /\ pkt.name # NoName
             THEN [flow EXCEPT !.host = pkt.name, !.sni = pkt.name, !.app = app]
             ELSE LabelUnknown(flow, "HTTP")
        [] port = DNS_PORT -> LabelUnknown(flow, "DNS")
        [] OTHER -> flow

\* Mutant: the verdict on the packet is not remembered in its flow, and the
\* flow is judged afresh for every packet.
InspectMutant(pkt, flow) ==
  LET counted == [flow EXCEPT !.packets = @ + 1]
      seen    == Classify(pkt, counted)
  IN  [seen EXCEPT !.blocked = IsBlocked(SrcIp[pkt.tuple], seen.app, pkt.name)]

\* The flow after one more packet; the packet is dropped iff it is blocked.
Inspect(pkt, flow) ==
  LET counted == [flow EXCEPT !.packets = @ + 1]
      seen    == IF counted.blocked THEN counted ELSE Classify(pkt, counted)
  IN  [seen EXCEPT !.blocked =
         @ \/ IsBlocked(SrcIp[pkt.tuple], seen.app, seen.sni)]

=============================================================================
