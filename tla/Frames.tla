------------------------------- MODULE Frames -------------------------------
(***************************************************************************)
(* Captured frames, put together from their headers the way                *)
(* generate_test_pcap.py does it, so that what a parser should find in a   *)
(* frame is known without reading its bytes.  A frame is a record with     *)
(*   ethertype, version, ihl, protocol, doff   fields of the headers       *)
(*   src, dst    addresses, four octets each                               *)
(*   ports       source and destination port                               *)
(*   body        what TCP or UDP carries: a [kind, hello] of ClientHello,  *)
(*               a [kind, request] (see EncodeRequest), or [kind, size]    *)
(*   padded      was it filled up to the least size of an Ethernet frame?  *)
(*   cut         how much is missing at its end                            *)
(***************************************************************************)
EXTENDS ClientHello, HTTPHostExtractor

EthernetHeader(w) == Zeros(12) \o U16(w.ethertype)

IpHeader(w, size) ==
  <<16 * w.version + w.ihl, 0>> \o U16(4 * w.ihl + size) \o Zeros(5)
    \o <<w.protocol>> \o Zeros(2) \o w.src \o w.dst \o Zeros(4 * (w.ihl - 5))

IpPacket(w, segment) == IpHeader(w, Len(segment)) \o segment

TcpHeader(w) ==
  U16(w.ports[1]) \o U16(w.ports[2]) \o Zeros(8) \o <<16 * w.doff, 2>> \o Zeros(6)
    \o Zeros(4 * (w.doff - 5))

UdpHeader(w, size) ==
  U16(w.ports[1]) \o U16(w.ports[2]) \o U16(8 + size) \o Zeros(2)

\* A colon, or nothing but blanks up to the end of a line, or of everything.
EndsName(rest) ==
  \/ rest # <<>> /\ rest[1] = COLON
  \/ \E n \in 0..Len(rest) :
       /\ \A k \in 1..n : rest[k] \in White
       /\ \/ n = Len(rest)
          \/ n + 1 < Len(rest) /\ rest[n + 1] = CR /\ rest[n + 2] = LF

(***************************************************************************)
(* A request with a Host header, or with none:                             *)
(*   decoy   is there a header like X-Forwarded-Host before it?            *)
(*   spaced  is there a space between "Host:" and the name?                *)
(*   host    the name                                                      *)
(*   rest    what follows it: a port, blanks, the ends of lines            *)
(***************************************************************************)
IsRequest(r) ==
  /\ r.decoy \in BOOLEAN /\ r.spaced \in BOOLEAN
  /\ r.host \in Seq(U8Values \ (White \cup {COLON}))
  /\ r.rest \in Seq(U8Values) /\ EndsName(r.rest)

EncodeRequest(r) ==
  <<METHOD, 47, CR, LF>>
    \o (IF r.decoy THEN <<120, HOST, 122, CR, LF>> ELSE <<>>)
    \o (IF r.spaced THEN <<HOST>> ELSE <<104, COLON>>) \o r.host \o r.rest

Body(w) ==
  CASE w.body.kind = "hello"   -> Encode(w.body.hello)
    [] w.body.kind = "request" -> EncodeRequest(w.body.request)
    [] w.body.kind = "raw"     -> Zeros(w.body.size)

\* Fields that fit into their place in the headers.  A request, of which some
\* symbols stand for a whole word, is never too short for a frame.
IsFrame(w) ==
  /\ w.ethertype \in U16Values /\ w.version \in 0..15 /\ w.ihl \in 0..15
  /\ w.protocol \in U8Values /\ w.doff \in 0..15
  /\ w.src \in [1..4 -> U8Values] /\ w.dst \in [1..4 -> U8Values]
  /\ w.ports \in [1..2 -> U16Values]
  /\ w.body.kind \in {"hello", "request", "raw"}
  /\ w.body.kind = "hello" => IsHello(w.body.hello)
  /\ w.body.kind = "request" => IsRequest(w.body.request) /\ ~w.padded
  /\ w.body.kind = "raw" => w.body.size \in Nat
  /\ w.cut \in Nat

IsTcp(w) == w.protocol = 6
IsUdp(w) == w.protocol = 17
HasPorts(w) == IsTcp(w) \/ IsUdp(w)

Segment(w) ==
  LET header == IF IsTcp(w) THEN TcpHeader(w)
                ELSE IF IsUdp(w) THEN UdpHeader(w, Len(Body(w))) ELSE <<>>
  IN  header \o Body(w)

\* The frame as it was sent.
Sent(w) == EthernetHeader(w) \o IpPacket(w, Segment(w))

\* What is added at the end of a short frame.
Padding(w) ==
  IF w.padded THEN Zeros(60 - Len(Sent(w))) ELSE <<>>

\* The frame as it is found in the capture.
Captured(w) == Without(Sent(w) \o Padding(w), w.cut)

\* A frame of which all headers are right, and there up to the options of TCP.
WellFormed(w) ==
  /\ w.ethertype = 2048 /\ w.version = 4 /\ w.ihl >= 5
  /\ w.cut <= Len(Body(w)) + Len(Padding(w))
                + (IF IsTcp(w) /\ w.doff > 5 THEN 4 * (w.doff - 5) ELSE 0)

\* A request as the builder writes it: no header before Host has a name that
\* ends so, and Host has a space behind its colon.
Plain(r) == ~r.decoy /\ r.spaced

\* The name in a frame that goes to one of the two ports where names are
\* looked for: the first host name of a Client Hello, the value of the Host
\* header of a request; the empty name if there is none.
NameIn(w) ==
  CASE HasPorts(w) /\ w.body.kind = "hello" /\ w.ports[2] = 443 ->
         IF ServerName(w.body.hello) = None THEN <<>> ELSE ServerName(w.body.hello)
    [] HasPorts(w) /\ w.body.kind = "request" /\ w.ports[2] = 80 ->
         w.body.request.host
    [] OTHER -> <<>>

=============================================================================
