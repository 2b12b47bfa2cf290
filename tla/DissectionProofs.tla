-------------------------- MODULE DissectionProofs --------------------------
(***************************************************************************)
(* Theorems about the way from the bytes of a frame to the verdict on it,  *)
(* for every frame.                                                        *)
(***************************************************************************)
EXTENDS Dissection, SequenceProofs, SequenceTheorems, WellFoundedInduction

-----------------------------------------------------------------------------
(* The parser by itself *)

OctetValues == 0..255

\* ParsedPacket, as far as the engines read it.
ParsedPackets ==
  [ src : Seq(OctetValues), dst : Seq(OctetValues), protocol : OctetValues,
    ports : Seq(Nat), payload : Seq(OctetValues) ]

ParserType ==
  /\ frame \in Seq(OctetValues)
  /\ parsed \in ParsedPackets
  /\ stage \in {"ethernet", "ip", "tcp", "udp", "parsed", "rejected"}
  /\ reach \in Nat

\* Behind the IP header the addresses are known.
IpHeaderRead ==
  stage \in {"tcp", "udp", "parsed"} => Len(parsed.src) = 4 /\ Len(parsed.dst) = 4

\* What is accepted has ports exactly if it is TCP or UDP.
HasItsPorts ==
  stage = "parsed" =>
    Len(parsed.ports) = IF parsed.protocol \in {PROTO_TCP, PROTO_UDP} THEN 2 ELSE 0

ParserInv ==
  /\ ParserType /\ NoReadPastFrame /\ IpHeaderRead /\ HasItsPorts
  /\ stage \in {"tcp", "udp"} =>
       parsed.protocol = (IF stage = "tcp" THEN PROTO_TCP ELSE PROTO_UDP)
  /\ stage \in {"ethernet", "ip", "tcp", "udp"} => parsed.ports = <<>>

-----------------------------------------------------------------------------
(* What is read from a frame *)

\* A byte of the frame is an octet; beyond the frame the model reads 0.
LEMMA OctetIsOctet ==
  ASSUME frame \in Seq(OctetValues), NEW o \in Nat PROVE Octet(o) \in OctetValues
<1>1. Len(frame) \in Nat /\ \A i \in 1..Len(frame) : frame[i] \in OctetValues
  OBVIOUS
<1>2. CASE o < Len(frame)
  <2>1. o + 1 \in 1..Len(frame)
    BY <1>1, <1>2
  <2> QED
    BY <1>1, <1>2, <2>1 DEF Octet
<1>3. CASE ~(o < Len(frame))
  BY <1>3 DEF Octet, OctetValues
<1> QED
  BY <1>2, <1>3

\* A word of the frame is a number.
LEMMA WordIsNumber ==
  ASSUME frame \in Seq(OctetValues), NEW o \in Nat PROVE Word(o) \in Nat
<1>1. Octet(o) \in OctetValues /\ Octet(o + 1) \in OctetValues
  BY OctetIsOctet
<1>2. \A a, b \in 0..255 : 256 * a + b \in Nat
  OBVIOUS
<1> QED
  BY <1>1, <1>2 DEF Word, OctetValues

\* The length of the IP header is a number of up to 60.
LEMMA TransportFollowsIp ==
  ASSUME frame \in Seq(OctetValues)
  PROVE  IpHeaderLen \in Nat /\ TransportOffset \in Nat
<1>1. Octet(14) \in 0..255
  BY OctetIsOctet DEF OctetValues
<1>2. \A a \in 0..255 : a % 16 \in Nat
  OBVIOUS
<1>3. Octet(14) % 16 \in Nat
  BY <1>1, <1>2
<1> QED
  BY <1>3 DEF IpHeaderLen, TransportOffset, ETHERNET_HEADER_SIZE

\* Four octets in the frame are four octets.
LEMMA OctetsOfAddress ==
  ASSUME frame \in Seq(OctetValues), NEW o \in Nat, o + 4 <= Len(frame)
  PROVE  Octets(o, 4) \in Seq(OctetValues) /\ Len(Octets(o, 4)) = 4
<1>1. o + 1 \in 1..(Len(frame) + 1) /\ o + 4 \in o..Len(frame)
  BY LenProperties
<1>2. /\ SubSeq(frame, o + 1, o + 4) \in Seq(OctetValues)
      /\ Len(SubSeq(frame, o + 1, o + 4)) = 4
  BY <1>1
<1> QED
  BY <1>2 DEF Octets

\* What is left of a frame is a sequence of octets, also if nothing is.
LEMMA RestOfFrame ==
  ASSUME frame \in Seq(OctetValues), NEW o \in Nat
  PROVE  SubSeq(frame, o + 1, Len(frame)) \in Seq(OctetValues)
<1>1. Len(frame) \in Nat /\ \A i \in 1..Len(frame) : frame[i] \in OctetValues
  OBVIOUS
<1>2. \A i \in (o + 1)..Len(frame) : i \in 1..Len(frame)
  BY <1>1
<1> QED
  BY <1>1, <1>2

-----------------------------------------------------------------------------
(* Each header keeps the invariant *)

\* Rejecting a frame keeps the invariant if the bytes looked at are there.
LEMMA RejectStep ==
  ASSUME ParserInv, NEW n \in Nat, n <= Len(frame), Reject(n) PROVE ParserInv'
<1>1. /\ stage' = "rejected" /\ reach' = n /\ frame' = frame /\ parsed' = parsed
  BY DEF Reject
<1> QED
  BY <1>1 DEF ParserInv, ParserType, NoReadPastFrame, IpHeaderRead, HasItsPorts

\* The step past the Ethernet header keeps the invariant.
LEMMA EthernetStep == ASSUME ParserInv, Ethernet PROVE ParserInv'
<1>1. Len(frame) \in Nat
  BY LenProperties DEF ParserInv, ParserType
<1>2. CASE Reject(0) \/ (~Lacks(14) /\ Reject(14))
  BY <1>1, <1>2, RejectStep DEF Lacks
<1>3. CASE /\ ~Lacks(14) /\ stage = "ethernet" /\ stage' = "ip" /\ reach' = 14
           /\ UNCHANGED <<frame, parsed>>
  BY <1>1, <1>3 DEF ParserInv, ParserType, NoReadPastFrame, IpHeaderRead,
                    HasItsPorts, Lacks
<1> QED
  BY <1>2, <1>3 DEF Ethernet, ETHERNET_HEADER_SIZE

\* The step past the IP header keeps the invariant.
LEMMA IPv4Step == ASSUME ParserInv, IPv4 PROVE ParserInv'
<1>1. Len(frame) \in Nat /\ frame \in Seq(OctetValues) /\ parsed \in ParsedPackets
  BY LenProperties DEF ParserInv, ParserType
<1>2. CASE Reject(0) \/ (~Lacks(34) /\ Reject(34))
  BY <1>1, <1>2, RejectStep DEF Lacks
<1>3. CASE /\ ~Lacks(34) /\ stage = "ip"
           /\ parsed' = [parsed EXCEPT !.protocol = Octet(23),
                                       !.src = Octets(26, 4), !.dst = Octets(30, 4)]
           /\ stage' = CASE Octet(23) = PROTO_TCP -> "tcp"
                         [] Octet(23) = PROTO_UDP -> "udp"
                         [] OTHER -> "parsed"
           /\ reach' = 34
           /\ UNCHANGED frame
  <2>1. Len(frame) >= 34
    BY <1>1, <1>3 DEF Lacks
  <2>2. /\ Octets(26, 4) \in Seq(OctetValues) /\ Len(Octets(26, 4)) = 4
        /\ Octets(30, 4) \in Seq(OctetValues) /\ Len(Octets(30, 4)) = 4
    BY <1>1, <2>1, OctetsOfAddress
  <2>3. Octet(23) \in OctetValues
    BY <1>1, OctetIsOctet
  <2>4. /\ parsed' \in ParsedPackets
        /\ parsed'.protocol = Octet(23)
        /\ parsed'.src = Octets(26, 4) /\ parsed'.dst = Octets(30, 4)
        /\ parsed'.ports = parsed.ports
    BY <1>1, <1>3, <2>2, <2>3 DEF ParsedPackets
  <2>5. parsed.ports = <<>>
    BY <1>3 DEF ParserInv
  <2>6. /\ stage' \in {"tcp", "udp", "parsed"}
        /\ stage' = "tcp" <=> Octet(23) = PROTO_TCP
        /\ stage' = "udp" <=> Octet(23) = PROTO_UDP
    BY <1>3 DEF PROTO_TCP, PROTO_UDP
  <2> QED
    BY <1>1, <1>3, <2>1, <2>2, <2>4, <2>5, <2>6
    DEF ParserInv, ParserType, NoReadPastFrame, IpHeaderRead, HasItsPorts
<1> QED
  BY <1>2, <1>3 DEF IPv4, ETHERNET_HEADER_SIZE, IPV4_MIN_HEADER_SIZE

\* The step past the header of TCP or UDP keeps the invariant.
LEMMA TransportStep ==
  ASSUME ParserInv, NEW here \in {"tcp", "udp"}, NEW least \in Nat, NEW size \in Nat,
         Transport(here, least, size)
  PROVE  ParserInv'
<1>1. Len(frame) \in Nat /\ frame \in Seq(OctetValues) /\ parsed \in ParsedPackets
  BY LenProperties DEF ParserInv, ParserType
<1>2. TransportOffset \in Nat
  BY <1>1, TransportFollowsIp
<1>3. CASE Reject(0)
  BY <1>1, <1>3, RejectStep
<1>4. CASE /\ ~Lacks(TransportOffset + least) /\ stage = here
           /\ parsed' = [parsed EXCEPT
                !.ports   = <<Word(TransportOffset), Word(TransportOffset + 2)>>,
                !.payload = SubSeq(frame, TransportOffset + size + 1, Len(frame))]
           /\ stage' = "parsed"
           /\ reach' = TransportOffset + least
           /\ UNCHANGED frame
  <2>1. Word(TransportOffset) \in Nat /\ Word(TransportOffset + 2) \in Nat
    <3>1. TransportOffset + 2 \in Nat
      BY <1>2
    <3> QED
      BY <1>1, <1>2, <3>1, WordIsNumber
  <2>2. SubSeq(frame, TransportOffset + size + 1, Len(frame)) \in Seq(OctetValues)
    <3>1. TransportOffset + size \in Nat
      BY <1>2
    <3> QED
      BY <1>1, <3>1, RestOfFrame
  <2>3. /\ parsed' \in ParsedPackets
        /\ parsed'.protocol = parsed.protocol
        /\ parsed'.src = parsed.src /\ parsed'.dst = parsed.dst
        /\ Len(parsed'.ports) = 2
    <3>1. DEFINE ports == <<Word(TransportOffset), Word(TransportOffset + 2)>>
    <3>2. ports \in Seq(Nat) /\ Len(ports) = 2
      BY <2>1
    <3>3. /\ parsed' = [parsed EXCEPT !.ports = ports,
                !.payload = SubSeq(frame, TransportOffset + size + 1, Len(frame))]
      BY <1>4
    <3> HIDE DEF ports
    <3>4. parsed'.ports = ports
      BY <1>1, <3>3 DEF ParsedPackets
    <3> QED
      BY <1>1, <2>2, <3>2, <3>3, <3>4 DEF ParsedPackets
  <2>4. parsed.protocol \in {PROTO_TCP, PROTO_UDP}
    BY <1>4 DEF ParserInv
  <2>5. reach' \in Nat /\ reach' <= Len(frame)
    BY <1>1, <1>2, <1>4 DEF Lacks
  <2> QED
    BY <1>1, <1>4, <2>3, <2>4, <2>5
    DEF ParserInv, ParserType, NoReadPastFrame, IpHeaderRead, HasItsPorts
<1> QED
  BY <1>3, <1>4 DEF Transport

\* The length of the TCP header is at least the least one.
LEMMA TcpLengthIsNumber ==
  ASSUME frame \in Seq(OctetValues) PROVE TcpHeaderLen \in Nat
<1>1. TransportOffset + 12 \in Nat
  BY TransportFollowsIp
<1>2. Octet(TransportOffset + 12) \in 0..255
  BY <1>1, OctetIsOctet DEF OctetValues
<1>3. \A a \in 0..255 : a \div 16 \in Nat
  OBVIOUS
<1>4. Octet(TransportOffset + 12) \div 16 \in Nat
  BY <1>2, <1>3
<1> QED
  BY <1>4 DEF TcpHeaderLen, TCP_MIN_HEADER_SIZE

\* The invariant of the parser holds.
LEMMA ParserInvHolds == ParserSpec => []ParserInv
<1>1. ASSUME frame \in Seq(0..255), ParserStart PROVE ParserInv
  <2>1. parsed \in ParsedPackets /\ parsed.ports = <<>>
    BY <1>1 DEF ParserStart, Unparsed, ParsedPackets, OctetValues
  <2>2. Len(frame) \in Nat
    BY <1>1
  <2> QED
    BY <1>1, <2>1, <2>2 DEF ParserStart, ParserInv, ParserType, NoReadPastFrame,
                            IpHeaderRead, HasItsPorts, OctetValues
<1>2. ASSUME ParserInv, [Parse]_parserVars PROVE ParserInv'
  <2>1. CASE Ethernet
    BY <1>2, <2>1, EthernetStep
  <2>2. CASE IPv4
    BY <1>2, <2>2, IPv4Step
  <2>3. CASE Tcp
    <3>1. TcpHeaderLen \in Nat
      BY <1>2, TcpLengthIsNumber DEF ParserInv, ParserType
    <3> QED
      BY <1>2, <2>3, <3>1, TransportStep DEF Tcp, TCP_MIN_HEADER_SIZE
  <2>4. CASE Udp
    BY <1>2, <2>4, TransportStep DEF Udp, UDP_HEADER_SIZE
  <2>5. CASE UNCHANGED parserVars
    BY <1>2, <2>5 DEF parserVars, ParserInv, ParserType, NoReadPastFrame,
                      IpHeaderRead, HasItsPorts
  <2> QED
    BY <1>2, <2>1, <2>2, <2>3, <2>4, <2>5 DEF Parse
<1> QED
  BY <1>1, <1>2, PTL DEF ParserSpec

(***************************************************************************)
(* Whatever the headers of a frame say and wherever it ends, no read of    *)
(* PacketParser.parse goes past its end.                                   *)
(***************************************************************************)
THEOREM ReadsStayInFrame == ParserSpec => []NoReadPastFrame
<1>1. ParserInv => NoReadPastFrame
  BY DEF ParserInv
<1> QED
  BY <1>1, ParserInvHolds, PTL

(***************************************************************************)
(* A packet that parse accepts has two addresses of four octets, and two   *)
(* ports exactly if its protocol is TCP or UDP: what make_five_tuple and   *)
(* the engines rely on without a test.                                     *)
(***************************************************************************)
THEOREM AcceptedIsComplete ==
  ParserSpec => [](stage = "parsed" =>
    /\ Len(parsed.src) = 4 /\ Len(parsed.dst) = 4
    /\ Len(parsed.ports) = IF parsed.protocol \in {PROTO_TCP, PROTO_UDP} THEN 2 ELSE 0)
<1>1. ParserInv => (stage = "parsed" =>
        /\ Len(parsed.src) = 4 /\ Len(parsed.dst) = 4
        /\ Len(parsed.ports) = IF parsed.protocol \in {PROTO_TCP, PROTO_UDP} THEN 2 ELSE 0)
  BY DEF ParserInv, IpHeaderRead, HasItsPorts
<1> QED
  BY <1>1, ParserInvHolds, PTL

-----------------------------------------------------------------------------
(* The extractor by itself *)

\* A payload is a function from positions to bytes.
LEMMA BytesOfPayload ==
  ASSUME payload \in Seq(Bytes)
  PROVE  /\ Len(payload) \in Nat
         /\ \A i \in 1..Len(payload) : payload[i] \in Bytes
<1>1. Len(payload) \in Nat
  OBVIOUS
<1>2. ASSUME NEW i \in 1..Len(payload) PROVE payload[i] \in Bytes
  BY <1>2
<1> QED BY <1>1, <1>2

\* What is read from a payload of bytes is a number.
LEMMA ByteIsNumber ==
  ASSUME payload \in Seq(Bytes), NEW o \in Nat
  PROVE  Byte(o) \in Nat
<1>1. CASE o < Len(payload)
  <2>1. Byte(o) = payload[o + 1]
    BY <1>1 DEF Byte
  <2>2. o + 1 \in 1..Len(payload)
    BY <1>1, BytesOfPayload
  <2>3. payload[o + 1] \in Bytes
    BY <2>2, BytesOfPayload
  <2> QED BY <2>1, <2>3 DEF Bytes
<1>2. CASE ~(o < Len(payload))
  BY <1>2 DEF Byte
<1> QED BY <1>1, <1>2

\* A word of the payload is a number.
LEMMA U16IsNumber ==
  ASSUME payload \in Seq(Bytes), NEW o \in Nat
  PROVE  U16At(o) \in Nat
<1>1. Byte(o) \in Nat /\ Byte(o + 1) \in Nat
  BY ByteIsNumber, SMTT(30)
<1> QED BY <1>1 DEF U16At

\* A slice of a payload of bytes is a sequence of bytes.
LEMMA SliceType ==
  ASSUME payload \in Seq(Bytes), NEW o \in Nat, NEW n \in Nat
  PROVE  Slice(o, n) \in Seq(Bytes)
<1> DEFINE end == IF o + n <= Len(payload) THEN o + n ELSE Len(payload)
<1>1. Len(payload) \in Nat /\ \A i \in 1..Len(payload) : payload[i] \in Bytes
  BY BytesOfPayload
<1>2. end \in Nat /\ end <= Len(payload)
  BY <1>1
<1>3. \A k \in (o + 1)..end : payload[k] \in Bytes
  <2> SUFFICES ASSUME NEW k \in (o + 1)..end PROVE payload[k] \in Bytes
    OBVIOUS
  <2>1. k \in 1..Len(payload)
    BY <1>1, <1>2
  <2> QED BY <1>1, <2>1
<1> HIDE DEF end
<1>4. SubSeq(payload, o + 1, end) \in Seq(Bytes)
  BY <1>1, <1>2, <1>3
<1> QED
  BY <1>4 DEF Slice, end

-----------------------------------------------------------------------------

\* The invariant behind the theorems.
Inv == TypeOK /\ NoReadPastEnd

\* The invariant of the extractor holds at its start ...
LEMMA InitInv == Init => Inv
BY DEF Init, Start, Inv, TypeOK, NoReadPastEnd

\* A step that returns None, after reading within the payload or nothing.
LEMMA ReturnStep ==
  ASSUME Inv, Return(None), seen' = seen \/ (seen' \in Nat /\ seen' <= Len(payload))
  PROVE  Inv' /\ pc' = "done"
BY DEF Inv, TypeOK, NoReadPastEnd, Return

\* A step past a field of n bytes, and the data it announces.
LEMMA MoveStep ==
  ASSUME Inv, NEW n \in Nat \ {0}, NEW size \in Nat,
         NEW there \in {"handshake", "fixed", "session", "ciphers",
                        "compression", "extensions"},
         ~Short(n), seen' = offset + n,
         MoveOn(n + size, there), UNCHANGED <<extEnd, listEnd>>
  PROVE  Inv' /\ offset' > offset
<1>1. Len(payload) \in Nat /\ payload' = payload
  BY DEF Inv, TypeOK, MoveOn
<1> QED
  BY <1>1 DEF Inv, TypeOK, NoReadPastEnd, MoveOn, Short

\* A field of n bytes that is there has been read within the payload.
LEMMA ReadStep ==
  ASSUME Inv, NEW n \in Nat, ~Short(n), seen' = offset + n
  PROVE  seen' \in Nat /\ seen' <= Len(payload)
<1>1. Len(payload) \in Nat
  BY DEF Inv, TypeOK
<1> QED
  BY <1>1 DEF Inv, TypeOK, Short

\* ... every step keeps it, and goes forward or returns ...
LEMMA StepInv == Inv /\ Next => Inv' /\ (offset' > offset \/ pc' = "done")
<1> SUFFICES ASSUME Inv, Next PROVE Inv' /\ (offset' > offset \/ pc' = "done")
  OBVIOUS
<1>0. /\ payload \in Seq(Bytes) /\ offset \in Nat /\ Len(payload) \in Nat
      /\ seen \in Nat /\ seen <= Len(payload)
  BY DEF Inv, TypeOK, NoReadPastEnd
<1>a. /\ Byte(offset) \in Nat /\ U16At(offset) \in Nat
      /\ U16At(offset + 1) \in Nat /\ U16At(offset + 2) \in Nat
  <2>1. offset + 1 \in Nat /\ offset + 2 \in Nat
    BY <1>0
  <2> QED BY <1>0, <2>1, ByteIsNumber, U16IsNumber
<1>1. CASE RecordHeader
  <2>1. \/ Return(None) /\ UNCHANGED seen
        \/ ~Short(5) /\ seen' = offset + 5 /\ Return(None)
        \/ /\ ~Short(5) /\ seen' = offset + 5
           /\ MoveOn(5 + 0, "handshake") /\ UNCHANGED <<extEnd, listEnd>>
    BY <1>1 DEF RecordHeader, Field, Refuse
  <2> QED
    BY <1>a, <2>1, ReturnStep, MoveStep, ReadStep
<1>2. CASE HandshakeHeader
  <2>1. \/ Return(None) /\ UNCHANGED seen
        \/ ~Short(4) /\ seen' = offset + 4 /\ Return(None)
        \/ /\ ~Short(4) /\ seen' = offset + 4
           /\ MoveOn(4 + 0, "fixed") /\ UNCHANGED <<extEnd, listEnd>>
    BY <1>2 DEF HandshakeHeader, Field, Refuse
  <2> QED
    BY <1>a, <2>1, ReturnStep, MoveStep, ReadStep
<1>3. CASE VersionAndRandom
  <2>1. \/ Return(None) /\ UNCHANGED seen
        \/ /\ ~Short(34) /\ seen' = offset + 34
           /\ MoveOn(34 + 0, "session") /\ UNCHANGED <<extEnd, listEnd>>
    BY <1>3 DEF VersionAndRandom, Field
  <2> QED
    BY <1>a, <2>1, ReturnStep, MoveStep, SMTT(30)
<1>4. CASE SessionId
  <2>1. \/ Return(None) /\ UNCHANGED seen
        \/ /\ ~Short(1) /\ seen' = offset + 1
           /\ MoveOn(1 + Byte(offset), "ciphers") /\ UNCHANGED <<extEnd, listEnd>>
    BY <1>4 DEF SessionId, Field
  <2> QED
    BY <1>a, <2>1, ReturnStep, MoveStep
<1>5. CASE CipherSuites
  <2>1. \/ Return(None) /\ UNCHANGED seen
        \/ /\ ~Short(2) /\ seen' = offset + 2
           /\ MoveOn(2 + U16At(offset), "compression") /\ UNCHANGED <<extEnd, listEnd>>
    BY <1>5 DEF CipherSuites, Field
  <2> QED
    BY <1>a, <2>1, ReturnStep, MoveStep
<1>6. CASE CompressionMethods
  <2>1. \/ Return(None) /\ UNCHANGED seen
        \/ /\ ~Short(1) /\ seen' = offset + 1
           /\ MoveOn(1 + Byte(offset), "extensions") /\ UNCHANGED <<extEnd, listEnd>>
    BY <1>6 DEF CompressionMethods, Field
  <2> QED
    BY <1>a, <2>1, ReturnStep, MoveStep
<1> USE DEF Inv, TypeOK, NoReadPastEnd, Return, MoveOn, Short
<1>7. CASE ExtensionsLength
  BY <1>0, <1>a, <1>7, SMTT(30) DEF ExtensionsLength
<1>8. CASE OtherExtension
  BY <1>0, <1>a, <1>8 DEF OtherExtension, MoreExtensions
<1>9. CASE SniExtension
  BY <1>0, <1>9 DEF SniExtension, MoreExtensions
<1>10. CASE NoMoreExtensions
  BY <1>10 DEF NoMoreExtensions
<1>11. CASE ListLength
  BY <1>0, <1>a, <1>11, SMTT(30) DEF ListLength
<1>12. CASE OtherEntry
  BY <1>0, <1>a, <1>12 DEF OtherEntry, MoreEntries
<1>13. CASE HostName
  <2> DEFINE size == U16At(offset + 1)
  <2>1. size \in Nat
    BY <1>a
  <2>2. Slice(offset + 3, size) \in Seq(Bytes)
    BY <1>0, <2>1, SliceType
  <2> HIDE DEF size
  <2>3. CASE seen' = offset + 3 /\ Return(None)
    BY <1>0, <1>13, <2>3 DEF HostName, MoreEntries
  <2>4. CASE /\ ~Short(3 + size) /\ seen' = offset + 3 + size
             /\ Return(Slice(offset + 3, size))
    BY <1>0, <2>1, <2>2, <2>4
  <2> QED
    BY <1>13, <2>3, <2>4 DEF HostName, size
<1>14. CASE NoMoreEntries
  BY <1>14 DEF NoMoreEntries
<1> QED
  BY <1>1, <1>2, <1>3, <1>4, <1>5, <1>6, <1>7, <1>8, <1>9, <1>10, <1>11,
     <1>12, <1>13, <1>14 DEF Next

\* ... and so does standing still.
LEMMA NextInv == Inv /\ [Next]_vars => Inv'
<1>1. Inv /\ UNCHANGED vars => Inv'
  BY DEF Inv, TypeOK, NoReadPastEnd, vars
<1> QED
  BY <1>1, StepInv

(***************************************************************************)
(* No payload, however it lies about its lengths, makes the extractor read *)
(* a byte that is not there, and what it returns is None or bytes.         *)
(***************************************************************************)
THEOREM ReadsStayInside == Spec => [](TypeOK /\ NoReadPastEnd)
<1>1. Inv => TypeOK /\ NoReadPastEnd
  BY DEF Inv
<1> QED
  BY <1>1, InitInv, NextInv, PTL DEF Spec

(***************************************************************************)
(* No payload keeps the extractor in one of its loops: every step moves    *)
(* the offset forward or returns.                                          *)
(***************************************************************************)
THEOREM EveryStepAdvances == Spec => MovesForward
<1>1. Inv /\ [Next]_vars => [offset' > offset \/ pc' = "done"]_vars
  BY StepInv
<1> QED
  BY <1>1, InitInv, NextInv, PTL DEF Spec, MovesForward

-----------------------------------------------------------------------------
(* The bytes of a frame as it was sent *)

\* f[k] is what the first k sequences of e make, put behind one another.
Flattens(f, n, e, S) ==
  /\ f \in [0..n -> Seq(S)] /\ f[0] = <<>> /\ f[n] = FlattenSeq(e)
  /\ \A k \in 1..n : f[k] = f[k-1] \o e[k]

\* Sequences are put behind one another step by step.
LEMMA FlatSteps ==
  ASSUME NEW S, NEW n \in Nat, NEW e \in [1..n -> Seq(S)]
  PROVE  \E f : Flattens(f, n, e, S)
<1> DEFINE step == [k \in 1..n |-> [v \in Seq(S) |-> v \o e[k]]]
           f[i \in 1..Len(e)] == IF i = 1 THEN e[i] ELSE f[i-1] \o e[i]
<1>1. Len(e) = n /\ <<>> \in Seq(S) /\ \A k \in 1..n : e[k] \in Seq(S)
  OBVIOUS
<1>2. FlattenSeq(e) = IF n = 0 THEN e ELSE f[n]
  BY <1>1 DEF FlattenSeq
<1>3. CASE n = 0
  <2> DEFINE z == [k \in 0..n |-> <<>>]
  <2>1. e = <<>>
    BY <1>1, <1>3
  <2>2. z \in [0..n -> Seq(S)] /\ z[0] = <<>> /\ z[n] = <<>>
    BY <1>1, <1>3
  <2>3. 1..n = {}
    BY <1>3
  <2> HIDE DEF z
  <2>4. Flattens(z, n, e, S)
    BY <1>2, <1>3, <2>1, <2>2, <2>3 DEF Flattens
  <2> QED
    BY <2>4
<1>4. CASE n # 0
  <2>1. step \in [1..n -> [Seq(S) -> Seq(S)]]
    <3>1. ASSUME NEW k \in 1..n PROVE [v \in Seq(S) |-> v \o e[k]] \in [Seq(S) -> Seq(S)]
      BY <1>1
    <3> QED
      BY <3>1
  <2>2. \A k \in 1..n : \A v \in Seq(S) : step[k][v] = v \o e[k]
    OBVIOUS
  <2> HIDE DEF step
  <2>3. PICK g : IsFold(g, n, Seq(S), <<>>, step)
    BY <1>1, <2>1, FoldExists
  <2>4. \A k \in 1..n : k \in 0..n /\ k-1 \in 0..n /\ (k # 1 => k-1 \in 1..n)
    OBVIOUS
  <2>5. /\ g \in [0..n -> Seq(S)] /\ g[0] = <<>>
        /\ \A k \in 1..n : g[k] = g[k-1] \o e[k]
    BY <2>2, <2>3, <2>4 DEF IsFold
  <2>6. g[1] = e[1]
    <3>1. 1 \in 1..n /\ 1 - 1 = 0
      BY <1>4
    <3>2. <<>> \o e[1] = e[1]
      BY <1>1, <3>1
    <3> QED
      BY <2>5, <3>1, <3>2
  <2> DEFINE h == [i \in 1..n |-> g[i]]
  <2>7. \A i \in 1..n : h[i] = IF i = 1 THEN e[i] ELSE h[i-1] \o e[i]
    BY <2>4, <2>5, <2>6
  <2>8. h = [i \in 1..Len(e) |-> IF i = 1 THEN e[i] ELSE h[i-1] \o e[i]]
    <3> HIDE DEF h
    <3>1. h = [i \in 1..n |-> h[i]]
      BY DEF h
    <3> QED
      BY <1>1, <2>7, <3>1
  <2>9. f = [i \in 1..Len(e) |-> IF i = 1 THEN e[i] ELSE f[i-1] \o e[i]]
    <3> HIDE DEF h
    <3> QED
      BY <2>8
  <2> HIDE DEF f
  <2>10. /\ f[1] = e[1] /\ \A k \in 1..n : k # 1 => f[k] = f[k-1] \o e[k]
    <3>1. f = [i \in 1..n |-> IF i = 1 THEN e[i] ELSE f[i-1] \o e[i]]
      BY <1>1, <2>9
    <3>2. ASSUME NEW i \in 1..n PROVE f[i] = IF i = 1 THEN e[i] ELSE f[i-1] \o e[i]
      BY <3>1, Zenon
    <3>3. 1 \in 1..n
      BY <1>4
    <3> QED
      BY <3>2, <3>3
  <2>11. 0..n \subseteq {k \in 0..n : k # 0 => f[k] \in Seq(S)}
    <3> DEFINE T == {k \in 0..n : k # 0 => f[k] \in Seq(S)}
    <3>1. 0 \in T
      OBVIOUS
    <3>2. ASSUME NEW k \in 1..n, k-1 \in T PROVE k \in T
      <4>1. CASE k = 1
        BY <1>1, <2>10, <4>1
      <4>2. CASE k # 1
        <5>1. f[k-1] \in Seq(S) /\ e[k] \in Seq(S)
          BY <1>1, <2>4, <3>2, <4>2
        <5>2. f[k-1] \o e[k] \in Seq(S)
          BY <5>1
        <5> QED
          BY <2>4, <2>10, <4>2, <5>2
      <4> QED
        BY <4>1, <4>2
    <3> HIDE DEF T
    <3>3. 0..n \subseteq T
      BY <3>1, <3>2, UpTo
    <3> QED
      BY <3>3 DEF T
  <2> DEFINE t == [k \in 0..n |-> IF k = 0 THEN <<>> ELSE f[k]]
  <2>12. \A k \in 0..n : t[k] = IF k = 0 THEN <<>> ELSE f[k]
    OBVIOUS
  <2>13. t \in [0..n -> Seq(S)]
    BY <1>1, <2>11
  <2> HIDE DEF t
  <2>14. t[0] = <<>> /\ t[n] = FlattenSeq(e)
    BY <1>2, <1>4, <2>12
  <2>15. ASSUME NEW k \in 1..n PROVE t[k] = t[k-1] \o e[k]
    <3>1. CASE k = 1
      <4>1. k - 1 = 0 /\ k \in 0..n /\ 0 \in 0..n /\ k # 0
        BY <2>4, <3>1
      <4>2. t[k] = e[k] /\ t[k-1] = <<>>
        BY <2>10, <2>12, <3>1, <4>1
      <4> QED
        BY <1>1, <4>2
    <3>2. CASE k # 1
      <4>1. k \in 0..n /\ k-1 \in 0..n /\ k # 0 /\ k-1 # 0
        BY <3>2
      <4>2. t[k] = f[k] /\ t[k-1] = f[k-1]
        BY <2>12, <4>1
      <4> QED
        BY <2>10, <3>2, <4>2
    <3> QED
      BY <3>1, <3>2
  <2>16. Flattens(t, n, e, S)
    BY <2>13, <2>14, <2>15 DEF Flattens
  <2> QED
    BY <2>16
<1> QED
  BY <1>3, <1>4

\* What they make is a sequence of the same values.
LEMMA FlatSequence ==
  ASSUME NEW S, NEW n \in Nat, NEW e \in [1..n -> Seq(S)]
  PROVE  FlattenSeq(e) \in Seq(S)
<1>1. PICK f : Flattens(f, n, e, S)
  BY FlatSteps
<1>2. n \in 0..n
  OBVIOUS
<1> QED
  BY <1>1, <1>2 DEF Flattens


\* The length of a sequence, under a name of its own.
Size(s) == Len(s)

\* What fits into a field is a number.
LEMMA ValuesAreNumbers ==
  /\ \A v \in U8Values : v \in Nat
  /\ \A v \in U16Values : v \in Nat
  /\ \A s : s \in Seq(U8Values) => s \in Seq(Nat)
<1>1. \A v \in U8Values : v \in Nat
  BY DEF U8Values
<1>2. \A v \in U16Values : v \in Nat
  <2>1. U16Max \in Nat
    BY DEF U16Max
  <2> QED
    BY <2>1 DEF U16Values
<1> QED
  BY <1>1, <1>2

\* A number of zeros; none if the number is negative.
LEMMA ZerosAre ==
  ASSUME NEW n \in Int
  PROVE  Zeros(n) \in Seq(Nat) /\ Size(Zeros(n)) = IF n > 0 THEN n ELSE 0
<1>1. CASE n \in Nat
  <2>1. Zeros(n) \in [1..n -> Nat]
    BY DEF Zeros
  <2>2. Zeros(n) \in Seq(Nat) /\ Len(Zeros(n)) = n
    BY <1>1, <2>1
  <2> QED
    BY <1>1, <2>2 DEF Size
<1>2. CASE n < 0
  <2>1. 1..n = 1..0
    BY <1>2
  <2>2. Zeros(n) = [k \in 1..0 |-> 0]
    BY <2>1 DEF Zeros
  <2>3. [k \in 1..0 |-> 0] \in Seq(Nat) /\ Len([k \in 1..0 |-> 0]) = 0
    OBVIOUS
  <2> QED
    BY <1>2, <2>2, <2>3 DEF Size
<1> QED
  BY <1>1, <1>2

\* The fields of one to three bytes are bytes or numbers, of the right size.
LEMMA FieldsAre ==
  ASSUME NEW n \in Nat
  PROVE  /\ U8(n) \in Seq(Nat) /\ U16(n) \in Seq(Nat) /\ U24(n) \in Seq(Nat)
         /\ Size(U16(n)) = 2
<1>1. n \div 256 \in Nat /\ n % 256 \in Nat
  OBVIOUS
<1>2. U16(n) \in Seq(Nat) /\ Size(U16(n)) = 2
  <2> DEFINE a == n \div 256
             b == n % 256
  <2>1. a \in Nat /\ b \in Nat
    BY <1>1
  <2> HIDE DEF a, b
  <2>2. <<a, b>> \in Seq(Nat) /\ Len(<<a, b>>) = 2
    BY <2>1
  <2> QED
    BY <2>2 DEF U16, Size, a, b
<1>3. \A s, t \in Seq(Nat) : s \o t \in Seq(Nat)
  OBVIOUS
<1>4. <<n>> \in Seq(Nat) /\ <<0>> \in Seq(Nat)
  OBVIOUS
<1> QED
  BY <1>2, <1>3, <1>4 DEF U8, U24

\* What is left of a sequence of which the end is missing.
LEMMA WithoutIs ==
  ASSUME NEW s \in Seq(Nat), NEW n \in Nat
  PROVE  /\ Without(s, n) \in Seq(Nat)
         /\ Size(Without(s, n)) = IF n <= Size(s) THEN Size(s) - n ELSE 0
         /\ \A i \in Nat : i < Size(Without(s, n)) => Without(s, n)[i + 1] = s[i + 1]
<1>1. Len(s) \in Nat
  OBVIOUS
<1>2. CASE n <= Len(s)
  <2> DEFINE m == Len(s) - n
  <2>1. m \in 0..Len(s)
    BY <1>1, <1>2
  <2> HIDE DEF m
  <2>2. /\ SubSeq(s, 1, m) \in Seq(Nat) /\ Len(SubSeq(s, 1, m)) = m
        /\ \A i \in Nat : i < m => SubSeq(s, 1, m)[i + 1] = s[i + 1]
    BY <2>1
  <2> QED
    BY <1>2, <2>2 DEF Without, Size, m
<1>3. CASE ~(n <= Len(s))
  <2> DEFINE m == Len(s) - n
  <2>1. m \in Int /\ m < 0
    BY <1>1, <1>3
  <2> HIDE DEF m
  <2>2. SubSeq(s, 1, m) = <<>>
    BY <2>1
  <2> QED
    BY <1>3, <2>2 DEF Without, Size, m
<1> QED
  BY <1>2, <1>3

\* A list of whatever values has positions from 1 to its length.
LEMMA ListIs ==
  ASSUME NEW s, s \in Seq(Range(s))
  PROVE  \E n \in Nat : DOMAIN s = 1..n /\ \A k \in 1..n : s[k] \in Range(s)
<1>1. DOMAIN s = 1..Len(s) /\ Len(s) \in Nat
  OBVIOUS
<1> QED
  BY <1>1 DEF Range

\* A Client Hello is a sequence of numbers, and so are its parts.
PartsAreBytes(h) ==
  /\ Encode(h) \in Seq(Nat) /\ EncodeBody(h) \in Seq(Nat)
  /\ \A x : IsExtension(x) => EncodeExtension(h, x) \in Seq(Nat)
  /\ \A d, k : IsEntry(d[k]) => EncodeEntry(h, d, k) \in Seq(Nat)

\* Everything in it is a number.
LEMMA HelloIsBytes ==
  ASSUME NEW h, IsHello(h) PROVE PartsAreBytes(h)
<1> DEFINE B == Seq(Nat)
<1>a. /\ h.session \in U8Values /\ h.ciphers \in U16Values /\ h.compression \in U8Values
  BY Zenon DEF IsHello
<1>c. h.by \in Nat /\ h.trail \in Nat
  BY Zenon DEF IsHello
<1>d. h.exts \in Seq(Range(h.exts)) /\ \A x \in Range(h.exts) : IsExtension(x)
  BY Zenon DEF IsHello
<1>e. (\A v \in U8Values : v \in Nat) /\ (\A v \in U16Values : v \in Nat)
  BY ValuesAreNumbers
<1>b. h.session \in Nat /\ h.ciphers \in Nat /\ h.compression \in Nat
  BY <1>a, <1>e, Zenon
<1>1. \A s, t \in B : s \o t \in B
  OBVIOUS
<1>2. \A n \in Nat : Zeros(n) \in B /\ U8(n) \in B /\ U16(n) \in B /\ U24(n) \in B
  BY ZerosAre, FieldsAre
<1>3. \A s \in B : Len(s) \in Nat
  OBVIOUS
<1>4. \A f : Fault(h, f) \in Nat
  BY <1>c DEF Fault
<1>5. \A s \in B, n \in Nat : Without(s, n) \in B
  BY WithoutIs
<1>6. \A n \in Nat : \A e \in [1..n -> B] : FlattenSeq(e) \in B
  BY FlatSequence
<1>7. \A s : s \in Seq(U8Values) => s \in B
  BY ValuesAreNumbers
<1> HIDE DEF B
<1>8. ASSUME NEW d, NEW k, IsEntry(d[k]) PROVE EncodeEntry(h, d, k) \in B
  <2> DEFINE size == Len(d[k].name) + (IF k = Len(d) THEN Fault(h, "name") ELSE 0)
  <2>1. d[k].type \in U8Values /\ d[k].name \in Seq(U8Values)
    BY <1>8, Zenon DEF IsEntry
  <2>2. d[k].type \in Nat /\ d[k].name \in B
    BY <1>e, <1>7, <2>1, Zenon
  <2>3. size \in Nat
    BY <1>3, <1>4, <2>2
  <2>4. U8(d[k].type) \in B /\ U16(size) \in B
    BY <1>2, <2>2, <2>3
  <2> HIDE DEF size
  <2>5. U8(d[k].type) \o U16(size) \in B
    BY <1>1, <2>4
  <2>6. (U8(d[k].type) \o U16(size)) \o d[k].name \in B
    BY <1>1, <2>2, <2>5
  <2> QED
    BY <2>6 DEF EncodeEntry, size
<1>9. ASSUME NEW x, IsExtension(x) PROVE EncodeExtension(h, x) \in B
  <2> DEFINE list == FlattenSeq([k \in DOMAIN x.data |-> EncodeEntry(h, x.data, k)])
             data == IF IsSni(x) THEN U16(Len(list)) \o list ELSE x.data
  <2>1. x.type \in U16Values
    BY <1>9, Zenon DEF IsExtension
  <2>2. x.type \in Nat
    BY <1>e, <2>1, Zenon
  <2>3. ~IsSni(x) => x.data \in Seq(U8Values)
    BY <1>9, Zenon DEF IsExtension
  <2>4. ASSUME IsSni(x) PROVE list \in B
    <3>1. x.data \in Seq(Range(x.data)) /\ \A e \in Range(x.data) : IsEntry(e)
      BY <1>9, <2>4, Zenon DEF IsExtension
    <3>2. PICK n \in Nat : DOMAIN x.data = 1..n /\ \A k \in 1..n : x.data[k] \in Range(x.data)
      BY <3>1, ListIs
    <3> DEFINE e == [k \in DOMAIN x.data |-> EncodeEntry(h, x.data, k)]
    <3>3. \A k \in 1..n : EncodeEntry(h, x.data, k) \in B
      BY <1>8, <3>1, <3>2
    <3>4. e \in [1..n -> B]
      BY <3>2, <3>3
    <3> HIDE DEF e
    <3>5. FlattenSeq(e) \in B
      BY <1>6, <3>4
    <3> QED
      BY <3>5 DEF e
  <2> HIDE DEF list
  <2>5. data \in B
    <3>1. CASE IsSni(x)
      <4>1. list \in B /\ U16(Len(list)) \in B
        BY <1>2, <1>3, <2>4, <3>1
      <4>2. U16(Len(list)) \o list \in B
        BY <1>1, <4>1
      <4> QED
        BY <3>1, <4>2
    <3>2. CASE ~IsSni(x)
      BY <1>7, <2>3, <3>2
    <3> QED
      BY <3>1, <3>2
  <2> HIDE DEF data
  <2>6. U16(x.type) \in B /\ U16(Len(data)) \in B
    BY <1>2, <1>3, <2>2, <2>5
  <2>7. U16(x.type) \o U16(Len(data)) \in B
    BY <1>1, <2>6
  <2>8. (U16(x.type) \o U16(Len(data))) \o data \in B
    BY <1>1, <2>5, <2>7
  <2> QED
    BY <2>8 DEF EncodeExtension, data, list
<1>10. EncodeBody(h) \in B
  <2> DEFINE e == [k \in DOMAIN h.exts |-> EncodeExtension(h, h.exts[k])]
             exts == FlattenSeq(e)
             room == Len(exts) + Fault(h, "extensions")
  <2>1. PICK n \in Nat : DOMAIN h.exts = 1..n /\ \A k \in 1..n : h.exts[k] \in Range(h.exts)
    BY <1>d, ListIs
  <2>2. \A k \in 1..n : EncodeExtension(h, h.exts[k]) \in B
    BY <1>9, <1>d, <2>1
  <2>3. e \in [1..n -> B]
    BY <2>1, <2>2
  <2> HIDE DEF e
  <2>4. exts \in B
    BY <1>6, <2>3
  <2> HIDE DEF exts
  <2>5. room \in Nat
    BY <1>3, <1>4, <2>4
  <2> HIDE DEF room
  <2>6. h.session \in Nat /\ h.ciphers \in Nat /\ h.compression \in Nat /\ 34 \in Nat
    BY <1>b
  <2> DEFINE s1 == Zeros(34) \o U8(h.session)
             s2 == s1 \o Zeros(h.session)
             s3 == s2 \o U16(h.ciphers)
             s4 == s3 \o Zeros(h.ciphers)
             s5 == s4 \o U8(h.compression)
             s6 == s5 \o Zeros(h.compression)
             s7 == s6 \o U16(room)
             s8 == s7 \o exts
  <2>7. s8 = EncodeBody(h)
    BY DEF EncodeBody, room, exts, e
  <2>8. s1 \in B
    BY <1>1, <1>2, <2>6
  <2> HIDE DEF s1
  <2>9. s2 \in B
    BY <1>1, <1>2, <2>6, <2>8
  <2> HIDE DEF s2
  <2>10. s3 \in B
    BY <1>1, <1>2, <2>6, <2>9
  <2> HIDE DEF s3
  <2>11. s4 \in B
    BY <1>1, <1>2, <2>6, <2>10
  <2> HIDE DEF s4
  <2>12. s5 \in B
    BY <1>1, <1>2, <2>6, <2>11
  <2> HIDE DEF s5
  <2>13. s6 \in B
    BY <1>1, <1>2, <2>6, <2>12
  <2> HIDE DEF s6
  <2>14. s7 \in B
    BY <1>1, <1>2, <2>5, <2>13
  <2> HIDE DEF s7
  <2>15. s8 \in B
    BY <1>1, <2>4, <2>14
  <2> QED
    BY <2>7, <2>15
<1> DEFINE body    == EncodeBody(h)
           short   == Fault(h, "short")
           length  == IF short < Len(body) THEN Len(body) - short ELSE 0
           whole   == U8(TLS_HANDSHAKE_TYPE_CLIENT_HELLO + Fault(h, "message"))
                        \o U24(length + Fault(h, "handshake")) \o body
           message == Without(whole, short)
           start   == U8(TLS_CONTENT_TYPE_HANDSHAKE + Fault(h, "record")) \o <<3, 1>>
           record  == start \o U16(Len(message)) \o message
<1>11. length \in Nat /\ length + Fault(h, "handshake") \in Nat
  <2>1. Len(body) \in Nat /\ short \in Nat
    BY <1>3, <1>4, <1>10
  <2>2. length \in Nat
    BY <2>1
  <2> HIDE DEF length
  <2> QED
    BY <1>4, <2>2
<1>12. whole \in B
  <2> HIDE DEF body, length
  <2> DEFINE s1 == U8(TLS_HANDSHAKE_TYPE_CLIENT_HELLO + Fault(h, "message"))
             s2 == U24(length + Fault(h, "handshake"))
  <2>1. TLS_HANDSHAKE_TYPE_CLIENT_HELLO + Fault(h, "message") \in Nat
    BY <1>4 DEF TLS_HANDSHAKE_TYPE_CLIENT_HELLO
  <2>2. s1 \in B /\ s2 \in B /\ body \in B
    BY <1>2, <1>10, <1>11, <2>1 DEF body
  <2> HIDE DEF s1, s2
  <2>3. s1 \o s2 \in B
    BY <1>1, <2>2
  <2>4. (s1 \o s2) \o body \in B
    BY <1>1, <2>2, <2>3
  <2> QED
    BY <2>4 DEF s1, s2
<1>13. message \in B
  <2> HIDE DEF whole, short
  <2>1. short \in Nat
    BY <1>4 DEF short
  <2> QED
    BY <1>5, <1>12, <2>1
<1>14. start \in B
  <2>1. TLS_CONTENT_TYPE_HANDSHAKE + Fault(h, "record") \in Nat
    BY <1>4 DEF TLS_CONTENT_TYPE_HANDSHAKE
  <2>2. <<3, 1>> \in B
    BY DEF B
  <2> QED
    BY <1>1, <1>2, <2>1, <2>2
<1>15. record \in B
  <2> HIDE DEF start, message
  <2>1. U16(Len(message)) \in B
    BY <1>2, <1>3, <1>13
  <2>2. start \o U16(Len(message)) \in B
    BY <1>1, <1>14, <2>1
  <2> QED
    BY <1>1, <1>13, <2>2
<1>16. Encode(h) = Without(record, Fault(h, "cut")) \o Zeros(h.trail)
  BY DEF Encode
<1> HIDE DEF record
<1>17. Without(record, Fault(h, "cut")) \in B
  BY <1>4, <1>5, <1>15
<1>18. Zeros(h.trail) \in B
  BY <1>2, <1>c
<1>19. Encode(h) \in B
  BY <1>1, <1>16, <1>17, <1>18
<1> QED
  BY <1>8, <1>9, <1>10, <1>19 DEF B, PartsAreBytes

\* A request is a sequence of characters and of the two words.
LEMMA RequestIsBytes ==
  ASSUME NEW r, IsRequest(r) PROVE EncodeRequest(r) \in Seq(Nat)
<1> DEFINE B == Seq(Nat)
<1>1. \A s, t \in B : s \o t \in B
  OBVIOUS
<1>2. /\ <<METHOD, 47, CR, LF>> \in B
      /\ <<120, HOST, 122, CR, LF>> \in B /\ <<>> \in B
      /\ <<HOST>> \in B /\ <<104, COLON>> \in B
  BY DEF METHOD, HOST, CR, LF, COLON
<1>3. r.host \in B /\ r.rest \in B
  <2>1. r.host \in Seq(U8Values \ (White \cup {COLON})) /\ r.rest \in Seq(U8Values)
    BY Zenon DEF IsRequest
  <2>2. \A s : s \in Seq(U8Values \ (White \cup {COLON})) => s \in Seq(U8Values)
    OBVIOUS
  <2> QED
    BY <2>1, <2>2, ValuesAreNumbers, Zenon
<1> DEFINE a == <<METHOD, 47, CR, LF>>
           b == IF r.decoy THEN <<120, HOST, 122, CR, LF>> ELSE <<>>
           c == IF r.spaced THEN <<HOST>> ELSE <<104, COLON>>
<1>4. EncodeRequest(r) = a \o b \o c \o r.host \o r.rest
  BY DEF EncodeRequest
<1>5. a \in B /\ b \in B /\ c \in B
  BY <1>2, Zenon
<1> HIDE DEF B, a, b, c
<1>6. a \o b \in B
  BY <1>1, <1>5
<1>7. (a \o b) \o c \in B
  BY <1>1, <1>5, <1>6
<1>8. ((a \o b) \o c) \o r.host \in B
  BY <1>1, <1>3, <1>7
<1>9. (((a \o b) \o c) \o r.host) \o r.rest \in B
  BY <1>1, <1>3, <1>8
<1> QED
  BY <1>4, <1>9 DEF B

\* What TCP or UDP carries is a sequence of numbers.
LEMMA BodyIsBytes ==
  ASSUME NEW w, IsFrame(w) PROVE Body(w) \in Seq(Nat)
<1>1. CASE w.body.kind = "hello"
  <2>1. IsHello(w.body.hello)
    BY <1>1, Zenon DEF IsFrame
  <2>2. Body(w) = Encode(w.body.hello)
    BY <1>1 DEF Body
  <2>3. PartsAreBytes(w.body.hello)
    BY <2>1, HelloIsBytes, Zenon
  <2> QED
    BY <2>2, <2>3, Zenon DEF PartsAreBytes
<1>2. CASE w.body.kind = "request"
  <2>1. IsRequest(w.body.request)
    BY <1>2, Zenon DEF IsFrame
  <2>2. Body(w) = EncodeRequest(w.body.request)
    BY <1>2 DEF Body
  <2> QED
    BY <2>1, <2>2, RequestIsBytes
<1>3. CASE w.body.kind = "raw"
  <2>1. w.body.size \in Nat
    BY <1>3, Zenon DEF IsFrame
  <2>2. Body(w) = Zeros(w.body.size)
    BY <1>3 DEF Body
  <2> QED
    BY <2>1, <2>2, ZerosAre
<1>4. w.body.kind \in {"hello", "request", "raw"}
  BY Zenon DEF IsFrame
<1> QED
  BY <1>1, <1>2, <1>3, <1>4

\* A concatenation holds both of its parts, and what the first part holds.
LEMMA Joined ==
  ASSUME NEW s \in Seq(Nat), NEW t \in Seq(Nat),
         NEW m \in Nat, NEW n \in Nat, Size(s) = m, Size(t) = n
  PROVE  /\ s \o t \in Seq(Nat)
         /\ Size(s \o t) = m + n
         /\ Holds(s \o t, m, t)
         /\ Holds(s \o t, 0, s)
         /\ \A o \in Nat, u \in Seq(Nat) : Holds(s, o, u) => Holds(s \o t, o, u)
<1>1. Len(s) = m /\ Len(t) = n
  BY DEF Size
<1>2. /\ s \o t \in Seq(Nat) /\ Len(s \o t) = m + n
      /\ Holds(s \o t, 0, s) /\ Holds(s \o t, m, t)
  <2>1. \A k, l : Len(s) = k /\ Len(t) = l =>
          /\ s \o t \in Seq(Nat) /\ Len(s \o t) = k + l
          /\ Holds(s \o t, 0, s) /\ Holds(s \o t, k, t)
    BY ConcatHolds, SMTT(30)
  <2> QED
    BY <1>1, <2>1, Zenon
<1>3. ASSUME NEW o \in Nat, NEW u \in Seq(Nat), Holds(s, o, u) PROVE Holds(s \o t, o, u)
  BY <1>3, AppendedHolds
<1> QED
  BY <1>2, <1>3 DEF Size

\* What stands in a sequence where a single number is held, or two.
LEMMA NumbersHeld ==
  ASSUME NEW s \in Seq(Nat), NEW o \in Nat
  PROVE  /\ \A a : Holds(s, o, <<a>>) => o < Size(s) /\ s[o + 1] = a
         /\ \A a, b : Holds(s, o, <<a, b>>) =>
              o + 1 < Size(s) /\ s[o + 1] = a /\ s[o + 2] = b
<1>1. ASSUME NEW a, Holds(s, o, <<a>>) PROVE o < Size(s) /\ s[o + 1] = a
  <2>1. o + 1 <= Len(s) /\ \A i \in 1..1 : s[o + i] = <<a>>[i]
    BY <1>1 DEF Holds
  <2>2. s[o + 1] = a
    BY <2>1
  <2> QED
    BY <2>1, <2>2 DEF Size
<1>2. ASSUME NEW a, NEW b, Holds(s, o, <<a, b>>)
      PROVE  o + 1 < Size(s) /\ s[o + 1] = a /\ s[o + 2] = b
  <2>1. o + 2 <= Len(s) /\ \A i \in 1..2 : s[o + i] = <<a, b>>[i]
    BY <1>2 DEF Holds
  <2>2. s[o + 1] = a /\ s[o + 2] = b
    BY <2>1
  <2> QED
    BY <2>1, <2>2 DEF Size
<1> QED
  BY <1>1, <1>2

\* Small pieces of headers.
LEMMA Pieces ==
  /\ \A a, b \in Nat : <<a, b>> \in Seq(Nat) /\ Size(<<a, b>>) = 2
  /\ \A a \in Nat : <<a>> \in Seq(Nat) /\ Size(<<a>>) = 1
  /\ \A n \in Nat : Zeros(n) \in Seq(Nat) /\ Size(Zeros(n)) = n
  /\ \A n \in Nat : U16(n) \in Seq(Nat) /\ Size(U16(n)) = 2
<1>1. \A a, b \in Nat : <<a, b>> \in Seq(Nat) /\ Len(<<a, b>>) = 2
  OBVIOUS
<1>2. \A a \in Nat : <<a>> \in Seq(Nat) /\ Len(<<a>>) = 1
  OBVIOUS
<1>3. \A n \in Nat : Zeros(n) \in Seq(Nat) /\ Size(Zeros(n)) = n
  <2>1. \A n \in Nat : n \in Int /\ n = IF n > 0 THEN n ELSE 0
    OBVIOUS
  <2> QED
    BY <2>1, ZerosAre
<1> QED
  BY <1>1, <1>2, <1>3, FieldsAre DEF Size

\* The Ethernet header ends in the type of what it carries.
LEMMA EthernetLayout ==
  ASSUME NEW w, w.ethertype \in Nat
  PROVE  /\ EthernetHeader(w) \in Seq(Nat)
         /\ Size(EthernetHeader(w)) = 14
         /\ Holds(EthernetHeader(w), 12, U16(w.ethertype))
<1> DEFINE t == U16(w.ethertype)
<1>1. Zeros(12) \in Seq(Nat) /\ Size(Zeros(12)) = 12 /\ t \in Seq(Nat) /\ Size(t) = 2
  BY Pieces
<1> HIDE DEF t
<1>2. /\ Zeros(12) \o t \in Seq(Nat) /\ Size(Zeros(12) \o t) = 12 + 2
      /\ Holds(Zeros(12) \o t, 12, t)
  BY <1>1, Joined
<1> QED
  BY <1>2 DEF EthernetHeader, t

\* How long the options of a header of n words are, of which five are no options.
OptionSize(n) == IF n > 5 THEN 4 * (n - 5) ELSE 0

\* The fields of a frame are numbers.
LEMMA FrameFields ==
  ASSUME NEW w, IsFrame(w)
  PROVE  /\ w.ethertype \in Nat /\ w.protocol \in Nat
         /\ w.version \in 0..15 /\ w.ihl \in 0..15 /\ w.doff \in 0..15
         /\ w.src \in Seq(Nat) /\ Size(w.src) = 4
         /\ w.dst \in Seq(Nat) /\ Size(w.dst) = 4
         /\ w.ports[1] \in Nat /\ w.ports[2] \in Nat /\ w.ports = <<w.ports[1], w.ports[2]>>
         /\ w.cut \in Nat
<1>1. w.ethertype \in U16Values /\ w.protocol \in U8Values
  BY Zenon DEF IsFrame
<1>2. w.version \in 0..15 /\ w.ihl \in 0..15 /\ w.doff \in 0..15 /\ w.cut \in Nat
  BY Zenon DEF IsFrame
<1>3. w.src \in [1..4 -> U8Values] /\ w.dst \in [1..4 -> U8Values]
  BY Zenon DEF IsFrame
<1>4. w.ports \in [1..2 -> U16Values]
  BY Zenon DEF IsFrame
<1>5. w.ethertype \in Nat /\ w.protocol \in Nat
  BY <1>1, ValuesAreNumbers, Zenon
<1>6. \A a \in [1..4 -> U8Values] : a \in Seq(Nat) /\ Size(a) = 4
  <2>1. \A n \in Nat : \A a \in [1..n -> U8Values] : a \in Seq(U8Values) /\ Len(a) = n
    OBVIOUS
  <2>2. 4 \in Nat
    OBVIOUS
  <2>3. \A a \in [1..4 -> U8Values] : a \in Seq(U8Values) /\ Len(a) = 4
    BY <2>1, <2>2, Zenon
  <2> QED
    BY <2>3, ValuesAreNumbers, Zenon DEF Size
<1>7. \A a \in [1..2 -> U16Values] : a[1] \in U16Values /\ a[2] \in U16Values /\ a = <<a[1], a[2]>>
  OBVIOUS
<1>8. /\ w.src \in Seq(Nat) /\ Size(w.src) = 4
      /\ w.dst \in Seq(Nat) /\ Size(w.dst) = 4
  BY <1>3, <1>6, Zenon
<1>9. w.ports[1] \in Nat /\ w.ports[2] \in Nat /\ w.ports = <<w.ports[1], w.ports[2]>>
  BY <1>4, <1>7, ValuesAreNumbers, Zenon
<1> QED
  BY <1>2, <1>5, <1>8, <1>9, Zenon

\* Where the parser finds version and length, the protocol and the addresses.
LEMMA IpLayout ==
  ASSUME NEW w, IsFrame(w), NEW size \in Nat
  PROVE  /\ IpHeader(w, size) \in Seq(Nat)
         /\ Size(IpHeader(w, size)) = 20 + OptionSize(w.ihl)
         /\ Holds(IpHeader(w, size), 0, <<16 * w.version + w.ihl, 0>>)
         /\ Holds(IpHeader(w, size), 9, <<w.protocol>>)
         /\ Holds(IpHeader(w, size), 12, w.src)
         /\ Holds(IpHeader(w, size), 16, w.dst)
<1> DEFINE a == <<16 * w.version + w.ihl, 0>>
           b == U16(4 * w.ihl + size)
           c == Zeros(5)
           d == <<w.protocol>>
           e == Zeros(2)
           f == w.src
           g == w.dst
           z == Zeros(4 * (w.ihl - 5))
           n == OptionSize(w.ihl)
           B == Seq(Nat)
<1>1. w.version \in 0..15 /\ w.ihl \in 0..15 /\ w.protocol \in Nat
  BY FrameFields, Zenon
<1>2. a \in B /\ Size(a) = 2
  <2>1. 16 * w.version + w.ihl \in Nat /\ 0 \in Nat
    BY <1>1
  <2> QED
    BY <2>1, Pieces
<1>3. b \in B /\ Size(b) = 2
  <2>1. 4 * w.ihl + size \in Nat
    BY <1>1
  <2> QED
    BY <2>1, Pieces
<1>4. c \in B /\ Size(c) = 5 /\ d \in B /\ Size(d) = 1 /\ e \in B /\ Size(e) = 2
  BY <1>1, Pieces
<1>5. f \in B /\ Size(f) = 4 /\ g \in B /\ Size(g) = 4
  BY FrameFields, Zenon
<1>6. z \in B /\ Size(z) = n /\ n \in Nat
  <2>1. 4 * (w.ihl - 5) \in Int /\ n = (IF 4 * (w.ihl - 5) > 0 THEN 4 * (w.ihl - 5) ELSE 0) /\ n \in Nat
    BY <1>1 DEF OptionSize
  <2> QED
    BY <2>1, ZerosAre, Zenon
<1>7. IpHeader(w, size) = (((((((a \o b) \o c) \o d) \o e) \o f) \o g) \o z)
  BY DEF IpHeader
<1> HIDE DEF a, b, c, d, e, f, g, z, n
<1> DEFINE s1 == a \o b
           s2 == s1 \o c
           s3 == s2 \o d
           s4 == s3 \o e
           s5 == s4 \o f
           s6 == s5 \o g
           s7 == s6 \o z
<1>8. /\ s1 \in B /\ Size(s1) = 4
      /\ Holds(s1, 0, a)
  BY <1>2, <1>3, Joined
<1> HIDE DEF s1
<1>9. /\ s2 \in B /\ Size(s2) = 9
      /\ Holds(s2, 0, a)
  BY <1>2, <1>4, <1>8, Joined
<1> HIDE DEF s2
<1>10. /\ s3 \in B /\ Size(s3) = 10
       /\ Holds(s3, 0, a) /\ Holds(s3, 9, d)
  BY <1>2, <1>4, <1>9, Joined, SMTT(30)
<1> HIDE DEF s3
<1>11. /\ s4 \in B /\ Size(s4) = 12
       /\ Holds(s4, 0, a) /\ Holds(s4, 9, d)
  BY <1>2, <1>4, <1>10, Joined
<1> HIDE DEF s4
<1>12. /\ s5 \in B /\ Size(s5) = 16
       /\ Holds(s5, 0, a) /\ Holds(s5, 9, d) /\ Holds(s5, 12, f)
  <2>1. /\ s5 \in B /\ Size(s5) = 16 /\ Holds(s5, 12, f)
        /\ \A o \in Nat, u \in B : Holds(s4, o, u) => Holds(s5, o, u)
    BY <1>5, <1>11, Joined
  <2> QED
    BY <1>2, <1>4, <1>11, <2>1
<1> HIDE DEF s5
<1>13. /\ s6 \in B /\ Size(s6) = 20
       /\ Holds(s6, 0, a) /\ Holds(s6, 9, d) /\ Holds(s6, 12, f) /\ Holds(s6, 16, g)
  <2>1. /\ s6 \in B /\ Size(s6) = 20 /\ Holds(s6, 16, g)
        /\ \A o \in Nat, u \in B : Holds(s5, o, u) => Holds(s6, o, u)
    BY <1>5, <1>12, Joined
  <2> QED
    BY <1>2, <1>4, <1>5, <1>12, <2>1
<1> HIDE DEF s6
<1>14. /\ s7 \in B /\ Size(s7) = 20 + n
       /\ Holds(s7, 0, a) /\ Holds(s7, 9, d) /\ Holds(s7, 12, f) /\ Holds(s7, 16, g)
  <2>1. /\ s7 \in B /\ Size(s7) = 20 + n
        /\ \A o \in Nat, u \in B : Holds(s6, o, u) => Holds(s7, o, u)
    BY <1>6, <1>13, Joined
  <2> QED
    BY <1>2, <1>4, <1>5, <1>13, <2>1
<1>15. IpHeader(w, size) = s7
  BY <1>7 DEF s1, s2, s3, s4, s5, s6
<1> QED
  BY <1>14, <1>15 DEF a, d, f, g, n

\* What stands in front of the data of TCP and of UDP.
TransportHeader(w) ==
  IF IsTcp(w) THEN TcpHeader(w) ELSE IF IsUdp(w) THEN UdpHeader(w, Len(Body(w))) ELSE <<>>

TransportSize(w) ==
  IF IsTcp(w) THEN 20 + OptionSize(w.doff) ELSE IF IsUdp(w) THEN 8 ELSE 0

\* Where the parser finds the ports and the length of the TCP header.
LEMMA TransportLayout ==
  ASSUME NEW w, IsFrame(w)
  PROVE  /\ TransportHeader(w) \in Seq(Nat)
         /\ Size(TransportHeader(w)) = TransportSize(w)
         /\ HasPorts(w) => /\ Holds(TransportHeader(w), 0, U16(w.ports[1]))
                           /\ Holds(TransportHeader(w), 2, U16(w.ports[2]))
         /\ IsTcp(w) => Holds(TransportHeader(w), 12, <<16 * w.doff, 2>>)
<1> DEFINE a == U16(w.ports[1])
           b == U16(w.ports[2])
           s1 == a \o b
           B == Seq(Nat)
<1>1. w.doff \in 0..15 /\ w.ports[1] \in Nat /\ w.ports[2] \in Nat
  BY FrameFields, Zenon
<1>2. a \in B /\ Size(a) = 2 /\ b \in B /\ Size(b) = 2
  BY <1>1, Pieces
<1> HIDE DEF a, b
<1>3. s1 \in B /\ Size(s1) = 4 /\ Holds(s1, 0, a) /\ Holds(s1, 2, b)
  BY <1>2, Joined
<1> HIDE DEF s1
<1>4. CASE IsTcp(w)
  <2> DEFINE c == Zeros(8)
             d == <<16 * w.doff, 2>>
             e == Zeros(6)
             z == Zeros(4 * (w.doff - 5))
             n == OptionSize(w.doff)
             s2 == s1 \o c
             s3 == s2 \o d
             s4 == s3 \o e
             s5 == s4 \o z
  <2>1. c \in B /\ Size(c) = 8 /\ e \in B /\ Size(e) = 6
    BY Pieces
  <2>2. d \in B /\ Size(d) = 2
    <3>1. 16 * w.doff \in Nat /\ 2 \in Nat
      BY <1>1
    <3> QED
      BY <3>1, Pieces
  <2>3. z \in B /\ Size(z) = n /\ n \in Nat
    <3>1. 4 * (w.doff - 5) \in Int /\ n = (IF 4 * (w.doff - 5) > 0 THEN 4 * (w.doff - 5) ELSE 0) /\ n \in Nat
      BY <1>1 DEF OptionSize
    <3> QED
      BY <3>1, ZerosAre, Zenon
  <2>4. TcpHeader(w) = s5
    BY DEF TcpHeader, s1, a, b
  <2> HIDE DEF c, d, e, z, n
  <2>5. s2 \in B /\ Size(s2) = 12 /\ Holds(s2, 0, a) /\ Holds(s2, 2, b)
    BY <1>2, <1>3, <2>1, Joined
  <2> HIDE DEF s2
  <2>6. s3 \in B /\ Size(s3) = 14 /\ Holds(s3, 0, a) /\ Holds(s3, 2, b) /\ Holds(s3, 12, d)
    BY <1>2, <2>2, <2>5, Joined
  <2> HIDE DEF s3
  <2>7. s4 \in B /\ Size(s4) = 20 /\ Holds(s4, 0, a) /\ Holds(s4, 2, b) /\ Holds(s4, 12, d)
    BY <1>2, <2>1, <2>2, <2>6, Joined, SMTT(30)
  <2> HIDE DEF s4
  <2>8. s5 \in B /\ Size(s5) = 20 + n /\ Holds(s5, 0, a) /\ Holds(s5, 2, b) /\ Holds(s5, 12, d)
    BY <1>2, <2>2, <2>3, <2>7, Joined, SMTT(30)
  <2> HIDE DEF s5
  <2>9. TransportHeader(w) = s5 /\ TransportSize(w) = 20 + n
    BY <1>4, <2>4 DEF TransportHeader, TransportSize, n
  <2> QED
    BY <2>8, <2>9 DEF a, b, d
<1>5. CASE ~IsTcp(w) /\ IsUdp(w)
  <2> DEFINE c == U16(8 + Len(Body(w)))
             d == Zeros(2)
             s2 == s1 \o c
             s3 == s2 \o d
  <2>1. c \in B /\ Size(c) = 2 /\ d \in B /\ Size(d) = 2
    <3>1. Len(Body(w)) \in Nat
      BY BodyIsBytes, LenProperties
    <3>2. 8 + Len(Body(w)) \in Nat
      BY <3>1
    <3> QED
      BY <3>2, Pieces
  <2>2. UdpHeader(w, Len(Body(w))) = s3
    BY DEF UdpHeader, s1, a, b
  <2> HIDE DEF c, d
  <2>3. s2 \in B /\ Size(s2) = 6 /\ Holds(s2, 0, a) /\ Holds(s2, 2, b)
    BY <1>2, <1>3, <2>1, Joined
  <2> HIDE DEF s2
  <2>4. s3 \in B /\ Size(s3) = 8 /\ Holds(s3, 0, a) /\ Holds(s3, 2, b)
    BY <1>2, <2>1, <2>3, Joined
  <2> HIDE DEF s3
  <2>5. TransportHeader(w) = s3 /\ TransportSize(w) = 8
    BY <1>5, <2>2 DEF TransportHeader, TransportSize
  <2> QED
    BY <1>5, <2>4, <2>5 DEF a, b
<1>6. CASE ~IsTcp(w) /\ ~IsUdp(w)
  <2>1. TransportHeader(w) = <<>> /\ TransportSize(w) = 0
    BY <1>6 DEF TransportHeader, TransportSize
  <2>2. <<>> \in B /\ Size(<<>>) = 0
    BY DEF Size
  <2> QED
    BY <1>6, <2>1, <2>2 DEF HasPorts
<1> QED
  BY <1>4, <1>5, <1>6

\* Everything in front of what TCP or UDP carries, and everything behind it.
Headers(w) ==
  (EthernetHeader(w) \o IpHeader(w, Len(Segment(w)))) \o TransportHeader(w)

HeaderSize(w) == 34 + OptionSize(w.ihl) + TransportSize(w)

Data(w) == Body(w) \o Padding(w)

\* The frame is made of headers and data.
LEMMA FrameParts ==
  ASSUME NEW w, IsFrame(w)
  PROVE  /\ Headers(w) \in Seq(Nat) /\ Size(Headers(w)) = HeaderSize(w)
         /\ Data(w) \in Seq(Nat) /\ Size(Data(w)) = Size(Body(w)) + Size(Padding(w))
         /\ Sent(w) \o Padding(w) = Headers(w) \o Data(w)
         /\ OptionSize(w.ihl) \in Nat /\ TransportSize(w) \in Nat
         /\ Size(Body(w)) \in Nat /\ Size(Padding(w)) \in Nat
         /\ Sent(w) \in Seq(Nat) /\ Padding(w) \in Seq(Nat) /\ Body(w) \in Seq(Nat)
<1> DEFINE B == Seq(Nat)
           e == EthernetHeader(w)
           i == IpHeader(w, Len(Segment(w)))
           t == TransportHeader(w)
           b == Body(w)
           p == Padding(w)
           n == OptionSize(w.ihl)
           m == TransportSize(w)
<1>1. w.ethertype \in Nat /\ w.ihl \in 0..15 /\ w.doff \in 0..15
  BY FrameFields, Zenon
<1>2. n \in Nat /\ m \in Nat
  BY <1>1 DEF OptionSize, TransportSize
<1>3. t \in B /\ Size(t) = m
  BY TransportLayout
<1>4. b \in B /\ Size(b) \in Nat
  BY BodyIsBytes, LenProperties DEF Size
<1>5. Segment(w) = t \o b
  BY DEF Segment, TransportHeader
<1>6. Len(Segment(w)) \in Nat
  BY <1>3, <1>4, <1>5
<1>7. e \in B /\ Size(e) = 14
  BY <1>1, EthernetLayout
<1>8. i \in B /\ Size(i) = 20 + n
  BY <1>6, IpLayout
<1>9. Sent(w) = (e \o i) \o (t \o b)
  <2>1. Sent(w) = e \o (i \o (t \o b))
    BY <1>5 DEF Sent, IpPacket
  <2> HIDE DEF e, i, t, b, n, m
  <2> DEFINE s == t \o b
  <2>2. e \in Seq(Nat) /\ i \in Seq(Nat) /\ s \in Seq(Nat)
    BY <1>3, <1>4, <1>7, <1>8
  <2> HIDE DEF s, B, p
  <2>3. (e \o i) \o s = e \o (i \o s)
    BY <2>2, SMT
  <2> QED
    BY <2>1, <2>3, Zenon DEF s
<1> HIDE DEF e, i, t, b, n, m
<1>10. e \o i \in B /\ Size(e \o i) = 34 + n
  BY <1>2, <1>7, <1>8, Joined
<1>11. t \o b \in B
  BY <1>3, <1>4
<1>12. Sent(w) \in B
  BY <1>9, <1>10, <1>11
<1>13. p \in B
  <2> DEFINE k == 60 - Len(Sent(w))
  <2>1. k \in Int
    BY <1>12
  <2>2. p = IF w.padded THEN Zeros(k) ELSE <<>>
    BY DEF Padding
  <2> HIDE DEF k, p
  <2>3. Zeros(k) \in B /\ <<>> \in B
    BY <2>1, ZerosAre
  <2> QED
    BY <2>2, <2>3
<1>14. Size(p) \in Nat
  BY <1>13, LenProperties DEF Size
<1> HIDE DEF p
<1>15. b \o p \in B /\ Size(b \o p) = Size(b) + Size(p)
  BY <1>4, <1>13, <1>14, Joined
<1>16. (e \o i) \o t \in B /\ Size((e \o i) \o t) = (34 + n) + m
  <2> DEFINE s == e \o i
  <2>1. s \in B /\ Size(s) = 34 + n /\ 34 + n \in Nat
    BY <1>2, <1>10
  <2> HIDE DEF s
  <2>2. s \o t \in B /\ Size(s \o t) = (34 + n) + m
    BY <1>2, <1>3, <2>1, Joined
  <2> QED
    BY <2>2 DEF s
<1>17. ((e \o i) \o (t \o b)) \o p = ((e \o i) \o t) \o (b \o p)
  <2> DEFINE s == e \o i
  <2>1. s \in B
    BY <1>10
  <2> HIDE DEF s
  <2>2. (s \o t) \o b = s \o (t \o b)
    BY <1>3, <1>4, <2>1, SMTT(30)
  <2> DEFINE u == s \o t
  <2>3. u \in B
    BY <1>3, <2>1
  <2> HIDE DEF u
  <2>4. (u \o b) \o p = u \o (b \o p)
    BY <1>4, <1>13, <2>3, SMTT(30)
  <2> QED
    BY <2>2, <2>4, Zenon DEF s, u
<1>18. Headers(w) = (e \o i) \o t /\ Data(w) = b \o p /\ HeaderSize(w) = (34 + n) + m
  BY DEF Headers, Data, HeaderSize, e, i, t, b, p, n, m
<1> QED
  BY <1>2, <1>4, <1>9, <1>12, <1>13, <1>14, <1>15, <1>16, <1>17, <1>18, Zenon DEF b, p, n, m

\* The frame before its end was cut off, and where TCP or UDP begin in it.
Whole(w) == Sent(w) \o Padding(w)

TransportStart(w) == 34 + OptionSize(w.ihl)

\* Where the fields stand in a frame.
LEMMA FrameLayout ==
  ASSUME NEW w, IsFrame(w)
  PROVE  /\ Whole(w) \in Seq(Nat)
         /\ Size(Whole(w)) = HeaderSize(w) + Size(Data(w))
         /\ Holds(Whole(w), 12, U16(w.ethertype))
         /\ Holds(Whole(w), 14, <<16 * w.version + w.ihl, 0>>)
         /\ Holds(Whole(w), 23, <<w.protocol>>)
         /\ Holds(Whole(w), 26, w.src)
         /\ Holds(Whole(w), 30, w.dst)
         /\ HasPorts(w) => /\ Holds(Whole(w), TransportStart(w), U16(w.ports[1]))
                           /\ Holds(Whole(w), TransportStart(w) + 2, U16(w.ports[2]))
         /\ IsTcp(w) => Holds(Whole(w), TransportStart(w) + 12, <<16 * w.doff, 2>>)
         /\ Holds(Whole(w), HeaderSize(w), Data(w))
<1> DEFINE B == Seq(Nat)
           e == EthernetHeader(w)
           i == IpHeader(w, Len(Segment(w)))
           t == TransportHeader(w)
           d == Data(w)
           a1 == U16(w.ethertype)
           a2 == <<16 * w.version + w.ihl, 0>>
           a3 == <<w.protocol>>
           a4 == w.src
           a5 == w.dst
           b1 == U16(w.ports[1])
           b2 == U16(w.ports[2])
           b3 == <<16 * w.doff, 2>>
           m == TransportSize(w)
           k == OptionSize(w.ihl)
           s == Whole(w)
           n == TransportStart(w)
<1>1. /\ w.ethertype \in Nat /\ w.protocol \in Nat
      /\ a4 \in B /\ a5 \in B
      /\ w.ports[1] \in Nat /\ w.ports[2] \in Nat
  BY FrameFields, Zenon
<1>2. a1 \in B /\ a3 \in B /\ b1 \in B /\ b2 \in B
  BY <1>1, Pieces
<1>3. a2 \in B /\ b3 \in B
  <2>a. w.version \in 0..15 /\ w.ihl \in 0..15 /\ w.doff \in 0..15
    BY FrameFields, Zenon
  <2>1. 16 * w.version + w.ihl \in Nat /\ 16 * w.doff \in Nat /\ 0 \in Nat /\ 2 \in Nat
    BY <2>a
  <2> QED
    BY <2>1, Pieces
<1>4. Len(Segment(w)) \in Nat
  <2>1. TransportHeader(w) \in B /\ Body(w) \in B
    BY TransportLayout, BodyIsBytes
  <2>2. Segment(w) = TransportHeader(w) \o Body(w)
    BY DEF Segment, TransportHeader
  <2> QED
    BY <2>1, <2>2
<1>5. e \in B /\ Size(e) = 14 /\ Holds(e, 12, a1)
  BY <1>1, EthernetLayout
<1>6. /\ i \in B /\ Size(i) = 20 + k
      /\ Holds(i, 0, a2) /\ Holds(i, 9, a3) /\ Holds(i, 12, a4) /\ Holds(i, 16, a5)
  BY <1>4, IpLayout
<1>7. /\ t \in B /\ Size(t) = m
      /\ HasPorts(w) => Holds(t, 0, b1) /\ Holds(t, 2, b2)
      /\ IsTcp(w) => Holds(t, 12, b3)
  BY TransportLayout
<1>8. /\ d \in B /\ Size(d) \in Nat /\ m \in Nat /\ k \in Nat
      /\ Size(Headers(w)) = HeaderSize(w)
      /\ s = Headers(w) \o d
  <2>1. /\ d \in B /\ m \in Nat /\ k \in Nat
        /\ Size(Headers(w)) = HeaderSize(w) /\ s = Headers(w) \o d
    BY FrameParts, Zenon DEF Whole
  <2> QED
    BY <2>1, LenProperties DEF Size
<1>9. HeaderSize(w) = (34 + k) + m /\ n = 34 + k
  BY DEF HeaderSize, TransportStart
<1>10. Headers(w) = (e \o i) \o t
  BY DEF Headers
<1> HIDE DEF e, i, t, d, a1, a2, a3, a4, a5, b1, b2, b3, m, k, s, n
<1> DEFINE u == e \o i
           h == u \o t
<1>11. /\ u \in B /\ Size(u) = 34 + k
       /\ \A o \in Nat, x \in B : Holds(e, o, x) => Holds(u, o, x)
       /\ Holds(u, 14, i)
  <2>1. e \in B /\ Size(e) = 14 /\ i \in B /\ Size(i) = 20 + k /\ 20 + k \in Nat /\ 14 \in Nat
    BY <1>5, <1>6, <1>8
  <2>2. /\ u \in B /\ Size(u) = 14 + (20 + k)
        /\ \A o \in Nat, x \in B : Holds(e, o, x) => Holds(u, o, x)
        /\ Holds(u, 14, i)
    BY <2>1, Joined
  <2> QED
    BY <1>8, <2>2
<1> HIDE DEF u
<1>12. Holds(u, 12, a1)
  BY <1>2, <1>5, <1>11
<1>13. \A o \in Nat, x \in B : Holds(i, o, x) => Holds(u, 14 + o, x)
  BY <1>6, <1>11, HoldsTrans
<1>14. Holds(u, 14, a2) /\ Holds(u, 23, a3) /\ Holds(u, 26, a4) /\ Holds(u, 30, a5)
  <2>1. Holds(u, 14 + 0, a2) /\ Holds(u, 14 + 9, a3) /\ Holds(u, 14 + 12, a4) /\ Holds(u, 14 + 16, a5)
    BY <1>1, <1>2, <1>3, <1>6, <1>13
  <2> QED
    BY <2>1
<1>15. /\ h \in B /\ Size(h) = (34 + k) + m
       /\ \A o \in Nat, x \in B : Holds(u, o, x) => Holds(h, o, x)
       /\ Holds(h, 34 + k, t)
  BY <1>7, <1>8, <1>11, Joined
<1> HIDE DEF h
<1>16. \A o \in Nat, x \in B : Holds(t, o, x) => Holds(h, (34 + k) + o, x)
  <2>1. 34 + k \in Nat
    BY <1>8
  <2> QED
    BY <1>7, <1>15, <2>1, HoldsTrans
<1>17. /\ Holds(h, 12, a1)
       /\ Holds(h, 14, a2) /\ Holds(h, 23, a3) /\ Holds(h, 26, a4) /\ Holds(h, 30, a5)
  BY <1>1, <1>2, <1>3, <1>12, <1>14, <1>15
<1>18. /\ HasPorts(w) => Holds(h, n, b1) /\ Holds(h, n + 2, b2)
       /\ IsTcp(w) => Holds(h, n + 12, b3)
  <2>1. (34 + k) + 0 = n /\ (34 + k) + 2 = n + 2 /\ (34 + k) + 12 = n + 12
    BY <1>8, <1>9
  <2>2. /\ HasPorts(w) => Holds(h, (34 + k) + 0, b1) /\ Holds(h, (34 + k) + 2, b2)
        /\ IsTcp(w) => Holds(h, (34 + k) + 12, b3)
    BY <1>2, <1>3, <1>7, <1>16
  <2> QED
    BY <2>1, <2>2
<1>19. s = h \o d
  BY <1>8, <1>10 DEF h, u
<1>20. /\ s \in B /\ Size(s) = ((34 + k) + m) + Size(d)
       /\ \A o \in Nat, x \in B : Holds(h, o, x) => Holds(s, o, x)
       /\ Holds(s, (34 + k) + m, d)
  <2>1. (34 + k) + m \in Nat
    BY <1>8
  <2>2. /\ h \o d \in B /\ Size(h \o d) = ((34 + k) + m) + Size(d)
        /\ \A o \in Nat, x \in B : Holds(h, o, x) => Holds(h \o d, o, x)
        /\ Holds(h \o d, (34 + k) + m, d)
    BY <1>8, <1>15, <2>1, Joined
  <2> QED
    BY <1>19, <2>2, Zenon
<1>21. /\ Holds(s, 12, a1)
       /\ Holds(s, 14, a2) /\ Holds(s, 23, a3) /\ Holds(s, 26, a4) /\ Holds(s, 30, a5)
  BY <1>1, <1>2, <1>3, <1>17, <1>20
<1>22. /\ HasPorts(w) => Holds(s, n, b1) /\ Holds(s, n + 2, b2)
       /\ IsTcp(w) => Holds(s, n + 12, b3)
  <2>1. n \in Nat /\ n + 2 \in Nat /\ n + 12 \in Nat
    BY <1>8, <1>9
  <2> QED
    BY <1>2, <1>3, <1>18, <1>20, <2>1
<1> QED
  BY <1>9, <1>20, <1>21, <1>22, Zenon DEF d, a1, a2, a3, a4, a5, b1, b2, b3, s, n

\* What is left of a frame after the cut holds what ends before it.
LEMMA CapturedHolds ==
  ASSUME NEW w, IsFrame(w), NEW f, f = Captured(w)
  PROVE  /\ f \in Seq(Nat)
         /\ Size(f) = IF w.cut <= Size(Whole(w)) THEN Size(Whole(w)) - w.cut ELSE 0
         /\ \A i \in Nat : i < Size(f) => f[i + 1] = Whole(w)[i + 1]
         /\ \A o \in Nat, u \in Seq(Nat) :
              Holds(Whole(w), o, u) /\ o + Size(u) <= Size(f) => Holds(f, o, u)
<1> DEFINE s == Whole(w)
<1>1. s \in Seq(Nat)
  BY FrameLayout
<1>2. w.cut \in Nat
  BY FrameFields, Zenon
<1>3. f = Without(s, w.cut)
  BY DEF Captured, Whole
<1> HIDE DEF s
<1>4. /\ f \in Seq(Nat)
      /\ Size(f) = IF w.cut <= Size(s) THEN Size(s) - w.cut ELSE 0
      /\ \A i \in Nat : i < Size(f) => f[i + 1] = s[i + 1]
  <2>1. /\ Without(s, w.cut) \in Seq(Nat)
        /\ Size(Without(s, w.cut)) = IF w.cut <= Size(s) THEN Size(s) - w.cut ELSE 0
        /\ \A i \in Nat : i < Size(Without(s, w.cut)) => Without(s, w.cut)[i + 1] = s[i + 1]
    BY <1>1, <1>2, WithoutIs
  <2> QED
    BY <1>3, <2>1, Zenon
<1>5. ASSUME NEW o \in Nat, NEW u \in Seq(Nat), Holds(s, o, u), o + Size(u) <= Size(f)
      PROVE  Holds(f, o, u)
  <2>1. Len(u) \in Nat /\ Len(f) \in Nat /\ o + Len(u) <= Len(f)
    BY <1>4, <1>5 DEF Size
  <2>2. \A i \in 1..Len(u) : o + i - 1 \in Nat /\ o + i - 1 < Len(f) /\ (o + i - 1) + 1 = o + i
    BY <2>1
  <2>3. \A i \in 1..Len(u) : f[o + i] = s[o + i]
    <3>1. \A j \in Nat : j < Len(f) => f[j + 1] = s[j + 1]
      BY <1>4 DEF Size
    <3> QED
      BY <2>2, <3>1
  <2>4. \A i \in 1..Len(u) : s[o + i] = u[i]
    BY <1>5 DEF Holds
  <2> QED
    BY <2>1, <2>3, <2>4 DEF Holds
<1> QED
  BY <1>4, <1>5 DEF s

\* A word and an octet are read where they are held, and so are four octets.
LEMMA WordRead ==
  ASSUME frame \in Seq(Nat), NEW o \in Nat, NEW n \in Nat, Holds(frame, o, U16(n))
  PROVE  Word(o) = n
<1> DEFINE a == n \div 256
           b == n % 256
<1>a. Holds(frame, o, <<a, b>>)
  BY Zenon DEF U16
<1>2. 256 * a + b = n
  OBVIOUS
<1> HIDE DEF a, b
<1>1. o + 1 < Size(frame) /\ frame[o + 1] = a /\ frame[o + 2] = b
  BY <1>a, NumbersHeld, Zenon
<1>3. o < Len(frame) /\ o + 1 < Len(frame) /\ (o + 1) + 1 = o + 2
  BY <1>1, LenProperties DEF Size
<1>4. Octet(o) = a /\ Octet(o + 1) = b
  BY <1>1, <1>3 DEF Octet
<1> QED
  BY <1>2, <1>4 DEF Word

\* The parser reads the octet that stands at a place ...
LEMMA OctetRead ==
  ASSUME frame \in Seq(Nat), NEW o \in Nat, NEW n \in Nat,
         Holds(frame, o, <<n>>) \/ \E m : Holds(frame, o, <<n, m>>)
  PROVE  Octet(o) = n
<1>1. o < Size(frame) /\ frame[o + 1] = n
  <2>1. CASE Holds(frame, o, <<n>>)
    BY <2>1, NumbersHeld, Zenon
  <2>2. ASSUME NEW m, Holds(frame, o, <<n, m>>) PROVE o < Size(frame) /\ frame[o + 1] = n
    <3>1. o + 1 < Size(frame) /\ frame[o + 1] = n
      BY <2>2, NumbersHeld, Zenon
    <3>2. Size(frame) \in Nat
      BY LenProperties DEF Size
    <3> QED
      BY <3>1, <3>2
  <2> QED
    BY <2>1, <2>2
<1> QED
  BY <1>1 DEF Octet, Size

\* ... and the four of an address.
LEMMA AddressRead ==
  ASSUME frame \in Seq(Nat), NEW o \in Nat, NEW a \in Seq(Nat), Size(a) = 4, Holds(frame, o, a)
  PROVE  Octets(o, 4) = a
<1>1. SubSeq(frame, o + 1, o + Len(a)) = a
  BY SliceHolds
<1> QED
  BY <1>1 DEF Octets, Size

\* The parser finds the fields of a frame, as far as they are there.
LEMMA FieldsFound ==
  ASSUME NEW w, IsFrame(w), frame = Captured(w)
  PROVE  /\ Size(frame) >= 14 => Word(12) = w.ethertype
         /\ Size(frame) >= 34 => /\ Octet(14) = 16 * w.version + w.ihl
                                 /\ Octet(23) = w.protocol
                                 /\ Octets(26, 4) = w.src
                                 /\ Octets(30, 4) = w.dst
         /\ HasPorts(w) /\ Size(frame) >= TransportStart(w) + 4 =>
              /\ Word(TransportStart(w)) = w.ports[1]
              /\ Word(TransportStart(w) + 2) = w.ports[2]
         /\ IsTcp(w) /\ Size(frame) >= TransportStart(w) + 14 =>
              Octet(TransportStart(w) + 12) = 16 * w.doff
<1> DEFINE B == Seq(Nat)
           s == Whole(w)
           n == TransportStart(w)
           z == Size(frame)
           v == 16 * w.version + w.ihl
           d == 16 * w.doff
           p1 == w.ports[1]
           p2 == w.ports[2]
<1>1. /\ w.ethertype \in Nat /\ w.protocol \in Nat
      /\ w.src \in B /\ Size(w.src) = 4 /\ w.dst \in B /\ Size(w.dst) = 4
      /\ p1 \in Nat /\ p2 \in Nat
  BY FrameFields, Zenon
<1>2. v \in Nat /\ d \in Nat /\ n \in Nat
  <2>1. w.version \in 0..15 /\ w.ihl \in 0..15 /\ w.doff \in 0..15
    BY FrameFields, Zenon
  <2> QED
    BY <2>1 DEF TransportStart, OptionSize
<1>3. /\ Holds(s, 12, U16(w.ethertype)) /\ Holds(s, 14, <<v, 0>>) /\ Holds(s, 23, <<w.protocol>>)
      /\ Holds(s, 26, w.src) /\ Holds(s, 30, w.dst)
      /\ HasPorts(w) => Holds(s, n, U16(p1)) /\ Holds(s, n + 2, U16(p2))
      /\ IsTcp(w) => Holds(s, n + 12, <<d, 2>>)
  BY FrameLayout, Zenon
<1>4. /\ frame \in B
      /\ \A o \in Nat, u \in B : Holds(s, o, u) /\ o + Size(u) <= z => Holds(frame, o, u)
  BY CapturedHolds, Zenon
<1>5. z \in Nat
  BY <1>4, LenProperties DEF Size
<1> HIDE DEF s, n, z, v, d, p1, p2
<1>6. /\ \A a \in Nat : <<a>> \in B /\ Size(<<a>>) = 1
      /\ \A a, b \in Nat : <<a, b>> \in B /\ Size(<<a, b>>) = 2
      /\ \A a \in Nat : U16(a) \in B /\ Size(U16(a)) = 2
  BY Pieces
<1>7. ASSUME z >= 14 PROVE Word(12) = w.ethertype
  <2>1. Holds(frame, 12, U16(w.ethertype))
    <3>1. U16(w.ethertype) \in B /\ Size(U16(w.ethertype)) = 2
      BY <1>1, <1>6
    <3> QED
      BY <1>3, <1>4, <1>7, <3>1
  <2> QED
    BY <1>1, <1>4, <2>1, WordRead
<1>8. ASSUME z >= 34
      PROVE  Octet(14) = v /\ Octet(23) = w.protocol /\ Octets(26, 4) = w.src /\ Octets(30, 4) = w.dst
  <2>1. Holds(frame, 14, <<v, 0>>)
    <3>1. <<v, 0>> \in B /\ Size(<<v, 0>>) = 2
      BY <1>2, <1>6
    <3>2. 14 + 2 <= z
      BY <1>5, <1>8
    <3> QED
      BY <1>3, <1>4, <3>1, <3>2, Zenon
  <2>2. Holds(frame, 23, <<w.protocol>>)
    <3>1. <<w.protocol>> \in B /\ Size(<<w.protocol>>) = 1
      BY <1>1, <1>6
    <3>2. 23 + 1 <= z
      BY <1>5, <1>8
    <3> QED
      BY <1>3, <1>4, <3>1, <3>2, Zenon
  <2>3. Holds(frame, 26, w.src) /\ Holds(frame, 30, w.dst)
    <3>1. 26 + 4 <= z /\ 30 + 4 <= z
      BY <1>5, <1>8
    <3> QED
      BY <1>1, <1>3, <1>4, <3>1, Zenon
  <2>4. Octet(14) = v
    BY <1>2, <1>4, <2>1, OctetRead
  <2>5. Octet(23) = w.protocol
    BY <1>1, <1>4, <2>2, OctetRead
  <2> QED
    BY <1>1, <1>4, <2>3, <2>4, <2>5, AddressRead
<1>9. ASSUME HasPorts(w), z >= n + 4 PROVE Word(n) = p1 /\ Word(n + 2) = p2
  <2>1. /\ U16(p1) \in B /\ Size(U16(p1)) = 2 /\ U16(p2) \in B /\ Size(U16(p2)) = 2
        /\ n + 2 \in Nat /\ n + 2 <= z /\ (n + 2) + 2 <= z
    BY <1>1, <1>2, <1>5, <1>6, <1>9
  <2>2. Holds(frame, n, U16(p1)) /\ Holds(frame, n + 2, U16(p2))
    BY <1>2, <1>3, <1>4, <1>9, <2>1
  <2> QED
    BY <1>1, <1>2, <1>4, <2>1, <2>2, WordRead
<1>10. ASSUME IsTcp(w), z >= n + 14 PROVE Octet(n + 12) = d
  <2>1. <<d, 2>> \in B /\ Size(<<d, 2>>) = 2 /\ n + 12 \in Nat /\ (n + 12) + 2 <= z
    BY <1>2, <1>5, <1>6, <1>10
  <2>2. Holds(frame, n + 12, <<d, 2>>)
    BY <1>3, <1>4, <1>10, <2>1
  <2> QED
    BY <1>2, <1>4, <2>1, <2>2, OctetRead
<1> QED
  BY <1>7, <1>8, <1>9, <1>10, Zenon DEF n, z, v, d, p1, p2

\* What follows the headers is what was sent as data, up to the cut.
LEMMA PayloadFound ==
  ASSUME NEW w, IsFrame(w), NEW f, f = Captured(w)
  PROVE  SubSeq(f, HeaderSize(w) + 1, Len(f)) = Without(Data(w), w.cut)
<1> DEFINE d == Data(w)
           h == HeaderSize(w)
           c == w.cut
           s == Whole(w)
           m == Len(d)
<1>1. d \in Seq(Nat) /\ h \in Nat /\ c \in Nat /\ m \in Nat
  <2>1. d \in Seq(Nat) /\ OptionSize(w.ihl) \in Nat /\ TransportSize(w) \in Nat
    BY FrameParts, Zenon
  <2>2. c \in Nat
    BY FrameFields, Zenon
  <2> HIDE DEF d, c
  <2> QED
    BY <2>1, <2>2, LenProperties DEF HeaderSize
<1>2. /\ f \in Seq(Nat)
      /\ Len(f) = IF c <= Len(s) THEN Len(s) - c ELSE 0
      /\ \A i \in Nat : i < Len(f) => f[i + 1] = s[i + 1]
  BY CapturedHolds, Zenon DEF Size
<1>3. Len(s) = h + m /\ \A i \in 1..m : s[h + i] = d[i]
  BY FrameLayout, Zenon DEF Size, Holds
<1>4. Without(d, c) = SubSeq(d, 1, m - c)
  BY DEF Without
<1> HIDE DEF d, h, c, s, m
<1>5. ASSUME c <= m PROVE SubSeq(f, h + 1, Len(f)) = SubSeq(d, 1, m - c)
  <2> DEFINE k == m - c
             x == SubSeq(f, h + 1, h + k)
             y == SubSeq(d, 1, k)
  <2>1. k \in Nat /\ k <= m /\ Len(f) = h + k
    BY <1>1, <1>2, <1>3, <1>5
  <2> HIDE DEF k
  <2>2. x \in Seq(Nat) /\ Len(x) = k /\ \A i \in 1..k : x[i] = f[h + i]
    BY <1>1, <1>2, <2>1
  <2>3. y \in Seq(Nat) /\ Len(y) = k /\ \A i \in 1..k : y[i] = d[i]
    <3>1. k \in 0..Len(d)
      BY <2>1 DEF m
    <3> QED
      BY <1>1, <3>1
  <2>4. \A i \in 1..k : f[h + i] = d[i]
    <3>1. ASSUME NEW i \in 1..k PROVE f[h + i] = d[i]
      <4>1. h + i - 1 \in Nat /\ h + i - 1 < Len(f) /\ (h + i - 1) + 1 = h + i /\ i \in 1..m
        BY <1>1, <2>1
      <4>2. f[h + i] = s[h + i]
        BY <1>2, <4>1
      <4> QED
        BY <1>3, <4>1, <4>2
    <3> QED
      BY <3>1
  <2> HIDE DEF x, y
  <2>5. \A i \in 1..k : x[i] = y[i]
    BY <2>2, <2>3, <2>4
  <2>6. x \in Seq(Nat) /\ y \in Seq(Nat) /\ Len(x) = k /\ Len(y) = k
    BY <2>2, <2>3
  <2>7. x = y
    BY <2>5, <2>6
  <2> QED
    BY <2>1, <2>7 DEF x, y, k
<1>6. ASSUME ~(c <= m) PROVE SubSeq(f, h + 1, Len(f)) = SubSeq(d, 1, m - c)
  <2> DEFINE n == Len(f)
  <2>1. n \in Nat /\ n <= h
    BY <1>1, <1>2, <1>3, <1>6
  <2> HIDE DEF n
  <2>2. SubSeq(f, h + 1, n) = <<>>
    BY <1>1, <2>1
  <2>3. m - c \in Int /\ m - c < 0
    BY <1>1, <1>6
  <2>4. \A j \in Int : j < 0 => SubSeq(d, 1, j) = <<>>
    BY <1>1
  <2> QED
    BY <2>2, <2>3, <2>4 DEF n
<1> QED
  <2>1. SubSeq(f, h + 1, Len(f)) = Without(d, c)
    BY <1>4, <1>5, <1>6
  <2> QED
    BY <2>1 DEF d, h, c

\* Right up to the IP header.
HeadersRight(w) == w.ethertype = 2048 /\ w.version = 4 /\ w.ihl >= 5

\* What of TCP or UDP must be there.
LeastTransport(w) == IF IsTcp(w) THEN 20 ELSE IF IsUdp(w) THEN 8 ELSE 0

\* A frame of which all headers are right and there is long enough, and no
\* other is.
LEMMA WellFormedSize ==
  ASSUME NEW w, IsFrame(w), NEW f, f = Captured(w)
  PROVE  /\ WellFormed(w) <=>
              HeadersRight(w) /\ Size(f) >= TransportStart(w) + LeastTransport(w)
         /\ Size(f) \in Nat
         /\ TransportStart(w) \in Nat /\ TransportStart(w) >= 34
<1> DEFINE z == Size(f)
           b == Size(Body(w))
           p == Size(Padding(w))
           c == w.cut
           k == OptionSize(w.ihl)
           j == OptionSize(w.doff)
           m == TransportSize(w)
           n == Size(Whole(w))
<1>1. b \in Nat /\ p \in Nat /\ Size(Data(w)) = b + p /\ k \in Nat /\ m \in Nat
  BY FrameParts, Zenon
<1>2. c \in Nat
  BY FrameFields, Zenon
<1>3. n = (34 + k + m) + (b + p)
  BY <1>1, FrameLayout, Zenon DEF HeaderSize
<1>4. z = IF c <= n THEN n - c ELSE 0
  BY CapturedHolds, Zenon
<1>5. j \in Nat /\ j = (IF w.doff > 5 THEN 4 * (w.doff - 5) ELSE 0)
  <2>1. w.doff \in 0..15
    BY FrameFields, Zenon
  <2> QED
    BY <2>1 DEF OptionSize
<1>6. m = IF IsTcp(w) THEN 20 + j ELSE IF IsUdp(w) THEN 8 ELSE 0
  BY DEF TransportSize
<1>7. TransportStart(w) = 34 + k
  BY DEF TransportStart
<1>8. WellFormed(w) <=> HeadersRight(w) /\ c <= b + p + (IF IsTcp(w) THEN j ELSE 0)
  <2>1. (IF IsTcp(w) /\ w.doff > 5 THEN 4 * (w.doff - 5) ELSE 0) = IF IsTcp(w) THEN j ELSE 0
    BY <1>5
  <2>2. WellFormed(w) <=>
          /\ HeadersRight(w)
          /\ w.cut <= Len(Body(w)) + Len(Padding(w))
                       + (IF IsTcp(w) /\ w.doff > 5 THEN 4 * (w.doff - 5) ELSE 0)
    <3> HIDE DEF b, p, c, k, j, m, n, z
    <3> QED
      BY DEF WellFormed, HeadersRight
  <2> QED
    BY <2>1, <2>2, Zenon DEF Size
<1> HIDE DEF z, b, p, c, k, j, m, n
<1>9. z \in Nat
  BY <1>1, <1>2, <1>3, <1>4
<1>10. (c <= b + p + (IF IsTcp(w) THEN j ELSE 0)) <=> (z >= (34 + k) + LeastTransport(w))
  <2>1. CASE IsTcp(w)
    BY <1>1, <1>2, <1>3, <1>4, <1>5, <1>6, <2>1 DEF LeastTransport
  <2>2. CASE ~IsTcp(w)
    BY <1>1, <1>2, <1>3, <1>4, <1>5, <1>6, <2>2 DEF LeastTransport
  <2> QED
    BY <2>1, <2>2
<1>11. 34 + k \in Nat /\ 34 + k >= 34
  BY <1>1
<1> QED
  BY <1>7, <1>8, <1>9, <1>10, <1>11, Zenon DEF z

\* What the parser makes of a frame in the end.
RightParse(w) ==
  [ src      |-> w.src,
    dst      |-> w.dst,
    protocol |-> w.protocol,
    ports    |-> IF HasPorts(w) THEN w.ports ELSE <<>>,
    payload  |-> IF HasPorts(w) THEN Without(Body(w) \o Padding(w), w.cut) ELSE <<>> ]

IpParse(w) ==
  [src |-> w.src, dst |-> w.dst, protocol |-> w.protocol, ports |-> <<>>, payload |-> <<>>]

\* What the parser knows before each header, and in the end.
KnowsHeaders ==
  /\ IsFrame(wire) /\ frame = Captured(wire)
  /\ stage \in {"ethernet", "ip", "tcp", "udp", "parsed", "rejected"}
  /\ stage \in {"ethernet", "ip"} => parsed = Unparsed
  /\ stage = "ip" => wire.ethertype = 2048
  /\ stage \in {"tcp", "udp"} =>
       /\ HeadersRight(wire) /\ Size(frame) >= TransportStart(wire)
       /\ parsed = IpParse(wire)
  /\ stage = "tcp" => IsTcp(wire)
  /\ stage = "udp" => IsUdp(wire)
  /\ stage \in {"parsed", "rejected"} =>
       /\ (stage = "parsed") <=> WellFormed(wire)
       /\ WellFormed(wire) => parsed = RightParse(wire)

\* Rejecting a frame that is not well-formed keeps what the parser knows.
LEMMA RejectKnows ==
  ASSUME KnowsHeaders, wire' = wire, NEW n, Reject(n), ~WellFormed(wire)
  PROVE  KnowsHeaders'
<1>1. stage' = "rejected" /\ frame' = frame /\ parsed' = parsed
  BY DEF Reject
<1>2. IsFrame(wire)' = IsFrame(wire) /\ Captured(wire)' = Captured(wire) /\ WellFormed(wire)' = WellFormed(wire)
  BY Zenon
<1> QED
  BY <1>1, <1>2 DEF KnowsHeaders

\* The step past the Ethernet header keeps what the parser knows.
LEMMA EthernetKnows ==
  ASSUME KnowsHeaders, wire' = wire, Ethernet
  PROVE  KnowsHeaders'
<1>1. IsFrame(wire) /\ frame = Captured(wire) /\ stage = "ethernet" /\ parsed = Unparsed
  BY DEF KnowsHeaders, Ethernet
<1>2. /\ WellFormed(wire) <=>
           HeadersRight(wire) /\ Size(frame) >= TransportStart(wire) + LeastTransport(wire)
      /\ Size(frame) \in Nat /\ TransportStart(wire) \in Nat /\ TransportStart(wire) >= 34
  BY <1>1, WellFormedSize, Zenon
<1>3. LeastTransport(wire) \in Nat
  BY DEF LeastTransport
<1>4. CASE Lacks(14) /\ Reject(0)
  <2>1. Size(frame) < 14
    BY <1>4 DEF Lacks, Size
  <2>2. ~WellFormed(wire)
    BY <1>2, <1>3, <2>1
  <2> QED
    BY <1>4, <2>2, RejectKnows
<1>5. ~Lacks(14) => Word(12) = wire.ethertype
  <2>1. ~Lacks(14) => Size(frame) >= 14
    BY <1>2 DEF Lacks, Size
  <2> QED
    BY <1>1, <2>1, FieldsFound, Zenon
<1>6. CASE ~Lacks(14) /\ Word(12) # 2048 /\ Reject(14)
  <2>1. ~WellFormed(wire)
    BY <1>2, <1>5, <1>6 DEF HeadersRight
  <2> QED
    BY <1>6, <2>1, RejectKnows
<1>7. CASE ~Lacks(14) /\ Word(12) = 2048 /\ stage' = "ip" /\ UNCHANGED <<frame, parsed>>
  <2>1. wire.ethertype = 2048
    BY <1>5, <1>7
  <2> QED
    BY <1>1, <1>7, <2>1 DEF KnowsHeaders
<1> QED
  BY <1>4, <1>6, <1>7 DEF Ethernet, ETHERNET_HEADER_SIZE, ETHERTYPE_IPV4

\* The step past the IP header keeps what the parser knows.
LEMMA IPv4Knows ==
  ASSUME KnowsHeaders, wire' = wire, IPv4
  PROVE  KnowsHeaders'
<1>1. IsFrame(wire) /\ frame = Captured(wire) /\ stage = "ip" /\ parsed = Unparsed
  BY DEF KnowsHeaders, IPv4
<1>a. wire.ethertype = 2048
  BY DEF KnowsHeaders, IPv4
<1>2. /\ WellFormed(wire) <=>
           HeadersRight(wire) /\ Size(frame) >= TransportStart(wire) + LeastTransport(wire)
      /\ Size(frame) \in Nat /\ TransportStart(wire) \in Nat /\ TransportStart(wire) >= 34
  BY <1>1, WellFormedSize, Zenon
<1>3. LeastTransport(wire) \in Nat
  BY DEF LeastTransport
<1>4. CASE Lacks(34) /\ Reject(0)
  <2>1. Size(frame) < 34
    BY <1>4 DEF Lacks, Size
  <2>2. ~WellFormed(wire)
    BY <1>2, <1>3, <2>1
  <2> QED
    BY <1>4, <2>2, RejectKnows
<1>5. ASSUME ~Lacks(34)
      PROVE  /\ Octet(14) = 16 * wire.version + wire.ihl
             /\ Octet(23) = wire.protocol
             /\ Octets(26, 4) = wire.src /\ Octets(30, 4) = wire.dst
  <2>1. Size(frame) >= 34
    BY <1>2, <1>5 DEF Lacks, Size
  <2> QED
    BY <1>1, <2>1, FieldsFound, Zenon
<1>6. ASSUME ~Lacks(34)
      PROVE  WholeIpHeader <=> HeadersRight(wire) /\ Size(frame) >= TransportStart(wire)
  <2>1. wire.version \in 0..15 /\ wire.ihl \in 0..15
    BY <1>1, FrameFields, Zenon
  <2> DEFINE v == wire.version
             i == wire.ihl
             o == Octet(14)
  <2>2. o = 16 * v + i /\ v \in 0..15 /\ i \in 0..15
    BY <1>5, <1>6, <2>1
  <2> HIDE DEF v, i, o
  <2>3. o \div 16 = v /\ o % 16 = i
    BY <2>2
  <2>4. IpHeaderLen = 4 * i /\ TransportOffset = 14 + 4 * i
    BY <2>3 DEF IpHeaderLen, TransportOffset, ETHERNET_HEADER_SIZE, o
  <2>5. TransportStart(wire) = IF i > 5 THEN 14 + 4 * i ELSE 34
    BY <2>2 DEF TransportStart, OptionSize, i
  <2>6. WholeIpHeader <=> v = 4 /\ 4 * i >= 20 /\ ~(Size(frame) < 14 + 4 * i)
    BY <2>3, <2>4 DEF WholeIpHeader, Lacks, Size, ETHERNET_HEADER_SIZE, IPV4_MIN_HEADER_SIZE, o
  <2>7. HeadersRight(wire) <=> v = 4 /\ i >= 5
    BY <1>a DEF HeadersRight, v, i
  <2> QED
    BY <1>2, <2>2, <2>5, <2>6, <2>7
<1>7. CASE ~Lacks(34) /\ ~WholeIpHeader /\ Reject(34)
  <2>1. ~WellFormed(wire)
    BY <1>2, <1>3, <1>6, <1>7
  <2> QED
    BY <1>7, <2>1, RejectKnows
<1>8. CASE /\ ~Lacks(34) /\ WholeIpHeader
           /\ parsed' = [parsed EXCEPT !.protocol = Octet(23),
                                       !.src = Octets(26, 4), !.dst = Octets(30, 4)]
           /\ stage' = CASE Octet(23) = PROTO_TCP -> "tcp"
                         [] Octet(23) = PROTO_UDP -> "udp"
                         [] OTHER -> "parsed"
           /\ UNCHANGED frame
  <2>1. HeadersRight(wire) /\ Size(frame) >= TransportStart(wire)
    BY <1>6, <1>8
  <2>2. parsed' = IpParse(wire)
    <3>1. /\ Octet(23) = wire.protocol
          /\ Octets(26, 4) = wire.src /\ Octets(30, 4) = wire.dst
      BY <1>5, <1>8
    <3> QED
      BY <1>1, <1>8, <3>1 DEF IpParse, Unparsed
  <2>3. CASE IsTcp(wire)
    <3>1. stage' = "tcp"
      BY <1>5, <1>8, <2>3 DEF IsTcp, PROTO_TCP, PROTO_UDP
    <3> QED
      BY <1>1, <1>8, <2>1, <2>2, <2>3, <3>1 DEF KnowsHeaders
  <2>4. CASE IsUdp(wire)
    <3>1. stage' = "udp"
      BY <1>5, <1>8, <2>4 DEF IsUdp, PROTO_TCP, PROTO_UDP
    <3> QED
      BY <1>1, <1>8, <2>1, <2>2, <2>4, <3>1 DEF KnowsHeaders
  <2>5. CASE ~HasPorts(wire)
    <3>1. stage' = "parsed"
      BY <1>5, <1>8, <2>5 DEF HasPorts, IsTcp, IsUdp, PROTO_TCP, PROTO_UDP
    <3>2. LeastTransport(wire) = 0
      BY <2>5 DEF LeastTransport, HasPorts
    <3>3. WellFormed(wire)
      BY <1>2, <2>1, <3>2
    <3>4. IpParse(wire) = RightParse(wire)
      BY <2>5, Zenon DEF IpParse, RightParse
    <3> QED
      BY <1>1, <1>8, <2>2, <3>1, <3>3, <3>4 DEF KnowsHeaders
  <2> QED
    BY <2>3, <2>4, <2>5 DEF HasPorts
<1> QED
  BY <1>4, <1>7, <1>8 DEF IPv4, ETHERNET_HEADER_SIZE, IPV4_MIN_HEADER_SIZE

\* Behind a right IP header the parser is where TCP or UDP begin.
LEMMA TransportFound ==
  ASSUME NEW w, IsFrame(w), frame = Captured(w),
         HeadersRight(w), Size(frame) >= TransportStart(w)
  PROVE  TransportOffset = TransportStart(w)
<1>1. Octet(14) = 16 * w.version + w.ihl
  <2>1. Size(frame) \in Nat /\ TransportStart(w) \in Nat /\ TransportStart(w) >= 34
    BY WellFormedSize, Zenon
  <2>2. Size(frame) >= 34
    BY <2>1
  <2> QED
    BY <2>2, FieldsFound, Zenon
<1>2. w.version \in 0..15 /\ w.ihl \in 0..15
  BY FrameFields, Zenon
<1>3. w.ihl >= 5
  BY DEF HeadersRight
<1> DEFINE v == w.version
           i == w.ihl
           o == Octet(14)
<1>4. o = 16 * v + i /\ v \in 0..15 /\ i \in 0..15 /\ i >= 5
  BY <1>1, <1>2, <1>3
<1> HIDE DEF v, i, o
<1>5. o % 16 = i
  BY <1>4
<1>6. TransportOffset = 14 + 4 * i
  BY <1>5 DEF IpHeaderLen, TransportOffset, ETHERNET_HEADER_SIZE, o
<1>7. TransportStart(w) = 14 + 4 * i
  <2>1. TransportStart(w) = 34 + (IF i > 5 THEN 4 * (i - 5) ELSE 0)
    BY DEF TransportStart, OptionSize, i
  <2> QED
    BY <1>4, <2>1
<1> QED
  BY <1>6, <1>7

\* The step past the header of TCP or UDP, as long as least or more, keeps what
\* the parser knows.
LEMMA TransportKnows ==
  ASSUME KnowsHeaders, wire' = wire, NEW here \in {"tcp", "udp"},
         NEW least, least = LeastTransport(wire), least >= 8, least \in Nat,
         NEW size, Size(frame) >= TransportStart(wire) + least => size = TransportSize(wire),
         stage = here, Transport(here, least, size)
  PROVE  KnowsHeaders'
<1> DEFINE start == TransportStart(wire)
           whole == RightParse(wire)
<1>1. /\ IsFrame(wire) /\ frame = Captured(wire)
      /\ HeadersRight(wire) /\ Size(frame) >= start
      /\ parsed = IpParse(wire) /\ HasPorts(wire)
  BY DEF KnowsHeaders, HasPorts
<1>2. /\ WellFormed(wire) <=> HeadersRight(wire) /\ Size(frame) >= start + least
      /\ Size(frame) \in Nat /\ start \in Nat
  BY <1>1, WellFormedSize, Zenon
<1>3. TransportOffset = start
  BY <1>1, TransportFound, Zenon
<1>4. Lacks(TransportOffset + least) <=> ~(Size(frame) >= start + least)
  BY <1>2, <1>3 DEF Lacks, Size
<1> HIDE DEF start
<1>5. CASE Lacks(TransportOffset + least) /\ Reject(0)
  BY <1>2, <1>4, <1>5, RejectKnows
<1>6. CASE /\ ~Lacks(TransportOffset + least)
           /\ parsed' = [parsed EXCEPT
                !.ports   = <<Word(TransportOffset), Word(TransportOffset + 2)>>,
                !.payload = SubSeq(frame, TransportOffset + size + 1, Len(frame))]
           /\ stage' = "parsed"
           /\ UNCHANGED frame
  <2>1. Size(frame) >= start + least /\ WellFormed(wire)
    BY <1>1, <1>2, <1>4, <1>6
  <2>2. Word(start) = wire.ports[1] /\ Word(start + 2) = wire.ports[2]
    <3>1. Size(frame) >= start + 4
      BY <1>2, <2>1
    <3> QED
      BY <1>1, <3>1, FieldsFound, Zenon DEF start
  <2>3. <<Word(start), Word(start + 2)>> = wire.ports
    BY <1>1, <2>2, FrameFields, Zenon
  <2>4. start + size = HeaderSize(wire)
    BY <2>1 DEF HeaderSize, TransportStart, start
  <2>5. SubSeq(frame, start + size + 1, Len(frame)) = Without(Data(wire), wire.cut)
    BY <1>1, <2>4, PayloadFound, Zenon
  <2>6. parsed' = [IpParse(wire) EXCEPT !.ports = wire.ports,
                                        !.payload = Without(Data(wire), wire.cut)]
    BY <1>1, <1>3, <1>6, <2>3, <2>5, Zenon
  <2>7. /\ RightParse(wire) =
             [src |-> wire.src, dst |-> wire.dst, protocol |-> wire.protocol,
              ports |-> wire.ports, payload |-> Without(Data(wire), wire.cut)]
    BY <1>1, Zenon DEF RightParse, Data
  <2>8. parsed' = RightParse(wire)
    <3> DEFINE r == IpParse(wire)
               p == wire.ports
               q == Without(Data(wire), wire.cut)
               a == wire.src
               b == wire.dst
               c == wire.protocol
    <3>1. r = [src |-> a, dst |-> b, protocol |-> c, ports |-> <<>>, payload |-> <<>>]
      BY DEF IpParse
    <3>2. parsed' = [r EXCEPT !.ports = p, !.payload = q]
      BY <2>6
    <3> HIDE DEF r, p, q, a, b, c
    <3>3. parsed' = [src |-> a, dst |-> b, protocol |-> c, ports |-> p, payload |-> q]
      BY <3>1, <3>2
    <3> QED
      BY <2>7, <3>3, Zenon DEF p, q, a, b, c
  <2> QED
    BY <1>1, <1>6, <2>1, <2>8 DEF KnowsHeaders
<1> QED
  BY <1>5, <1>6 DEF Transport

\* The step past the TCP header keeps what the parser knows.
LEMMA TcpKnows ==
  ASSUME KnowsHeaders, wire' = wire, Tcp
  PROVE  KnowsHeaders'
<1>1. stage = "tcp" /\ Transport("tcp", 20, TcpHeaderLen)
  BY DEF Tcp, Transport, TCP_MIN_HEADER_SIZE
<1>2. /\ IsFrame(wire) /\ frame = Captured(wire) /\ IsTcp(wire)
      /\ HeadersRight(wire) /\ Size(frame) >= TransportStart(wire)
  BY <1>1 DEF KnowsHeaders
<1>3. LeastTransport(wire) = 20 /\ TransportSize(wire) = 20 + OptionSize(wire.doff)
  BY <1>2 DEF LeastTransport, TransportSize
<1>4. ASSUME Size(frame) >= TransportStart(wire) + 20 PROVE TcpHeaderLen = TransportSize(wire)
  <2> DEFINE start == TransportStart(wire)
             d == wire.doff
             o == Octet(start + 12)
  <2>1. TransportOffset = start
    BY <1>2, TransportFound, Zenon
  <2>2. Size(frame) \in Nat /\ start \in Nat
    BY <1>2, WellFormedSize, Zenon
  <2>3. Size(frame) >= start + 14
    BY <1>4, <2>2
  <2>4. o = 16 * d
    BY <1>2, <2>3, FieldsFound, Zenon
  <2>5. d \in 0..15
    BY <1>2, FrameFields, Zenon
  <2> HIDE DEF d, o
  <2>6. o \div 16 = d
    BY <2>4, <2>5
  <2>7. TcpHeaderLen = IF 4 * d < 20 THEN 20 ELSE 4 * d
    BY <2>1, <2>6 DEF TcpHeaderLen, TCP_MIN_HEADER_SIZE, o
  <2>8. TransportSize(wire) = 20 + (IF d > 5 THEN 4 * (d - 5) ELSE 0)
    BY <1>3 DEF OptionSize, d
  <2> QED
    BY <2>5, <2>7, <2>8
<1> QED
  BY <1>1, <1>3, <1>4, TransportKnows

\* The step past the UDP header keeps what the parser knows.
LEMMA UdpKnows ==
  ASSUME KnowsHeaders, wire' = wire, Udp
  PROVE  KnowsHeaders'
<1>1. stage = "udp" /\ Transport("udp", 8, 8)
  BY DEF Udp, Transport, UDP_HEADER_SIZE
<1>2. IsUdp(wire)
  BY <1>1 DEF KnowsHeaders
<1>3. LeastTransport(wire) = 8 /\ TransportSize(wire) = 8
  BY <1>2 DEF LeastTransport, TransportSize, IsTcp, IsUdp
<1> QED
  BY <1>1, <1>3, TransportKnows

\* Every step keeps what the parser knows.
LEMMA KnowsStep ==
  ASSUME KnowsHeaders, [DissectionNext]_dissectionVars
  PROVE  KnowsHeaders' /\ wire' = wire
<1>1. CASE ParseFrame
  <2>1. wire' = wire /\ Parse
    BY <1>1 DEF ParseFrame
  <2> QED
    BY <2>1, EthernetKnows, IPv4Knows, TcpKnows, UdpKnows DEF Parse
<1>2. CASE UNCHANGED <<parserVars, wire>>
  <2>1. wire' = wire /\ frame' = frame /\ stage' = stage /\ parsed' = parsed
    BY <1>2 DEF parserVars
  <2> QED
    BY <2>1 DEF KnowsHeaders
<1>3. CASE Configure \/ NotParsed \/ NoPorts \/ TryTls \/ TryHttp \/ TryNothing
            \/ Extract \/ Extracted \/ Judge
  BY <1>2, <1>3 DEF Configure, NotParsed, NoPorts, Pass, TryTls, TryHttp, TryNothing,
                    Extract, Extracted, Judge
<1>4. CASE UNCHANGED dissectionVars
  BY <1>2, <1>4 DEF dissectionVars
<1> QED
  BY <1>1, <1>3, <1>4 DEF DissectionNext, DissectionStep, Dissected

\* At the start nothing is known that could be wrong.
LEMMA KnowsInit == DissectionInit => KnowsHeaders
<1> SUFFICES ASSUME DissectionInit PROVE KnowsHeaders
  OBVIOUS
<1>1. PICK c \in Cases : wire = c[1] /\ given = c[2]
  BY DEF DissectionInit
<1>2. IsFrame(wire)
  BY <1>1, CasesAssumption, Zenon
<1>3. frame = Captured(wire) /\ stage = "ethernet" /\ parsed = Unparsed
  BY DEF DissectionInit, ParserStart
<1> QED
  BY <1>2, <1>3 DEF KnowsHeaders

\* Wherever options move the headers to, the parser finds the addresses, the
\* ports and the whole payload of every frame whose headers are right, and
\* nothing in any other.
THEOREM ParsesEveryFrame == DissectionSpec => []ParsesWhatIsThere
<1>1. DissectionInit => KnowsHeaders
  BY KnowsInit
<1>2. KnowsHeaders /\ [DissectionNext]_dissectionVars => KnowsHeaders'
  BY KnowsStep
<1>3. KnowsHeaders => ParsesWhatIsThere
  <2>1. KnowsHeaders /\ stage \in {"parsed", "rejected"} =>
          /\ (stage = "parsed") <=> WellFormed(wire)
          /\ WellFormed(wire) => parsed = RightParse(wire)
    BY DEF KnowsHeaders
  <2> QED
    BY <2>1, Zenon DEF ParsesWhatIsThere, RightParse
<1> QED
  BY <1>1, <1>2, <1>3, PTL DEF DissectionSpec

-----------------------------------------------------------------------------
(* Addresses as numbers *)

\* The numbers of set A, each n more.
Shifted(A, n) == {b + n : b \in A}

\* The four parts of an address put together, from the sets of their bits.
Together(a, b, c, d) == Shifted(a, 24) \cup Shifted(b, 16) \cup Shifted(c, 8) \cup d

\* A bit of an address is a bit of one of its parts.
LEMMA InTogether ==
  ASSUME NEW a \in SUBSET (0..15), NEW b \in SUBSET (0..15),
         NEW c \in SUBSET (0..15), NEW d \in SUBSET (0..15), NEW x \in Int
  PROVE  x \in Together(a, b, c, d) <=> x - 24 \in a \/ x - 16 \in b \/ x - 8 \in c \/ x \in d
<1>1. ASSUME NEW A \in SUBSET (0..15), NEW n \in Nat
      PROVE  x \in Shifted(A, n) <=> x - n \in A
  <2>1. ASSUME x \in Shifted(A, n) PROVE x - n \in A
    <3>1. PICK y \in A : x = y + n
      BY <2>1 DEF Shifted
    <3>2. y \in Int /\ x - n = y
      BY <3>1
    <3> QED
      BY <3>1, <3>2
  <2>2. ASSUME x - n \in A PROVE x \in Shifted(A, n)
    <3>1. (x - n) + n = x
      OBVIOUS
    <3> QED
      BY <2>2, <3>1 DEF Shifted
  <2> QED
    BY <2>1, <2>2
<1>2. /\ x \in Shifted(a, 24) <=> x - 24 \in a
      /\ x \in Shifted(b, 16) <=> x - 16 \in b
      /\ x \in Shifted(c, 8) <=> x - 8 \in c
  BY <1>1
<1> QED
  BY <1>2 DEF Together

\* What is beyond eight bits in one part sets bits of the part before.
Carried(a, next) == {x \in 0..7 : x \in a \/ x + 8 \in next}

\* When four parts of up to 16 bits make the number of four octets.
LEMMA SameNumber ==
  ASSUME NEW a \in SUBSET (0..15), NEW b \in SUBSET (0..15),
         NEW c \in SUBSET (0..15), NEW d \in SUBSET (0..15),
         NEW s \in SUBSET (0..7), NEW t \in SUBSET (0..7),
         NEW u \in SUBSET (0..7), NEW v \in SUBSET (0..7)
  PROVE  Together(a, b, c, d) = Together(s, t, u, v) <=>
           /\ a \subseteq 0..7
           /\ s = Carried(a, b) /\ t = Carried(b, c) /\ u = Carried(c, d)
           /\ v = Carried(d, {})
<1> DEFINE L == Together(a, b, c, d)
           R == Together(s, t, u, v)
<1>1. /\ s \in SUBSET (0..15) /\ t \in SUBSET (0..15)
      /\ u \in SUBSET (0..15) /\ v \in SUBSET (0..15)
  OBVIOUS
<1>2. \A x \in Int : x \in L <=> x - 24 \in a \/ x - 16 \in b \/ x - 8 \in c \/ x \in d
  BY InTogether
<1>3. \A x \in Int : x \in R <=> x - 24 \in s \/ x - 16 \in t \/ x - 8 \in u \/ x \in v
  BY <1>1, InTogether
<1>4. L \subseteq Int /\ R \subseteq Int
  <2>1. ASSUME NEW A \in SUBSET (0..15), NEW n \in Nat, NEW x \in Shifted(A, n) PROVE x \in Int
    <3>1. PICK y \in A : x = y + n
      BY DEF Shifted
    <3> QED
      BY <3>1
  <2>2. \A A \in SUBSET (0..15), n \in Nat : Shifted(A, n) \subseteq Int
    BY <2>1
  <2>3. \A A \in SUBSET (0..15) :
          Shifted(A, 24) \subseteq Int /\ Shifted(A, 16) \subseteq Int /\ Shifted(A, 8) \subseteq Int
    BY <2>2
  <2>4. d \subseteq Int /\ v \subseteq Int
    OBVIOUS
  <2> QED
    BY <1>1, <2>3, <2>4, Zenon DEF Together
<1> HIDE DEF L, R
<1>5. ASSUME L = R
      PROVE  /\ a \subseteq 0..7
             /\ s = Carried(a, b) /\ t = Carried(b, c) /\ u = Carried(c, d)
             /\ v = Carried(d, {})
  <2>0. \A x \in Int : /\ x \in L <=> x - 24 \in a \/ x - 16 \in b \/ x - 8 \in c \/ x \in d
                       /\ x \in L <=> x - 24 \in s \/ x - 16 \in t \/ x - 8 \in u \/ x \in v
    BY <1>2, <1>3, <1>5
  <2>1. ASSUME NEW x \in a PROVE x \in 0..7
    <3>1. x \in 0..15 /\ x + 24 \in Int /\ (x + 24) - 24 = x /\ x + 24 \in L
      BY <2>0
    <3>2. (x + 24) - 24 \in s \/ (x + 24) - 16 \in t \/ (x + 24) - 8 \in u \/ x + 24 \in v
      BY <2>0, <3>1
    <3> QED
      BY <3>1, <3>2
  <2>2. ASSUME NEW x \in 0..7 PROVE x \in s <=> x \in a \/ x + 8 \in b
    <3>1. /\ x + 24 \in Int /\ (x + 24) - 24 = x /\ (x + 24) - 16 = x + 8
          /\ (x + 24) - 8 \notin 0..15 /\ x + 24 \notin 0..15
          /\ x + 8 \notin 0..7 /\ (x + 24) - 8 \notin 0..7 /\ x + 24 \notin 0..7
      OBVIOUS
    <3> QED
      BY <2>0, <3>1
  <2>3. ASSUME NEW x \in 0..7 PROVE x \in t <=> x \in b \/ x + 8 \in c
    <3>1. /\ x + 16 \in Int /\ (x + 16) - 24 = x - 8 /\ (x + 16) - 16 = x /\ (x + 16) - 8 = x + 8
          /\ x - 8 \notin 0..15 /\ x - 8 \notin 0..7
          /\ x + 16 \notin 0..15 /\ x + 8 \notin 0..7 /\ x + 16 \notin 0..7
      OBVIOUS
    <3> QED
      BY <2>0, <3>1
  <2>4. ASSUME NEW x \in 0..7 PROVE x \in u <=> x \in c \/ x + 8 \in d
    <3>1. /\ x + 8 \in Int /\ (x + 8) - 24 = x - 16 /\ (x + 8) - 16 = x - 8 /\ (x + 8) - 8 = x
          /\ x - 16 \notin 0..15 /\ x - 16 \notin 0..7
          /\ x - 8 \notin 0..15 /\ x - 8 \notin 0..7 /\ x + 8 \notin 0..7
      OBVIOUS
    <3> QED
      BY <2>0, <3>1
  <2>5. ASSUME NEW x \in 0..7 PROVE x \in v <=> x \in d
    <3>1. /\ x \in Int
          /\ x - 24 \notin 0..15 /\ x - 24 \notin 0..7
          /\ x - 16 \notin 0..15 /\ x - 16 \notin 0..7
          /\ x - 8 \notin 0..15 /\ x - 8 \notin 0..7
      OBVIOUS
    <3> QED
      BY <2>0, <3>1
  <2> QED
    BY <2>1, <2>2, <2>3, <2>4, <2>5 DEF Carried
<1>6. ASSUME a \subseteq 0..7,
             s = Carried(a, b), t = Carried(b, c), u = Carried(c, d), v = Carried(d, {})
      PROVE  L = R
  <2>1. /\ \A x \in 0..7 : x \in s <=> x \in a \/ x + 8 \in b
        /\ \A x \in 0..7 : x \in t <=> x \in b \/ x + 8 \in c
        /\ \A x \in 0..7 : x \in u <=> x \in c \/ x + 8 \in d
        /\ \A x \in 0..7 : x \in v <=> x \in d
    BY <1>6 DEF Carried
  <2>2. ASSUME NEW x \in Int PROVE x \in L <=> x \in R
    <3>1. CASE x \in 0..7
      <4>1. x - 24 \notin 0..15 /\ x - 16 \notin 0..15 /\ x - 8 \notin 0..15
        BY <3>1
      <4> QED
        BY <1>1, <1>2, <1>3, <2>1, <3>1, <4>1
    <3>2. CASE x \in 8..15
      <4>1. /\ x - 24 \notin 0..15 /\ x - 16 \notin 0..15
            /\ x - 8 \in 0..7 /\ (x - 8) + 8 = x /\ x \notin 0..7
        BY <3>2
      <4> QED
        BY <1>1, <1>2, <1>3, <2>1, <3>2, <4>1
    <3>3. CASE x \in 16..23
      <4>1. /\ x - 24 \notin 0..15 /\ x - 16 \in 0..7 /\ (x - 16) + 8 = x - 8
            /\ x - 8 \notin 0..7 /\ x \notin 0..15
        BY <3>3
      <4> QED
        BY <1>1, <1>2, <1>3, <2>1, <3>3, <4>1
    <3>4. CASE x \in 24..31
      <4>1. /\ x - 24 \in 0..7 /\ (x - 24) + 8 = x - 16
            /\ x - 16 \notin 0..7 /\ x - 8 \notin 0..15 /\ x \notin 0..15
        BY <3>4
      <4> QED
        BY <1>1, <1>2, <1>3, <2>1, <3>4, <4>1
    <3>5. CASE x < 0 \/ x > 31
      <4>1. /\ x - 24 \notin 0..7
            /\ x - 16 \notin 0..15 /\ x - 8 \notin 0..15 /\ x \notin 0..15
        BY <3>5
      <4> QED
        BY <1>1, <1>2, <1>3, <1>6, <4>1
    <3> QED
      BY <3>1, <3>2, <3>3, <3>4, <3>5
  <2> QED
    BY <1>4, <2>2
<1> QED
  BY <1>5, <1>6 DEF L, R

\* An octet has eight bits.
LEMMA BitsOfOctet ==
  /\ \A n : Bits(n) \in SUBSET (0..15)
  /\ \A n \in U8Values : Bits(n) \in SUBSET (0..7)
<1>1. \A n : Bits(n) \in SUBSET (0..15)
  BY DEF Bits
<1>2. ASSUME NEW n \in U8Values, NEW b \in Bits(n) PROVE b \in 0..7
  <2>1. b \in 0..15 /\ (n \div 2^b) % 2 = 1
    BY DEF Bits
  <2>2. n \in 0..255
    BY DEF U8Values
  <2>3. ASSUME b \in 8..15 PROVE 2^b \in Nat /\ 2^b >= 256
    <3>1. /\ 2^8 = 256 /\ 2^9 = 512 /\ 2^10 = 1024 /\ 2^11 = 2048
          /\ 2^12 = 4096 /\ 2^13 = 8192 /\ 2^14 = 16384 /\ 2^15 = 32768
      OBVIOUS
    <3>2. b = 8 \/ b = 9 \/ b = 10 \/ b = 11 \/ b = 12 \/ b = 13 \/ b = 14 \/ b = 15
      BY <2>3
    <3>3. CASE b = 8
      BY <3>1, <3>3
    <3>4. CASE b = 9
      BY <3>1, <3>4
    <3>5. CASE b = 10
      BY <3>1, <3>5
    <3>6. CASE b = 11
      BY <3>1, <3>6
    <3>7. CASE b = 12
      BY <3>1, <3>7
    <3>8. CASE b = 13
      BY <3>1, <3>8
    <3>9. CASE b = 14
      BY <3>1, <3>9
    <3>10. CASE b = 15
      BY <3>1, <3>10
    <3> QED
      BY <3>2, <3>3, <3>4, <3>5, <3>6, <3>7, <3>8, <3>9, <3>10
  <2>4. \A m \in Nat : m >= 256 => n \div m = 0
    BY <2>2
  <2>5. ASSUME b \in 8..15 PROVE FALSE
    <3>1. n \div 2^b = 0
      BY <2>3, <2>4, <2>5
    <3>2. 0 % 2 = 0
      OBVIOUS
    <3> QED
      BY <2>1, <3>1, <3>2
  <2> QED
    BY <2>1, <2>5
<1> QED
  BY <1>1, <1>2

\* The number made of an address of four parts.
LEMMA FourParts ==
  ASSUME NEW p, DOMAIN p = 1..4, Len(p) = 4
  PROVE  StrToIp(p) = Together(Bits(p[1]), Bits(p[2]), Bits(p[3]), Bits(p[4]))
<1> DEFINE part(k) == {b + 8 * (Len(p) - k) : b \in Bits(p[k])}
<1>1. StrToIp(p) = UNION {part(k) : k \in 1..4}
  BY DEF StrToIp
<1>2. \A k \in 1..4 : k = 1 \/ k = 2 \/ k = 3 \/ k = 4
  OBVIOUS
<1>3. /\ part(1) = Shifted(Bits(p[1]), 24)
      /\ part(2) = Shifted(Bits(p[2]), 16)
      /\ part(3) = Shifted(Bits(p[3]), 8)
      /\ part(4) = Bits(p[4])
  <2>1. 8 * (4 - 1) = 24 /\ 8 * (4 - 2) = 16 /\ 8 * (4 - 3) = 8 /\ 8 * (4 - 4) = 0
    OBVIOUS
  <2>2. \A b \in Bits(p[4]) : b + 0 = b
    BY BitsOfOctet
  <2> QED
    BY <2>1, <2>2 DEF Shifted
<1>4. UNION {part(k) : k \in 1..4} = part(1) \cup part(2) \cup part(3) \cup part(4)
  <2> HIDE DEF part
  <2> QED
    BY <1>2
<1> QED
  BY <1>1, <1>3, <1>4 DEF Together

\* The number made of an argument is that of an address exactly if the
\* argument names the address.
LEMMA NamesItsAddress ==
  ASSUME NEW ip \in [1..4 -> U16Values], NEW src \in [1..4 -> U8Values]
  PROVE  StrToIp(ip) = StrToIp(src) <=> NamesAddress(ip, src)
<1> DEFINE a == Bits(ip[1])
           b == Bits(ip[2])
           c == Bits(ip[3])
           d == Bits(ip[4])
           s == Bits(src[1])
           t == Bits(src[2])
           u == Bits(src[3])
           v == Bits(src[4])
<1>1. DOMAIN ip = 1..4 /\ DOMAIN src = 1..4 /\ \A k \in 1..4 : src[k] \in U8Values
  OBVIOUS
<1>2. Len(ip) = 4 /\ Len(src) = 4
  <2>1. \A n \in Nat : \A f : DOMAIN f = 1..n => Len(f) = n
    OBVIOUS
  <2>2. 4 \in Nat
    OBVIOUS
  <2> QED
    BY <1>1, <2>1, <2>2, Zenon
<1>3. /\ StrToIp(ip) = Together(a, b, c, d)
      /\ StrToIp(src) = Together(s, t, u, v)
  BY <1>1, <1>2, FourParts, Zenon
<1>4. /\ a \in SUBSET (0..15) /\ b \in SUBSET (0..15)
      /\ c \in SUBSET (0..15) /\ d \in SUBSET (0..15)
      /\ s \in SUBSET (0..7) /\ t \in SUBSET (0..7)
      /\ u \in SUBSET (0..7) /\ v \in SUBSET (0..7)
  <2>1. 1 \in 1..4 /\ 2 \in 1..4 /\ 3 \in 1..4 /\ 4 \in 1..4
    OBVIOUS
  <2> QED
    BY <1>1, <2>1, BitsOfOctet, Zenon
<1>5. NamesAddress(ip, src) <=>
        /\ a \subseteq 0..7
        /\ s = Carried(a, b) /\ t = Carried(b, c) /\ u = Carried(c, d)
        /\ v = Carried(d, {})
  <2> DEFINE part(k) == {x \in 0..7 : x \in Bits(ip[k]) \/ (k < 4 /\ x + 8 \in Bits(ip[k + 1]))}
  <2>1. NamesAddress(ip, src) <=> a \subseteq 0..7 /\ \A k \in 1..4 : Bits(src[k]) = part(k)
    BY <1>1, <1>2 DEF NamesAddress
  <2>2. \A k : k \in 1..4 <=> k = 1 \/ k = 2 \/ k = 3 \/ k = 4
    OBVIOUS
  <2>3. /\ part(1) = Carried(a, b) /\ part(2) = Carried(b, c)
        /\ part(3) = Carried(c, d) /\ part(4) = Carried(d, {})
    <3>1. 1 + 1 = 2 /\ 2 + 1 = 3 /\ 3 + 1 = 4
      OBVIOUS
    <3> QED
      BY <3>1 DEF Carried
  <2> HIDE DEF part
  <2>4. (\A k \in 1..4 : Bits(src[k]) = part(k)) <=>
          s = part(1) /\ t = part(2) /\ u = part(3) /\ v = part(4)
    BY <2>2
  <2> QED
    BY <2>1, <2>3, <2>4, Zenon
<1> HIDE DEF a, b, c, d, s, t, u, v
<1> QED
  BY <1>3, <1>4, <1>5, SameNumber

-----------------------------------------------------------------------------
(* The rules that are added *)

AppsOf(g)    == {Upper[a] : a \in ToSet(g.apps)} \cap AppNames
IpsOf(g)     == {StrToIp(p) : p \in ToSet(g.ips)}
DomainsOf(g) == {Lower(d) : d \in ToSet(g.domains)}

\* What has been added and what is still to be added are what was given.
RulesAdded ==
  /\ IsArguments(given) /\ IsArguments(args)
  /\ apps \cup AppsOf(args) = AppsOf(given)
  /\ ips \cup IpsOf(args) = IpsOf(given)
  /\ domains \cup DomainsOf(args) = DomainsOf(given)
  /\ phase # "rules" => RulesComplete

\* A sequence holds its first element and the rest.
LEMMA HeadAndRest ==
  ASSUME NEW S, NEW s \in Seq(S), s # <<>>
  PROVE  Tail(s) \in Seq(S) /\ ToSet(s) = {Head(s)} \cup ToSet(Tail(s))
<1>1. /\ Len(s) \in Nat /\ Len(s) >= 1 /\ DOMAIN s = 1..Len(s)
      /\ Tail(s) \in Seq(S) /\ DOMAIN Tail(s) = 1..(Len(s) - 1) /\ Head(s) = s[1]
      /\ \A i \in 1..(Len(s) - 1) : Tail(s)[i] = s[i + 1]
  OBVIOUS
<1>2. ASSUME NEW x \in ToSet(s) PROVE x \in {Head(s)} \cup ToSet(Tail(s))
  <2>1. PICK i \in 1..Len(s) : x = s[i]
    BY <1>1 DEF ToSet
  <2>2. CASE i = 1
    BY <1>1, <2>1, <2>2
  <2>3. CASE i # 1
    <3>1. i - 1 \in 1..(Len(s) - 1) /\ (i - 1) + 1 = i
      BY <1>1, <2>3
    <3>2. Tail(s)[i - 1] = x
      BY <1>1, <2>1, <3>1
    <3> QED
      BY <1>1, <3>1, <3>2 DEF ToSet
  <2> QED
    BY <2>2, <2>3
<1>3. ASSUME NEW x \in ToSet(Tail(s)) PROVE x \in ToSet(s)
  <2>1. PICK i \in 1..(Len(s) - 1) : x = Tail(s)[i]
    BY <1>1 DEF ToSet
  <2>2. i + 1 \in 1..Len(s) /\ x = s[i + 1]
    BY <1>1, <2>1
  <2> QED
    BY <1>1, <2>2 DEF ToSet
<1>4. Head(s) \in ToSet(s)
  <2>1. 1 \in 1..Len(s)
    BY <1>1
  <2> QED
    BY <1>1, <2>1 DEF ToSet
<1> QED
  BY <1>1, <1>2, <1>3, <1>4

\* What is known of arguments.
LEMMA ArgumentsAre ==
  ASSUME NEW g
  PROVE  IsArguments(g) <=>
           /\ DOMAIN g = {"apps", "ips", "domains"}
           /\ g.apps \in Seq(DOMAIN Upper) /\ g.ips \in Seq([1..4 -> U16Values])
           /\ g.domains \in Seq(Seq(Nat))
           /\ \A dom \in ToSet(g.domains) : Lower(dom) \in Range(Spelling)
BY Zenon DEF IsArguments

\* Adding an application keeps rules and arguments together ...
LEMMA AppRule ==
  ASSUME RulesAdded, AddBlockedApp, given' = given, phase = "rules", phase' = phase
  PROVE  RulesAdded'
<1> DEFINE s == args.apps
<1>1. IsArguments(args) /\ s # <<>> /\ s \in Seq(DOMAIN Upper)
  BY ArgumentsAre, Zenon DEF RulesAdded, AddBlockedApp
<1>2. Tail(s) \in Seq(DOMAIN Upper) /\ ToSet(s) = {Head(s)} \cup ToSet(Tail(s))
  BY <1>1, HeadAndRest, Zenon
<1>3. DOMAIN args = {"apps", "ips", "domains"}
  BY <1>1, ArgumentsAre, Zenon
<1>4. /\ args'.apps = Tail(s) /\ args'.ips = args.ips /\ args'.domains = args.domains
      /\ DOMAIN args' = {"apps", "ips", "domains"}
  BY <1>3 DEF AddBlockedApp
<1>5. IsArguments(args')
  BY <1>1, <1>2, <1>4, ArgumentsAre, Zenon
<1>6. apps' = apps \cup ({Upper[Head(s)]} \cap AppNames) /\ ips' = ips /\ domains' = domains
  BY DEF AddBlockedApp
<1>7. apps' \cup AppsOf(args') = apps \cup AppsOf(args)
  <2>1. {Upper[a] : a \in ToSet(s)} = {Upper[Head(s)]} \cup {Upper[a] : a \in ToSet(Tail(s))}
    BY <1>2
  <2> QED
    BY <1>4, <1>6, <2>1 DEF AppsOf
<1>8. IpsOf(args') = IpsOf(args) /\ DomainsOf(args') = DomainsOf(args)
  BY <1>4, Zenon DEF IpsOf, DomainsOf
<1>9. /\ IsArguments(given)' = IsArguments(given) /\ AppsOf(given)' = AppsOf(given)
      /\ IpsOf(given)' = IpsOf(given) /\ DomainsOf(given)' = DomainsOf(given)
  BY Zenon
<1> QED
  BY <1>5, <1>6, <1>7, <1>8, <1>9, Zenon DEF RulesAdded

\* ... so does adding an address ...
LEMMA IpRule ==
  ASSUME RulesAdded, AddBlockedIp, given' = given, phase = "rules", phase' = phase
  PROVE  RulesAdded'
<1> DEFINE s == args.ips
<1>1. IsArguments(args) /\ s # <<>> /\ s \in Seq([1..4 -> U16Values])
  BY ArgumentsAre, Zenon DEF RulesAdded, AddBlockedIp
<1>2. Tail(s) \in Seq([1..4 -> U16Values]) /\ ToSet(s) = {Head(s)} \cup ToSet(Tail(s))
  BY <1>1, HeadAndRest, Zenon
<1>3. DOMAIN args = {"apps", "ips", "domains"}
  BY <1>1, ArgumentsAre, Zenon
<1>4. /\ args'.ips = Tail(s) /\ args'.apps = args.apps /\ args'.domains = args.domains
      /\ DOMAIN args' = {"apps", "ips", "domains"}
  BY <1>3 DEF AddBlockedIp
<1>5. IsArguments(args')
  BY <1>1, <1>2, <1>4, ArgumentsAre, Zenon
<1>6. ips' = ips \cup {StrToIp(Head(s))} /\ apps' = apps /\ domains' = domains
  BY DEF AddBlockedIp
<1>7. ips' \cup IpsOf(args') = ips \cup IpsOf(args)
  <2>1. {StrToIp(p) : p \in ToSet(s)} = {StrToIp(Head(s))} \cup {StrToIp(p) : p \in ToSet(Tail(s))}
    BY <1>2
  <2> QED
    BY <1>4, <1>6, <2>1 DEF IpsOf
<1>8. AppsOf(args') = AppsOf(args) /\ DomainsOf(args') = DomainsOf(args)
  BY <1>4, Zenon DEF AppsOf, DomainsOf
<1>9. /\ IsArguments(given)' = IsArguments(given) /\ AppsOf(given)' = AppsOf(given)
      /\ IpsOf(given)' = IpsOf(given) /\ DomainsOf(given)' = DomainsOf(given)
  BY Zenon
<1> QED
  BY <1>5, <1>6, <1>7, <1>8, <1>9, Zenon DEF RulesAdded

\* ... and adding a domain ...
LEMMA DomainRule ==
  ASSUME RulesAdded, AddBlockedDomain, given' = given, phase = "rules", phase' = phase
  PROVE  RulesAdded'
<1> DEFINE s == args.domains
<1>1. IsArguments(args) /\ s # <<>> /\ s \in Seq(Seq(Nat))
  BY ArgumentsAre, Zenon DEF RulesAdded, AddBlockedDomain
<1>2. Tail(s) \in Seq(Seq(Nat)) /\ ToSet(s) = {Head(s)} \cup ToSet(Tail(s))
  BY <1>1, HeadAndRest, Zenon
<1>3. DOMAIN args = {"apps", "ips", "domains"}
  BY <1>1, ArgumentsAre, Zenon
<1>4. /\ args'.domains = Tail(s) /\ args'.apps = args.apps /\ args'.ips = args.ips
      /\ DOMAIN args' = {"apps", "ips", "domains"}
  BY <1>3 DEF AddBlockedDomain
<1>5. IsArguments(args')
  <2>1. \A dom \in ToSet(Tail(s)) : dom \in ToSet(s)
    BY <1>2
  <2> QED
    BY <1>1, <1>2, <1>4, <2>1, ArgumentsAre, Zenon
<1>6. domains' = domains \cup {Lower(Head(s))} /\ apps' = apps /\ ips' = ips
  BY DEF AddBlockedDomain
<1>7. domains' \cup DomainsOf(args') = domains \cup DomainsOf(args)
  <2>1. {Lower(d) : d \in ToSet(s)} = {Lower(Head(s))} \cup {Lower(d) : d \in ToSet(Tail(s))}
    BY <1>2
  <2> QED
    BY <1>4, <1>6, <2>1 DEF DomainsOf
<1>8. AppsOf(args') = AppsOf(args) /\ IpsOf(args') = IpsOf(args)
  BY <1>4, Zenon DEF AppsOf, IpsOf
<1>9. /\ IsArguments(given)' = IsArguments(given) /\ AppsOf(given)' = AppsOf(given)
      /\ IpsOf(given)' = IpsOf(given) /\ DomainsOf(given)' = DomainsOf(given)
  BY Zenon
<1> QED
  BY <1>5, <1>6, <1>7, <1>8, <1>9, Zenon DEF RulesAdded

\* When nothing is left to be added, the rules are those of the arguments.
LEMMA RulesAre ==
  ASSUME RulesAdded, RulesComplete
  PROVE  apps = AppsOf(given) /\ ips = IpsOf(given) /\ domains = DomainsOf(given)
<1>1. ToSet(<<>>) = {}
  BY DEF ToSet
<1>2. args.apps = <<>> /\ args.ips = <<>> /\ args.domains = <<>>
  BY DEF RulesComplete
<1>3. AppsOf(args) = {} /\ IpsOf(args) = {} /\ DomainsOf(args) = {}
  BY <1>1, <1>2 DEF AppsOf, IpsOf, DomainsOf
<1>4. /\ apps \cup AppsOf(args) = AppsOf(given)
      /\ ips \cup IpsOf(args) = IpsOf(given)
      /\ domains \cup DomainsOf(args) = DomainsOf(given)
  BY DEF RulesAdded
<1> QED
  BY <1>3, <1>4

\* ... and every other step leaves them alone.
LEMMA RulesStep ==
  ASSUME RulesAdded, [DissectionNext]_dissectionVars
  PROVE  RulesAdded'
<1>1. CASE UNCHANGED <<ruleVars, given>> /\ (phase # "rules" \/ phase' = phase)
  <2>1. args' = args /\ apps' = apps /\ ips' = ips /\ domains' = domains /\ given' = given
    BY <1>1 DEF ruleVars
  <2>2. phase' # "rules" => RulesComplete
    BY <1>1 DEF RulesAdded
  <2>3. /\ IsArguments(given)' = IsArguments(given) /\ AppsOf(given)' = AppsOf(given)
        /\ IpsOf(given)' = IpsOf(given) /\ DomainsOf(given)' = DomainsOf(given)
        /\ IsArguments(args)' = IsArguments(args) /\ AppsOf(args)' = AppsOf(args)
        /\ IpsOf(args)' = IpsOf(args) /\ DomainsOf(args)' = DomainsOf(args)
        /\ RulesComplete' = RulesComplete
    BY <2>1, Zenon DEF RulesComplete
  <2> QED
    BY <2>1, <2>2, <2>3, Zenon DEF RulesAdded
<1>2. CASE Configure
  <2>1. CASE AddRule /\ UNCHANGED phase
    BY <1>2, <2>1, AppRule, IpRule, DomainRule, Zenon DEF Configure, AddRule
  <2>2. CASE RulesComplete /\ phase' = "parse" /\ UNCHANGED ruleVars
    <3>1. args' = args /\ apps' = apps /\ ips' = ips /\ domains' = domains /\ given' = given
      BY <1>2, <2>2 DEF ruleVars, Configure
    <3>2. /\ IsArguments(given)' = IsArguments(given) /\ AppsOf(given)' = AppsOf(given)
          /\ IpsOf(given)' = IpsOf(given) /\ DomainsOf(given)' = DomainsOf(given)
          /\ IsArguments(args)' = IsArguments(args) /\ AppsOf(args)' = AppsOf(args)
          /\ IpsOf(args)' = IpsOf(args) /\ DomainsOf(args)' = DomainsOf(args)
          /\ RulesComplete' = RulesComplete
      BY <3>1, Zenon DEF RulesComplete
    <3> QED
      BY <2>2, <3>1, <3>2, Zenon DEF RulesAdded
  <2> QED
    BY <1>2, <2>1, <2>2 DEF Configure
<1>3. CASE ParseFrame \/ NotParsed \/ NoPorts \/ TryTls \/ TryHttp \/ TryNothing
            \/ Extract \/ Extracted \/ Judge
  BY <1>1, <1>3 DEF ParseFrame, NotParsed, NoPorts, Pass, TryTls, TryHttp, TryNothing,
                    HasPort, Extract, Extracted, Judge
<1>4. CASE UNCHANGED dissectionVars
  BY <1>1, <1>4 DEF dissectionVars
<1> QED
  BY <1>2, <1>3, <1>4 DEF DissectionNext, DissectionStep, Dissected

-----------------------------------------------------------------------------
(* Classification *)

\* Every entry of the keyword table names an application.
LEMMA TableOfKeywords ==
  /\ DOMAIN Engine!SniMapping = 1..24
  /\ \A k \in 1..24 : Engine!SniMapping[k][2] \in Engine!AppTypes
BY DEF Engine!SniMapping, Engine!AppTypes

\* The positions of the keywords in a name have a first one.
LEMMA FirstKeyword ==
  ASSUME NEW hits, hits \subseteq 1..24, hits # {}
  PROVE  \E k \in hits : \A l \in hits : k <= l
<1>1. hits \subseteq Nat
  OBVIOUS
<1>2. PICK k \in hits : \A l \in hits : ~(<<l, k>> \in OpToRel(<, Nat))
  BY <1>1, NatLessThanWellFounded, WFMin
<1>3. \A l \in hits : ~(l < k)
  BY <1>1, <1>2 DEF OpToRel
<1> QED
  BY <1>1, <1>3

\* sni_to_app_type always returns an application.
LEMMA NameHasApp == \A n : Engine!SniToAppType(n) \in Engine!AppTypes
<1> SUFFICES ASSUME NEW n PROVE Engine!SniToAppType(n) \in Engine!AppTypes
  OBVIOUS
<1> DEFINE words == [m \in {shown, NoName} |-> WordsIn(m)]
           hits  == {k \in DOMAIN Engine!SniMapping : Engine!SniMapping[k][1] \in words[n]}
           first == CHOOSE k \in hits : \A l \in hits : k <= l
<1>1. Engine!SniToAppType(n) = IF hits = {} THEN "UNKNOWN" ELSE Engine!SniMapping[first][2]
  BY Zenon DEF Engine!SniToAppType
<1>2. CASE hits = {}
  BY <1>1, <1>2 DEF Engine!AppTypes
<1>3. CASE hits # {}
  <2>1. hits \subseteq 1..24
    BY TableOfKeywords
  <2> HIDE DEF hits
  <2>2. first \in hits
    BY <1>3, <2>1, FirstKeyword
  <2>3. Engine!SniMapping[first][2] \in Engine!AppTypes
    BY <2>1, <2>2, TableOfKeywords
  <2> QED
    BY <1>1, <1>3, <2>3
<1> QED
  BY <1>2, <1>3

\* A name was found on the ports for names only.
NameHasPort ==
  shown # NoName =>
    \/ parsed.ports[2] = 443 /\ Len(parsed.payload) >= 6
    \/ parsed.ports[2] = 80 /\ Len(parsed.payload) >= 1

\* A flow that is not blocked, with these names and this application.
OpenFlow(r, sni, host, app) ==
  /\ DOMAIN r = {"sni", "host", "app", "blocked", "packets"}
  /\ r.sni = sni /\ r.host = host /\ r.app = app /\ r.blocked = FALSE

\* The changes that the classifier makes to a flow.
LEMMA FlowChanged ==
  ASSUME NEW a, NEW b, NEW h, NEW p, NEW q, NEW r, OpenFlow(r, a, b, p)
  PROVE  /\ OpenFlow([r EXCEPT !.app = q], a, b, q)
         /\ OpenFlow([r EXCEPT !.sni = h, !.app = q], h, b, q)
         /\ OpenFlow([r EXCEPT !.host = h, !.sni = h, !.app = q], h, h, q)
<1>1. OpenFlow([r EXCEPT !.app = q], a, b, q)
  BY DEF OpenFlow
<1>2. OpenFlow([r EXCEPT !.sni = h, !.app = q], h, b, q)
  BY DEF OpenFlow
<1>3. OpenFlow([r EXCEPT !.host = h, !.sni = h, !.app = q], h, h, q)
  BY DEF OpenFlow
<1> QED
  BY <1>1, <1>2, <1>3, Zenon

\* The first packet of a flow gives it the name in the packet, if any, and an
\* application.
LEMMA FirstSeen ==
  ASSUME parsed.ports # <<>>, NameHasPort, Len(parsed.payload) \in Nat,
         NEW new, OpenFlow(new, NoName, NoName, "UNKNOWN"),
         NEW s, s = Engine!Classify(Packet, new)
  PROVE  \E host : \E app \in Engine!AppTypes : OpenFlow(s, shown, host, app)
<1> DEFINE port == [t \in {FiveTuple} |-> t.ports[2]][Packet.tuple]
           size == Packet.size
           found == Packet.name
           app == Engine!SniToAppType(found)
           tls == [new EXCEPT !.sni = found, !.app = app]
           http == [new EXCEPT !.host = found, !.sni = found, !.app = app]
<1>1. port = parsed.ports[2]
  <2>1. FiveTuple.ports = parsed.ports
    BY DEF FiveTuple
  <2>2. Packet.tuple = FiveTuple
    BY DEF Packet
  <2> QED
    BY <2>1, <2>2, Zenon
<1>2. size = Len(parsed.payload) /\ found = shown
  BY DEF Packet
<1>3. app \in Engine!AppTypes
  BY NameHasApp, Zenon
<1>4. /\ "UNKNOWN" \in Engine!AppTypes /\ "HTTPS" \in Engine!AppTypes
      /\ "HTTP" \in Engine!AppTypes /\ "DNS" \in Engine!AppTypes
  BY DEF Engine!AppTypes
<1>5. new.sni = NoName /\ new.host = NoName /\ new.app = "UNKNOWN"
  BY Zenon DEF OpenFlow
<1>6. \A label : OpenFlow(Engine!LabelUnknown(new, label), NoName, NoName, label)
  BY <1>5, FlowChanged, Zenon DEF Engine!LabelUnknown
<1>7. OpenFlow(tls, found, NoName, app) /\ OpenFlow(http, found, found, app)
  BY FlowChanged, Zenon
<1>8. found # NoName => (port = 443 /\ size >= 6) \/ (port = 80 /\ size >= 1)
  BY <1>1, <1>2, Zenon DEF NameHasPort
<1>9. size \in Nat
  BY <1>2
<1>10. s = CASE port = 443 /\ size >= 6 ->
                 IF new.sni = NoName /\ found # NoName
                 THEN tls
                 ELSE Engine!LabelUnknown(new, "HTTPS")
            [] port = 80 /\ size > 0 ->
                 IF new.host = NoName /\ found # NoName
                 THEN http
                 ELSE Engine!LabelUnknown(new, "HTTP")
            [] port = 53 -> Engine!LabelUnknown(new, "DNS")
            [] OTHER -> new
  BY Zenon DEF Engine!Classify, Engine!HTTPS_PORT, Engine!HTTP_PORT, Engine!DNS_PORT,
               Engine!TLS_MIN_PAYLOAD
<1> HIDE DEF port, size, found, app, tls, http
<1>11. CASE found # NoName
  <2>1. s = tls \/ s = http
    <3>1. CASE port = 443 /\ size >= 6
      BY <1>5, <1>10, <1>11, <3>1
    <3>2. CASE port = 80 /\ size >= 1
      <4>1. size > 0 /\ ~(port = 443 /\ size >= 6)
        BY <1>9, <3>2
      <4> QED
        BY <1>5, <1>10, <1>11, <3>2, <4>1
    <3> QED
      BY <1>8, <1>11, <3>1, <3>2
  <2> QED
    BY <1>2, <1>3, <1>7, <2>1, Zenon
<1>12. CASE found = NoName
  <2>1. \/ s = Engine!LabelUnknown(new, "HTTPS") \/ s = Engine!LabelUnknown(new, "HTTP")
        \/ s = Engine!LabelUnknown(new, "DNS") \/ s = new
    BY <1>10, <1>12
  <2> QED
    BY <1>2, <1>4, <1>6, <1>12, <2>1, Zenon
<1> QED
  BY <1>11, <1>12

\* The rules ask for the number of an address, an application and a word.
LEMMA BlockedIf ==
  ASSUME NEW src, NEW app, NEW n, n \in {shown, NoName}
  PROVE  Engine!IsBlocked(src, app, n) <=>
           \/ src \in ips \/ app \in apps
           \/ \E w \in DOMAIN Spelling : Spelling[w] \in domains /\ IsSubText(Spelling[w], Lower(n))
<1> DEFINE rules == [ips |-> ips, apps |-> apps,
                     domains |-> {w \in DOMAIN Spelling : Spelling[w] \in domains}]
           words == [m \in {shown, NoName} |-> WordsIn(m)]
<1>1. Engine!IsBlocked(src, app, n) <=>
        src \in rules.ips \/ app \in rules.apps \/ \E w \in rules.domains : w \in words[n]
  BY Zenon DEF Engine!IsBlocked
<1>2. words[n] = WordsIn(n)
  OBVIOUS
<1>3. /\ rules.ips = ips /\ rules.apps = apps
      /\ rules.domains = {w \in DOMAIN Spelling : Spelling[w] \in domains}
  OBVIOUS
<1> HIDE DEF rules, words
<1> QED
  BY <1>1, <1>2, <1>3, Zenon DEF WordsIn

\* The flow of the first packet is blocked exactly if a rule says so.
LEMMA FirstBlocked ==
  ASSUME parsed.ports # <<>>, NameHasPort, Len(parsed.payload) \in Nat,
         NEW f, f = Engine!Inspect(Packet, Engine!NewFlow)
  PROVE  /\ f.app \in Engine!AppTypes
         /\ f.blocked <=>
              \/ StrToIp(parsed.src) \in ips \/ f.app \in apps
              \/ \E w \in DOMAIN Spelling :
                   Spelling[w] \in domains /\ IsSubText(Spelling[w], Lower(shown))
<1> DEFINE new == [Engine!NewFlow EXCEPT !.packets = @ + 1]
           s == Engine!Classify(Packet, new)
           src == [t \in {FiveTuple} |-> t.src][Packet.tuple]
           stop == Engine!IsBlocked(src, s.app, s.sni)
           either == s.blocked \/ stop
<1>1. OpenFlow(new, NoName, NoName, "UNKNOWN")
  BY DEF Engine!NewFlow, OpenFlow
<1>a. PICK host : \E app \in Engine!AppTypes : OpenFlow(s, shown, host, app)
  BY <1>1, FirstSeen, Zenon
<1>2. PICK app \in Engine!AppTypes : OpenFlow(s, shown, host, app)
  BY <1>a
<1>3. src = StrToIp(parsed.src)
  <2>1. FiveTuple.src = StrToIp(parsed.src)
    BY DEF FiveTuple
  <2>2. Packet.tuple = FiveTuple
    BY DEF Packet
  <2> QED
    BY <2>1, <2>2, Zenon
<1>4. f = LET known == IF new.blocked THEN new ELSE s
          IN  [known EXCEPT !.blocked = @ \/ Engine!IsBlocked(src, known.app, known.sni)]
  BY Zenon DEF Engine!Inspect
<1> HIDE DEF new, s, src
<1>5. f = [s EXCEPT !.blocked = either]
  BY <1>1, <1>4, Zenon DEF OpenFlow
<1>6. f.app = s.app /\ f.blocked = either
  <2> HIDE DEF either
  <2> QED
    BY <1>2, <1>5 DEF OpenFlow
<1>7. stop <=> \/ src \in ips \/ s.app \in apps
               \/ \E w \in DOMAIN Spelling :
                    Spelling[w] \in domains /\ IsSubText(Spelling[w], Lower(shown))
  BY <1>2, BlockedIf, Zenon DEF OpenFlow
<1>8. either <=> stop
  BY <1>2, Zenon DEF OpenFlow
<1> HIDE DEF stop, either
<1>9. s.app \in Engine!AppTypes 
  BY <1>2, Zenon DEF OpenFlow
<1> QED
  BY <1>3, <1>6, <1>7, <1>8, <1>9, Zenon

-----------------------------------------------------------------------------
(* The verdict *)

\* How far the packet has come.
OnItsWay ==
  /\ phase \in {"rules", "parse", "tls", "judge", "done"}
  /\ phase # "done" => flow = Engine!NewFlow /\ verdict = "none"
  /\ phase \in {"rules", "parse", "tls"} => shown = NoName
  /\ phase \in {"tls", "judge"} => stage = "parsed" /\ parsed.ports # <<>>
  /\ phase = "tls" => parsed.ports[2] = 443 /\ Len(parsed.payload) >= 6
  /\ phase = "judge" => NameHasPort

\* A frame that was parsed has its addresses, and a payload of some length.
LEMMA ParsedIs ==
  ASSUME KnowsHeaders, stage = "parsed"
  PROVE  /\ parsed.src = wire.src /\ wire.src \in [1..4 -> U8Values]
         /\ Len(parsed.payload) \in Nat
<1>1. IsFrame(wire) /\ WellFormed(wire) /\ parsed = RightParse(wire)
  BY DEF KnowsHeaders
<1>2. wire.src \in [1..4 -> U8Values]
  BY <1>1, Zenon DEF IsFrame
<1>3. Data(wire) \in Seq(Nat) /\ wire.cut \in Nat
  BY <1>1, FrameParts, FrameFields, Zenon
<1>4. Without(Data(wire), wire.cut) \in Seq(Nat)
  BY <1>3, WithoutIs, Zenon
<1>5. parsed.src = wire.src
  BY <1>1 DEF RightParse
<1>6. parsed.payload = Without(Data(wire), wire.cut) \/ parsed.payload = <<>>
  BY <1>1 DEF RightParse, Data
<1>7. Len(parsed.payload) \in Nat
  <2> DEFINE p == parsed.payload
             d == Without(Data(wire), wire.cut)
  <2>1. p = d \/ p = <<>>
    BY <1>6
  <2>2. d \in Seq(Nat)
    BY <1>4
  <2> HIDE DEF p, d
  <2>e. <<>> \in Seq(Nat)
    OBVIOUS
  <2>3. p \in Seq(Nat)
    BY <2>1, <2>2, <2>e, Zenon
  <2>4. Len(p) \in Nat
    BY <2>3
  <2> QED
    BY <2>4 DEF p
<1> QED
  BY <1>2, <1>5, <1>7

\* The rules that were added name what the arguments name.
LEMMA RulesName ==
  ASSUME RulesAdded, RulesComplete, NEW src \in [1..4 -> U8Values],
         NEW app \in Engine!AppTypes, NEW text
  PROVE  RuleFor(src, app, text) <=>
           \/ StrToIp(src) \in ips \/ app \in apps
           \/ \E w \in DOMAIN Spelling :
                Spelling[w] \in domains /\ IsSubText(Spelling[w], Lower(text))
<1>1. apps = AppsOf(given) /\ ips = IpsOf(given) /\ domains = DomainsOf(given)
  BY RulesAre, Zenon
<1>2. IsArguments(given)
  BY Zenon DEF RulesAdded
<1>3. (\E ip \in ToSet(given.ips) : NamesAddress(ip, src)) <=> StrToIp(src) \in ips
  <2>1. \A ip \in ToSet(given.ips) : ip \in [1..4 -> U16Values]
    <3>1. given.ips \in Seq([1..4 -> U16Values])
      BY <1>2, Zenon DEF IsArguments
    <3> QED
      BY <3>1 DEF ToSet
  <2>2. \A ip \in ToSet(given.ips) : NamesAddress(ip, src) <=> StrToIp(ip) = StrToIp(src)
    BY <2>1, NamesItsAddress, Zenon
  <2> QED
    BY <1>1, <2>2, Zenon DEF IpsOf
<1>4. (\E arg \in ToSet(given.apps) : Upper[arg] = app) <=> app \in apps
  <2>1. app \in AppNames
    BY CasesAssumption, Zenon
  <2>2. app \in AppsOf(given) <=> app \in {Upper[a] : a \in ToSet(given.apps)} /\ app \in AppNames
    BY DEF AppsOf
  <2> QED
    BY <1>1, <2>1, <2>2, Zenon
<1>5. (\E dom \in ToSet(given.domains) : IsSubText(Lower(dom), Lower(text))) <=>
        \E w \in DOMAIN Spelling :
          Spelling[w] \in domains /\ IsSubText(Spelling[w], Lower(text))
  <2>1. \A dom \in ToSet(given.domains) : \E w \in DOMAIN Spelling : Spelling[w] = Lower(dom)
    <3>1. \A dom \in ToSet(given.domains) : Lower(dom) \in Range(Spelling)
      BY <1>2, Zenon DEF IsArguments
    <3> QED
      BY <3>1 DEF Range
  <2>2. \A t : t \in domains <=> \E dom \in ToSet(given.domains) : t = Lower(dom)
    BY <1>1 DEF DomainsOf
  <2> QED
    BY <2>1, <2>2, Zenon
<1> QED
  BY <1>3, <1>4, <1>5, Zenon DEF RuleFor

\* The verdict on the first packet of a flow follows the arguments.
LEMMA JudgeFollowsRules ==
  ASSUME KnowsHeaders, RulesAdded, OnItsWay, Judge
  PROVE  (verdict' = "drop") <=> RuleFor(wire.src, flow'.app, shown)
<1>1. /\ phase = "judge" /\ flow = Engine!NewFlow
      /\ stage = "parsed" /\ parsed.ports # <<>> /\ NameHasPort /\ RulesComplete
  BY DEF Judge, OnItsWay, RulesAdded
<1>2. flow' = Engine!Inspect(Packet, Engine!NewFlow)
  BY <1>1, Zenon DEF Judge
<1>3. /\ parsed.src = wire.src /\ wire.src \in [1..4 -> U8Values]
      /\ Len(parsed.payload) \in Nat
  BY <1>1, ParsedIs, Zenon
<1>4. /\ flow'.app \in Engine!AppTypes
      /\ flow'.blocked <=>
           \/ StrToIp(parsed.src) \in ips \/ flow'.app \in apps
           \/ \E w \in DOMAIN Spelling :
                Spelling[w] \in domains /\ IsSubText(Spelling[w], Lower(shown))
  BY <1>1, <1>2, <1>3, FirstBlocked, Zenon
<1>5. flow'.blocked <=> RuleFor(wire.src, flow'.app, shown)
  BY <1>1, <1>3, <1>4, RulesName, Zenon
<1>6. verdict' = "drop" <=> flow'.blocked
  BY DEF Judge
<1> QED
  BY <1>5, <1>6

VerdictInv == KnowsHeaders /\ RulesAdded /\ OnItsWay /\ VerdictFollowsRules

\* Every step keeps the packet on its way, and the verdict once it is made.
LEMMA VerdictStep ==
  ASSUME VerdictInv, [DissectionNext]_dissectionVars
  PROVE  OnItsWay' /\ VerdictFollowsRules'
<1> USE DEF VerdictInv
<1>n. (Engine!NewFlow)' = Engine!NewFlow
  BY DEF Engine!NewFlow, NoName
<1>1. CASE Configure
  BY <1>1, <1>n DEF Configure, OnItsWay, VerdictFollowsRules, Judged, parserVars
<1>2. CASE ParseFrame
  BY <1>2, <1>n DEF ParseFrame, OnItsWay, VerdictFollowsRules, Judged
<1>3. CASE NotParsed
  BY <1>3, <1>n DEF NotParsed, Pass, OnItsWay, VerdictFollowsRules, Judged
<1>4. CASE NoPorts
  BY <1>4, <1>n DEF NoPorts, Pass, OnItsWay, VerdictFollowsRules, Judged, parserVars
<1>5. CASE TryTls
  BY <1>5, <1>n DEF TryTls, HasPort, OnItsWay, VerdictFollowsRules, Judged, parserVars,
                    Engine!HTTPS_PORT, Engine!TLS_MIN_PAYLOAD
<1>6. CASE TryHttp
  <2>1. NameHasPort'
    BY <1>6 DEF TryHttp, HasPort, NameHasPort, parserVars, Engine!HTTP_PORT
  <2> QED
    BY <1>6, <1>n, <2>1 DEF TryHttp, HasPort, OnItsWay, VerdictFollowsRules, Judged, parserVars
<1>7. CASE TryNothing
  <2>1. NameHasPort'
    BY <1>7 DEF TryNothing, HasPort, NameHasPort, OnItsWay
  <2> QED
    BY <1>7, <1>n, <2>1 DEF TryNothing, HasPort, OnItsWay, VerdictFollowsRules, Judged, parserVars
<1>8. CASE Extract
  BY <1>8, <1>n DEF Extract, OnItsWay, VerdictFollowsRules, Judged, parserVars
<1>9. CASE Extracted
  <2>1. NameHasPort'
    BY <1>9 DEF Extracted, NameHasPort, OnItsWay, parserVars
  <2> QED
    BY <1>9, <1>n, <2>1 DEF Extracted, OnItsWay, VerdictFollowsRules, Judged, parserVars
<1>10. CASE Judge
  <2>1. (verdict' = "drop") <=> RuleFor(wire.src, flow'.app, shown)
    BY <1>10, JudgeFollowsRules, Zenon
  <2>2. phase' = "done" /\ wire' = wire /\ given' = given /\ shown' = shown
    BY <1>10 DEF Judge
  <2>3. RuleFor(wire.src, flow.app, shown)' = RuleFor(wire.src, flow'.app, shown)
    BY <2>2, Zenon DEF RuleFor
  <2>4. OnItsWay'
    BY <2>2 DEF OnItsWay
  <2> QED
    BY <1>10, <2>1, <2>2, <2>3, <2>4, Zenon DEF VerdictFollowsRules
<1>11. CASE UNCHANGED dissectionVars
  <2>1. UNCHANGED <<parsed, stage, wire, given, phase, shown, flow, verdict>>
    BY <1>11 DEF dissectionVars, parserVars
  <2> QED
    BY <2>1, <1>n DEF OnItsWay, NameHasPort, VerdictFollowsRules, Judged, RuleFor
<1> QED
  BY <1>1, <1>2, <1>3, <1>4, <1>5, <1>6, <1>7, <1>8, <1>9, <1>10, <1>11
    DEF DissectionNext, DissectionStep, Dissected

\* At first no packet is judged, and no rule added.
LEMMA VerdictInit == DissectionInit => VerdictInv
<1> SUFFICES ASSUME DissectionInit PROVE VerdictInv
  OBVIOUS
<1>1. PICK c \in Cases : wire = c[1] /\ given = c[2]
  BY DEF DissectionInit
<1>2. IsArguments(given) /\ args = given
  BY <1>1, CasesAssumption, Zenon DEF DissectionInit
<1>3. ips = {} /\ apps = {} /\ domains = {} /\ phase = "rules"
  BY DEF DissectionInit, RulesStart
<1>4. RulesAdded
  BY <1>2, <1>3 DEF RulesAdded
<1>5. OnItsWay
  BY <1>3 DEF OnItsWay, DissectionInit
<1>6. VerdictFollowsRules
  BY <1>3 DEF VerdictFollowsRules, Judged
<1> QED
  BY <1>4, <1>5, <1>6, KnowsInit DEF VerdictInv

\* Every packet with ports is dropped if an argument of the command line names
\* its source address, its application or a part of the host name in it, and
\* for no other reason.
THEOREM EveryVerdictFollowsRules == DissectionSpec => []VerdictFollowsRules
<1>1. DissectionInit => VerdictInv
  BY VerdictInit
<1>2. VerdictInv /\ [DissectionNext]_dissectionVars => VerdictInv'
  BY KnowsStep, RulesStep, VerdictStep DEF VerdictInv
<1>3. VerdictInv => VerdictFollowsRules
  BY DEF VerdictInv
<1> QED
  BY <1>1, <1>2, <1>3, PTL DEF DissectionSpec

-----------------------------------------------------------------------------
(* The extractor for HTTP *)

\* A set of numbers has a least element, and one within bounds a greatest.
LEMMA LeastIs ==
  ASSUME NEW S, S \subseteq Nat, S # {}
  PROVE  Min(S) \in S /\ \A x \in S : Min(S) <= x
<1>1. PICK n \in S : \A m \in S : ~(<<m, n>> \in OpToRel(<, Nat))
  BY NatLessThanWellFounded, WFMin
<1>2. \A m \in S : ~(m < n)
  BY <1>1 DEF OpToRel
<1>3. n \in S /\ \A m \in S : n <= m
  BY <1>2
<1>4. \E x \in S : \A y \in S : x <= y
  BY <1>3, Zenon
<1> QED
  BY <1>4, Zenon DEF Min

\* And one that is bounded has a greatest element.
LEMMA GreatestIs ==
  ASSUME NEW n \in Nat, NEW S, S \subseteq 1..n, S # {}
  PROVE  Max(S) \in S /\ \A x \in S : x <= Max(S)
<1> DEFINE T == {k \in Nat : n - k \in S}
<1>1. T \subseteq Nat /\ T # {}
  <2>1. PICK x \in S : TRUE
    OBVIOUS
  <2>2. n - x \in T
    BY <2>1
  <2> QED
    BY <2>2
<1>2. Min(T) \in T /\ \A k \in T : Min(T) <= k
  <2> HIDE DEF T
  <2> QED
    BY <1>1, LeastIs
<1> DEFINE m == Min(T)
<1>3. m \in Nat /\ n - m \in S /\ \A k \in T : m <= k
  BY <1>2
<1> HIDE DEF m
<1>4. \A x \in S : x <= n - m
  <2>1. ASSUME NEW x \in S PROVE x <= n - m
    <3>1. n - x \in T
      OBVIOUS
    <3>2. m <= n - x
      BY <1>3, <3>1
    <3> QED
      BY <1>3, <3>2
  <2> QED
    BY <2>1
<1>5. \E x \in S : \A y \in S : x >= y
  BY <1>3, <1>4
<1>6. Max(S) \in S /\ \A y \in S : Max(S) >= y
  BY <1>5, Zenon DEF Max
<1> QED
  BY <1>6

\* What becomes of one byte.
Decoded(b) == IF b < 128 THEN b ELSE 65533

\* The sequence d is s decoded; that leaves blanks and colons, and makes none.
IsDecoded(d, s) ==
  /\ d \in Seq(Nat) /\ Len(d) = Len(s) /\ DOMAIN d = 1..Len(s)
  /\ \A k \in 1..Len(s) :
       /\ d[k] = Decoded(s[k])
       /\ d[k] \in White <=> s[k] \in White
       /\ d[k] = COLON <=> s[k] = COLON

\* Decoding keeps the length, the blanks and the colons.
LEMMA DecodeIs ==
  ASSUME NEW s \in Seq(Nat)
  PROVE  IsDecoded(Decode(s), s)
<1>1. DOMAIN s = 1..Len(s) /\ Len(s) \in Nat /\ \A k \in 1..Len(s) : s[k] \in Nat
  OBVIOUS
<1> DEFINE d == [k \in 1..Len(s) |-> Decoded(s[k])]
<1>2. Decode(s) = d
  BY <1>1 DEF Decode, Decoded
<1>3. d \in [1..Len(s) -> Nat]
  BY <1>1 DEF Decoded
<1>4. d \in Seq(Nat) /\ Len(d) = Len(s) /\ DOMAIN d = 1..Len(s)
  BY <1>1, <1>3
<1>5. \A k \in 1..Len(s) : d[k] = Decoded(s[k])
  OBVIOUS
<1> HIDE DEF d
<1>6. ASSUME NEW k \in 1..Len(s)
      PROVE  /\ d[k] \in White <=> s[k] \in White
             /\ d[k] = COLON <=> s[k] = COLON
  BY <1>1, <1>5, SMTT(30) DEF White, COLON, Decoded
<1>7. IsDecoded(d, s)
  BY <1>4, <1>5, <1>6 DEF IsDecoded
<1> QED
  BY <1>2, <1>7, Zenon

\* A line does not end before its first CR or LF, and ends at a CR LF.
LEMMA LineEndIs ==
  ASSUME NEW p \in Seq(Nat), NEW s \in Nat, s >= 1, s <= Len(p) + 1,
         NEW a \in Nat, s - 1 <= a, a <= Len(p),
         \A i \in s..a : p[i] # CR /\ p[i] # LF
  PROVE  /\ LineEnd(p, s) \in Nat /\ a <= LineEnd(p, s) /\ LineEnd(p, s) <= Len(p)
         /\ \A c \in s..(Len(p) - 1) : p[c] = CR /\ p[c + 1] = LF => LineEnd(p, s) < c
<1> DEFINE lfs == {i \in s..Len(p) : p[i] = LF}
           crlfs == {i \in s..(Len(p) - 1) : p[i] = CR /\ i + 1 \in lfs}
           e == IF crlfs # {} THEN Min(crlfs) - 1
                ELSE IF lfs # {} THEN Min(lfs) - 1 ELSE Len(p)
<1>1. LineEnd(p, s) = e
  BY DEF LineEnd
<1>2. Len(p) \in Nat
  OBVIOUS
<1>3. crlfs \subseteq Nat /\ lfs \subseteq Nat
  BY <1>2
<1>4. /\ \A i \in crlfs : a < i /\ i < Len(p)
      /\ \A i \in lfs : a < i /\ i <= Len(p)
  BY <1>2
<1>5. \A c \in s..(Len(p) - 1) : p[c] = CR /\ p[c + 1] = LF => c \in crlfs
  BY <1>2
<1> HIDE DEF lfs, crlfs
<1>6. CASE crlfs # {}
  <2>1. Min(crlfs) \in crlfs /\ \A x \in crlfs : Min(crlfs) <= x
    BY <1>3, <1>6, LeastIs
  <2> DEFINE m == Min(crlfs)
  <2>2. m \in Nat /\ a < m /\ m < Len(p) /\ \A x \in crlfs : m <= x
    BY <1>3, <1>4, <2>1
  <2>3. e = m - 1
    BY <1>6
  <2> HIDE DEF m, e
  <2> QED
    BY <1>1, <1>2, <1>3, <1>5, <2>2, <2>3
<1>7. CASE crlfs = {} /\ lfs # {}
  <2>1. Min(lfs) \in lfs
    BY <1>3, <1>7, LeastIs
  <2> DEFINE m == Min(lfs)
  <2>2. m \in Nat /\ a < m /\ m <= Len(p)
    BY <1>3, <1>4, <2>1
  <2>3. e = m - 1
    BY <1>7
  <2> HIDE DEF m, e
  <2> QED
    BY <1>1, <1>2, <1>5, <1>7, <2>2, <2>3
<1>8. CASE crlfs = {} /\ lfs = {}
  <2>1. e = Len(p)
    BY <1>8
  <2> HIDE DEF e
  <2> QED
    BY <1>1, <1>2, <1>5, <1>8, <2>1
<1> QED
  BY <1>6, <1>7, <1>8

\* Strip leaves what begins without blanks, up to the last that is none.
LEMMA StripIs ==
  ASSUME NEW t \in Seq(Nat), NEW n \in 0..Len(t), \A k \in 1..n : t[k] \notin White
  PROVE  /\ (\A k \in (n+1)..Len(t) : t[k] \in White) => Strip(t) = SubSeq(t, 1, n)
         /\ n < Len(t) /\ t[n+1] \notin White =>
              \E m \in (n+1)..Len(t) : Strip(t) = SubSeq(t, 1, m)
<1> DEFINE solid == {k \in DOMAIN t : t[k] \notin White}
<1>1. Len(t) \in Nat /\ DOMAIN t = 1..Len(t)
  OBVIOUS
<1>2. Strip(t) = IF solid = {} THEN <<>> ELSE SubSeq(t, Min(solid), Max(solid))
  BY DEF Strip
<1>3. solid \subseteq Nat /\ solid \subseteq 1..Len(t)
  BY <1>1
<1>4. \A k \in 1..n : k \in solid
  BY <1>1
<1>5. (\A k \in (n+1)..Len(t) : t[k] \in White) => solid \subseteq 1..n
  BY <1>1
<1>6. n < Len(t) /\ t[n+1] \notin White => n + 1 \in solid
  BY <1>1
<1>7. SubSeq(t, 1, 0) = <<>>
  OBVIOUS
<1> HIDE DEF solid
<1>8. ASSUME solid # {}
      PROVE  /\ Min(solid) \in solid /\ \A x \in solid : Min(solid) <= x
             /\ Max(solid) \in solid /\ \A x \in solid : x <= Max(solid)
             /\ Strip(t) = SubSeq(t, Min(solid), Max(solid))
  BY <1>1, <1>2, <1>3, <1>8, LeastIs, GreatestIs
<1>9. ASSUME \A k \in (n+1)..Len(t) : t[k] \in White PROVE Strip(t) = SubSeq(t, 1, n)
  <2>1. solid \subseteq 1..n
    BY <1>5, <1>9
  <2>2. CASE n = 0
    <3>1. solid = {}
      BY <2>1, <2>2
    <3> QED
      BY <1>2, <1>7, <2>2, <3>1
  <2>3. CASE n # 0
    <3>1. 1 \in solid /\ n \in solid
      BY <1>4, <2>3
    <3>2. Min(solid) = 1 /\ Max(solid) = n
      <4> DEFINE a == Min(solid)
                 b == Max(solid)
      <4>1. a \in solid /\ a <= 1 /\ b \in solid /\ n <= b
        BY <1>8, <3>1
      <4> HIDE DEF a, b
      <4>2. a = 1 /\ b = n
        BY <2>1, <4>1
      <4> QED
        BY <4>2 DEF a, b
    <3> QED
      BY <1>8, <3>1, <3>2
  <2> QED
    BY <2>2, <2>3
<1>10. ASSUME n < Len(t), t[n+1] \notin White
       PROVE  \E m \in (n+1)..Len(t) : Strip(t) = SubSeq(t, 1, m)
  <2>1. n + 1 \in solid /\ 1 \in solid
    <3>1. n # 0 => 1 \in solid
      BY <1>4
    <3> QED
      BY <1>6, <1>10, <3>1
  <2> DEFINE a == Min(solid)
             b == Max(solid)
  <2>2. a \in solid /\ a <= 1 /\ b \in solid /\ n + 1 <= b
    BY <1>8, <2>1
  <2>3. Strip(t) = SubSeq(t, a, b)
    BY <1>8, <2>1
  <2> HIDE DEF a, b
  <2>4. a = 1 /\ b \in (n+1)..Len(t)
    BY <1>1, <1>3, <2>2
  <2> QED
    BY <2>3, <2>4
<1> QED
  BY <1>9, <1>10

\* In p stands, from s on, a name of n symbols, and then a colon, or blanks up
\* to the end of the line or of p.
NameStands(p, s, n) ==
  /\ s + n <= Len(p) + 1
  /\ \A i \in s..(s + n - 1) : p[i] \notin White \cup {COLON}
  /\ \/ s + n <= Len(p) /\ p[s + n] = COLON
     \/ \E q \in Nat :
          /\ s + n + q <= Len(p) + 1
          /\ \A i \in (s + n)..(s + n + q - 1) : p[i] \in White
          /\ \/ s + n + q = Len(p) + 1
             \/ s + n + q < Len(p) /\ p[s + n + q] = CR /\ p[s + n + q + 1] = LF

\* What is in a part of p.
LEMMA SliceIs ==
  ASSUME NEW p \in Seq(Nat), NEW o \in Nat, NEW m \in Nat, o + m <= Len(p)
  PROVE  /\ SubSeq(p, o + 1, o + m) \in Seq(Nat) /\ Len(SubSeq(p, o + 1, o + m)) = m
         /\ \A k \in 1..m : SubSeq(p, o + 1, o + m)[k] = p[o + k]
OBVIOUS

\* The sequence u is the part of p that begins at s and has m symbols.
IsSlice(u, p, s, m) ==
  u \in Seq(Nat) /\ Len(u) = m /\ \A k \in 1..m : u[k] = p[s + k - 1]

\* The same, named by its first place.
LEMMA PartIs ==
  ASSUME NEW p \in Seq(Nat), NEW s \in Nat, s >= 1, NEW m \in Nat, s + m <= Len(p) + 1
  PROVE  IsSlice(SubSeq(p, s, s + m - 1), p, s, m)
<1> DEFINE o == s - 1
<1>1. o \in Nat /\ o + 1 = s /\ o + m = s + m - 1 /\ o + m <= Len(p)
  OBVIOUS
<1>2. \A k \in 1..m : s + k - 1 = o + k
  BY <1>1
<1> HIDE DEF o
<1>3. /\ SubSeq(p, o + 1, o + m) \in Seq(Nat) /\ Len(SubSeq(p, o + 1, o + m)) = m
      /\ \A k \in 1..m : SubSeq(p, o + 1, o + m)[k] = p[o + k]
  BY <1>1, SliceIs, Zenon
<1> DEFINE u == SubSeq(p, o + 1, o + m)
<1>4. u \in Seq(Nat) /\ Len(u) = m /\ \A k \in 1..m : u[k] = p[o + k]
  BY <1>3, Zenon
<1> HIDE DEF u
<1>5. IsSlice(u, p, s, m)
  BY <1>2, <1>4 DEF IsSlice
<1> QED
  BY <1>1, <1>5 DEF u

\* The sequence t is the part of p that begins at s and has m symbols, decoded.
IsPart(t, p, s, m) ==
  /\ t \in Seq(Nat) /\ Len(t) = m
  /\ \A k \in 1..m :
       /\ t[k] = Decoded(p[s + k - 1])
       /\ t[k] \in White <=> p[s + k - 1] \in White
       /\ t[k] = COLON <=> p[s + k - 1] = COLON

\* Part of a decoded sequence is its part, decoded.
LEMMA DecodedPart ==
  ASSUME NEW p \in Seq(Nat), NEW s \in Nat, s >= 1, NEW m \in Nat, s + m <= Len(p) + 1,
         NEW t, t = Decode(SubSeq(p, s, s + m - 1))
  PROVE  IsPart(t, p, s, m)
<1> DEFINE u == SubSeq(p, s, s + m - 1)
<1>1. Len(p) \in Nat
  OBVIOUS
<1>2. u \in Seq(Nat) /\ Len(u) = m /\ \A k \in 1..m : u[k] = p[s + k - 1]
  <2>1. IsSlice(u, p, s, m)
    BY PartIs, Zenon
  <2> HIDE DEF u
  <2> QED
    BY <2>1, Zenon DEF IsSlice
<1> HIDE DEF u
<1>3. t = Decode(u)
  BY DEF u
<1>a. IsDecoded(t, u)
  BY <1>2, <1>3, DecodeIs, Zenon
<1>4. Len(t) = m /\ t \in Seq(Nat)
  BY <1>2, <1>a DEF IsDecoded
<1>5. ASSUME NEW k \in 1..m
      PROVE  /\ t[k] = Decoded(p[s + k - 1])
             /\ t[k] \in White <=> p[s + k - 1] \in White
             /\ t[k] = COLON <=> p[s + k - 1] = COLON
  <2>1. u[k] = p[s + k - 1] /\ k \in 1..Len(u)
    BY <1>2
  <2>2. /\ t[k] = Decoded(u[k])
        /\ t[k] \in White <=> u[k] \in White
        /\ t[k] = COLON <=> u[k] = COLON
    BY <1>a, <2>1, Zenon DEF IsDecoded
  <2> QED
    BY <2>1, <2>2, Zenon
<1> QED
  BY <1>4, <1>5 DEF IsPart

UpToColon(v) ==
  LET colon == {k \in DOMAIN v : v[k] = COLON}
  IN  IF colon = {} THEN v ELSE SubSeq(v, 1, Min(colon) - 1)

\* The line, decoded and stripped, up to its first colon.
LEMMA ValueIs ==
  ASSUME NEW p \in Seq(Nat), NEW s \in Nat, s >= 1, NEW n \in Nat, NameStands(p, s, n),
         NEW v, v = Strip(Decode(SubSeq(p, s, LineEnd(p, s))))
  PROVE  UpToColon(v) = Decode(SubSeq(p, s, s + n - 1))
<1> DEFINE e == LineEnd(p, s)
           line == SubSeq(p, s, e)
           t == Decode(line)
           name0 == SubSeq(p, s, s + n - 1)
           colons == {k \in DOMAIN v : v[k] = COLON}
<1>1. /\ s + n <= Len(p) + 1 /\ Len(p) \in Nat
      /\ \A i \in s..(s + n - 1) : p[i] \notin White /\ p[i] # COLON
  BY DEF NameStands
<1>2. \A i \in s..(s + n - 1) : p[i] # CR /\ p[i] # LF
  BY <1>1 DEF White, CR, LF
<1>3. /\ e \in Nat /\ s + n - 1 <= e /\ e <= Len(p)
      /\ \A c \in s..(Len(p) - 1) : p[c] = CR /\ p[c + 1] = LF => e < c
  <2>1. s + n - 1 \in Nat /\ s - 1 <= s + n - 1 /\ s + n - 1 <= Len(p) /\ s <= Len(p) + 1
    BY <1>1
  <2> QED
    BY <1>2, <2>1, LineEndIs
<1> HIDE DEF e
<1> DEFINE l == e - s + 1
<1>4. l \in Nat /\ s + l <= Len(p) + 1 /\ e = s + l - 1 /\ n <= l
  BY <1>1, <1>3
<1> HIDE DEF l
<1>6. /\ t \in Seq(Nat) /\ Len(t) = l
      /\ \A k \in 1..l :
           /\ t[k] = Decoded(p[s + k - 1])
           /\ t[k] \in White <=> p[s + k - 1] \in White
           /\ t[k] = COLON <=> p[s + k - 1] = COLON
  <2>1. t = Decode(SubSeq(p, s, s + l - 1))
    BY <1>4
  <2> HIDE DEF t
  <2>2. IsPart(t, p, s, l)
    BY <1>4, <2>1, DecodedPart, Zenon
  <2> QED
    BY <2>2 DEF IsPart
<1> DEFINE d == Decode(name0)
<1>7. /\ d \in Seq(Nat) /\ Len(d) = n
      /\ \A k \in 1..n : d[k] = Decoded(p[s + k - 1])
  <2>1. d = Decode(SubSeq(p, s, s + n - 1))
    BY DEF name0
  <2> HIDE DEF d
  <2>2. IsPart(d, p, s, n)
    BY <1>1, <2>1, DecodedPart, Zenon
  <2> QED
    BY <2>2 DEF IsPart
<1>e. \A k \in 1..n : t[k] = d[k]
  <2>1. ASSUME NEW k \in 1..n PROVE t[k] = d[k]
    <3>1. k \in 1..l
      BY <1>4
    <3>2. t[k] = Decoded(p[s + k - 1])
      BY <1>6, <3>1, Zenon
    <3>3. d[k] = Decoded(p[s + k - 1])
      BY <1>7, Zenon
    <3> QED
      BY <3>2, <3>3, Zenon
  <2> QED
    BY <2>1
<1>8. v = Strip(t)
  BY DEF e, line
<1> HIDE DEF t, d
<1>9. n \in 0..Len(t)
  BY <1>1, <1>4, <1>6
<1>10. \A k \in 1..n : t[k] \notin White /\ t[k] # COLON
  <2>1. ASSUME NEW k \in 1..n PROVE t[k] \notin White /\ t[k] # COLON
    <3>1. k \in 1..l /\ s + k - 1 \in s..(s + n - 1)
      BY <1>1, <1>4
    <3> QED
      BY <1>1, <1>6, <3>1
  <2> QED
    BY <2>1
<1>11. SubSeq(t, 1, n) = d
  <2>1. SubSeq(t, 1, n) \in Seq(Nat) /\ Len(SubSeq(t, 1, n)) = n
        /\ \A k \in 1..n : SubSeq(t, 1, n)[k] = t[k]
    BY <1>6, <1>9
  <2>2. d \in Seq(Nat) /\ Len(d) = n
    BY <1>7
  <2> QED
    BY <1>e, <2>1, <2>2
<1>12. CASE s + n <= Len(p) /\ p[s + n] = COLON
  <2>1. s + n <= e
    <3>1. \A i \in s..(s + n) : p[i] # CR /\ p[i] # LF
      <4>1. COLON # CR /\ COLON # LF
        BY DEF COLON, CR, LF
      <4> QED
        BY <1>1, <1>2, <1>12, <4>1
    <3>2. s + n \in Nat /\ s - 1 <= s + n /\ s + n <= Len(p) /\ s <= Len(p) + 1
      BY <1>1, <1>12
    <3> QED
      BY <3>1, <3>2, LineEndIs DEF e
  <2>2. n + 1 \in 1..l /\ s + (n + 1) - 1 = s + n
    BY <1>3, <1>4, <2>1
  <2>3. t[n + 1] = COLON
    BY <1>6, <1>12, <2>2
  <2>4. t[n + 1] \notin White /\ n < Len(t)
    BY <1>6, <2>2, <2>3 DEF White, COLON
  <2>5. PICK m \in (n+1)..Len(t) : v = SubSeq(t, 1, m)
    <3>1. \A k \in 1..n : t[k] \notin White
      BY <1>10
    <3>2. t \in Seq(Nat)
      BY <1>6
    <3>3. \E m \in (n+1)..Len(t) : Strip(t) = SubSeq(t, 1, m)
      BY <1>9, <2>4, <3>1, <3>2, StripIs, Zenon
    <3> QED
      BY <1>8, <3>3, Zenon
  <2>6. v \in Seq(Nat) /\ DOMAIN v = 1..m /\ Len(v) = m /\ \A k \in 1..m : v[k] = t[k]
    BY <1>6, <2>5
  <2>7. n + 1 \in colons /\ colons \subseteq Nat /\ \A k \in colons : n + 1 <= k
    <3>0. n \in Nat /\ m \in Nat /\ n + 1 \in 1..m
      BY <1>9
    <3>1. n + 1 \in colons
      BY <2>3, <2>6, <3>0
    <3>2. ASSUME NEW k \in colons PROVE k \in Nat /\ n + 1 <= k
      <4>1. k \in 1..m /\ v[k] = COLON /\ t[k] = COLON
        BY <2>6
      <4>2. k \notin 1..n
        BY <1>10, <4>1
      <4> QED
        BY <3>0, <4>1, <4>2
    <3> HIDE DEF colons
    <3> QED
      BY <3>1, <3>2
  <2> HIDE DEF colons
  <2>8. Min(colons) \in colons /\ \A k \in colons : Min(colons) <= k
    BY <2>7, LeastIs
  <2>9. Min(colons) = n + 1
    <3> DEFINE c == Min(colons)
    <3>1. c \in Nat /\ c <= n + 1 /\ n + 1 <= c
      BY <2>7, <2>8
    <3> HIDE DEF c
    <3>2. c = n + 1
      BY <3>1
    <3> QED
      BY <3>2 DEF c
  <2>10. SubSeq(v, 1, n) = SubSeq(t, 1, n)
    <3>1. n \in 0..m /\ m \in Nat
      BY <1>9
    <3>2. /\ SubSeq(v, 1, n) \in Seq(Nat) /\ Len(SubSeq(v, 1, n)) = n
          /\ \A k \in 1..n : SubSeq(v, 1, n)[k] = t[k]
      BY <2>6, <3>1
    <3>3. /\ SubSeq(t, 1, n) \in Seq(Nat) /\ Len(SubSeq(t, 1, n)) = n
          /\ \A k \in 1..n : SubSeq(t, 1, n)[k] = t[k]
      BY <1>6, <1>9
    <3> QED
      BY <3>2, <3>3
  <2>11. Min(colons) - 1 = n /\ colons # {}
    BY <2>7, <2>9
  <2> QED
    BY <1>11, <2>10, <2>11 DEF d, name0, colons, UpToColon
<1>13. CASE \E q \in Nat :
          /\ s + n + q <= Len(p) + 1
          /\ \A i \in (s + n)..(s + n + q - 1) : p[i] \in White
          /\ \/ s + n + q = Len(p) + 1
             \/ s + n + q < Len(p) /\ p[s + n + q] = CR /\ p[s + n + q + 1] = LF
  <2>1. PICK q \in Nat :
          /\ s + n + q <= Len(p) + 1
          /\ \A i \in (s + n)..(s + n + q - 1) : p[i] \in White
          /\ \/ s + n + q = Len(p) + 1
             \/ s + n + q < Len(p) /\ p[s + n + q] = CR /\ p[s + n + q + 1] = LF
    BY <1>13
  <2>2. e <= s + n + q - 1
    <3>1. CASE s + n + q = Len(p) + 1
      BY <1>3, <3>1
    <3>2. CASE s + n + q < Len(p) /\ p[s + n + q] = CR /\ p[s + n + q + 1] = LF
      <4>1. s + n + q \in s..(Len(p) - 1)
        BY <1>1, <3>2
      <4>2. e < s + n + q
        BY <1>3, <3>2, <4>1
      <4> QED
        BY <1>3, <4>2
    <3> QED
      BY <2>1, <3>1, <3>2
  <2>3. \A k \in (n+1)..Len(t) : t[k] \in White
    <3>1. ASSUME NEW k \in (n+1)..Len(t) PROVE t[k] \in White
      <4>1. k \in 1..l /\ s + k - 1 \in (s + n)..(s + n + q - 1)
        <5>1. Len(t) = l /\ e <= s + n + q - 1 /\ e = s + l - 1
          BY <1>4, <1>6, <2>2
        <5>2. k \in (n + 1)..l
          BY <5>1
        <5> QED
          BY <1>3, <1>4, <5>1, <5>2
      <4> QED
        BY <1>6, <2>1, <4>1
    <3> QED
      BY <3>1
  <2>4. v = d
    <3>1. \A k \in 1..n : t[k] \notin White
      BY <1>10
    <3>2. t \in Seq(Nat)
      BY <1>6
    <3>3. Strip(t) = SubSeq(t, 1, n)
      BY <1>9, <2>3, <3>1, <3>2, StripIs, Zenon
    <3> QED
      BY <1>8, <1>11, <3>3, Zenon
  <2>5. colons = {}
    <3>1. DOMAIN v = 1..n /\ \A k \in 1..n : v[k] = t[k]
      <4>1. \A k \in 1..n : d[k] = t[k]
        BY <1>e
      <4> QED
        BY <1>7, <2>4, <4>1
    <3> QED
      BY <1>10, <3>1
  <2> QED
    BY <2>4, <2>5 DEF d, name0, UpToColon
<1> QED
  BY <1>12, <1>13 DEF NameStands

\* Where p has no Host header, or is no request, there is no name.
LEMMA NoHostFound ==
  ASSUME NEW p \in Seq(Nat), p # <<>> => p[1] # METHOD \/ \A i \in 1..Len(p) : p[i] # HOST
  PROVE  HttpHost(p) = NoHost
<1> DEFINE hosts == {i \in DOMAIN p : p[i] = HOST}
           start == Min(hosts) + 1
           value == Strip(Decode(SubSeq(p, start, LineEnd(p, start))))
           colon == {k \in DOMAIN value : value[k] = COLON}
<1>1. HttpHost(p) =
        IF p = <<>> \/ Head(p) # METHOD \/ hosts = {} THEN NoHost
        ELSE IF colon = {} THEN value ELSE SubSeq(value, 1, Min(colon) - 1)
  BY Zenon DEF HttpHost
<1>2. p = <<>> \/ Head(p) # METHOD \/ hosts = {}
  <2>1. DOMAIN p = 1..Len(p) /\ (p # <<>> => Head(p) = p[1])
    OBVIOUS
  <2> QED
    BY <2>1
<1> QED
  BY <1>1, <1>2, Zenon

\* The name behind the first "host: " is found.
LEMMA HostFound ==
  ASSUME NEW p \in Seq(Nat), p # <<>>, p[1] = METHOD,
         NEW s \in Nat, s >= 2, s - 1 <= Len(p), p[s - 1] = HOST,
         \A i \in 1..(s - 2) : p[i] # HOST,
         NEW n \in Nat, NameStands(p, s, n)
  PROVE  HttpHost(p) = Decode(SubSeq(p, s, s + n - 1))
<1> DEFINE hosts == {i \in DOMAIN p : p[i] = HOST}
           value(b) == Strip(Decode(SubSeq(p, b, LineEnd(p, b))))
<1>1. HttpHost(p) =
        IF p = <<>> \/ Head(p) # METHOD \/ hosts = {} THEN NoHost
        ELSE UpToColon(value(Min(hosts) + 1))
  BY Zenon DEF HttpHost, UpToColon
<1>2. DOMAIN p = 1..Len(p) /\ Head(p) = p[1] /\ Len(p) \in Nat
  OBVIOUS
<1>3. s - 1 \in hosts /\ hosts \subseteq Nat /\ \A i \in hosts : s - 1 <= i
  BY <1>2
<1> HIDE DEF hosts
<1>4. Min(hosts) + 1 = s
  <2> DEFINE m == Min(hosts)
  <2>1. m \in hosts /\ \A i \in hosts : m <= i
    BY <1>3, LeastIs
  <2> HIDE DEF m
  <2>2. m \in Nat /\ m <= s - 1 /\ s - 1 <= m
    BY <1>3, <2>1
  <2>3. m + 1 = s
    BY <2>2
  <2> QED
    BY <2>3 DEF m
<1>5. HttpHost(p) = UpToColon(value(s))
  BY <1>1, <1>2, <1>3, <1>4
<1>6. UpToColon(value(s)) = Decode(SubSeq(p, s, s + n - 1))
  <2>1. s >= 1
    OBVIOUS
  <2> QED
    BY <2>1, ValueIs, Zenon
<1> QED
  BY <1>5, <1>6, Zenon

\* What is found is as much of the name as has arrived.
NameFollows(p, s, g, n) ==
  /\ p \in Seq(Nat) /\ p # <<>> /\ p[1] = METHOD
  /\ s \in Nat /\ s >= 2 /\ s - 1 <= Len(p) /\ p[s - 1] = HOST
  /\ \A i \in 1..(s - 2) : p[i] # HOST
  /\ g \in Seq(Nat) /\ n \in 0..Len(g) /\ NameStands(p, s, n)
  /\ \A k \in 1..n : p[s + k - 1] = g[k]

\* The host name that is found is the one that follows.
LEMMA NamePartFound ==
  ASSUME NEW p, NEW s, NEW g, NEW n, NameFollows(p, s, g, n)
  PROVE  HttpHost(p) = Decode(SubSeq(g, 1, n))
<1> /\ p \in Seq(Nat) /\ p # <<>> /\ p[1] = METHOD
    /\ s \in Nat /\ s >= 2 /\ s - 1 <= Len(p) /\ p[s - 1] = HOST
    /\ \A i \in 1..(s - 2) : p[i] # HOST
    /\ g \in Seq(Nat) /\ n \in 0..Len(g) /\ NameStands(p, s, n)
    /\ \A k \in 1..n : p[s + k - 1] = g[k]
  BY Zenon DEF NameFollows
<1>1. n \in Nat
  OBVIOUS
<1>2. HttpHost(p) = Decode(SubSeq(p, s, s + n - 1))
  BY <1>1, HostFound, Zenon
<1>3. SubSeq(p, s, s + n - 1) = SubSeq(g, 1, n)
  <2>1. s + n <= Len(p) + 1 /\ Len(p) \in Nat /\ s >= 1
    BY DEF NameStands
  <2> DEFINE u == SubSeq(p, s, s + n - 1)
             v == SubSeq(g, 1, n)
  <2>2. u \in Seq(Nat) /\ Len(u) = n /\ \A k \in 1..n : u[k] = p[s + k - 1]
    <3>1. IsSlice(u, p, s, n)
      BY <1>1, <2>1, PartIs, Zenon
    <3> HIDE DEF u
    <3> QED
      BY <3>1, Zenon DEF IsSlice
  <2>3. v \in Seq(Nat) /\ Len(v) = n /\ \A k \in 1..n : v[k] = g[k]
    BY <1>1
  <2> HIDE DEF u, v
  <2>4. \A k \in 1..n : u[k] = v[k]
    BY <2>2, <2>3, Zenon
  <2>5. u = v
    <3>1. u \in Seq(Nat) /\ v \in Seq(Nat) /\ Len(u) = Len(v)
      BY <2>2, <2>3
    <3>2. \A k \in 1..Len(u) : u[k] = v[k]
      BY <2>2, <2>4
    <3> QED
      BY <3>1, <3>2, SeqEqual
  <2> QED
    BY <2>5 DEF u, v
<1> QED
  BY <1>2, <1>3, Zenon

\* The sequence u has the m symbols of s, and then the n symbols of t.
Consists(u, s, m, t, n) ==
  /\ u \in Seq(Nat) /\ Size(u) = m + n
  /\ \A k \in 1..m : u[k] = s[k]
  /\ \A k \in 1..n : u[m + k] = t[k]

\* That is what two sequences in a row are.
LEMMA JoinedAt ==
  ASSUME NEW s \in Seq(Nat), NEW t \in Seq(Nat)
  PROVE  Consists(s \o t, s, Size(s), t, Size(t))
<1> DEFINE m == Size(s)
           n == Size(t)
<1>0. m \in Nat /\ n \in Nat /\ Size(s) = m /\ Size(t) = n
  BY DEF Size
<1> HIDE DEF m, n
<1> DEFINE u == s \o t
<1>1. u \in Seq(Nat) /\ Size(u) = m + n /\ Holds(u, m, t) /\ Holds(u, 0, s)
  BY <1>0, Joined
<1> HIDE DEF u
<1>2. \A k \in 1..m : u[0 + k] = s[k] /\ 0 + k = k
  BY <1>0, <1>1 DEF Holds, Size
<1>3. \A k \in 1..n : u[m + k] = t[k]
  BY <1>0, <1>1 DEF Holds, Size
<1>4. \A k \in 1..m : u[k] = s[k]
  BY <1>2
<1>5. Consists(u, s, m, t, n)
  BY <1>1, <1>3, <1>4 DEF Consists
<1> QED
  BY <1>5 DEF u, m, n

\* A request up to the place of the name.
Opening(r) ==
  (<<METHOD, 47, CR, LF>> \o (IF r.decoy THEN <<120, HOST, 122, CR, LF>> ELSE <<>>))
    \o (IF r.spaced THEN <<HOST>> ELSE <<104, COLON>>)

\* Where it has the symbols that the extractor looks for: with a decoy, with a
\* space in front of the name, and with neither.
OpensWithDecoy(o) ==
  /\ Size(o) >= 9 /\ Size(o) \in Nat /\ o[1] = METHOD
  /\ \A k \in 1..5 : o[k] # HOST
  /\ o[6] = HOST /\ o[7] = 122 /\ o[8] = CR /\ o[9] = LF

OpensSpaced(o) ==
  Size(o) = 5 /\ o[1] = METHOD /\ o[5] = HOST /\ \A k \in 1..4 : o[k] # HOST

OpensBare(o) == Size(o) = 6 /\ o[1] = METHOD /\ \A k \in 1..6 : o[k] # HOST

Opens(r, o) ==
  /\ o \in Seq(Nat)
  /\ r.decoy => OpensWithDecoy(o)
  /\ ~r.decoy /\ r.spaced => OpensSpaced(o)
  /\ ~r.decoy /\ ~r.spaced => OpensBare(o)

\* Every request opens like this.
LEMMA OpeningIs ==
  ASSUME NEW r, IsRequest(r)
  PROVE  Opens(r, Opening(r))
<1> DEFINE a == <<METHOD, 47, CR, LF>>
           x == <<120, HOST, 122, CR, LF>>
           y == <<HOST>>
           z == <<104, COLON>>
           b == IF r.decoy THEN x ELSE <<>>
           c == IF r.spaced THEN y ELSE z
           s == a \o b
           o == Opening(r)
<1>1. /\ a \in Seq(Nat) /\ Size(a) = 4
      /\ a[1] = METHOD /\ \A k \in 1..4 : a[k] # HOST
  BY DEF Size, METHOD, HOST, CR, LF
<1>2. /\ x \in Seq(Nat) /\ Size(x) = 5
      /\ x[1] # HOST /\ x[2] = HOST /\ x[3] = 122 /\ x[4] = CR /\ x[5] = LF
  BY DEF Size, HOST, CR, LF
<1>3. y \in Seq(Nat) /\ Size(y) = 1 /\ y[1] = HOST
  BY DEF Size, HOST
<1>4. z \in Seq(Nat) /\ Size(z) = 2 /\ z[1] # HOST /\ z[2] # HOST
  BY DEF Size, HOST, COLON
<1>5. o = s \o c
  BY DEF Opening
<1>6. <<>> \in Seq(Nat) /\ Size(<<>>) = 0
  BY DEF Size
<1> HIDE DEF a, x, y, z, o
<1>7. ASSUME r.decoy
      PROVE  o \in Seq(Nat) /\ OpensWithDecoy(o)
  <2>1. s = a \o x
    BY <1>7
  <2>2. Consists(s, a, 4, x, 5)
    <3>1. Consists(a \o x, a, Size(a), x, Size(x))
      BY <1>1, <1>2, JoinedAt, Zenon
    <3> HIDE DEF s
    <3> QED
      BY <1>1, <1>2, <1>3, <1>4, <2>1, <3>1
  <2>3. c \in Seq(Nat) /\ Size(c) \in Nat
    BY <1>3, <1>4
  <2> DEFINE n == Size(c)
  <2> HIDE DEF s, c
  <2>4. /\ s \in Seq(Nat) /\ Size(s) = 9
        /\ \A k \in 1..4 : s[k] = a[k]
        /\ \A k \in 1..5 : s[4 + k] = x[k]
    BY <2>2 DEF Consists
  <2>5. Consists(o, s, 9, c, n)
    <3>1. Consists(s \o c, s, Size(s), c, n)
      BY <2>3, <2>4, JoinedAt, Zenon
    <3> QED
      BY <1>5, <2>4, <3>1
  <2>6. n \in Nat
    BY <2>3
  <2> HIDE DEF n
  <2>7. o \in Seq(Nat) /\ Size(o) = 9 + n /\ \A k \in 1..9 : o[k] = s[k]
    BY <2>5 DEF Consists
  <2>8. /\ o[1] = a[1] /\ o[2] = a[2] /\ o[3] = a[3] /\ o[4] = a[4]
        /\ o[5] = x[1] /\ o[6] = x[2] /\ o[7] = x[3] /\ o[8] = x[4] /\ o[9] = x[5]
    <3>1. /\ s[1] = a[1] /\ s[2] = a[2] /\ s[3] = a[3] /\ s[4] = a[4]
          /\ s[4+1] = x[1] /\ s[4+2] = x[2] /\ s[4+3] = x[3] /\ s[4+4] = x[4] /\ s[4+5] = x[5]
      BY <2>4
    <3> QED
      BY <2>7, <3>1
  <2>9. \A k \in 1..5 : k = 1 \/ k = 2 \/ k = 3 \/ k = 4 \/ k = 5
    OBVIOUS
  <2>10. a[2] # HOST /\ a[3] # HOST /\ a[4] # HOST /\ a[1] # HOST
    BY <1>1
  <2>11. \A k \in 1..5 : o[k] # HOST
    BY <1>2, <2>8, <2>9, <2>10
  <2>12. Size(o) >= 9 /\ Size(o) \in Nat
    BY <2>6, <2>7
  <2> QED
    BY <1>1, <1>2, <2>7, <2>8, <2>11, <2>12 DEF OpensWithDecoy
<1>8. ASSUME ~r.decoy PROVE o = a \o c
  <2>1. a \o <<>> = a
    BY <1>1
  <2>2. b = <<>>
    BY <1>8
  <2> QED
    BY <1>5, <2>1, <2>2
<1>9. ASSUME ~r.decoy, r.spaced
      PROVE  o \in Seq(Nat) /\ OpensSpaced(o)
  <2>1. o = a \o y
    BY <1>8, <1>9
  <2>2. Consists(o, a, 4, y, 1)
    <3>1. Consists(a \o y, a, Size(a), y, Size(y))
      BY <1>1, <1>3, JoinedAt, Zenon
    <3> QED
      BY <1>1, <1>2, <1>3, <1>4, <2>1, <3>1
  <2>3. /\ o \in Seq(Nat) /\ Size(o) = 5 /\ \A k \in 1..4 : o[k] = a[k]
        /\ \A k \in 1..1 : o[4 + k] = y[k]
    BY <2>2 DEF Consists
  <2>4. o[4 + 1] = y[1] /\ o[1] = a[1] /\ 4 + 1 = 5
    BY <2>3
  <2> QED
    BY <1>1, <1>3, <2>3, <2>4 DEF OpensSpaced
<1>10. ASSUME ~r.decoy, ~r.spaced
       PROVE  o \in Seq(Nat) /\ OpensBare(o)
  <2>1. o = a \o z
    BY <1>8, <1>10
  <2>2. Consists(o, a, 4, z, 2)
    <3>1. Consists(a \o z, a, Size(a), z, Size(z))
      BY <1>1, <1>4, JoinedAt, Zenon
    <3> QED
      BY <1>1, <1>2, <1>3, <1>4, <2>1, <3>1
  <2>3. /\ o \in Seq(Nat) /\ Size(o) = 6 /\ \A k \in 1..4 : o[k] = a[k]
        /\ \A k \in 1..2 : o[4 + k] = z[k]
    BY <2>2 DEF Consists
  <2>4. o[4 + 1] = z[1] /\ o[4 + 2] = z[2] /\ o[1] = a[1] /\ 4 + 1 = 5 /\ 4 + 2 = 6
    BY <2>3
  <2>5. \A k \in 1..6 : k \in 1..4 \/ k = 5 \/ k = 6
    OBVIOUS
  <2>6. o[5] # HOST /\ o[6] # HOST
    BY <1>4, <2>4
  <2>7. \A k \in 1..6 : o[k] # HOST
    BY <1>1, <2>3, <2>5, <2>6
  <2> QED
    BY <1>1, <2>3, <2>4, <2>7 DEF OpensBare
<1> QED
  <2>1. r.decoy \in BOOLEAN /\ r.spaced \in BOOLEAN
    BY Zenon DEF IsRequest
  <2>2. Opens(r, o)
    BY <1>7, <1>9, <1>10, <2>1 DEF Opens
  <2> QED
    BY <2>2 DEF o

\* The sequence p is made of the first symbols of o, g and t.
BeginsLike(p, o, g, t) ==
  /\ p \in Seq(Nat) /\ Size(p) <= Size(o) + Size(g) + Size(t)
  /\ \A i \in 1..Size(o) : i <= Size(p) => p[i] = o[i]
  /\ \A i \in 1..Size(g) : Size(o) + i <= Size(p) => p[Size(o) + i] = g[i]
  /\ \A i \in 1..Size(t) :
       Size(o) + Size(g) + i <= Size(p) => p[Size(o) + Size(g) + i] = t[i]

IsCut(p, o, g, t, cut) ==
  /\ BeginsLike(p, o, g, t)
  /\ Size(p) \in Nat /\ Size(o) \in Nat /\ Size(g) \in Nat /\ Size(t) \in Nat
  /\ Size(p) = IF cut <= Size(o) + Size(g) + Size(t)
               THEN Size(o) + Size(g) + Size(t) - cut ELSE 0

\* That is what is left of the three when something is missing.
LEMMA CutIs ==
  ASSUME NEW o \in Seq(Nat), NEW g \in Seq(Nat), NEW t \in Seq(Nat), NEW cut \in Nat
  PROVE  IsCut(Without((o \o g) \o t, cut), o, g, t, cut)
<1> DEFINE a == Size(o)
           b == Size(g)
           c == Size(t)
           u == o \o g
           e == u \o t
           p == Without(e, cut)
           m == Size(p)
<1>1. a \in Nat /\ b \in Nat /\ c \in Nat
  BY DEF Size
<1>2. Consists(u, o, a, g, b)
  <2> HIDE DEF a, b, u
  <2> QED
    BY <1>1, JoinedAt, Zenon DEF a, b, u
<1> HIDE DEF u, a, b, c
<1>3. /\ u \in Seq(Nat) /\ Size(u) = a + b
      /\ \A k \in 1..a : u[k] = o[k]
      /\ \A k \in 1..b : u[a + k] = g[k]
  BY <1>2 DEF Consists
<1>4. a + b \in Nat
  BY <1>1
<1>5. Consists(e, u, a + b, t, c)
  BY <1>1, <1>3, <1>4, JoinedAt, Zenon DEF c
<1> HIDE DEF e
<1>6. /\ e \in Seq(Nat) /\ Size(e) = (a + b) + c
      /\ \A k \in 1..(a + b) : e[k] = u[k]
      /\ \A k \in 1..c : e[(a + b) + k] = t[k]
  BY <1>5 DEF Consists
<1> HIDE DEF p
<1>8. /\ p \in Seq(Nat) /\ m = (IF cut <= Size(e) THEN Size(e) - cut ELSE 0)
      /\ \A i \in Nat : i < m => p[i + 1] = e[i + 1]
  <2> DEFINE w == Without(e, cut)
  <2>1. /\ w \in Seq(Nat) /\ Size(w) = (IF cut <= Size(e) THEN Size(e) - cut ELSE 0)
        /\ \A i \in Nat : i < Size(w) => w[i + 1] = e[i + 1]
    BY <1>6, WithoutIs
  <2>2. p = w
    BY DEF p
  <2> HIDE DEF w
  <2> QED
    BY <2>1, <2>2, Zenon
<1> HIDE DEF m
<1>9. /\ m \in Nat /\ m <= a + b + c
      /\ m = IF cut <= a + b + c THEN a + b + c - cut ELSE 0
  BY <1>1, <1>6, <1>8
<1>10. \A i \in 1..m : p[i] = e[i]
  <2>1. ASSUME NEW i \in 1..m PROVE p[i] = e[i]
    <3>1. i - 1 \in Nat /\ i - 1 < m /\ (i - 1) + 1 = i
      BY <1>9
    <3> QED
      BY <1>8, <3>1
  <2> QED
    BY <2>1
<1>11. \A i \in 1..a : i <= m => p[i] = o[i]
  <2>1. ASSUME NEW i \in 1..a, i <= m PROVE p[i] = o[i]
    <3>1. i \in 1..m /\ i \in 1..(a + b)
      BY <1>1, <1>9, <2>1
    <3> QED
      BY <1>3, <1>6, <1>10, <3>1
  <2> QED
    BY <2>1
<1>12. \A i \in 1..b : a + i <= m => p[a + i] = g[i]
  <2>1. ASSUME NEW i \in 1..b, a + i <= m PROVE p[a + i] = g[i]
    <3>1. a + i \in 1..m /\ a + i \in 1..(a + b)
      BY <1>1, <1>9, <2>1
    <3> QED
      BY <1>3, <1>6, <1>10, <3>1
  <2> QED
    BY <2>1
<1>13. \A i \in 1..c : a + b + i <= m => p[a + b + i] = t[i]
  <2>1. ASSUME NEW i \in 1..c, a + b + i <= m PROVE p[a + b + i] = t[i]
    <3>1. a + b + i \in 1..m
      BY <1>1, <1>9, <2>1
    <3> QED
      BY <1>6, <1>10, <3>1
  <2> QED
    BY <2>1
<1>14. BeginsLike(p, o, g, t)
  BY <1>8, <1>9, <1>11, <1>12, <1>13 DEF BeginsLike, a, b, c, m
<1> QED
  <2>1. IsCut(p, o, g, t, cut)
    BY <1>1, <1>9, <1>14 DEF a, b, c, m, IsCut
  <2> QED
    BY <2>1 DEF p, e, u

\* Nothing is left where more is missing than was there.
LEMMA WithoutAll ==
  ASSUME NEW s \in Seq(Nat), NEW n \in Nat, n > Len(s)
  PROVE  Without(s, n) = <<>>
<1>1. Without(s, n) \in Seq(Nat) /\ Size(Without(s, n)) = 0
  BY WithoutIs DEF Size
<1> QED
  BY <1>1 DEF Size

\* How much of the host of a request is missing: what follows it is cut off first.
MissingOfHost(r, cut) == IF cut > Len(r.rest) THEN cut - Len(r.rest) ELSE 0

\* A plain request shows as much of its host as is there.
LEMMA RequestShows ==
  ASSUME NEW r, IsRequest(r), Plain(r), NEW cut \in Nat,
         NEW p, p = Without(EncodeRequest(r), cut)
  PROVE  HttpHost(p) = Decode(Without(r.host, MissingOfHost(r, cut)))
<1> DEFINE x == MissingOfHost(r, cut)
           o == Opening(r)
           g == r.host
           t == r.rest
           f == Size(o)
           h == Size(g)
           k == Size(t)
           m == Size(p)
<1>1. /\ r.decoy \in BOOLEAN /\ r.spaced \in BOOLEAN
      /\ g \in Seq(U8Values \ (White \cup {COLON}))
      /\ t \in Seq(U8Values) /\ EndsName(t)
  BY Zenon DEF IsRequest
<1>o. Opens(r, o)
  BY OpeningIs, Zenon
<1>2. /\ g \in Seq(Nat) /\ t \in Seq(Nat) /\ o \in Seq(Nat)
      /\ \A i \in 1..Len(g) : g[i] \in U8Values /\ g[i] \notin White \cup {COLON}
      /\ \A i \in 1..Len(t) : t[i] \in U8Values
  <2>1. \A s : s \in Seq(U8Values \ (White \cup {COLON})) => s \in Seq(U8Values)
    OBVIOUS
  <2>2. o \in Seq(Nat)
    BY <1>o DEF Opens
  <2>3. g \in Seq(Nat) /\ t \in Seq(Nat)
    BY <1>1, <2>1, ValuesAreNumbers, Zenon
  <2> HIDE DEF g, t
  <2>4. /\ \A i \in 1..Len(g) : g[i] \in U8Values \ (White \cup {COLON})
        /\ \A i \in 1..Len(t) : t[i] \in U8Values
    BY <1>1
  <2> QED
    BY <2>2, <2>3, <2>4
<1>3. p = Without((o \o g) \o t, cut)
  BY DEF EncodeRequest, Opening
<1>x. x \in Nat
  BY <1>2 DEF MissingOfHost
<1> HIDE DEF o, g, t, x
<1>4. /\ BeginsLike(p, o, g, t) /\ m \in Nat /\ f \in Nat /\ h \in Nat /\ k \in Nat
      /\ m = IF cut <= f + h + k THEN f + h + k - cut ELSE 0
  <2>1. IsCut(p, o, g, t, cut)
    BY <1>2, <1>3, CutIs, Zenon
  <2> QED
    BY <2>1 DEF IsCut
<1>5. Len(g) = h /\ Len(t) = k /\ Len(p) = m
  BY DEF Size
<1> HIDE DEF f, h, k, m
<1>6. /\ p \in Seq(Nat) /\ m <= f + h + k
      /\ \A i \in 1..f : i <= m => p[i] = o[i]
      /\ \A i \in 1..h : f + i <= m => p[f + i] = g[i]
      /\ \A i \in 1..k : f + h + i <= m => p[f + h + i] = t[i]
  BY <1>4 DEF BeginsLike, f, h, k, m
<1>7. (p # <<>> <=> m # 0)
  BY <1>5, <1>6
<1>8. f = 5 /\ o[1] = METHOD /\ o[5] = HOST /\ \A i \in 1..4 : o[i] # HOST
  <2>1. OpensSpaced(o)
    BY <1>o DEF Opens, Plain
  <2> QED
    BY <2>1 DEF OpensSpaced, f
<1>9. CASE m < 5
  <2>1. \A i \in 1..Len(p) : p[i] # HOST
    <3>1. ASSUME NEW i \in 1..Len(p) PROVE p[i] # HOST
      <4>1. i \in 1..f /\ i <= m /\ i \in 1..4
        BY <1>4, <1>5, <1>8, <1>9
      <4> QED
        BY <1>6, <1>8, <4>1
    <3> QED
      BY <3>1
  <2>2. HttpHost(p) = NoHost
    BY <1>6, <2>1, NoHostFound
  <2>3. x > h
    BY <1>4, <1>5, <1>8, <1>9 DEF x, MissingOfHost, t
  <2>4. Without(g, x) = <<>>
    BY <1>2, <1>x, <1>5, <2>3, WithoutAll
  <2> QED
    BY <2>2, <2>4 DEF NoHost, Decode, g, x
<1>10. CASE m >= 5
  <2> DEFINE n == IF m - 5 < h THEN m - 5 ELSE h
  <2>1. n \in 0..Len(g) /\ n \in Nat /\ n <= h
    BY <1>4, <1>5, <1>10
  <2>2. p[1] = METHOD /\ p[5] = HOST /\ \A i \in 1..4 : p[i] # HOST
    BY <1>4, <1>6, <1>8, <1>10
  <2>3. \A i \in 1..n : p[6 + i - 1] = g[i]
    <3>1. ASSUME NEW i \in 1..n PROVE p[6 + i - 1] = g[i]
      <4>1. i \in 1..h /\ f + i <= m /\ f + i = 6 + i - 1
        BY <1>4, <1>8, <1>10
      <4> QED
        BY <1>6, <4>1
    <3> QED
      BY <3>1
  <2>4. m > 5 + n => n = h /\ m <= 5 + h + k
    BY <1>4, <1>6, <1>8
  <2>5. 5 + n <= m /\ (m = 5 + n \/ m > 5 + n)
    BY <1>4, <1>10
  <2>6. n = Len(g) - x
    BY <1>4, <1>5, <1>8, <1>10 DEF x, MissingOfHost, t
  <2> HIDE DEF n
  <2>7. \A i \in 1..k : n = h /\ 5 + n + i <= m => p[5 + n + i] = t[i]
    BY <1>6, <1>8
  <2>8. NameStands(p, 6, n)
    <3>1. 6 + n <= m + 1
      BY <1>4, <2>1, <2>5
    <3>2. \A i \in 6..(6 + n - 1) : p[i] \notin White \cup {COLON}
      <4>1. ASSUME NEW i \in 6..(6 + n - 1) PROVE p[i] \notin White \cup {COLON}
        <5>1. i - 5 \in 1..n /\ 6 + (i - 5) - 1 = i
          BY <2>1
        <5>2. p[i] = g[i - 5] /\ i - 5 \in 1..Len(g)
          BY <1>4, <1>5, <2>1, <2>3, <5>1
        <5> QED
          BY <1>2, <5>2
      <4> QED
        BY <4>1
    <3>3. CASE m = 5 + n
      <4>1. /\ 6 + n + 0 <= m + 1 /\ 6 + n + 0 = m + 1
            /\ \A i \in (6 + n)..(6 + n + 0 - 1) : p[i] \in White
        BY <1>4, <2>1, <3>3
      <4> QED
        BY <1>5, <3>1, <3>2, <4>1 DEF NameStands
    <3>4. CASE m > 5 + n
      <4>1. n = h /\ m <= 5 + n + k
        BY <2>4, <3>4
      <4>2. \A i \in 1..k : 5 + n + i <= m => p[5 + n + i] = t[i]
        BY <2>7, <4>1
      <4>3. CASE t # <<>> /\ t[1] = COLON
        <5>1. 1 \in 1..k /\ 5 + n + 1 = 6 + n /\ 6 + n <= m
          BY <1>4, <2>1, <3>4, <4>1
        <5>2. p[6 + n] = COLON
          BY <4>2, <4>3, <5>1
        <5> QED
          BY <1>5, <3>1, <3>2, <5>1, <5>2 DEF NameStands
      <4>4. ASSUME NEW j \in 0..Len(t), \A i \in 1..j : t[i] \in White,
                   \/ j = Len(t)
                   \/ j + 1 < Len(t) /\ t[j + 1] = CR /\ t[j + 2] = LF
            PROVE  NameStands(p, 6, n)
        <5> DEFINE q == IF m <= 5 + n + j + 1 THEN m - 5 - n ELSE j
        <5>1. q \in Nat /\ 6 + n + q <= m + 1 /\ q <= k
          BY <1>4, <1>5, <2>1, <3>4, <4>1, <4>4
        <5>2. q <= j \/ (q = j + 1 /\ j + 1 <= k /\ t[j + 1] = CR)
          BY <1>4, <1>5, <2>1, <3>4, <4>1, <4>4
        <5>3. \A i \in 1..q : t[i] \in White
          <6> HIDE DEF q
          <6>0. j \in Nat
            BY <4>4
          <6>1. \A i \in 1..q : i \in 1..j \/ i = j + 1
            BY <5>1, <5>2, <6>0
          <6>2. CR \in White
            BY DEF CR, White
          <6>3. \A i \in 1..q : i = j + 1 => t[j + 1] = CR
            BY <5>1, <5>2
          <6> QED
            BY <4>4, <6>1, <6>2, <6>3
        <5>4. \A i \in (6 + n)..(6 + n + q - 1) : p[i] \in White
          <6>1. ASSUME NEW i \in (6 + n)..(6 + n + q - 1) PROVE p[i] \in White
            <7>1. /\ i - (5 + n) \in 1..q /\ i - (5 + n) \in 1..k
                  /\ 5 + n + (i - (5 + n)) = i /\ i <= m
              BY <1>4, <2>1, <5>1
            <7> QED
              BY <4>2, <5>3, <7>1
          <6> QED
            BY <6>1
        <5>5. \/ 6 + n + q = m + 1
              \/ 6 + n + q < m /\ p[6 + n + q] = CR /\ p[6 + n + q + 1] = LF
          <6>1. CASE m <= 5 + n + j + 1
            BY <1>4, <2>1, <6>1
          <6>2. CASE m > 5 + n + j + 1
            <7>1. q = j /\ j + 1 < k /\ t[j + 1] = CR /\ t[j + 2] = LF
              BY <1>4, <1>5, <2>1, <4>1, <4>4, <6>2
            <7>2. /\ j + 1 \in 1..k /\ j + 2 \in 1..k /\ 5 + n + (j + 2) <= m
                  /\ 5 + n + (j + 1) <= m
                  /\ 5 + n + (j + 1) = 6 + n + j /\ 5 + n + (j + 2) = 6 + n + j + 1
              BY <1>4, <2>1, <6>2, <7>1
            <7>3. p[6 + n + j] = CR /\ p[6 + n + j + 1] = LF
              BY <4>2, <7>1, <7>2
            <7> QED
              BY <1>4, <2>1, <6>2, <7>1, <7>3, SMTT(30)
          <6> QED
            BY <1>4, <2>1, <6>1, <6>2
        <5> HIDE DEF q
        <5> QED
          BY <1>5, <3>1, <3>2, <5>1, <5>4, <5>5 DEF NameStands
      <4> QED
        BY <1>1, <4>3, <4>4 DEF EndsName
    <3> QED
      BY <2>5, <3>3, <3>4
  <2>9. p # <<>> /\ 6 \in Nat /\ 6 >= 2 /\ 6 - 1 = 5 /\ 5 <= Len(p) /\ 6 - 2 = 4
    BY <1>4, <1>5, <1>7, <1>10
  <2>10. HttpHost(p) = Decode(SubSeq(g, 1, n))
    <3> DEFINE s == 6
    <3>1. NameFollows(p, s, g, n)
      BY <1>2, <1>6, <2>1, <2>2, <2>3, <2>8, <2>9 DEF NameFollows
    <3> HIDE DEF s
    <3> QED
      BY <3>1, NamePartFound, Zenon
  <2>11. Without(g, x) = SubSeq(g, 1, n)
    BY <2>6 DEF Without
  <2> QED
    BY <2>10, <2>11 DEF g, x
<1> QED
  BY <1>4, <1>9, <1>10

-----------------------------------------------------------------------------
(* The extractors in the engine *)

\* What the extractors are given, and the frames for which one is called.
Content(w) == Without(Data(w), w.cut)

SeeksTls(w)  == HasPorts(w) /\ w.ports[2] = 443 /\ Len(Content(w)) >= 6
SeeksHttp(w) == HasPorts(w) /\ w.ports[2] = 80 /\ Len(Content(w)) >= 1

\* The name shown is the one that the extractor has found.
NameShown ==
  /\ SeeksTls(wire) =>
       /\ payload = Content(wire) /\ pc = "done"
       /\ shown = IF name = None THEN NoName ELSE Decode(name)
  /\ SeeksHttp(wire) => shown = HttpHost(Content(wire))
  /\ ~SeeksTls(wire) /\ ~SeeksHttp(wire) => shown = NoName

\* Which extractor works on what.
ExtractorCalled ==
  /\ phase \in {"rules", "parse"} => pc = "record" /\ offset = 0 /\ name = None
  /\ phase = "tls" => SeeksTls(wire) /\ payload = Content(wire)
  /\ phase = "judge" \/ Judged => NameShown

\* The tests for a port and a least size of the payload.
LEMMA PortsAndContent ==
  ASSUME KnowsHeaders, stage = "parsed"
  PROVE  /\ parsed.ports = <<>> <=> ~HasPorts(wire)
         /\ HasPorts(wire) => /\ parsed.ports[2] = wire.ports[2]
                              /\ parsed.payload = Content(wire)
<1>1. IsFrame(wire) /\ parsed = RightParse(wire)
  BY DEF KnowsHeaders
<1>2. wire.ports \in [1..2 -> U16Values]
  BY <1>1, Zenon DEF IsFrame
<1>3. wire.ports # <<>>
  <2> DEFINE v == wire.ports
  <2>1. v \in [1..2 -> U16Values]
    BY <1>2
  <2> HIDE DEF v
  <2>2. DOMAIN v = 1..2 /\ DOMAIN <<>> = {} /\ 1 \in 1..2
    BY <2>1
  <2>3. v # <<>>
    BY <2>2, Zenon
  <2> QED
    BY <2>3 DEF v
<1>4. /\ parsed.ports = IF HasPorts(wire) THEN wire.ports ELSE <<>>
      /\ parsed.payload = IF HasPorts(wire) THEN Content(wire) ELSE <<>>
  BY <1>1 DEF RightParse, Content, Data
<1> QED
  BY <1>3, <1>4

\* The extractor leaves its argument alone.
LEMMA NextKeepsPayload == Next => payload' = payload
BY DEF Next, RecordHeader, HandshakeHeader, VersionAndRandom, SessionId, CipherSuites,
       CompressionMethods, ExtensionsLength, OtherExtension, SniExtension,
       NoMoreExtensions, ListLength, OtherEntry, HostName, NoMoreEntries,
       Field, Refuse, Return, MoveOn

\* Every step is one of the phase's, and calls the extractor for the port.
LEMMA CalledStep ==
  ASSUME KnowsHeaders, OnItsWay, ExtractorCalled, [DissectionNext]_dissectionVars
  PROVE  ExtractorCalled'
<1>w. wire' = wire
  BY KnowsStep
<1>s. SeeksTls(wire)' = SeeksTls(wire) /\ SeeksHttp(wire)' = SeeksHttp(wire)
      /\ Content(wire)' = Content(wire)
  BY <1>w, Zenon
<1> DEFINE st == SeeksTls(wire)
           sh == SeeksHttp(wire)
           c  == Content(wire)
<1>1. CASE Configure
  BY <1>1 DEF Configure, ExtractorCalled, Judged, vars
<1>2. CASE ParseFrame
  BY <1>2 DEF ParseFrame, ExtractorCalled, Judged, vars
<1>3. CASE NotParsed
  BY <1>3 DEF NotParsed, Pass, ExtractorCalled, Judged
<1>4. CASE NoPorts
  <2>1. phase = "parse" /\ stage = "parsed" /\ parsed.ports = <<>>
    BY <1>4 DEF NoPorts
  <2>2. ~SeeksTls(wire) /\ ~SeeksHttp(wire)
    BY <2>1, PortsAndContent, Zenon DEF SeeksTls, SeeksHttp
  <2>3. shown = NoName /\ shown' = shown /\ phase' = "done"
    BY <1>4, <2>1 DEF NoPorts, Pass, OnItsWay
  <2>4. NameShown'
    BY <1>s, <2>2, <2>3 DEF NameShown, NoName
  <2> QED
    BY <2>3, <2>4 DEF ExtractorCalled
<1>5. CASE TryTls
  <2>1. /\ stage = "parsed" /\ parsed.ports # <<>>
        /\ parsed.ports[2] = 443 /\ Len(parsed.payload) >= 6
        /\ payload' = parsed.payload /\ phase' = "tls"
    BY <1>5 DEF TryTls, HasPort, Engine!HTTPS_PORT, Engine!TLS_MIN_PAYLOAD
  <2>2. SeeksTls(wire) /\ payload' = Content(wire)
    BY <2>1, PortsAndContent DEF SeeksTls
  <2> QED
    BY <1>s, <2>1, <2>2 DEF ExtractorCalled, Judged
<1>6. CASE TryHttp
  <2>1. /\ stage = "parsed" /\ parsed.ports # <<>>
        /\ parsed.ports[2] = 80 /\ Len(parsed.payload) >= 1
        /\ shown' = HttpHost(parsed.payload) /\ phase' = "judge"
    BY <1>6 DEF TryHttp, HasPort, Engine!HTTP_PORT
  <2>2. SeeksHttp(wire) /\ parsed.payload = Content(wire) /\ wire.ports[2] = 80
    BY <2>1, PortsAndContent DEF SeeksHttp
  <2>3. ~SeeksTls(wire)
    BY <2>2 DEF SeeksTls
  <2>4. NameShown'
    BY <1>s, <2>1, <2>2, <2>3 DEF NameShown
  <2> QED
    BY <2>1, <2>4 DEF ExtractorCalled
<1>7. CASE TryNothing
  <2>1. /\ phase = "parse" /\ stage = "parsed" /\ parsed.ports # <<>> /\ phase' = "judge"
        /\ shown' = shown
        /\ ~(parsed.ports[2] = 443 /\ Len(parsed.payload) >= 6)
        /\ ~(parsed.ports[2] = 80 /\ Len(parsed.payload) >= 1)
    BY <1>7 DEF TryNothing, HasPort, Engine!HTTPS_PORT, Engine!TLS_MIN_PAYLOAD,
                Engine!HTTP_PORT
  <2>2. ~SeeksTls(wire) /\ ~SeeksHttp(wire)
    BY <2>1, PortsAndContent DEF SeeksTls, SeeksHttp
  <2>3. shown = NoName
    BY <2>1 DEF OnItsWay
  <2>4. NameShown'
    BY <1>s, <2>1, <2>2, <2>3 DEF NameShown, NoName
  <2> QED
    BY <2>1, <2>4 DEF ExtractorCalled
<1>8. CASE Extract
  <2>1. phase = "tls" /\ phase' = phase /\ payload' = payload
    BY <1>8, NextKeepsPayload DEF Extract
  <2> QED
    BY <1>s, <2>1 DEF ExtractorCalled, Judged
<1>9. CASE Extracted
  <2>1. /\ phase = "tls" /\ pc = "done" /\ phase' = "judge"
        /\ shown' = IF name = None THEN NoName ELSE Decode(name)
        /\ payload' = payload /\ pc' = pc /\ name' = name
    BY <1>9 DEF Extracted, vars
  <2>2. SeeksTls(wire) /\ payload = Content(wire)
    BY <2>1 DEF ExtractorCalled
  <2>3. ~SeeksHttp(wire)
    BY <2>2 DEF SeeksTls, SeeksHttp
  <2>4. None' = None /\ NoName' = NoName
    BY DEF None, NoName
  <2>5. NameShown'
    BY <1>s, <2>1, <2>2, <2>3, <2>4 DEF NameShown
  <2> QED
    BY <2>1, <2>5 DEF ExtractorCalled
<1>10. CASE Judge
  <2>1. phase = "judge" /\ phase' = "done" /\ UNCHANGED <<payload, pc, name, shown>>
    BY <1>10 DEF Judge, vars
  <2>2. NameShown'
    BY <1>s, <2>1 DEF ExtractorCalled, NameShown
  <2> QED
    BY <2>1, <2>2 DEF ExtractorCalled
<1>11. CASE UNCHANGED dissectionVars
  <2>1. UNCHANGED <<payload, pc, offset, name, shown, phase, verdict>>
    BY <1>11 DEF dissectionVars, vars
  <2> QED
    BY <1>s, <2>1 DEF ExtractorCalled, NameShown, Judged
<1> QED
  BY <1>1, <1>2, <1>3, <1>4, <1>5, <1>6, <1>7, <1>8, <1>9, <1>10, <1>11
    DEF DissectionNext, DissectionStep, Dissected

\* At first no extractor is called.
LEMMA CalledInit == DissectionInit => ExtractorCalled
BY DEF DissectionInit, Start, ExtractorCalled, Judged

\* A payload that no walk through a Client Hello gets far in: it is of another
\* type, too short for the fixed fields, or less than the record.
Barren ==
  \/ Byte(0) # TLS_CONTENT_TYPE_HANDSHAKE
  \/ Len(payload) < 43
  \/ Len(payload) < 5 + U16At(3)

\* Where the extractor can be in it.
StaysOut ==
  Barren =>
    /\ name = None
    /\ \/ pc = "record" /\ offset = 0
       \/ pc = "handshake" /\ offset = 5 /\ Len(payload) < 43
       \/ pc = "fixed" /\ offset = 9 /\ Len(payload) < 43
       \/ pc = "done"

\* What is read from a payload of numbers is a number.
LEMMA NumbersRead ==
  ASSUME payload \in Seq(Nat), NEW o \in Nat
  PROVE  Byte(o) \in Nat /\ U16At(o) \in Nat
<1>1. ASSUME NEW i \in Nat PROVE Byte(i) \in Nat
  <2>1. CASE i < Len(payload)
    <3>1. i + 1 \in 1..Len(payload) /\ \A k \in 1..Len(payload) : payload[k] \in Nat
      BY <2>1
    <3> QED
      BY <2>1, <3>1 DEF Byte
  <2>2. CASE ~(i < Len(payload))
    BY <2>2 DEF Byte
  <2> QED
    BY <2>1, <2>2
<1>2. Byte(o) \in Nat /\ Byte(o + 1) \in Nat
  BY <1>1, SMTT(30)
<1> QED
  BY <1>2 DEF U16At

\* No step takes it further.
LEMMA StaysOutStep ==
  ASSUME payload \in Seq(Nat), StaysOut, Next
  PROVE  StaysOut'
<1> SUFFICES ASSUME Barren' PROVE StaysOut'
  BY DEF StaysOut
<1>1. payload' = payload
  BY NextKeepsPayload
<1>2. Barren
  BY <1>1 DEF Barren, Byte, U16At
<1>3. Len(payload) \in Nat
  OBVIOUS
<1>4. /\ name = None
      /\ \/ pc = "record" /\ offset = 0
         \/ pc = "handshake" /\ offset = 5 /\ Len(payload) < 43
         \/ pc = "fixed" /\ offset = 9 /\ Len(payload) < 43
         \/ pc = "done"
  BY <1>2 DEF StaysOut
<1>n. None' = None
  BY DEF None
<1>r. ASSUME NEW n, Return(n), n = None PROVE StaysOut'
  BY <1>r, <1>n DEF Return, StaysOut
<1>5. CASE RecordHeader
  <2>1. pc = "record" /\ offset = 0
    BY <1>4, <1>5 DEF RecordHeader, Field, Refuse
  <2>2. CASE Short(5) \/ ~WholeRecord
    <3>1. Return(None) \/ (~Short(5) /\ WholeRecord)
      BY <1>5 DEF RecordHeader, Field, Refuse
    <3> QED
      BY <1>5, <1>r, <2>2, <3>1 DEF RecordHeader, Field
  <2>3. CASE ~Short(5) /\ WholeRecord
    <3>1. Byte(0) = TLS_CONTENT_TYPE_HANDSHAKE /\ ~Short(5 + U16At(3))
      BY <2>3 DEF WholeRecord
    <3>2. ~(Len(payload) < 5 + U16At(3))
      <4> DEFINE u == 5 + U16At(3)
      <4>1. ~(Len(payload) < 0 + u)
        BY <2>1, <3>1 DEF Short
      <4> QED
        BY <1>3, <4>1, NumbersRead DEF u
    <3>3. Len(payload) < 43
      BY <1>2, <3>1, <3>2 DEF Barren
    <3>4. pc' = "handshake" /\ offset' = offset + (5 + 0) /\ name' = name
      BY <1>5, <2>3 DEF RecordHeader, Field, Refuse, MoveOn
    <3> QED
      BY <1>1, <1>4, <1>n, <2>1, <3>3, <3>4 DEF StaysOut
  <2> QED
    BY <2>2, <2>3
<1>6. CASE HandshakeHeader
  <2>1. pc = "handshake" /\ offset = 5 /\ Len(payload) < 43
    BY <1>4, <1>6 DEF HandshakeHeader, Field, Refuse
  <2>2. Return(None) \/ (pc' = "fixed" /\ offset' = offset + (4 + 0) /\ name' = name)
    BY <1>6 DEF HandshakeHeader, Field, Refuse, MoveOn
  <2>3. CASE pc' = "fixed" /\ offset' = offset + (4 + 0) /\ name' = name
    BY <1>1, <1>4, <1>n, <2>1, <2>3 DEF StaysOut
  <2> QED
    BY <1>r, <2>2, <2>3
<1>7. CASE VersionAndRandom
  <2>1. pc = "fixed" /\ offset = 9 /\ Len(payload) < 43
    BY <1>4, <1>7 DEF VersionAndRandom, Field
  <2>2. Short(34)
    BY <1>3, <2>1 DEF Short
  <2> QED
    BY <1>7, <1>r, <2>2 DEF VersionAndRandom, Field
<1>8. CASE SessionId \/ CipherSuites \/ CompressionMethods
  BY <1>4, <1>8 DEF SessionId, CipherSuites, CompressionMethods, Field
<1>9. CASE ExtensionsLength \/ OtherExtension \/ SniExtension \/ NoMoreExtensions
            \/ ListLength \/ OtherEntry \/ HostName \/ NoMoreEntries
  BY <1>4, <1>9 DEF ExtensionsLength, OtherExtension, SniExtension,
       NoMoreExtensions, ListLength, OtherEntry, HostName, NoMoreEntries
<1> QED
  BY <1>5, <1>6, <1>7, <1>8, <1>9 DEF Next

\* What the extractors are given is a sequence of numbers.
LEMMA ContentIsBytes ==
  ASSUME NEW w, IsFrame(w)
  PROVE  Content(w) \in Seq(Nat)
<1>1. Data(w) \in Seq(Nat) /\ w.cut \in Nat
  BY FrameParts, FrameFields, Zenon
<1> QED
  BY <1>1, WithoutIs, Zenon DEF Content

\* A request is not filled up.
LEMMA RequestContent ==
  ASSUME NEW w, IsFrame(w), w.body.kind = "request"
  PROVE  /\ IsRequest(w.body.request) /\ w.cut \in Nat
         /\ Content(w) = Without(EncodeRequest(w.body.request), w.cut)
<1>1. IsRequest(w.body.request) /\ ~w.padded
  BY Zenon DEF IsFrame
<1>2. w.cut \in Nat
  BY FrameFields, Zenon
<1>3. Padding(w) = <<>>
  BY <1>1 DEF Padding
<1>4. Body(w) = EncodeRequest(w.body.request)
  BY DEF Body
<1> DEFINE b == EncodeRequest(w.body.request)
<1>5. b \in Seq(Nat)
  BY <1>1, RequestIsBytes, Zenon
<1>6. Data(w) = b \o <<>>
  BY <1>3, <1>4 DEF Data
<1> HIDE DEF b
<1>7. b \o <<>> = b
  BY <1>5
<1>8. Content(w) = Without(b, w.cut)
  BY <1>6, <1>7, Zenon DEF Content
<1> QED
  BY <1>1, <1>2, <1>8 DEF b

\* What a sequence begins with, when it is put together or cut.
LEMMA Beginning ==
  ASSUME NEW s \in Seq(Nat), NEW t \in Seq(Nat)
  PROVE  /\ s # <<>> => (s \o t)[1] = s[1] /\ s \o t # <<>>
         /\ s = <<>> => s \o t = t
OBVIOUS

\* The same for a sequence of which the end is missing.
LEMMA BeginningLeft ==
  ASSUME NEW s \in Seq(Nat), NEW n \in Nat, Without(s, n) # <<>>
  PROVE  s # <<>> /\ Without(s, n)[1] = s[1]
<1> DEFINE u == Without(s, n)
<1>1. /\ u \in Seq(Nat) /\ Size(u) = (IF n <= Size(s) THEN Size(s) - n ELSE 0)
      /\ \A i \in Nat : i < Size(u) => u[i + 1] = s[i + 1]
  BY WithoutIs, Zenon
<1>2. u # <<>>
  OBVIOUS
<1> HIDE DEF u
<1>3. Len(u) > 0 /\ Len(s) \in Nat
  BY <1>1, <1>2
<1>4. 0 \in Nat /\ 0 < Size(u) /\ Size(s) # 0
  BY <1>1, <1>3 DEF Size
<1>5. u[0 + 1] = s[0 + 1] /\ s # <<>>
  BY <1>1, <1>4 DEF Size
<1> QED
  BY <1>5 DEF u

\* Zeros begin with a zero.
LEMMA ZerosBegin ==
  ASSUME NEW n \in Int, Zeros(n) # <<>>
  PROVE  Zeros(n)[1] = 0
<1>1. CASE n >= 1
  <2>1. 1 \in 1..n
    BY <1>1
  <2> QED
    BY <2>1 DEF Zeros
<1>2. CASE n < 1
  <2>1. Zeros(n) \in Seq(Nat) /\ Size(Zeros(n)) = 0
    BY <1>2, ZerosAre
  <2> DEFINE z == Zeros(n)
  <2>2. z \in Seq(Nat) /\ Len(z) = 0
    BY <2>1 DEF Size
  <2> HIDE DEF z
  <2>3. z = <<>>
    BY <2>2
  <2> QED
    BY <2>3 DEF z
<1> QED
  BY <1>1, <1>2

\* The padding consists of zeros, and fills the frame up to 60 bytes.
LEMMA PaddingIs ==
  ASSUME NEW w, IsFrame(w)
  PROVE  \E n \in Int :
           /\ Padding(w) = Zeros(n)
           /\ Size(Padding(w)) # 0 => HeaderSize(w) + Size(Body(w)) + Size(Padding(w)) = 60
<1> DEFINE s == Sent(w)
           p == Padding(w)
           b == Size(Body(w))
           m == Size(p)
           f == HeaderSize(w)
           k == 60 - Len(s)
<1>1. /\ s \in Seq(Nat) /\ p \in Seq(Nat) /\ b \in Nat /\ m \in Nat
      /\ OptionSize(w.ihl) \in Nat /\ TransportSize(w) \in Nat
  BY FrameParts, Zenon
<1>2. Size(s \o p) = f + (b + m)
  <2>1. Size(Whole(w)) = HeaderSize(w) + Size(Data(w)) /\ Size(Data(w)) = b + m
    BY FrameLayout, FrameParts, Zenon
  <2>2. Whole(w) = s \o p
    BY DEF Whole
  <2> HIDE DEF s, p, b, m, f
  <2> QED
    BY <2>1, <2>2, Zenon DEF f
<1>3. f \in Nat
  <2> DEFINE x == OptionSize(w.ihl)
             y == TransportSize(w)
  <2>1. x \in Nat /\ y \in Nat /\ f = 34 + x + y
    BY <1>1 DEF HeaderSize
  <2> HIDE DEF x, y, f
  <2> QED
    BY <2>1
<1>4. p = IF w.padded THEN Zeros(k) ELSE <<>>
  BY DEF Padding
<1> HIDE DEF s, p, b, f
<1>5. Size(s \o p) = Len(s) + m /\ Len(s) \in Nat
  <2>1. Size(s) \in Nat /\ Len(s) \in Nat
    BY <1>1 DEF Size
  <2>2. Size(s \o p) = Size(s) + m
    BY <1>1, <2>1, Joined
  <2> QED
    BY <2>1, <2>2 DEF Size
<1>6. k \in Int /\ f + b = Len(s)
  <2> HIDE DEF m
  <2> QED
    BY <1>1, <1>2, <1>3, <1>5
<1>7. CASE w.padded
  <2>1. p = Zeros(k) /\ m = IF k > 0 THEN k ELSE 0
    BY <1>4, <1>6, <1>7, ZerosAre
  <2>2. m # 0 => f + b + m = 60
    <3>1. k = 60 - (f + b)
      BY <1>6
    <3> HIDE DEF m, k
    <3> QED
      BY <1>1, <1>3, <2>1, <3>1
  <2> QED
    BY <1>6, <2>1, <2>2 DEF p, b, f
<1>8. CASE ~w.padded
  <2>1. p = <<>> /\ Zeros(0) = <<>>
    <3>1. Zeros(0) \in Seq(Nat) /\ Size(Zeros(0)) = 0
      BY ZerosAre
    <3> DEFINE z == Zeros(0)
    <3>2. z \in Seq(Nat) /\ Len(z) = 0
      BY <3>1 DEF Size
    <3> HIDE DEF z
    <3>3. z = <<>>
      BY <3>2
    <3> QED
      BY <1>4, <1>8, <3>3 DEF z
  <2>2. m = 0
    BY <2>1 DEF Size
  <2> QED
    BY <2>1, <2>2 DEF p
<1> QED
  BY <1>7, <1>8

-----------------------------------------------------------------------------
(* The record of a Client Hello *)

\* The parts of the record that carries a Client Hello.
MessageLength(h) ==
  IF Fault(h, "short") < Len(EncodeBody(h)) THEN Len(EncodeBody(h)) - Fault(h, "short") ELSE 0

MessageHeader(h) ==
  U8(TLS_HANDSHAKE_TYPE_CLIENT_HELLO + Fault(h, "message"))
    \o U24(MessageLength(h) + Fault(h, "handshake"))

Message(h) == Without(MessageHeader(h) \o EncodeBody(h), Fault(h, "short"))

RecordStart(h) ==
  U8(TLS_CONTENT_TYPE_HANDSHAKE + Fault(h, "record")) \o <<3, 1>>

Record(h) == (RecordStart(h) \o U16(Len(Message(h)))) \o Message(h)

\* The sequence r is a record with all or part of the message; the body of the
\* message is at the tenth place.
IsRecord(r, h) ==
  /\ r \in Seq(Nat) /\ Size(r) >= 5 /\ Size(r) \in Nat
  /\ r[1] = TLS_CONTENT_TYPE_HANDSHAKE + Fault(h, "record")
  /\ 256 * r[4] + r[5] = Size(r) - 5
  /\ Size(r) = IF Fault(h, "short") <= 4 + Size(EncodeBody(h))
               THEN 9 + Size(EncodeBody(h)) - Fault(h, "short") ELSE 5
  /\ Size(r) >= 6 => r[6] = TLS_HANDSHAKE_TYPE_CLIENT_HELLO + Fault(h, "message")
  /\ Size(r) >= 9 =>
       256 * (256 * r[7] + r[8]) + r[9] = MessageLength(h) + Fault(h, "handshake")
  /\ \A i \in 1..Size(EncodeBody(h)) : 9 + i <= Size(r) => r[9 + i] = EncodeBody(h)[i]

\* A number in two bytes is that number, and so it is in three.
LEMMA ValueOfFields ==
  ASSUME NEW n \in Nat
  PROVE  /\ U16(n) \in Seq(Nat) /\ Size(U16(n)) = 2 /\ 256 * U16(n)[1] + U16(n)[2] = n
         /\ U24(n) \in Seq(Nat) /\ Size(U24(n)) = 3
         /\ 256 * (256 * U24(n)[1] + U24(n)[2]) + U24(n)[3] = n
<1> DEFINE a == n \div 256
           b == n % 256
<1>0. a \in Nat /\ b \in Nat
  OBVIOUS
<1>1. a \in Nat /\ b \in Nat /\ 256 * a + b = n
  <2>1. 256 * a + b = n
    OBVIOUS
  <2> QED
    BY <1>0, <2>1, Zenon
<1> DEFINE u == U16(n)
           w == <<0>>
           t == w \o u
<1>2. u = <<a, b>> /\ U24(n) = t
  BY DEF U16, U24
<1> HIDE DEF a, b, u
<1>3. u \in Seq(Nat) /\ Size(u) = 2 /\ u[1] = a /\ u[2] = b
  BY <1>0, <1>2 DEF Size
<1>4. w \in Seq(Nat) /\ Size(w) = 1 /\ w[1] = 0
  BY DEF Size
<1> HIDE DEF w
<1>5. Consists(t, w, Size(w), u, Size(u))
  BY <1>3, <1>4, JoinedAt, Zenon
<1> HIDE DEF t
<1>6. /\ t \in Seq(Nat) /\ Size(t) = 1 + 2
      /\ \A k \in 1..1 : t[k] = w[k]
      /\ \A k \in 1..2 : t[1 + k] = u[k]
  BY <1>3, <1>4, <1>5 DEF Consists
<1>7. t[1] = 0 /\ t[2] = a /\ t[3] = b /\ Size(t) = 3
  <2>1. t[1] = w[1] /\ t[1 + 1] = u[1] /\ t[1 + 2] = u[2]
    BY <1>6
  <2> QED
    BY <1>3, <1>4, <1>6, <2>1
<1>8. 256 * u[1] + u[2] = n /\ 256 * (256 * t[1] + t[2]) + t[3] = n
  BY <1>1, <1>3, <1>7
<1> QED
  BY <1>2, <1>3, <1>6, <1>7, <1>8, Zenon DEF u

\* The faults are numbers, and only one of them is not 0.
LEMMA FaultsAre ==
  ASSUME NEW h, IsHello(h)
  PROVE  /\ \A f : Fault(h, f) \in Nat
         /\ \A f : h.fault # f => Fault(h, f) = 0
         /\ \A f : h.fault = f /\ f # "none" => Fault(h, f) > 0
         /\ h.trail \in Nat
<1>1. h.by \in Nat /\ h.trail \in Nat /\ (h.fault # "none" => h.by > 0)
  BY Zenon DEF IsHello
<1> QED
  BY <1>1 DEF Fault

\* The record of a message is one.
LEMMA RecordIs ==
  ASSUME NEW h, IsHello(h)
  PROVE  IsRecord(Record(h), h)
<1> DEFINE b == EncodeBody(h)
           z == Size(b)
           sh == Fault(h, "short")
           ty == TLS_HANDSHAKE_TYPE_CLIENT_HELLO + Fault(h, "message")
           rt == TLS_CONTENT_TYPE_HANDSHAKE + Fault(h, "record")
           ml == MessageLength(h) + Fault(h, "handshake")
           t1 == U8(ty)
           t3 == U24(ml)
           hd == t1 \o t3
           fm == hd \o b
           m  == Without(fm, sh)
           M  == Size(m)
           r1 == U8(rt)
           v  == <<3, 1>>
           rs == r1 \o v
           u  == U16(M)
           ru == rs \o u
           r  == ru \o m
<1>1. \A f : Fault(h, f) \in Nat
  BY FaultsAre
<1>2. b \in Seq(Nat)
  BY HelloIsBytes, Zenon DEF PartsAreBytes
<1>3. z \in Nat /\ sh \in Nat /\ ty \in Nat /\ rt \in Nat
  BY <1>1, <1>2 DEF Size, TLS_HANDSHAKE_TYPE_CLIENT_HELLO, TLS_CONTENT_TYPE_HANDSHAKE
<1>4. ml \in Nat
  <2> DEFINE y == MessageLength(h)
             x == Fault(h, "handshake")
  <2>1. x \in Nat /\ ml = y + x
    BY <1>1
  <2>2. y = (IF sh < z THEN z - sh ELSE 0)
    BY DEF MessageLength, Size
  <2> HIDE DEF y, x, sh, z, ml
  <2>3. y \in Nat
    BY <1>3, <2>2
  <2> QED
    BY <2>1, <2>3
<1>5. Record(h) = r
  BY DEF Record, RecordStart, Message, MessageHeader, Size
<1> HIDE DEF r
<1> HIDE DEF b
<1> HIDE DEF z, sh, ty, rt, ml
<1>6. t1 \in Seq(Nat) /\ Size(t1) = 1 /\ t1[1] = ty
  BY <1>3 DEF U8, Size
<1>7. r1 \in Seq(Nat) /\ Size(r1) = 1 /\ r1[1] = rt
  BY <1>3 DEF U8, Size
<1>8. t3 \in Seq(Nat) /\ Size(t3) = 3 /\ 256 * (256 * t3[1] + t3[2]) + t3[3] = ml
  BY <1>4, ValueOfFields
<1>9. v \in Seq(Nat) /\ Size(v) = 2
  BY DEF Size
<1> HIDE DEF t1, r1, t3, v
<1>10. hd \in Seq(Nat) /\ Size(hd) = 4 /\ hd[1] = ty
       /\ hd[2] = t3[1] /\ hd[3] = t3[2] /\ hd[4] = t3[3]
  <2>1. Consists(hd, t1, Size(t1), t3, Size(t3))
    BY <1>6, <1>8, JoinedAt, Zenon
  <2> HIDE DEF hd
  <2>2. /\ hd \in Seq(Nat) /\ Size(hd) = 1 + 3
        /\ \A k \in 1..1 : hd[k] = t1[k]
        /\ \A k \in 1..3 : hd[1 + k] = t3[k]
    BY <1>6, <1>8, <2>1 DEF Consists
  <2>3. hd[1 + 1] = t3[1] /\ hd[1 + 2] = t3[2] /\ hd[1 + 3] = t3[3] /\ hd[1] = t1[1]
    BY <2>2
  <2> QED
    BY <1>6, <2>2, <2>3
<1> HIDE DEF hd
<1>11. /\ fm \in Seq(Nat) /\ Size(fm) = 4 + z
       /\ \A k \in 1..4 : fm[k] = hd[k]
       /\ \A k \in 1..z : fm[4 + k] = b[k]
  <2>1. Consists(fm, hd, Size(hd), b, Size(b))
    BY <1>2, <1>10, JoinedAt, Zenon
  <2> HIDE DEF fm
  <2> QED
    BY <1>10, <2>1 DEF Consists, z
<1> HIDE DEF fm
<1>12. /\ m \in Seq(Nat) /\ M = (IF sh <= 4 + z THEN 4 + z - sh ELSE 0) /\ M \in Nat
       /\ \A i \in Nat : i < M => m[i + 1] = fm[i + 1]
  <2>1. /\ m \in Seq(Nat) /\ M = IF sh <= Size(fm) THEN Size(fm) - sh ELSE 0
        /\ \A i \in Nat : i < M => m[i + 1] = fm[i + 1]
    BY <1>3, <1>11, WithoutIs, Zenon
  <2> HIDE DEF M, m
  <2>2. M \in Nat
    BY <1>3, <1>11, <2>1
  <2> QED
    BY <1>3, <1>11, <2>1, <2>2
<1>13. Len(m) = M
  BY DEF Size
<1> HIDE DEF m, M
<1>14. u \in Seq(Nat) /\ Size(u) = 2 /\ 256 * u[1] + u[2] = M
  <2>1. M \in Nat
    BY <1>12, Zenon
  <2> QED
    BY <2>1, ValueOfFields, Zenon
<1> HIDE DEF u
<1>15. rs \in Seq(Nat) /\ Size(rs) = 3 /\ rs[1] = rt
  <2>1. Consists(rs, r1, Size(r1), v, Size(v))
    BY <1>7, <1>9, JoinedAt, Zenon
  <2> HIDE DEF rs
  <2>2. rs \in Seq(Nat) /\ Size(rs) = 1 + 2 /\ \A k \in 1..1 : rs[k] = r1[k]
    BY <1>7, <1>9, <2>1 DEF Consists
  <2> QED
    BY <1>7, <2>2
<1> HIDE DEF rs
<1>16. ru \in Seq(Nat) /\ Size(ru) = 5 /\ ru[1] = rt /\ ru[4] = u[1] /\ ru[5] = u[2]
  <2>1. Consists(ru, rs, Size(rs), u, Size(u))
    BY <1>14, <1>15, JoinedAt, Zenon
  <2> HIDE DEF ru
  <2>2. /\ ru \in Seq(Nat) /\ Size(ru) = 3 + 2
        /\ \A k \in 1..3 : ru[k] = rs[k]
        /\ \A k \in 1..2 : ru[3 + k] = u[k]
    BY <1>14, <1>15, <2>1 DEF Consists
  <2>3. ru[3 + 1] = u[1] /\ ru[3 + 2] = u[2] /\ ru[1] = rs[1]
    BY <2>2
  <2> QED
    BY <1>15, <2>2, <2>3
<1> HIDE DEF ru
<1>17. /\ r \in Seq(Nat) /\ Size(r) = 5 + M
       /\ \A k \in 1..5 : r[k] = ru[k]
       /\ \A k \in 1..M : r[5 + k] = m[k]
  <2>1. Consists(ru \o m, ru, Size(ru), m, Size(m))
    BY <1>12, <1>16, JoinedAt, Zenon
  <2>2. Consists(r, ru, Size(ru), m, Size(m))
    BY <2>1, Zenon DEF r
  <2> QED
    BY <1>16, <2>2 DEF Consists, M
<1>18. r[1] = rt /\ 256 * r[4] + r[5] = Size(r) - 5
  <2>1. r[1] = ru[1] /\ r[4] = ru[4] /\ r[5] = ru[5]
    BY <1>17
  <2>2. Size(r) - 5 = M
    BY <1>12, <1>17
  <2> QED
    BY <1>14, <1>16, <2>1, <2>2
<1>19. \A k \in 1..M : m[k] = fm[k]
  <2>1. ASSUME NEW k \in 1..M PROVE m[k] = fm[k]
    <3>1. k - 1 \in Nat /\ k - 1 < M /\ (k - 1) + 1 = k
      BY <1>12
    <3> QED
      BY <1>12, <3>1
  <2> QED
    BY <2>1
<1>20. M >= 1 => r[6] = ty
  <2>1. ASSUME M >= 1 PROVE r[5 + 1] = ty
    <3>1. 1 \in 1..M /\ 1 \in 1..4
      BY <1>12, <2>1
    <3> QED
      BY <1>10, <1>11, <1>17, <1>19, <3>1
  <2> QED
    BY <2>1
<1>21. M >= 4 => 256 * (256 * r[7] + r[8]) + r[9] = ml
  <2>1. ASSUME M >= 4
        PROVE  r[5 + 2] = t3[1] /\ r[5 + 3] = t3[2] /\ r[5 + 4] = t3[3]
    <3>1. 2 \in 1..M /\ 3 \in 1..M /\ 4 \in 1..M /\ 2 \in 1..4 /\ 3 \in 1..4 /\ 4 \in 1..4
      BY <1>12, <2>1
    <3> QED
      BY <1>10, <1>11, <1>17, <1>19, <3>1
  <2> QED
    BY <1>8, <2>1
<1>22. \A i \in 1..z : 9 + i <= 5 + M => r[9 + i] = b[i]
  <2>1. ASSUME NEW i \in 1..z, 9 + i <= 5 + M PROVE r[9 + i] = b[i]
    <3>1. 4 + i \in 1..M /\ 5 + (4 + i) = 9 + i
      BY <1>12, <2>1
    <3>2. r[5 + (4 + i)] = m[4 + i] /\ m[4 + i] = fm[4 + i] /\ fm[4 + i] = b[i]
      BY <1>11, <1>17, <1>19, <3>1
    <3> QED
      BY <3>1, <3>2
  <2> QED
    BY <2>1
<1>23. Size(r) = (IF sh <= 4 + z THEN 9 + z - sh ELSE 5) /\ Size(r) \in Nat /\ Size(r) >= 5
  <2> DEFINE n == Size(r)
  <2>1. n = 5 + M
    BY <1>17
  <2> HIDE DEF n
  <2>2. CASE sh <= 4 + z
    <3>1. M = 4 + z - sh
      BY <1>12, <2>2
    <3>2. n = 9 + z - sh /\ n \in Nat /\ n >= 5
      BY <1>3, <1>12, <2>1, <3>1
    <3> QED
      BY <2>2, <3>2 DEF n
  <2>3. CASE ~(sh <= 4 + z)
    <3>1. M = 0
      BY <1>12, <2>3
    <3>2. n = 5
      BY <2>1, <3>1
    <3> QED
      BY <2>3, <3>2 DEF n
  <2> QED
    BY <2>2, <2>3
<1>24. (Size(r) >= 6 => M >= 1) /\ (Size(r) >= 9 => M >= 4)
  BY <1>12, <1>17
<1>25. IsRecord(r, h)
  BY <1>17, <1>18, <1>20, <1>21, <1>22, <1>23, <1>24
     DEF IsRecord, rt, ty, ml, sh, z, b
<1> QED
  BY <1>5, <1>25, Zenon

\* The sequence p is what of the record r arrives in the frame w: with nothing
\* missing, the record, and perhaps more; with nothing behind it, the record,
\* or a part of it.  Behind a short frame there is not much of anything.
Arrives(p, r, w, h) ==
  /\ p \in Seq(Nat) /\ Size(p) \in Nat
  /\ w.cut = 0 /\ h.fault # "cut" =>
       Size(p) >= Size(r) /\ \A i \in 1..Size(r) : p[i] = r[i]
  /\ h.trail = 0 /\ Size(Padding(w)) = 0 =>
       /\ Size(p) <= Size(r) /\ \A i \in 1..Size(p) : p[i] = r[i]
       /\ w.cut > 0 \/ h.fault = "cut" => Size(p) < Size(r)
  /\ Size(Padding(w)) # 0 /\ HasPorts(w) => Size(p) <= 18
  /\ p # <<>> => p[1] = r[1] \/ p[1] = 0

\* What is in a frame with a Client Hello is its record, as far as it arrives.
LEMMA HelloArrives ==
  ASSUME NEW w, IsFrame(w), w.body.kind = "hello", NEW h, h = w.body.hello
  PROVE  /\ IsHello(h) /\ IsRecord(Record(h), h)
         /\ Arrives(Content(w), Record(h), w, h)
<1> DEFINE r == Record(h)
           c == w.cut
           k == Fault(h, "cut")
           q == Without(r, k)
           z == Zeros(h.trail)
           e == q \o z
           g == Padding(w)
           d == e \o g
           p == Without(d, c)
<1>1. IsHello(h) /\ c \in Nat
  <2>1. c \in Nat
    BY FrameFields, Zenon
  <2> QED
    BY <2>1, Zenon DEF IsFrame
<1>2. IsRecord(r, h)
  BY <1>1, RecordIs, Zenon
<1>3. Content(w) = p
  <2>1. Body(w) = Encode(h)
    BY DEF Body
  <2>2. Encode(h) = e
    BY DEF Encode, Record, RecordStart, Message, MessageHeader, MessageLength
  <2> HIDE DEF e
  <2> QED
    BY <2>1, <2>2, Zenon DEF Content, Data
<1>4. k \in Nat /\ h.trail \in Nat /\ (h.fault = "cut" <=> k > 0)
  <2>1. k \in Nat /\ h.trail \in Nat /\ (h.fault # "cut" => k = 0) /\ (h.fault = "cut" => k > 0)
    <3>1. \A f : Fault(h, f) \in Nat
      BY <1>1, FaultsAre, Zenon
    <3>2. \A f : h.fault # f => Fault(h, f) = 0
      BY <1>1, FaultsAre, Zenon
    <3>3. \A f : h.fault = f /\ f # "none" => Fault(h, f) > 0
      BY <1>1, FaultsAre, Zenon
    <3>4. h.trail \in Nat
      BY <1>1, FaultsAre, Zenon
    <3>5. "cut" # "none"
      OBVIOUS
    <3> HIDE DEF k
    <3> QED
      BY <3>1, <3>2, <3>3, <3>4, <3>5, Zenon DEF k
  <2> HIDE DEF k
  <2> QED
    BY <2>1
<1>5. r \in Seq(Nat) /\ Size(r) \in Nat /\ Size(r) >= 5
  BY <1>2 DEF IsRecord
<1>6. PICK n \in Int : g = Zeros(n) /\ (Size(g) # 0 => HeaderSize(w) + Size(Body(w)) + Size(g) = 60)
  BY PaddingIs, Zenon
<1>7. g \in Seq(Nat) /\ Size(g) \in Nat /\ (g # <<>> => g[1] = 0)
  BY <1>6, FrameParts, ZerosBegin, Zenon
<1>8. z \in Seq(Nat) /\ Size(z) = h.trail /\ (z # <<>> => z[1] = 0)
  <2>1. h.trail \in Int /\ (IF h.trail > 0 THEN h.trail ELSE 0) = h.trail
    BY <1>4
  <2>2. z \in Seq(Nat) /\ Size(z) = IF h.trail > 0 THEN h.trail ELSE 0
    BY <2>1, ZerosAre, Zenon
  <2> QED
    BY <2>1, <2>2, ZerosBegin, Zenon
<1>9. Body(w) = e
  <2>1. Body(w) = Encode(h)
    BY DEF Body
  <2> QED
    BY <2>1 DEF Encode, Record, RecordStart, Message, MessageHeader, MessageLength
<1>10. HasPorts(w) => HeaderSize(w) >= 42 /\ HeaderSize(w) \in Nat
  <2>1. OptionSize(w.ihl) \in Nat /\ TransportSize(w) \in Nat
    BY FrameParts, Zenon
  <2>2. w.doff \in 0..15
    BY FrameFields, Zenon
  <2>3. OptionSize(w.doff) \in Nat
    BY <2>2 DEF OptionSize
  <2>4. HasPorts(w) => TransportSize(w) >= 8
    BY <2>3 DEF HasPorts, TransportSize
  <2> QED
    BY <2>1, <2>4 DEF HeaderSize
<1> HIDE DEF r, c, k, z, g
<1>11. /\ q \in Seq(Nat) /\ Size(q) = (IF k <= Size(r) THEN Size(r) - k ELSE 0)
       /\ \A i \in Nat : i < Size(q) => q[i + 1] = r[i + 1]
  BY <1>4, <1>5, WithoutIs, Zenon
<1>12. q # <<>> => q[1] = r[1]
  BY <1>4, <1>5, BeginningLeft, Zenon
<1> HIDE DEF q
<1> DEFINE a == Size(r)
           b == Size(q)
           t == h.trail
           y == Size(g)
           m == Size(p)
<1>13. Consists(e, q, b, z, t)
  <2>1. Consists(e, q, Size(q), z, Size(z))
    BY <1>8, <1>11, JoinedAt, Zenon
  <2> QED
    BY <1>8, <2>1, Zenon
<1>14. e # <<>> => e[1] = r[1] \/ e[1] = 0
  <2>1. /\ q # <<>> => e[1] = q[1]
        /\ q = <<>> => e = z
    BY <1>8, <1>11, Beginning, Zenon
  <2> QED
    BY <1>8, <1>12, <2>1, Zenon
<1> HIDE DEF e
<1>15. a \in Nat /\ a >= 5 /\ b = (IF k <= a THEN a - k ELSE 0) /\ t \in Nat /\ y \in Nat
  BY <1>4, <1>5, <1>7, <1>11
<1> HIDE DEF a, b, t, y
<1>16. b \in Nat /\ b <= a /\ (k = 0 => b = a) /\ (k > 0 => b < a)
  BY <1>4, <1>15
<1>17. e \in Seq(Nat) /\ Size(e) = b + t /\ \A i \in 1..b : e[i] = q[i]
  BY <1>13 DEF Consists
<1>18. \A i \in 1..b : e[i] = r[i]
  <2>1. ASSUME NEW i \in 1..b PROVE e[i] = r[i]
    <3>1. i - 1 \in Nat /\ i - 1 < b /\ (i - 1) + 1 = i
      BY <1>16
    <3>2. q[i] = r[i]
      BY <1>11, <3>1 DEF b
    <3> QED
      BY <1>17, <3>2
  <2> QED
    BY <2>1
<1>19. Consists(d, e, b + t, g, y)
  <2>1. Consists(d, e, Size(e), g, Size(g))
    BY <1>7, <1>17, JoinedAt, Zenon
  <2> QED
    BY <1>17, <2>1, Zenon DEF y
<1>20. d # <<>> => d[1] = r[1] \/ d[1] = 0
  <2>1. /\ e # <<>> => d[1] = e[1]
        /\ e = <<>> => d = g
    BY <1>7, <1>17, Beginning, Zenon
  <2> QED
    BY <1>7, <1>14, <2>1, Zenon
<1> HIDE DEF d
<1>21. d \in Seq(Nat) /\ Size(d) = (b + t) + y /\ \A i \in 1..(b + t) : d[i] = e[i]
  BY <1>19 DEF Consists
<1>22. /\ p \in Seq(Nat) /\ m = (IF c <= Size(d) THEN Size(d) - c ELSE 0)
       /\ \A i \in Nat : i < m => p[i + 1] = d[i + 1]
  BY <1>1, <1>21, WithoutIs, Zenon
<1>23. p # <<>> => p[1] = r[1] \/ p[1] = 0
  <2>1. p # <<>> => d # <<>> /\ p[1] = d[1]
    BY <1>1, <1>21, BeginningLeft, Zenon
  <2> QED
    BY <1>20, <2>1, Zenon
<1> HIDE DEF p
<1>24. \A i \in 1..b : i <= m => p[i] = r[i]
  <2>1. ASSUME NEW i \in 1..b, i <= m PROVE p[i] = r[i]
    <3>1. /\ i - 1 \in Nat /\ i - 1 < m /\ (i - 1) + 1 = i /\ i \in 1..(b + t)
      <4>1. i \in Nat /\ i >= 1 /\ i <= b
        BY <1>16
      <4> HIDE DEF m
      <4>2. m \in Nat
        BY <1>1, <1>15, <1>16, <1>21, <1>22, SMTT(30)
      <4> QED
        BY <1>15, <1>16, <2>1, <4>1, <4>2
    <3> QED
      BY <1>18, <1>21, <1>22, <3>1
  <2> QED
    BY <2>1
<1> HIDE DEF m
<1>25. /\ m \in Nat /\ m <= b + t + y /\ (c = 0 => m = b + t + y)
       /\ (c > 0 /\ b + t + y > 0 => m < b + t + y)
  <2> DEFINE v == Size(d)
  <2>1. c \in Nat /\ b \in Nat /\ t \in Nat /\ y \in Nat /\ v = (b + t) + y
    BY <1>1, <1>15, <1>16, <1>21
  <2>2. m = (IF c <= v THEN v - c ELSE 0)
    BY <1>22
  <2> HIDE DEF v
  <2>3. CASE c <= v
    <3>1. m = v - c
      BY <2>2, <2>3
    <3> QED
      BY <2>1, <2>3, <3>1
  <2>4. CASE ~(c <= v)
    <3>1. m = 0
      BY <2>2, <2>4
    <3> QED
      BY <2>1, <2>4, <3>1
  <2> QED
    BY <2>3, <2>4
<1>26. c = 0 /\ h.fault # "cut" => m >= a /\ \A i \in 1..a : p[i] = r[i]
  <2>1. ASSUME c = 0, k = 0 PROVE m >= a /\ \A i \in 1..a : p[i] = r[i]
    <3>1. b = a /\ m >= a
      BY <1>15, <1>16, <1>25, <2>1
    <3>2. \A i \in 1..a : i <= m
      BY <1>15, <1>25, <3>1
    <3> QED
      BY <1>24, <3>1, <3>2
  <2> QED
    BY <1>4, <2>1
<1>27. ASSUME t = 0, y = 0
       PROVE  /\ m <= a /\ \A i \in 1..m : p[i] = r[i]
              /\ c > 0 \/ h.fault = "cut" => m < a
  <2>1. m <= b /\ m <= a
    BY <1>15, <1>16, <1>25, <1>27
  <2>2. \A i \in 1..m : i \in 1..b /\ i <= m
    BY <1>16, <1>25, <2>1
  <2>3. k > 0 => m < a
    BY <1>15, <1>16, <1>25, <2>1
  <2>4. c > 0 => m < a
    BY <1>1, <1>15, <1>16, <1>25, <1>27, <2>1
  <2> QED
    BY <1>4, <1>24, <2>1, <2>2, <2>3, <2>4
<1>28. y # 0 /\ HasPorts(w) => m <= 18
  <2>1. ASSUME y # 0, HasPorts(w) PROVE m <= 18
    <3> DEFINE f == HeaderSize(w)
    <3>1. f + (b + t) + y = 60
      BY <1>6, <1>9, <1>17, <2>1 DEF y, e
    <3>2. f >= 42 /\ f \in Nat
      BY <1>10, <2>1
    <3> HIDE DEF f
    <3> QED
      BY <1>15, <1>16, <1>25, <3>1, <3>2
  <2> QED
    BY <2>1
<1>29. Arrives(p, r, w, h)
  BY <1>22, <1>23, <1>25, <1>26, <1>27, <1>28 DEF Arrives, a, c, m, t, y, g
<1> QED
  BY <1>1, <1>2, <1>3, <1>29, Zenon DEF r, p, c, d, e, g, q, z, k

\* What the extractors are given begins with the word of a method if it is a
\* request, and else with a byte; with a zero if no message is in the frame.
LEMMA ContentBegins ==
  ASSUME NEW w, IsFrame(w), Content(w) # <<>>
  PROVE  /\ w.body.kind = "request" => Content(w)[1] = METHOD
         /\ w.body.kind = "hello" => Content(w)[1] \in U8Values
         /\ w.body.kind = "raw" => Content(w)[1] = 0
<1> DEFINE p == Content(w)
<1>1. CASE w.body.kind = "request"
  <2> DEFINE r == w.body.request
             o == Opening(r)
             s == r.host \o r.rest
             q == o \o s
  <2>1. IsRequest(r) /\ w.cut \in Nat /\ p = Without(EncodeRequest(r), w.cut)
    BY <1>1, RequestContent, Zenon
  <2>2. Opens(r, o)
    BY <2>1, OpeningIs, Zenon
  <2>3. r.host \in Seq(Nat) /\ r.rest \in Seq(Nat) /\ r.decoy \in BOOLEAN /\ r.spaced \in BOOLEAN
    <3> DEFINE V == U8Values \ (White \cup {COLON})
    <3>1. r.host \in Seq(V) /\ r.rest \in Seq(U8Values)
          /\ r.decoy \in BOOLEAN /\ r.spaced \in BOOLEAN
      BY <2>1, Zenon DEF IsRequest
    <3>2. V \subseteq U8Values
      OBVIOUS
    <3> HIDE DEF V
    <3>3. r.host \in Seq(U8Values)
      BY <3>1, <3>2
    <3> QED
      BY <3>1, <3>3, ValuesAreNumbers, Zenon
  <2>4. o \in Seq(Nat)
    BY <2>2, Zenon DEF Opens
  <2>5. EncodeRequest(r) = q
    <3> DEFINE g == r.host
               t == r.rest
    <3>1. EncodeRequest(r) = (o \o g) \o t
      BY Zenon DEF EncodeRequest, Opening
    <3> HIDE DEF o
    <3>g. g \in Seq(Nat) /\ t \in Seq(Nat)
      BY <2>3
    <3> HIDE DEF g, t
    <3>2. (o \o g) \o t = o \o (g \o t)
      BY <2>4, <3>g
    <3> QED
      BY <3>1, <3>2 DEF g, t
  <2>6. s \in Seq(Nat)
    BY <2>3
  <2> HIDE DEF s
  <2>8. q[1] = o[1]
    <3>1. o # <<>>
      BY <2>2, <2>3 DEF Opens, OpensWithDecoy, OpensSpaced, OpensBare, Size
    <3> HIDE DEF o
    <3> QED
      BY <2>4, <2>6, <3>1, Beginning, Zenon
  <2>9. q \in Seq(Nat)
    <3> HIDE DEF o
    <3> QED
      BY <2>4, <2>6
  <2> HIDE DEF q
  <2>10. p[1] = q[1]
    BY <2>1, <2>5, <2>9, BeginningLeft, Zenon
  <2>11. o[1] = METHOD
    <3> HIDE DEF o
    <3> QED
      BY <2>2, <2>3 DEF Opens, OpensWithDecoy, OpensSpaced, OpensBare
  <2> QED
    BY <1>1, <2>8, <2>10, <2>11
<1>2. CASE w.body.kind = "hello"
  <2> DEFINE h == w.body.hello
             r == Record(h)
  <2>1. /\ IsHello(h) /\ IsRecord(r, h) /\ Arrives(p, r, w, h)
    BY <1>2, HelloArrives, Zenon
  <2>2. p[1] = r[1] \/ p[1] = 0
    BY <2>1, Zenon DEF Arrives
  <2>3. r[1] \in U8Values
    BY <2>1, Zenon DEF IsRecord, IsHello
  <2>4. 0 \in U8Values
    BY DEF U8Values
  <2> QED
    BY <1>2, <2>2, <2>3, <2>4
<1>3. CASE w.body.kind = "raw"
  <2> DEFINE z == Zeros(w.body.size)
             g == Padding(w)
             d == z \o g
  <2>1. w.body.size \in Nat /\ w.cut \in Nat /\ Body(w) = z
    <3>1. w.body.size \in Nat
      BY <1>3, Zenon DEF IsFrame
    <3>2. w.cut \in Nat
      BY FrameFields, Zenon
    <3>3. Body(w) = z
      BY <1>3 DEF Body
    <3> QED
      BY <3>1, <3>2, <3>3
  <2>2. p = Without(d, w.cut)
    BY <2>1, Zenon DEF Content, Data
  <2>3. PICK n \in Int : g = Zeros(n) \/ g = <<>>
    BY PaddingIs, Zenon
  <2>4. z \in Seq(Nat) /\ g \in Seq(Nat)
    <3>1. \A i \in Int : Zeros(i) \in Seq(Nat)
      BY ZerosAre, Zenon
    <3>2. w.body.size \in Int
      BY <2>1
    <3>3. <<>> \in Seq(Nat)
      OBVIOUS
    <3> QED
      BY <2>3, <3>1, <3>2, <3>3, Zenon
  <2>5. z # <<>> => z[1] = 0
    <3>1. w.body.size \in Int
      BY <2>1
    <3> QED
      BY <3>1, ZerosBegin, Zenon
  <2>6. g # <<>> => g[1] = 0
    BY <2>3, ZerosBegin, Zenon
  <2> HIDE DEF z, g
  <2>7. d \in Seq(Nat)
    BY <2>4
  <2>8. d # <<>> => d[1] = 0
    <3>1. /\ z # <<>> => d[1] = z[1]
          /\ z = <<>> => d = g
      BY <2>4, Beginning, Zenon
    <3> QED
      BY <2>5, <2>6, <3>1
  <2> HIDE DEF d
  <2>9. d # <<>> /\ p[1] = d[1]
    <3>1. Without(d, w.cut) # <<>>
      BY <2>2
    <3>2. d # <<>> /\ Without(d, w.cut)[1] = d[1]
      BY <2>1, <2>7, <3>1, BeginningLeft, Zenon
    <3> QED
      BY <2>2, <3>2
  <2> QED
    BY <1>3, <2>8, <2>9
<1>4. w.body.kind \in {"hello", "request", "raw"}
  BY Zenon DEF IsFrame
<1> QED
  BY <1>1, <1>2, <1>3, <1>4

\* In what is not a Client Hello no walk gets far.
LEMMA OthersAreBarren ==
  ASSUME IsFrame(wire), payload = Content(wire), wire.body.kind # "hello"
  PROVE  Barren
<1>1. payload \in Seq(Nat)
  BY ContentIsBytes, Zenon
<1>2. CASE payload = <<>>
  BY <1>2 DEF Barren
<1>3. CASE payload # <<>>
  <2>1. payload[1] = METHOD \/ payload[1] = 0
    <3>1. wire.body.kind \in {"hello", "request", "raw"}
      BY Zenon DEF IsFrame
    <3> QED
      BY <1>3, <3>1, ContentBegins, Zenon
  <2>2. Byte(0) = payload[1]
    BY <1>1, <1>3 DEF Byte
  <2> QED
    BY <2>1, <2>2 DEF Barren, METHOD, TLS_CONTENT_TYPE_HANDSHAKE
<1> QED
  BY <1>2, <1>3

\* Nor in a record of which the end is missing.
LEMMA CutIsBarren ==
  ASSUME IsFrame(wire), payload = Content(wire), SeeksTls(wire),
         Carries("hello"), Hello.trail = 0, Hello.fault = "cut" \/ wire.cut > 0
  PROVE  Barren
<1> DEFINE r == Record(Hello)
<1>1. IsRecord(r, Hello) /\ Arrives(payload, r, wire, Hello)
  BY HelloArrives, Zenon DEF Carries, Hello
<1> HIDE DEF r
<1>2. /\ HasPorts(wire) /\ Len(payload) >= 6 /\ Len(payload) = Size(payload)
      /\ payload \in Seq(Nat) /\ Len(payload) \in Nat
  BY <1>1 DEF SeeksTls, Size, Arrives
<1>3. CASE Size(Padding(wire)) # 0
  <2>1. Size(payload) <= 18
    BY <1>1, <1>2, <1>3, Zenon DEF Arrives
  <2> QED
    BY <1>2, <2>1 DEF Barren
<1>4. CASE Size(Padding(wire)) = 0
  <2>1. /\ Size(payload) <= Size(r) /\ \A i \in 1..Size(payload) : payload[i] = r[i]
        /\ Size(payload) < Size(r)
    BY <1>1, <1>4, Zenon DEF Arrives
  <2>2. 256 * r[4] + r[5] = Size(r) - 5 /\ Size(r) \in Nat
    BY <1>1, Zenon DEF IsRecord
  <2>3. payload[4] = r[4] /\ payload[5] = r[5]
    BY <1>2, <2>1
  <2>4. Byte(3) = payload[4] /\ Byte(3 + 1) = payload[5]
    BY <1>2 DEF Byte
  <2>5. U16At(3) = Size(r) - 5
    <3>1. U16At(3) = 256 * Byte(3) + Byte(3 + 1)
      BY Zenon DEF U16At
    <3>2. Byte(3) = r[4] /\ Byte(3 + 1) = r[5]
      BY <2>3, <2>4, Zenon
    <3>3. U16At(3) = 256 * r[4] + r[5]
      BY <3>1, <3>2, Zenon
    <3> QED
      BY <2>2, <3>3, Zenon
  <2>6. Len(payload) < 5 + U16At(3)
    BY <1>2, <2>1, <2>2, <2>5
  <2> QED
    BY <2>6 DEF Barren
<1> QED
  BY <1>3, <1>4

\* What holds on the way to the name that is shown.
NamesInv == VerdictInv /\ ExtractorCalled /\ StaysOut

\* At first no extractor has been called.
LEMMA NamesInit == DissectionInit => NamesInv
<1> SUFFICES ASSUME DissectionInit PROVE NamesInv
  OBVIOUS
<1>1. VerdictInv
  BY VerdictInit
<1>2. StaysOut
  BY DEF DissectionInit, Start, StaysOut
<1> QED
  BY <1>1, <1>2, CalledInit DEF NamesInv

\* Every step of the engine keeps that.
LEMMA NamesStep ==
  ASSUME NamesInv, [DissectionNext]_dissectionVars
  PROVE  NamesInv'
<1>0. VerdictInv /\ KnowsHeaders /\ OnItsWay /\ ExtractorCalled /\ StaysOut
  BY DEF NamesInv, VerdictInv
<1>1. VerdictInv'
  BY <1>0, KnowsStep, RulesStep, VerdictStep DEF VerdictInv
<1>2. ExtractorCalled'
  BY <1>0, CalledStep
<1>n. None' = None
  BY DEF None
<1>3. StaysOut'
  <2>1. CASE UNCHANGED vars
    <3>1. UNCHANGED <<payload, pc, offset, name>>
      BY <2>1 DEF vars
    <3> QED
      BY <1>0, <1>n, <3>1 DEF StaysOut, Barren, Byte, U16At
  <2>2. CASE TryTls
    <3>1. pc = "record" /\ offset = 0 /\ name = None
      BY <1>0, <2>2 DEF TryTls, HasPort, ExtractorCalled
    <3>2. pc' = pc /\ offset' = offset /\ name' = name
      BY <2>2 DEF TryTls
    <3> QED
      BY <1>n, <3>1, <3>2 DEF StaysOut
  <2>3. CASE Extract
    <3>1. Next /\ payload = Content(wire) /\ IsFrame(wire)
      BY <1>0, <2>3 DEF Extract, ExtractorCalled, KnowsHeaders
    <3>2. payload \in Seq(Nat)
      BY <3>1, ContentIsBytes, Zenon
    <3> QED
      BY <1>0, <3>1, <3>2, StaysOutStep
  <2>4. UNCHANGED vars \/ TryTls \/ Extract
    BY DEF DissectionNext, DissectionStep, Dissected, dissectionVars, Configure, ParseFrame,
           NotParsed, NoPorts, Pass, TryHttp, TryNothing, Extracted, Judge
  <2> QED
    BY <2>1, <2>2, <2>3, <2>4
<1> QED
  BY <1>1, <1>2, <1>3 DEF NamesInv

\* Where the extractor does not get far, no name is shown.
LEMMA BarrenShowsNothing ==
  ASSUME NamesInv, Judged, SeeksTls(wire), payload = Content(wire) => Barren
  PROVE  shown = NoName
<1>1. payload = Content(wire) /\ shown = IF name = None THEN NoName ELSE Decode(name)
  BY DEF NamesInv, ExtractorCalled, NameShown
<1>2. name = None
  BY <1>1 DEF NamesInv, StaysOut
<1> QED
  BY <1>1, <1>2

\* The record of which the end is missing shows no name.
LEMMA CutShowsNothing == NamesInv => CutHelloShowsNothing
<1> SUFFICES ASSUME NamesInv, Judged, Carries("hello"), Hello.trail = 0,
                    Hello.fault = "cut" \/ wire.cut > 0
             PROVE  shown = NoName
  BY DEF CutHelloShowsNothing
<1>1. IsFrame(wire) /\ NameShown
  BY DEF NamesInv, VerdictInv, KnowsHeaders, ExtractorCalled
<1>2. CASE SeeksTls(wire)
  BY <1>1, <1>2, CutIsBarren, BarrenShowsNothing
<1>3. CASE SeeksHttp(wire)
  <2> DEFINE p == Content(wire)
  <2>1. p \in Seq(Nat) /\ shown = HttpHost(p)
    BY <1>1, <1>3, ContentIsBytes, Zenon DEF NameShown
  <2>2. p # <<>> => p[1] # METHOD
    <3>1. p # <<>> => p[1] \in U8Values
      BY <1>1, ContentBegins, Zenon DEF Carries
    <3>2. \A x \in U8Values : x # METHOD
      BY DEF U8Values, METHOD
    <3> QED
      BY <3>1, <3>2, Zenon
  <2> HIDE DEF p
  <2>3. HttpHost(p) = NoHost
    BY <2>1, <2>2, NoHostFound, Zenon
  <2> QED
    BY <2>1, <2>3 DEF NoHost, NoName
<1>4. CASE ~SeeksTls(wire) /\ ~SeeksHttp(wire)
  BY <1>1, <1>4 DEF NameShown
<1> QED
  BY <1>2, <1>3, <1>4

\* A plain request shows as much of its host as is there.
LEMMA RequestShowsName ==
  ASSUME NamesInv, Judged, Carries("request"), Plain(Request)
  PROVE  shown = Decode(HostArrived) /\ (wire.cut = 0 => shown = Decode(NameIn(wire)))
<1> DEFINE p == Content(wire)
           r == wire.body.request
           g == r.host
           x == MissingOfHost(r, wire.cut)
<1>1. IsFrame(wire) /\ NameShown /\ wire.body.kind = "request"
  BY DEF NamesInv, VerdictInv, KnowsHeaders, ExtractorCalled, Carries
<1>2. IsRequest(r) /\ wire.cut \in Nat /\ p = Without(EncodeRequest(r), wire.cut)
  BY <1>1, RequestContent, Zenon
<1>h. HostArrived = Without(NameIn(wire), x)
  BY DEF HostArrived, Request, MissingOfHost
<1>n. wire.cut = 0 => x = 0
  <2>1. Len(r.rest) \in Nat
    BY <1>2 DEF IsRequest
  <2> QED
    BY <2>1 DEF MissingOfHost
<1>e. g \in Seq(Nat) /\ <<>> \in Seq(Nat)
  <2>1. g \in Seq(U8Values)
    <3>1. \A s : s \in Seq(U8Values \ (White \cup {COLON})) => s \in Seq(U8Values)
      OBVIOUS
    <3> QED
      BY <1>2, <3>1 DEF IsRequest
  <2> QED
    BY <2>1, ValuesAreNumbers
<1>w. \A s \in Seq(Nat) : Without(s, 0) = s
  BY DEF Without
<1>3. p \in Seq(Nat)
  BY <1>1, ContentIsBytes, Zenon
<1>4. CASE HasPorts(wire) /\ wire.ports[2] = 80
  <2>1. NameIn(wire) = g
    BY <1>1, <1>4 DEF NameIn
  <2>2. shown = HttpHost(p)
    <3>1. CASE Len(p) >= 1
      BY <1>1, <1>4, <3>1 DEF NameShown, SeeksHttp
    <3>2. CASE ~(Len(p) >= 1)
      <4>1. p = <<>>
        <5> HIDE DEF p
        <5> QED
          BY <1>3, <3>2
      <4>2. HttpHost(p) = NoHost
        <5> HIDE DEF p
        <5> QED
          BY <1>3, <4>1, NoHostFound, Zenon
      <4>3. ~SeeksTls(wire) /\ ~SeeksHttp(wire)
        BY <1>4, <3>2 DEF SeeksTls, SeeksHttp
      <4> QED
        BY <1>1, <4>2, <4>3 DEF NameShown, NoHost, NoName
    <3> QED
      BY <3>1, <3>2
  <2> DEFINE q == Without(EncodeRequest(r), wire.cut)
  <2>3. HttpHost(q) = Decode(Without(g, x))
    BY <1>2, RequestShows DEF Request
  <2> HIDE DEF p, g, q, x
  <2>4. shown = Decode(Without(g, x))
    BY <1>2, <2>2, <2>3, Zenon DEF q
  <2> QED
    BY <1>h, <1>n, <1>e, <1>w, <2>1, <2>4, Zenon
<1>5. CASE ~(HasPorts(wire) /\ wire.ports[2] = 80)
  <2>1. NameIn(wire) = <<>>
    BY <1>1, <1>5 DEF NameIn
  <2>2. shown = NoName
    <3>1. CASE SeeksTls(wire)
      <4>1. payload = Content(wire) => Barren
        BY <1>1, OthersAreBarren
      <4> QED
        BY <3>1, <4>1, BarrenShowsNothing
    <3>2. CASE ~SeeksTls(wire)
      BY <1>1, <1>5, <3>2 DEF NameShown, SeeksHttp
    <3> QED
      BY <3>1, <3>2
  <2>3. Without(<<>>, x) = <<>>
    <3>1. x \in Nat
      BY <1>2 DEF MissingOfHost, IsRequest
    <3> HIDE DEF x
    <3>2. x = 0 \/ x > Len(<<>>)
      BY <3>1
    <3> QED
      BY <1>e, <1>w, <3>1, <3>2, WithoutAll
  <2>4. Decode(<<>>) = NoName
    BY DEF Decode, NoName
  <2> QED
    BY <1>h, <2>1, <2>2, <2>3, <2>4, Zenon
<1> QED
  BY <1>4, <1>5

\* A record of which the end is missing shows no name, even if the name is there.
THEOREM EveryCutHelloShowsNothing == DissectionSpec => []CutHelloShowsNothing
<1>1. DissectionInit => NamesInv
  BY NamesInit
<1>2. NamesInv /\ [DissectionNext]_dissectionVars => NamesInv'
  BY NamesStep
<1>3. NamesInv => CutHelloShowsNothing
  BY CutShowsNothing
<1> QED
  BY <1>1, <1>2, <1>3, PTL DEF DissectionSpec

\* Of a plain request that is cut off (HTTPHostExtractor.extract) as much of the
\* host is shown as has arrived, no more and no less.
THEOREM EveryCutRequestShowsPart == DissectionSpec => []CutRequestShowsPart
<1>1. DissectionInit => NamesInv
  BY NamesInit
<1>2. NamesInv /\ [DissectionNext]_dissectionVars => NamesInv'
  BY NamesStep
<1>3. NamesInv => CutRequestShowsPart
  BY RequestShowsName DEF CutRequestShowsPart
<1> QED
  BY <1>1, <1>2, <1>3, PTL DEF DissectionSpec

-----------------------------------------------------------------------------
(* Where the parts of a Client Hello are *)

\* In x the n sequences of e stand one behind the other, e[k] behind the first
\* a[k] numbers.
Reaches(x, a, e, k) ==
  a[k + 1] <= Size(x) /\ \A i \in 1..Size(e[k]) : x[a[k] + i] = e[k][i]

Rows(a, n, e, x) ==
  /\ x \in Seq(Nat) /\ Size(x) \in Nat
  /\ a \in [1..(n + 1) -> Nat] /\ a[1] = 0 /\ a[n + 1] = Size(x)
  /\ \A k \in 1..n : /\ a[k + 1] = a[k] + Size(e[k]) /\ Size(e[k]) \in Nat
                     /\ Reaches(x, a, e, k)

\* That is how sequences stand that were put behind one another.
LEMMA FlatIsRow ==
  ASSUME NEW n \in Nat, NEW e \in [1..n -> Seq(Nat)]
  PROVE  \E a : Rows(a, n, e, FlattenSeq(e))
<1>1. PICK f : Flattens(f, n, e, Nat)
  BY FlatSteps
<1>2. /\ f \in [0..n -> Seq(Nat)] /\ f[0] = <<>> /\ f[n] = FlattenSeq(e)
      /\ \A k \in 1..n : f[k] = f[k-1] \o e[k]
  BY <1>1 DEF Flattens
<1>3. \A k \in 0..n : f[k] \in Seq(Nat) /\ Size(f[k]) \in Nat
  BY <1>2 DEF Size
<1>4. \A k \in 1..n : e[k] \in Seq(Nat) /\ Size(e[k]) \in Nat
  BY DEF Size
<1> DEFINE a == [k \in 1..(n + 1) |-> Size(f[k - 1])]
<1>5. \A k \in 1..(n + 1) : k - 1 \in 0..n /\ a[k] = Size(f[k - 1])
  OBVIOUS
<1>6. a \in [1..(n + 1) -> Nat]
  BY <1>3, <1>5
<1> HIDE DEF a
<1>7. ASSUME NEW k \in 1..n
      PROVE  /\ k \in 1..(n + 1) /\ k + 1 \in 1..(n + 1) /\ k - 1 \in 0..n /\ k \in 0..n
             /\ a[k] = Size(f[k-1]) /\ a[k + 1] = Size(f[k])
  <2>1. k \in 1..(n + 1) /\ k + 1 \in 1..(n + 1) /\ k - 1 \in 0..n /\ k \in 0..n
        /\ (k + 1) - 1 = k
    OBVIOUS
  <2> QED
    BY <1>5, <2>1
<1>8. \A k \in 1..n : Consists(f[k], f[k-1], Size(f[k-1]), e[k], Size(e[k]))
  <2>1. ASSUME NEW k \in 1..n
        PROVE  Consists(f[k], f[k-1], Size(f[k-1]), e[k], Size(e[k]))
    <3>1. f[k-1] \in Seq(Nat) /\ e[k] \in Seq(Nat) /\ f[k] = f[k-1] \o e[k]
      BY <1>2, <1>3, <1>4, <1>7
    <3> QED
      BY <3>1, JoinedAt
  <2> QED
    BY <2>1
<1>9. \A k \in 1..n : a[k + 1] = a[k] + Size(e[k])
  BY <1>7, <1>8 DEF Consists
<1> DEFINE Good(j) == \A k \in 1..n : k <= j => Reaches(f[j], a, e, k)
           T == {j \in 0..n : Good(j)}
<1>10. 0 \in T
  OBVIOUS
<1>11. ASSUME NEW j \in 1..n, j - 1 \in T PROVE j \in T
  <2> DEFINE p == f[j - 1]
             s == f[j]
             z == Size(p)
             y == Size(e[j])
  <2>1. Good(j - 1)
    BY <1>11
  <2>2. Consists(s, p, z, e[j], y) /\ z \in Nat /\ y \in Nat
    BY <1>3, <1>4, <1>7, <1>8
  <2>3. a[j] = z /\ a[j + 1] = z + y
    BY <1>7, <1>9
  <2>4. Size(s) = z + y /\ (\A i \in 1..z : s[i] = p[i]) /\ (\A i \in 1..y : s[z + i] = e[j][i])
    BY <2>2 DEF Consists
  <2>5. ASSUME NEW k \in 1..n, k <= j PROVE Reaches(s, a, e, k)
    <3>1. CASE k = j
      BY <2>2, <2>3, <2>4, <3>1 DEF Reaches
    <3>2. CASE k # j
      <4>1. k <= j - 1
        BY <2>5, <3>2
      <4>2. a[k + 1] <= z /\ \A i \in 1..Size(e[k]) : p[a[k] + i] = e[k][i]
        BY <2>1, <4>1 DEF Reaches
      <4>3. a[k] \in Nat /\ Size(e[k]) \in Nat /\ a[k + 1] = a[k] + Size(e[k])
        BY <1>4, <1>6, <1>7, <1>9
      <4> HIDE DEF s, p, z, y
      <4>4. \A i \in 1..Size(e[k]) : a[k] + i \in 1..z
        BY <2>2, <4>2, <4>3, SMTT(30)
      <4>5. \A i \in 1..Size(e[k]) : s[a[k] + i] = e[k][i]
        BY <2>4, <4>2, <4>4
      <4>6. a[k + 1] <= Size(s)
        BY <2>2, <2>4, <4>2, <4>3, SMTT(30)
      <4> QED
        BY <4>5, <4>6 DEF Reaches
    <3> QED
      BY <3>1, <3>2
  <2>6. Good(j)
    BY <2>5
  <2> HIDE DEF Good
  <2> QED
    BY <1>7, <2>6
<1>12. 0..n \subseteq T
  <2> HIDE DEF T
  <2> QED
    BY <1>10, <1>11, UpTo
<1>13. Good(n)
  <2>1. n \in 0..n
    OBVIOUS
  <2> HIDE DEF Good
  <2> QED
    BY <1>12, <2>1
<1>14. a[1] = 0
  <2>1. 1 \in 1..(n + 1) /\ 1 - 1 = 0
    OBVIOUS
  <2> QED
    BY <1>2, <1>5, <2>1 DEF Size
<1>15. a[n + 1] = Size(f[n])
  <2>1. n + 1 \in 1..(n + 1) /\ (n + 1) - 1 = n
    OBVIOUS
  <2> QED
    BY <1>5, <2>1
<1>16. n \in 0..n /\ \A k \in 1..n : k <= n
  OBVIOUS
<1>17. Rows(a, n, e, f[n])
  BY <1>3, <1>4, <1>6, <1>9, <1>13, <1>14, <1>15, <1>16 DEF Rows
<1> QED
  BY <1>2, <1>17

\* In s the numbers of x stand behind the first o numbers.
In(s, o, x) == \A i \in 1..Size(x) : s[o + i] = x[i]

\* A number of two bytes behind the first q numbers.
TwoAt(s, q) == 256 * s[q + 1] + s[q + 2]

\* Where two sequences in a row stand, each of them stands.
Splits(s, o, x, y) ==
  /\ x \o y \in Seq(Nat) /\ Size(x) \in Nat /\ Size(y) \in Nat
  /\ Size(x \o y) = Size(x) + Size(y)
  /\ In(s, o, x \o y) => In(s, o, x) /\ In(s, o + Size(x), y)

\* They always do.
LEMMA InSplits ==
  ASSUME NEW s, NEW o \in Nat, NEW x \in Seq(Nat), NEW y \in Seq(Nat)
  PROVE  Splits(s, o, x, y)
<1> DEFINE u == x \o y
           m == Size(x)
           n == Size(y)
<1>1. Consists(u, x, m, y, n)
  BY JoinedAt
<1>2. m \in Nat /\ n \in Nat
  BY DEF Size
<1> HIDE DEF u, m, n
<1>3. /\ u \in Seq(Nat) /\ Size(u) = m + n
      /\ (\A i \in 1..m : u[i] = x[i]) /\ (\A i \in 1..n : u[m + i] = y[i])
  BY <1>1 DEF Consists
<1>4. ASSUME In(s, o, u) PROVE In(s, o, x) /\ In(s, o + m, y)
  <2>1. \A i \in 1..(m + n) : s[o + i] = u[i]
    BY <1>3, <1>4 DEF In
  <2>2. \A i \in 1..m : i \in 1..(m + n)
    BY <1>2
  <2>3. \A i \in 1..n : m + i \in 1..(m + n) /\ o + (m + i) = (o + m) + i
    BY <1>2
  <2>4. \A i \in 1..m : s[o + i] = x[i]
    BY <1>3, <2>1, <2>2
  <2>5. \A i \in 1..n : s[(o + m) + i] = y[i]
    <3>1. ASSUME NEW i \in 1..n PROVE s[(o + m) + i] = y[i]
      <4>1. s[o + (m + i)] = u[m + i] /\ u[m + i] = y[i]
        BY <1>3, <2>1, <2>3
      <4> QED
        BY <2>3, <4>1
    <3> QED
      BY <3>1
  <2> QED
    BY <2>4, <2>5 DEF In, m, n
<1> QED
  BY <1>2, <1>3, <1>4 DEF Splits, u, m, n

\* Fields of one and two bytes, where they stand.
FieldsIn(s, o, n) ==
  /\ U8(n) \in Seq(Nat) /\ Size(U8(n)) = 1 /\ (In(s, o, U8(n)) => s[o + 1] = n)
  /\ U16(n) \in Seq(Nat) /\ Size(U16(n)) = 2 /\ (In(s, o, U16(n)) => TwoAt(s, o) = n)

\* They have the value that they were made of.
LEMMA FieldsStand ==
  ASSUME NEW s, NEW o \in Nat, NEW n \in Nat
  PROVE  FieldsIn(s, o, n)
<1>1. U8(n) \in Seq(Nat) /\ Size(U8(n)) = 1 /\ U8(n)[1] = n
  BY DEF U8, Size
<1>2. In(s, o, U8(n)) => s[o + 1] = n
  <2> DEFINE u == U8(n)
  <2> HIDE DEF u
  <2>1. In(s, o, u) => s[o + 1] = u[1]
    BY <1>1 DEF In, u
  <2> QED
    BY <1>1, <2>1 DEF u
<1> DEFINE v == U16(n)
<1>3. v \in Seq(Nat) /\ Size(v) = 2 /\ 256 * v[1] + v[2] = n
  BY ValueOfFields
<1> HIDE DEF v
<1>4. In(s, o, v) => TwoAt(s, o) = n
  <2>1. In(s, o, v) => s[o + 1] = v[1] /\ s[o + 2] = v[2]
    BY <1>3 DEF In
  <2> QED
    BY <1>3, <2>1 DEF TwoAt
<1> QED
  BY <1>1, <1>2, <1>3, <1>4 DEF FieldsIn, v

\* In s the entry e of a server name list stands behind the first q numbers.
EntryAt(s, q, e) ==
  /\ s[q + 1] = e.type
  /\ TwoAt(s, q + 1) = Size(e.name)
  /\ \A i \in 1..Size(e.name) : s[(q + 3) + i] = e.name[i]

EntryStands(h, d, k, s, q) ==
  /\ EncodeEntry(h, d, k) \in Seq(Nat)
  /\ Size(EncodeEntry(h, d, k)) = 3 + Size(d[k].name) /\ Size(d[k].name) \in Nat
  /\ In(s, q, EncodeEntry(h, d, k)) => EntryAt(s, q, d[k])

\* That is what the code makes of an entry with the right length.
LEMMA EntryIs ==
  ASSUME NEW h, Fault(h, "name") = 0, NEW d, NEW k, IsEntry(d[k]), NEW s, NEW q \in Nat
  PROVE  EntryStands(h, d, k, s, q)
<1> DEFINE e == d[k]
           g == e.name
           n == Size(g)
           t == e.type
           u == U8(t)
           v == U16(n)
           c == u \o v
<1>1. t \in Nat /\ g \in Seq(Nat) /\ n \in Nat
  <2>1. t \in U8Values /\ g \in Seq(U8Values)
    BY Zenon DEF IsEntry
  <2>2. t \in Nat /\ g \in Seq(Nat)
    BY <2>1, ValuesAreNumbers, Zenon
  <2> QED
    BY <2>2 DEF Size
<1>2. EncodeEntry(h, d, k) = c \o g
  <2> DEFINE z == Len(g) + (IF k = Len(d) THEN Fault(h, "name") ELSE 0)
  <2>1. z = n
    BY <1>1 DEF Size
  <2>2. EncodeEntry(h, d, k) = (u \o U16(z)) \o g
    BY Zenon DEF EncodeEntry
  <2> HIDE DEF z
  <2> QED
    BY <2>1, <2>2
<1> HIDE DEF e, g, n, t
<1>3. FieldsIn(s, q, t) /\ FieldsIn(s, q + 1, n) /\ q + 1 \in Nat /\ q + 3 \in Nat
  BY <1>1, FieldsStand
<1>4. /\ u \in Seq(Nat) /\ Size(u) = 1 /\ (In(s, q, u) => s[q + 1] = t)
      /\ v \in Seq(Nat) /\ Size(v) = 2 /\ (In(s, q + 1, v) => TwoAt(s, q + 1) = n)
  BY <1>3, Zenon DEF FieldsIn
<1> HIDE DEF u, v
<1>5. Splits(s, q, u, v)
  BY <1>4, InSplits
<1>6. /\ c \in Seq(Nat) /\ Size(c) = 3
      /\ In(s, q, c) => In(s, q, u) /\ In(s, q + 1, v)
  BY <1>4, <1>5 DEF Splits
<1> HIDE DEF c
<1>7. Splits(s, q, c, g)
  BY <1>1, <1>6, InSplits
<1>8. /\ c \o g \in Seq(Nat) /\ Size(c \o g) = 3 + n
      /\ In(s, q, c \o g) => In(s, q, c) /\ In(s, q + 3, g)
  BY <1>6, <1>7 DEF Splits, n
<1>9. In(s, q, c \o g) => EntryAt(s, q, e)
  BY <1>4, <1>6, <1>8 DEF EntryAt, In, n, g, t
<1> QED
  BY <1>1, <1>2, <1>8, <1>9 DEF EntryStands, e, g, n

\* Where a row stands, everything in it stands.
LEMMA RowStands ==
  ASSUME NEW a, NEW n \in Nat, NEW e, NEW x, Rows(a, n, e, x),
         NEW s, NEW o \in Nat, In(s, o, x)
  PROVE  \A k \in 1..n : In(s, o + a[k], e[k])
<1> SUFFICES ASSUME NEW k \in 1..n, NEW i \in 1..Size(e[k])
             PROVE  s[(o + a[k]) + i] = e[k][i]
  BY DEF In
<1>1. /\ Size(x) \in Nat /\ a \in [1..(n + 1) -> Nat]
      /\ a[k + 1] = a[k] + Size(e[k]) /\ Size(e[k]) \in Nat
      /\ a[k + 1] <= Size(x) /\ \A j \in 1..Size(e[k]) : x[a[k] + j] = e[k][j]
  BY DEF Rows, Reaches
<1>2. a[k] \in Nat
  <2>1. k \in 1..(n + 1)
    OBVIOUS
  <2> QED
    BY <1>1, <2>1
<1>3. a[k] + i \in 1..Size(x) /\ o + (a[k] + i) = (o + a[k]) + i
  BY <1>1, <1>2, SMTT(30)
<1>4. s[o + (a[k] + i)] = x[a[k] + i]
  BY <1>3 DEF In
<1> QED
  BY <1>1, <1>3, <1>4

\* In s, behind the header of a server name extension at q, the entries of the
\* list d stand at the places t.
NamesAt(s, q, end, d, t) ==
  /\ Len(d) \in Nat /\ t \in [1..(Len(d) + 1) -> Nat]
  /\ t[1] = q + 6 /\ t[Len(d) + 1] = end /\ TwoAt(s, q + 4) = end - (q + 6)
  /\ \A l \in 1..Len(d) :
       /\ t[l + 1] = t[l] + 3 + Size(d[l].name) /\ Size(d[l].name) \in Nat
       /\ t[l + 1] <= end /\ EntryAt(s, t[l], d[l])

\* In s an extension stands behind the first q numbers, up to its end.
ExtensionAt(s, q, end, ext, t) ==
  /\ q + 4 <= end
  /\ TwoAt(s, q) = ext.type /\ TwoAt(s, q + 2) = end - (q + 4)
  /\ IsSni(ext) => q + 6 <= end /\ NamesAt(s, q, end, ext.data, t)

ListStands(h, d, s, q, list) ==
  /\ list \in Seq(Nat) /\ Size(list) \in Nat
  /\ In(s, q + 6, list) /\ TwoAt(s, q + 4) = Size(list) =>
       \E t : NamesAt(s, q, q + 6 + Size(list), d, t)

\* The list of names stands like that.
LEMMA NamesAre ==
  ASSUME NEW h, IsHello(h), Fault(h, "name") = 0,
         NEW d, d \in Seq(Range(d)), \A e \in Range(d) : IsEntry(e),
         NEW s, NEW q \in Nat
  PROVE  ListStands(h, d, s, q, FlattenSeq([k \in DOMAIN d |-> EncodeEntry(h, d, k)]))
<1> DEFINE e == [k \in DOMAIN d |-> EncodeEntry(h, d, k)]
           x == FlattenSeq(e)
           n == Len(d)
           end == q + 6 + Size(x)
<1>1. n \in Nat /\ DOMAIN d = 1..n /\ \A k \in 1..n : IsEntry(d[k])
  BY DEF Range
<1> HIDE DEF n
<1>2. \A k \in 1..n : EncodeEntry(h, d, k) \in Seq(Nat)
  BY <1>1, HelloIsBytes DEF PartsAreBytes
<1>3. e \in [1..n -> Seq(Nat)] /\ \A k \in 1..n : e[k] = EncodeEntry(h, d, k)
  BY <1>1, <1>2
<1> HIDE DEF e
<1>4. PICK a : Rows(a, n, e, x)
  BY <1>1, <1>3, FlatIsRow
<1> HIDE DEF x
<1>5. /\ x \in Seq(Nat) /\ Size(x) \in Nat
      /\ a \in [1..(n + 1) -> Nat] /\ a[1] = 0 /\ a[n + 1] = Size(x)
      /\ \A k \in 1..n : /\ a[k + 1] = a[k] + Size(e[k])
                         /\ a[k + 1] <= Size(x)
  BY <1>4 DEF Rows, Reaches
<1> DEFINE o == q + 6
           t == [k \in 1..(n + 1) |-> o + a[k]]
<1>6. o \in Nat
  OBVIOUS
<1>7. ASSUME In(s, o, x), TwoAt(s, q + 4) = Size(x)
      PROVE  NamesAt(s, q, end, d, t)
  <2>1. \A k \in 1..n : In(s, o + a[k], e[k])
    BY <1>1, <1>4, <1>6, <1>7, RowStands
  <2> HIDE DEF o
  <2>2. t \in [1..(n + 1) -> Nat] /\ \A k \in 1..(n + 1) : t[k] = o + a[k]
    BY <1>5, <1>6
  <2> HIDE DEF t
  <2>3. 1 \in 1..(n + 1) /\ n + 1 \in 1..(n + 1)
        /\ \A k \in 1..n : k \in 1..(n + 1) /\ k + 1 \in 1..(n + 1)
    BY <1>1
  <2>4. t[1] = q + 6 /\ t[n + 1] = end
    BY <1>5, <2>2, <2>3 DEF o
  <2>5. ASSUME NEW l \in 1..n
        PROVE  /\ t[l + 1] = t[l] + 3 + Size(d[l].name) /\ Size(d[l].name) \in Nat
               /\ t[l + 1] <= end /\ EntryAt(s, t[l], d[l])
    <3>1. t[l] \in Nat /\ IsEntry(d[l]) /\ t[l] = o + a[l] /\ t[l + 1] = o + a[l + 1]
          /\ a[l] \in Nat /\ a[l + 1] \in Nat
      BY <1>1, <1>5, <2>2, <2>3
    <3>2. EntryStands(h, d, l, s, t[l])
      BY <3>1, EntryIs, Zenon
    <3>3. In(s, t[l], e[l])
      BY <2>1, <3>1
    <3> DEFINE z == Size(d[l].name)
    <3>4. Size(e[l]) = 3 + z /\ z \in Nat /\ EntryAt(s, t[l], d[l])
      BY <1>3, <3>2, <3>3 DEF EntryStands
    <3> HIDE DEF z
    <3>5. a[l + 1] = a[l] + (3 + z) /\ a[l + 1] <= Size(x)
      BY <1>5, <3>4
    <3>6. t[l + 1] = t[l] + 3 + z /\ t[l + 1] <= end
      <4> DEFINE A == a[l]
                 B == a[l + 1]
                 y == Size(x)
      <4>1. A \in Nat /\ B \in Nat /\ y \in Nat /\ B = A + (3 + z) /\ B <= y
            /\ t[l] = o + A /\ t[l + 1] = o + B /\ o = q + 6 /\ end = q + 6 + y
        BY <1>5, <3>1, <3>5 DEF o
      <4> HIDE DEF A, B, y, end
      <4> QED
        BY <1>6, <3>4, <4>1
    <3> QED
      BY <3>4, <3>6 DEF z
  <2>6. TwoAt(s, q + 4) = end - (q + 6)
    BY <1>5, <1>7
  <2> QED
    BY <1>1, <2>2, <2>4, <2>5, <2>6 DEF NamesAt, n
<1>8. ListStands(h, d, s, q, x)
  BY <1>5, <1>7 DEF ListStands
<1> QED
  BY <1>8 DEF x, e

ExtensionStands(h, ext, s, q, x) ==
  /\ x \in Seq(Nat) /\ Size(x) \in Nat
  /\ In(s, q, x) => \E t : ExtensionAt(s, q, q + Size(x), ext, t)

\* Extensions stand like that.
LEMMA ExtensionIs ==
  ASSUME NEW h, IsHello(h), Fault(h, "name") = 0,
         NEW ext, IsExtension(ext), NEW s, NEW q \in Nat
  PROVE  ExtensionStands(h, ext, s, q, EncodeExtension(h, ext))
<1> DEFINE d == ext.data
           list == FlattenSeq([k \in DOMAIN d |-> EncodeEntry(h, d, k)])
           w == U16(Len(list))
           data == IF IsSni(ext) THEN w \o list ELSE d
           ty == ext.type
           u == U16(ty)
           n == Size(data)
           v == U16(n)
           c == u \o v
           x == EncodeExtension(h, ext)
<1>1. x = c \o data
  BY DEF EncodeExtension, Size
<1>2. ty \in Nat
  <2>1. ty \in U16Values
    BY Zenon DEF IsExtension
  <2> QED
    BY <2>1, ValuesAreNumbers, Zenon
<1>3. ~IsSni(ext) => d \in Seq(Nat)
  <2>1. ~IsSni(ext) => d \in Seq(U8Values)
    BY Zenon DEF IsExtension
  <2> QED
    BY <2>1, ValuesAreNumbers, Zenon
<1>4. IsSni(ext) => ListStands(h, d, s, q, list)
  <2>1. IsSni(ext) => d \in Seq(Range(d)) /\ \A e \in Range(d) : IsEntry(e)
    BY Zenon DEF IsExtension
  <2> QED
    BY <2>1, NamesAre, Zenon
<1> HIDE DEF list
<1> DEFINE m == Size(list)
<1>5. IsSni(ext) =>
        /\ list \in Seq(Nat) /\ m \in Nat /\ w = U16(m)
        /\ In(s, q + 6, list) /\ TwoAt(s, q + 4) = m => \E t : NamesAt(s, q, q + 6 + m, d, t)
  BY <1>4 DEF ListStands, Size
<1> HIDE DEF m, w, d
<1>6. q + 4 \in Nat /\ q + 2 \in Nat /\ q + 6 \in Nat /\ (q + 4) + 2 = q + 6
  OBVIOUS
<1>7. ASSUME IsSni(ext)
      PROVE  /\ w \in Seq(Nat) /\ Size(w) = 2 /\ data = w \o list
             /\ data \in Seq(Nat) /\ Size(data) = 2 + m
             /\ In(s, q + 4, data) => In(s, q + 6, list) /\ TwoAt(s, q + 4) = m
  <2>1. m \in Nat /\ w = U16(m) /\ list \in Seq(Nat)
    BY <1>5, <1>7
  <2>2. FieldsIn(s, q + 4, m)
    BY <1>6, <2>1, FieldsStand, Zenon
  <2>3. w \in Seq(Nat) /\ Size(w) = 2 /\ (In(s, q + 4, w) => TwoAt(s, q + 4) = m)
    BY <2>1, <2>2, Zenon DEF FieldsIn
  <2>4. Splits(s, q + 4, w, list)
    BY <1>6, <2>1, <2>3, InSplits, Zenon
  <2>5. data = w \o list
    BY <1>7
  <2> HIDE DEF data
  <2> QED
    BY <1>6, <2>3, <2>4, <2>5 DEF Splits, m
<1>8. data \in Seq(Nat)
  <2>1. CASE IsSni(ext)
    BY <1>7, <2>1
  <2>2. CASE ~IsSni(ext)
    <3>1. data = d
      BY <2>2
    <3> QED
      BY <1>3, <2>2, <3>1
  <2> QED
    BY <2>1, <2>2
<1> HIDE DEF data
<1>9. n \in Nat
  BY <1>8 DEF Size
<1> HIDE DEF ty, n
<1>10. FieldsIn(s, q, ty) /\ FieldsIn(s, q + 2, n)
  BY <1>2, <1>6, <1>9, FieldsStand, Zenon
<1>11. /\ u \in Seq(Nat) /\ Size(u) = 2 /\ (In(s, q, u) => TwoAt(s, q) = ty)
       /\ v \in Seq(Nat) /\ Size(v) = 2 /\ (In(s, q + 2, v) => TwoAt(s, q + 2) = n)
  BY <1>10, Zenon DEF FieldsIn
<1> HIDE DEF u, v
<1>12. Splits(s, q, u, v)
  BY <1>11, InSplits, Zenon
<1>13. /\ c \in Seq(Nat) /\ Size(c) = 4
       /\ In(s, q, c) => In(s, q, u) /\ In(s, q + 2, v)
  BY <1>11, <1>12 DEF Splits
<1> HIDE DEF c
<1>14. Splits(s, q, c, data)
  BY <1>8, <1>13, InSplits, Zenon
<1> HIDE DEF x
<1>15. /\ x \in Seq(Nat) /\ Size(x) = 4 + n
       /\ In(s, q, x) => In(s, q, c) /\ In(s, q + 4, data)
  BY <1>1, <1>13, <1>14 DEF Splits, n
<1>16. ASSUME In(s, q, x) PROVE \E t : ExtensionAt(s, q, q + Size(x), ext, t)
  <2> DEFINE end == q + Size(x)
  <2>1. end = (q + 4) + n
    BY <1>9, <1>15
  <2>2. In(s, q, u) /\ In(s, q + 2, v) /\ In(s, q + 4, data)
    BY <1>13, <1>15, <1>16
  <2>3. TwoAt(s, q) = ty /\ TwoAt(s, q + 2) = n
    BY <1>11, <2>2
  <2> HIDE DEF end
  <2>4. q + 4 <= end /\ end - (q + 4) = n
    BY <1>6, <1>9, <2>1
  <2>5. CASE IsSni(ext)
    <3>1. PICK t : NamesAt(s, q, q + 6 + m, d, t)
      BY <1>5, <1>7, <2>2, <2>5
    <3>2. q + 6 + m = end /\ q + 6 <= end
      BY <1>5, <1>6, <1>7, <2>1, <2>5 DEF n
    <3>3. NamesAt(s, q, end, ext.data, t)
      BY <3>1, <3>2 DEF d
    <3>4. ExtensionAt(s, q, end, ext, t)
      BY <2>3, <2>4, <3>2, <3>3 DEF ExtensionAt, ty
    <3> QED
      BY <3>4 DEF end
  <2>6. CASE ~IsSni(ext)
    <3>1. ExtensionAt(s, q, end, ext, 0)
      BY <2>3, <2>4, <2>6 DEF ExtensionAt, ty
    <3> QED
      BY <3>1 DEF end
  <2> QED
    BY <2>5, <2>6
<1>17. ExtensionStands(h, ext, s, q, x)
  BY <1>9, <1>15, <1>16 DEF ExtensionStands
<1> QED
  BY <1>17 DEF x

\* In the body of a message b, behind the header of the message, the fields
\* stand one behind the other, and the extensions at the places at; the places
\* in the k-th extension, if it is a server name extension, are et[k].
Layout(h, b, at, et) ==
  /\ h.session \in Nat /\ h.ciphers \in Nat /\ h.compression \in Nat
  /\ b \in Seq(Nat) /\ Size(b) \in Nat
  /\ b[35] = h.session
  /\ TwoAt(b, 35 + h.session) = h.ciphers
  /\ b[38 + h.session + h.ciphers] = h.compression
  /\ TwoAt(b, 38 + h.session + h.ciphers + h.compression) =
       (Size(b) - at[1]) + Fault(h, "extensions")
  /\ Len(h.exts) \in Nat /\ at \in [1..(Len(h.exts) + 1) -> Nat]
  /\ at[1] = 40 + h.session + h.ciphers + h.compression
  /\ at[Len(h.exts) + 1] = Size(b)
  /\ \A k \in 1..(Len(h.exts) + 1) : at[k] <= Size(b)
  /\ \A k \in 1..Len(h.exts) : ExtensionAt(b, at[k], at[k + 1], h.exts[k], et[k])

\* Everything that a body is made of stands in it.
LEMMA BodyIs ==
  ASSUME NEW h, IsHello(h), Fault(h, "name") = 0
  PROVE  \E at, et : Layout(h, EncodeBody(h), at, et)
<1> DEFINE e == [k \in DOMAIN h.exts |-> EncodeExtension(h, h.exts[k])]
           x == FlattenSeq(e)
           n == Len(h.exts)
           f == Fault(h, "extensions")
           s == h.session
           c == h.ciphers
           m == h.compression
           y == Size(x)
           r == y + f
           b == EncodeBody(h)
           z1 == Zeros(34)
           z2 == U8(s)
           z3 == Zeros(s)
           z4 == U16(c)
           z5 == Zeros(c)
           z6 == U8(m)
           z7 == Zeros(m)
           z8 == U16(r)
           s1 == z1 \o z2
           s2 == s1 \o z3
           s3 == s2 \o z4
           s4 == s3 \o z5
           s5 == s4 \o z6
           s6 == s5 \o z7
           s7 == s6 \o z8
           s8 == s7 \o x
           o8 == 40 + s + c + m
<1>1. b = s8
  BY DEF EncodeBody, Size
<1>2. s \in Nat /\ c \in Nat /\ m \in Nat /\ f \in Nat
  <2>1. /\ h.session \in U8Values /\ h.ciphers \in U16Values /\ h.compression \in U8Values
    BY Zenon DEF IsHello
  <2>2. f \in Nat
    BY FaultsAre
  <2> QED
    BY <2>1, <2>2, ValuesAreNumbers, Zenon
<1>3. n \in Nat /\ DOMAIN h.exts = 1..n /\ \A k \in 1..n : IsExtension(h.exts[k])
  <2>1. h.exts \in Seq(Range(h.exts)) /\ \A ext \in Range(h.exts) : IsExtension(ext)
    BY Zenon DEF IsHello
  <2> QED
    BY <2>1 DEF Range
<1> HIDE DEF b, n
<1>4. \A k \in 1..n : EncodeExtension(h, h.exts[k]) \in Seq(Nat)
  BY <1>3, HelloIsBytes DEF PartsAreBytes
<1>5. e \in [1..n -> Seq(Nat)] /\ \A k \in 1..n : e[k] = EncodeExtension(h, h.exts[k])
  BY <1>3, <1>4
<1> HIDE DEF e
<1>6. PICK a : Rows(a, n, e, x)
  BY <1>3, <1>5, FlatIsRow
<1> HIDE DEF x
<1>7. /\ x \in Seq(Nat) /\ y \in Nat
      /\ a \in [1..(n + 1) -> Nat] /\ a[1] = 0 /\ a[n + 1] = y
      /\ \A k \in 1..n : a[k + 1] = a[k] + Size(e[k]) /\ a[k + 1] <= y
  BY <1>6 DEF Rows, Reaches
<1> HIDE DEF s, c, m, f, y
<1>8. r \in Nat /\ 34 \in Nat /\ 35 + s \in Nat /\ 37 + s + c \in Nat
      /\ 38 + s + c + m \in Nat /\ o8 \in Nat /\ 0 \in Nat
  BY <1>2, <1>7
<1> DEFINE o2 == 35 + s
           o4 == 37 + s + c
           o6 == 38 + s + c + m
<1> HIDE DEF r
<1>9. /\ z1 \in Seq(Nat) /\ Size(z1) = 34
      /\ z3 \in Seq(Nat) /\ Size(z3) = s
      /\ z5 \in Seq(Nat) /\ Size(z5) = c
      /\ z7 \in Seq(Nat) /\ Size(z7) = m
  <2>1. \A i \in Nat : Zeros(i) \in Seq(Nat) /\ Size(Zeros(i)) = i
    <3>1. ASSUME NEW i \in Nat PROVE Zeros(i) \in Seq(Nat) /\ Size(Zeros(i)) = i
      <4>1. i \in Int /\ (i > 0 \/ i = 0)
        OBVIOUS
      <4>2. Zeros(i) \in Seq(Nat) /\ Size(Zeros(i)) = IF i > 0 THEN i ELSE 0
        BY <4>1, ZerosAre
      <4> DEFINE z == Zeros(i)
      <4> HIDE DEF z
      <4> QED
        BY <4>1, <4>2 DEF z
    <3> QED
      BY <3>1
  <2> QED
    BY <1>2, <1>8, <2>1
<1>10. FieldsIn(b, 34, s) /\ FieldsIn(b, o2, c) /\ FieldsIn(b, o4, m) /\ FieldsIn(b, o6, r)
  BY <1>2, <1>8, FieldsStand, Zenon
<1>11. /\ z2 \in Seq(Nat) /\ Size(z2) = 1 /\ (In(b, 34, z2) => b[34 + 1] = s)
       /\ z4 \in Seq(Nat) /\ Size(z4) = 2 /\ (In(b, o2, z4) => TwoAt(b, o2) = c)
       /\ z6 \in Seq(Nat) /\ Size(z6) = 1 /\ (In(b, o4, z6) => b[o4 + 1] = m)
       /\ z8 \in Seq(Nat) /\ Size(z8) = 2 /\ (In(b, o6, z8) => TwoAt(b, o6) = r)
  BY <1>10, Zenon DEF FieldsIn
<1> HIDE DEF z1, z2, z3, z4, z5, z6, z7, z8
<1>12. Splits(b, 0, z1, z2)
  BY <1>8, <1>9, <1>11, InSplits, Zenon
<1>13. s1 \in Seq(Nat) /\ Size(s1) = 35 /\ (In(b, 0, s1) => In(b, 34, z2))
  BY <1>9, <1>11, <1>12 DEF Splits
<1> HIDE DEF s1
<1>14. Splits(b, 0, s1, z3)
  BY <1>8, <1>9, <1>13, InSplits, Zenon
<1>15. s2 \in Seq(Nat) /\ Size(s2) = o2 /\ (In(b, 0, s2) => In(b, 0, s1))
  BY <1>2, <1>9, <1>13, <1>14 DEF Splits
<1> HIDE DEF s2
<1>16. Splits(b, 0, s2, z4)
  BY <1>8, <1>11, <1>15, InSplits, Zenon
<1>17. s3 \in Seq(Nat) /\ Size(s3) = 37 + s /\ (In(b, 0, s3) => In(b, 0, s2) /\ In(b, o2, z4))
  BY <1>2, <1>11, <1>15, <1>16 DEF Splits
<1> HIDE DEF s3
<1>18. Splits(b, 0, s3, z5)
  BY <1>8, <1>9, <1>17, InSplits, Zenon
<1>19. s4 \in Seq(Nat) /\ Size(s4) = o4 /\ (In(b, 0, s4) => In(b, 0, s3))
  BY <1>2, <1>9, <1>17, <1>18 DEF Splits
<1> HIDE DEF s4
<1>20. Splits(b, 0, s4, z6)
  BY <1>8, <1>11, <1>19, InSplits, Zenon
<1>21. s5 \in Seq(Nat) /\ Size(s5) = 38 + s + c /\ (In(b, 0, s5) => In(b, 0, s4) /\ In(b, o4, z6))
  BY <1>2, <1>11, <1>19, <1>20 DEF Splits
<1> HIDE DEF s5
<1>22. Splits(b, 0, s5, z7)
  BY <1>8, <1>9, <1>21, InSplits, Zenon
<1>23. s6 \in Seq(Nat) /\ Size(s6) = o6 /\ (In(b, 0, s6) => In(b, 0, s5))
  BY <1>2, <1>9, <1>21, <1>22 DEF Splits
<1> HIDE DEF s6
<1>24. Splits(b, 0, s6, z8)
  BY <1>8, <1>11, <1>23, InSplits, Zenon
<1>25. s7 \in Seq(Nat) /\ Size(s7) = o8 /\ (In(b, 0, s7) => In(b, 0, s6) /\ In(b, o6, z8))
  BY <1>2, <1>11, <1>23, <1>24 DEF Splits
<1> HIDE DEF s7
<1>26. Splits(b, 0, s7, x)
  BY <1>7, <1>8, <1>25, InSplits, Zenon
<1> HIDE DEF s8
<1>27. s8 \in Seq(Nat) /\ Size(s8) = o8 + y /\ (In(b, 0, s8) => In(b, 0, s7) /\ In(b, 0 + o8, x))
  BY <1>25, <1>26, Zenon DEF Splits, s8, y
<1>28. In(b, 0, b)
  BY DEF In
<1>29. /\ b \in Seq(Nat) /\ Size(b) = o8 + y /\ In(b, 0, s7) /\ In(b, o8, x)
  BY <1>1, <1>8, <1>27, <1>28
<1>30. /\ b[35] = s /\ TwoAt(b, 35 + s) = c /\ b[38 + s + c] = m
       /\ TwoAt(b, 38 + s + c + m) = r
  <2>1. In(b, o6, z8) /\ In(b, o4, z6) /\ In(b, o2, z4) /\ In(b, 34, z2)
    BY <1>13, <1>15, <1>17, <1>19, <1>21, <1>23, <1>25, <1>29
  <2>2. o4 + 1 = 38 + s + c
    BY <1>2
  <2> QED
    BY <1>11, <2>1, <2>2
<1> DEFINE at == [k \in 1..(n + 1) |-> o8 + a[k]]
           et == [k \in 1..n |-> CHOOSE t : ExtensionAt(b, at[k], at[k + 1], h.exts[k], t)]
<1> HIDE DEF o8
<1>31. at \in [1..(n + 1) -> Nat] /\ \A k \in 1..(n + 1) : at[k] = o8 + a[k]
  BY <1>7, <1>8
<1> HIDE DEF at
<1>32. 1 \in 1..(n + 1) /\ n + 1 \in 1..(n + 1)
       /\ \A k \in 1..n : k \in 1..(n + 1) /\ k + 1 \in 1..(n + 1)
  BY <1>3
<1>33. at[1] = o8 /\ at[n + 1] = Size(b) /\ Size(b) \in Nat
  BY <1>7, <1>8, <1>29, <1>31, <1>32
<1>34. \A k \in 1..(n + 1) : at[k] <= Size(b)
  <2>1. ASSUME NEW k \in 1..(n + 1) PROVE a[k] <= y
    <3>1. CASE k = 1
      BY <1>7, <3>1
    <3>2. CASE k # 1
      <4> DEFINE l == k - 1
      <4>1. l \in 1..n /\ l + 1 = k
        BY <1>3, <3>2
      <4> HIDE DEF l
      <4> QED
        BY <1>7, <4>1
    <3> QED
      BY <3>1, <3>2
  <2>2. \A k \in 1..(n + 1) : a[k] \in Nat
    BY <1>7
  <2> QED
    BY <1>7, <1>8, <1>29, <1>31, <2>1, <2>2
<1>35. \A k \in 1..n : ExtensionAt(b, at[k], at[k + 1], h.exts[k], et[k])
  <2>1. ASSUME NEW k \in 1..n
        PROVE  \E t : ExtensionAt(b, at[k], at[k + 1], h.exts[k], t)
    <3>1. at[k] \in Nat /\ at[k] = o8 + a[k] /\ at[k + 1] = o8 + a[k + 1]
          /\ a[k] \in Nat /\ a[k + 1] = a[k] + Size(e[k])
      BY <1>7, <1>31, <1>32
    <3>2. ExtensionStands(h, h.exts[k], b, at[k], e[k])
      BY <1>3, <1>5, <3>1, ExtensionIs
    <3>3. In(b, at[k], e[k])
      BY <1>3, <1>6, <1>8, <1>29, <3>1, RowStands
    <3>4. Size(e[k]) \in Nat /\ \E t : ExtensionAt(b, at[k], at[k] + Size(e[k]), h.exts[k], t)
      BY <3>2, <3>3, Zenon DEF ExtensionStands
    <3>5. at[k] + Size(e[k]) = at[k + 1]
      BY <1>8, <3>1, <3>4
    <3> QED
      BY <3>4, <3>5
  <2> QED
    BY <2>1
<1> HIDE DEF et
<1>36. TwoAt(b, 38 + s + c + m) = (Size(b) - at[1]) + f
  <2>1. r = y + f /\ (Size(b) - at[1]) = y
    BY <1>7, <1>8, <1>29, <1>33 DEF r
  <2> QED
    BY <1>30, <2>1
<1>37. at[1] = 40 + s + c + m
  BY <1>33 DEF o8
<1>38. Layout(h, b, at, et)
  BY <1>2, <1>3, <1>29, <1>30, <1>31, <1>33, <1>34, <1>35, <1>36, <1>37
     DEF Layout, n, s, c, m, f
<1> QED
  BY <1>38 DEF b

-----------------------------------------------------------------------------
(* The way of the extractor through a Client Hello *)

\* The k-th extension is the first server name extension.
FirstSni(h, k) ==
  /\ k \in 1..Len(h.exts) /\ IsSni(h.exts[k])
  /\ \A j \in 1..(k - 1) : ~IsSni(h.exts[j])

\* The l-th entry is the first host name of a list.
FirstHost(d, l) ==
  /\ l \in 1..Len(d) /\ d[l].type = TLS_SNI_TYPE_HOSTNAME
  /\ \A j \in 1..(l - 1) : d[j].type # TLS_SNI_TYPE_HOSTNAME

\* The first element of a set of places is its least.
LEMMA FirstIsLeast ==
  ASSUME NEW n \in Nat, NEW S, S \subseteq 1..n, NEW k \in S, \A j \in 1..(k - 1) : j \notin S
  PROVE  Min(S) = k
<1>1. S \subseteq Nat /\ S # {}
  OBVIOUS
<1>2. Min(S) \in S /\ \A x \in S : Min(S) <= x
  BY <1>1, LeastIs
<1> DEFINE m == Min(S)
<1> HIDE DEF m
<1>3. m \in Nat /\ m >= 1 /\ k \in Nat /\ m <= k
  <2>1. m \in S /\ m <= k
    BY <1>2 DEF m
  <2>2. m \in 1..n /\ k \in 1..n
    BY <2>1
  <2> QED
    BY <2>1, <2>2
<1>4. m \notin 1..(k - 1)
  BY <1>2 DEF m
<1> QED
  BY <1>3, <1>4 DEF m

NoFault(h) == h.fault \notin {"record", "message"}

NameOf(h) ==
  /\ ~NoFault(h) => ServerName(h) = None
  /\ (\A j \in 1..Len(h.exts) : ~IsSni(h.exts[j])) => ServerName(h) = None
  /\ \A k : FirstSni(h, k) =>
       LET d == h.exts[k].data
       IN  /\ (\A j \in 1..Len(d) : d[j].type # TLS_SNI_TYPE_HOSTNAME) => ServerName(h) = None
           /\ NoFault(h) => \A l : FirstHost(d, l) => ServerName(h) = d[l].name

\* The first host name in the first server name extension is the host name.
LEMMA NameOfHello ==
  ASSUME NEW h, IsHello(h)
  PROVE  NameOf(h)
<1> DEFINE lists == {k \in DOMAIN h.exts : IsSni(h.exts[k])}
           list  == h.exts[Min(lists)].data
           hosts == {k \in DOMAIN list : list[k].type = TLS_SNI_TYPE_HOSTNAME}
           n     == Len(h.exts)
<1>1. ServerName(h) = IF \/ h.fault \in {"record", "message"}
                         \/ lists = {}
                         \/ hosts = {}
                      THEN None ELSE list[Min(hosts)].name
  BY Zenon DEF ServerName
<1>2. h.exts \in Seq(Range(h.exts)) /\ \A ext \in Range(h.exts) : IsExtension(ext)
  BY Zenon DEF IsHello
<1>3. /\ n \in Nat /\ DOMAIN h.exts = 1..n /\ \A k \in 1..n : IsExtension(h.exts[k])
  BY <1>2 DEF Range
<1>4. ~NoFault(h) => ServerName(h) = None
  BY <1>1, Zenon DEF NoFault
<1>5. (\A j \in 1..n : ~IsSni(h.exts[j])) => ServerName(h) = None
  <2>1. (\A j \in 1..n : ~IsSni(h.exts[j])) => lists = {}
    BY <1>3
  <2> HIDE DEF lists, hosts, list
  <2> QED
    BY <1>1, <2>1
<1>6. ASSUME NEW k, FirstSni(h, k)
      PROVE  LET d == h.exts[k].data
             IN  /\ (\A j \in 1..Len(d) : d[j].type # TLS_SNI_TYPE_HOSTNAME) => ServerName(h) = None
                 /\ NoFault(h) => \A l : FirstHost(d, l) => ServerName(h) = d[l].name
  <2> DEFINE d == h.exts[k].data
             hs == {j \in DOMAIN d : d[j].type = TLS_SNI_TYPE_HOSTNAME}
  <2>1. /\ k \in 1..n /\ IsSni(h.exts[k]) /\ \A j \in 1..(k - 1) : ~IsSni(h.exts[j])
    BY <1>6 DEF FirstSni
  <2>2. lists \subseteq 1..n /\ k \in lists /\ \A j \in 1..(k - 1) : j \notin lists
    BY <1>3, <2>1
  <2>3. Min(lists) = k
    <3> HIDE DEF lists
    <3> QED
      BY <1>3, <2>2, FirstIsLeast
  <2>4. lists # {}
    BY <2>2
  <2> HIDE DEF lists
  <2>5. list = d /\ hosts = hs
    BY <2>3
  <2> HIDE DEF list, hosts
  <2>6. ServerName(h) = IF ~NoFault(h) \/ hs = {} THEN None ELSE d[Min(hs)].name
    BY <1>1, <2>4, <2>5, Zenon DEF NoFault
  <2>7. d \in Seq(Range(d))
    BY <1>3, <2>1, Zenon DEF IsExtension
  <2>8. Len(d) \in Nat /\ DOMAIN d = 1..Len(d)
    <3> HIDE DEF d
    <3> QED
      BY <2>7
  <2>9. (\A j \in 1..Len(d) : d[j].type # TLS_SNI_TYPE_HOSTNAME) => hs = {}
    BY <2>8
  <2>10. ASSUME NEW l, FirstHost(d, l) PROVE hs # {} /\ Min(hs) = l
    <3>1. /\ l \in 1..Len(d) /\ d[l].type = TLS_SNI_TYPE_HOSTNAME
          /\ \A j \in 1..(l - 1) : d[j].type # TLS_SNI_TYPE_HOSTNAME
      BY <2>10, Zenon DEF FirstHost
    <3>2. hs \subseteq 1..Len(d) /\ l \in hs /\ \A j \in 1..(l - 1) : j \notin hs
      BY <2>8, <3>1
    <3> HIDE DEF hs, d
    <3> QED
      BY <2>8, <3>2, FirstIsLeast
  <2> HIDE DEF hs, d
  <2>11. /\ (\A j \in 1..Len(d) : d[j].type # TLS_SNI_TYPE_HOSTNAME) => ServerName(h) = None
         /\ NoFault(h) => \A l : FirstHost(d, l) => ServerName(h) = d[l].name
    BY <2>6, <2>9, <2>10, Zenon
  <2> QED
    BY <2>11, Zenon DEF d
<1> QED
  BY <1>4, <1>5, <1>6, Zenon DEF NameOf, n

\* The payload p begins with a message of which the body is b, or with a part
\* of one; the lengths in it do not lead to what is behind it.
Reads(h, b, p) ==
  /\ p \in Seq(Nat)
  /\ Size(p) >= 1 => p[1] = TLS_CONTENT_TYPE_HANDSHAKE + Fault(h, "record")
  /\ Size(p) >= 6 => p[6] = TLS_HANDSHAKE_TYPE_CLIENT_HELLO + Fault(h, "message")
  /\ \A i \in 1..Size(b) : 9 + i <= Size(p) => p[9 + i] = b[i]
  /\ Size(p) <= 9 + Size(b) \/ Fault(h, "extensions") = 0

\* All of the message is there, and its length is right.
Entire(h, b, p) ==
  /\ Size(p) >= 9 + Size(b) /\ Fault(h, "extensions") = 0
  /\ 256 * p[4] + p[5] = 4 + Size(b)
  /\ 256 * (256 * p[7] + p[8]) + p[9] = Size(b)

\* Where the extractor is in the body of the message.
AtExtension(h, b, at) ==
  /\ pc = "extension"
  /\ extEnd = 9 + Size(b) + Fault(h, "extensions")
  /\ \E k \in 1..(Len(h.exts) + 1) :
       offset = 9 + at[k] /\ \A j \in 1..(k - 1) : ~IsSni(h.exts[j])

AtList(h, at) ==
  pc = "list" /\ \E k : FirstSni(h, k) /\ offset = 13 + at[k]

AtEntry(h, at, et) ==
  /\ pc = "entry"
  /\ \E k : /\ FirstSni(h, k) /\ listEnd = 9 + at[k + 1]
            /\ \E l \in 1..(Len(h.exts[k].data) + 1) :
                 /\ offset = 9 + et[k][l]
                 /\ \A j \in 1..(l - 1) : h.exts[k].data[j].type # TLS_SNI_TYPE_HOSTNAME

InBody(h, b, at, et) ==
  \/ pc = "fixed" /\ offset = 9
  \/ pc = "session" /\ offset = 43
  \/ pc = "ciphers" /\ offset = 44 + h.session
  \/ pc = "compression" /\ offset = 46 + h.session + h.ciphers
  \/ pc = "extensions" /\ offset = 47 + h.session + h.ciphers + h.compression
  \/ AtExtension(h, b, at) \/ AtList(h, at) \/ AtEntry(h, at, et)

\* The extractor goes from part to part; what it returns at the end is the host
\* name or nothing, and nothing only if there is none or not all is there.
Walk(h, b, at, et) ==
  \/ pc = "record" /\ offset = 0
  \/ pc = "handshake" /\ offset = 5 /\ Fault(h, "record") = 0
  \/ NoFault(h) /\ InBody(h, b, at, et)
  \/ /\ pc = "done" /\ name \in {None, ServerName(h)}
     /\ Entire(h, b, payload) => name = ServerName(h)

\* What the walk depends on, and no step changes.
Ground(h, b, at, et) ==
  /\ Layout(h, b, at, et) /\ Reads(h, b, payload) /\ NameOf(h) /\ IsHello(h)
  /\ \A f : Fault(h, f) \in Nat
  /\ NoFault(h) <=> Fault(h, "record") = 0 /\ Fault(h, "message") = 0

\* The bytes of the body are read where they stand.
ReadAt(b, q) ==
  /\ q + 1 <= Size(b) /\ ~(Len(payload) < 9 + q + 1) => Byte(9 + q) = b[q + 1]
  /\ q + 2 <= Size(b) /\ ~(Len(payload) < 9 + q + 2) => U16At(9 + q) = TwoAt(b, q)

\* So they are.
LEMMA BodyRead ==
  ASSUME NEW h, NEW b, Size(b) \in Nat, Reads(h, b, payload), NEW q \in Nat
  PROVE  ReadAt(b, q)
<1>1. /\ payload \in Seq(Nat) /\ Len(payload) \in Nat /\ Size(payload) = Len(payload)
      /\ \A i \in 1..Size(b) : 9 + i <= Len(payload) => payload[9 + i] = b[i]
  BY DEF Reads, Size
<1>2. ASSUME NEW i \in Nat, i + 1 <= Size(b), ~(Len(payload) < 9 + i + 1)
      PROVE  Byte(9 + i) = b[i + 1]
  <2>1. i + 1 \in 1..Size(b) /\ 9 + (i + 1) <= Len(payload) /\ 9 + i < Len(payload)
        /\ (9 + i) + 1 = 9 + (i + 1)
    BY <1>1, <1>2
  <2>2. payload[9 + (i + 1)] = b[i + 1]
    BY <1>1, <2>1
  <2> QED
    BY <2>1, <2>2 DEF Byte
<1>3. ASSUME q + 2 <= Size(b), ~(Len(payload) < 9 + q + 2)
      PROVE  U16At(9 + q) = TwoAt(b, q)
  <2>1. /\ q + 1 <= Size(b) /\ ~(Len(payload) < 9 + q + 1)
        /\ (q + 1) + 1 <= Size(b) /\ ~(Len(payload) < 9 + (q + 1) + 1) /\ q + 1 \in Nat
        /\ (9 + q) + 1 = 9 + (q + 1) /\ (q + 1) + 1 = q + 2
    BY <1>1, <1>3
  <2>2. Byte(9 + q) = b[q + 1] /\ Byte(9 + (q + 1)) = b[(q + 1) + 1]
    BY <1>2, <2>1
  <2>3. Byte(9 + q) = b[q + 1] /\ Byte((9 + q) + 1) = b[q + 2]
    BY <2>1, <2>2
  <2> QED
    BY <2>3 DEF U16At, TwoAt
<1> QED
  BY <1>2, <1>3 DEF ReadAt

\* What the ground says of the length of the payload.
LEMMA GroundIs ==
  ASSUME NEW h, NEW b, NEW at, NEW et, Ground(h, b, at, et)
  PROVE  /\ Size(b) \in Nat /\ payload \in Seq(Nat) /\ Len(payload) \in Nat
         /\ Size(payload) = Len(payload)
         /\ \A q \in Nat : ReadAt(b, q)
         /\ Entire(h, b, payload) => Len(payload) >= 9 + Size(b)
<1>1. Size(b) \in Nat /\ Reads(h, b, payload)
  BY DEF Ground, Layout
<1>2. payload \in Seq(Nat) /\ Len(payload) \in Nat /\ Size(payload) = Len(payload)
  BY <1>1 DEF Reads, Size
<1>3. \A q \in Nat : ReadAt(b, q)
  BY <1>1, BodyRead
<1> QED
  BY <1>1, <1>2, <1>3 DEF Entire

\* A walk may end when there is no name, or not all of the message.
LEMMA GivesUp ==
  ASSUME NEW h, NEW b, NEW at, NEW et,
         Return(None), Entire(h, b, payload) => ServerName(h) = None
  PROVE  Walk(h, b, at, et)'
<1>1. pc' = "done" /\ name' = None /\ payload' = payload
  BY DEF Return
<1>2. Entire(h, b, payload)' = Entire(h, b, payload)
  BY <1>1 DEF Entire
<1>3. None' = None /\ ServerName(h)' = ServerName(h)
  BY DEF None
<1> QED
  BY <1>1, <1>2, <1>3 DEF Walk

\* The headers of record and message lead to the body, or there is no name.
LEMMA WalkThroughHeaders ==
  ASSUME NEW h, NEW b, NEW at, NEW et, Ground(h, b, at, et), Walk(h, b, at, et),
         RecordHeader \/ HandshakeHeader
  PROVE  Walk(h, b, at, et)'
<1>1. /\ Size(b) \in Nat /\ payload \in Seq(Nat) /\ Len(payload) \in Nat
      /\ Size(payload) = Len(payload)
      /\ Entire(h, b, payload) => Len(payload) >= 9 + Size(b)
  BY GroundIs
<1>2. /\ Fault(h, "record") \in Nat /\ Fault(h, "message") \in Nat
      /\ NoFault(h) <=> Fault(h, "record") = 0 /\ Fault(h, "message") = 0
      /\ ~NoFault(h) => ServerName(h) = None
  BY DEF Ground, NameOf
<1>3. /\ Len(payload) >= 1 => Byte(0) = 22 + Fault(h, "record")
      /\ Len(payload) >= 6 => Byte(5) = 1 + Fault(h, "message")
  <2>1. /\ Len(payload) >= 1 => payload[1] = 22 + Fault(h, "record")
        /\ Len(payload) >= 6 => payload[6] = 1 + Fault(h, "message")
    BY <1>1 DEF Ground, Reads, TLS_CONTENT_TYPE_HANDSHAKE, TLS_HANDSHAKE_TYPE_CLIENT_HELLO
  <2>2. /\ Len(payload) >= 1 => Byte(0) = payload[1]
        /\ Len(payload) >= 6 => Byte(5) = payload[6]
    BY <1>1 DEF Byte
  <2> QED
    BY <2>1, <2>2
<1>4. Entire(h, b, payload) => U16At(3) = 4 + Size(b) /\ U24At(6) = Size(b)
  <2>1. SUFFICES ASSUME Entire(h, b, payload)
                 PROVE  U16At(3) = 4 + Size(b) /\ U24At(6) = Size(b)
    OBVIOUS
  <2>2. Len(payload) >= 9
    BY <1>1, <2>1
  <2>3. /\ Byte(3) = payload[4] /\ Byte(3 + 1) = payload[5] /\ Byte(6) = payload[7]
        /\ Byte(6 + 1) = payload[8] /\ Byte(6 + 2) = payload[9]
    BY <1>1, <2>2 DEF Byte
  <2> QED
    BY <2>1, <1>1, <2>3 DEF Entire, U16At, U24At
<1>n. None' = None /\ ServerName(h)' = ServerName(h)
  BY DEF None
<1>5. CASE RecordHeader
  <2>1. pc = "record" /\ offset = 0
    BY <1>5 DEF RecordHeader, Field, Refuse, Walk, InBody, AtExtension, AtList, AtEntry
  <2>2. CASE Return(None)
    <3>1. Entire(h, b, payload) => ServerName(h) = None
      <4>1. SUFFICES ASSUME Entire(h, b, payload), NoFault(h) PROVE FALSE
        BY <1>2
      <4>2. Len(payload) >= 9 + Size(b) /\ Byte(0) = 22 /\ U16At(3) = 4 + Size(b)
        <5>1. Len(payload) >= 9 + Size(b) /\ U16At(3) = 4 + Size(b)
          BY <1>1, <1>4, <4>1, Zenon
        <5>2. Fault(h, "record") = 0
          BY <1>2, <4>1, Zenon
        <5>3. Len(payload) >= 1
          BY <1>1, <5>1
        <5> QED
          BY <1>3, <5>1, <5>2, <5>3
      <4>3. ~Short(5) /\ ~Short(5 + U16At(3))
        BY <1>1, <2>1, <4>2 DEF Short
      <4>4. WholeRecord
        BY <4>2, <4>3 DEF WholeRecord, TLS_CONTENT_TYPE_HANDSHAKE
      <4>5. MoveOn(5 + 0, "handshake")
        BY <1>5, <4>3, <4>4 DEF RecordHeader, Field, Refuse
      <4> QED
        BY <2>2, <4>5 DEF MoveOn, Return
    <3> QED
      BY <2>2, <3>1, GivesUp
  <2>3. CASE ~Return(None)
    <3>1. ~Short(5) /\ MoveOn(5 + 0, "handshake") /\ (Short(5) \/ WholeRecord)
      BY <1>5, <2>3 DEF RecordHeader, Field, Refuse
    <3>2. Byte(0) = 22 /\ Len(payload) >= 1
      BY <1>1, <2>1, <3>1 DEF WholeRecord, Short, TLS_CONTENT_TYPE_HANDSHAKE
    <3>3. Fault(h, "record") = 0
      BY <1>2, <1>3, <3>2
    <3>4. pc' = "handshake" /\ offset' = 5
      BY <2>1, <3>1 DEF MoveOn
    <3> QED
      BY <3>3, <3>4 DEF Walk
  <2> QED
    BY <2>2, <2>3
<1>6. CASE HandshakeHeader
  <2>1. pc = "handshake" /\ offset = 5 /\ Fault(h, "record") = 0
    BY <1>6 DEF HandshakeHeader, Field, Refuse, Walk, InBody, AtExtension, AtList, AtEntry
  <2>2. CASE Return(None)
    <3>1. Entire(h, b, payload) => ServerName(h) = None
      <4>1. SUFFICES ASSUME Entire(h, b, payload), NoFault(h) PROVE FALSE
        BY <1>2
      <4>2. Len(payload) >= 9 + Size(b) /\ Byte(5) = 1 /\ U24At(5 + 1) = Size(b)
        BY <1>1, <1>2, <1>3, <1>4, <4>1, SMTT(30)
      <4>3. ~Short(4) /\ ~Short(4 + U24At(5 + 1))
        BY <1>1, <2>1, <4>2 DEF Short
      <4>4. WholeHello
        BY <2>1, <4>2, <4>3 DEF WholeHello, TLS_HANDSHAKE_TYPE_CLIENT_HELLO
      <4>5. MoveOn(4 + 0, "fixed")
        BY <1>6, <4>3, <4>4 DEF HandshakeHeader, Field, Refuse
      <4> QED
        BY <2>2, <4>5 DEF MoveOn, Return
    <3> QED
      BY <2>2, <3>1, GivesUp
  <2>3. CASE ~Return(None)
    <3>1. ~Short(4) /\ MoveOn(4 + 0, "fixed") /\ (Short(4) \/ WholeHello)
      BY <1>6, <2>3 DEF HandshakeHeader, Field, Refuse
    <3>2. Byte(5) = 1 /\ Len(payload) >= 6
      BY <1>1, <2>1, <3>1 DEF WholeHello, Short, TLS_HANDSHAKE_TYPE_CLIENT_HELLO
    <3>3. NoFault(h)
      BY <1>2, <1>3, <2>1, <3>2
    <3>4. pc' = "fixed" /\ offset' = 9
      BY <2>1, <3>1 DEF MoveOn
    <3>5. NoFault(h)' = NoFault(h)
      OBVIOUS
    <3> QED
      BY <3>3, <3>4, <3>5 DEF Walk, InBody
  <2> QED
    BY <2>2, <2>3
<1> QED
  BY <1>5, <1>6

ReadHere(b, q) ==
  /\ q + 1 <= Size(b) /\ ~Short(1) => Byte(offset) = b[q + 1]
  /\ q + 2 <= Size(b) /\ ~Short(2) => U16At(offset) = TwoAt(b, q)

\* What is read at the offset is what stands there in the body.
LEMMA HereRead ==
  ASSUME NEW h, NEW b, NEW at, NEW et, Ground(h, b, at, et),
         NEW q \in Nat, offset = 9 + q
  PROVE  ReadHere(b, q)
<1>1. ReadAt(b, q)
  BY GroundIs
<1> QED
  BY <1>1 DEF ReadAt, ReadHere, Short

\* A field of the body is there, or not all of the message is.
LEMMA FieldThere ==
  ASSUME NEW h, NEW b, NEW at, NEW et, Ground(h, b, at, et),
         NEW here, NEW n \in Nat, NEW size, NEW there, Field(here, n, size, there),
         offset + n <= 9 + Size(b), offset \in Nat
  PROVE  \/ Walk(h, b, at, et)'
         \/ ~Short(n) /\ MoveOn(n + size, there)
<1>1. CASE Short(n) /\ Return(None)
  <2>1. ~Entire(h, b, payload)
    BY <1>1, GroundIs DEF Short
  <2> QED
    BY <1>1, <2>1, GivesUp
<1>2. CASE ~(Short(n) /\ Return(None))
  BY <1>2 DEF Field
<1> QED
  BY <1>1, <1>2

\* The fields before the extensions lead from one to the next.
LEMMA WalkThroughFields ==
  ASSUME NEW h, NEW b, NEW at, NEW et, Ground(h, b, at, et), Walk(h, b, at, et),
         VersionAndRandom \/ SessionId \/ CipherSuites \/ CompressionMethods
  PROVE  Walk(h, b, at, et)'
<1> DEFINE s == h.session
           c == h.ciphers
           m == h.compression
           z == Size(b)
<1>1. /\ s \in Nat /\ c \in Nat /\ m \in Nat /\ z \in Nat /\ 40 + s + c + m <= z
      /\ b[35] = s /\ TwoAt(b, 35 + s) = c /\ b[38 + s + c] = m
  <2>1. /\ s \in Nat /\ c \in Nat /\ m \in Nat /\ z \in Nat
        /\ b[35] = s /\ TwoAt(b, 35 + s) = c /\ b[38 + s + c] = m
        /\ at[1] = 40 + s + c + m /\ Len(h.exts) \in Nat
        /\ \A k \in 1..(Len(h.exts) + 1) : at[k] <= z
    BY Zenon DEF Ground, Layout
  <2>2. 1 \in 1..(Len(h.exts) + 1)
    BY <2>1
  <2> QED
    BY <2>1, <2>2
<1>2. ASSUME NoFault(h), InBody(h, b, at, et)' PROVE Walk(h, b, at, et)'
  BY <1>2 DEF Walk
<1> HIDE DEF s, c, m, z
<1>3. CASE VersionAndRandom
  <2>1. pc = "fixed" /\ offset = 9 /\ NoFault(h)
    BY <1>3 DEF VersionAndRandom, Field, Walk, InBody, AtExtension, AtList, AtEntry
  <2>2. CASE MoveOn(34 + 0, "session")
    BY <1>2, <2>1, <2>2 DEF MoveOn, InBody
  <2>3. offset + 34 <= 9 + Size(b) /\ offset \in Nat
    BY <1>1, <2>1 DEF z
  <2>4. Walk(h, b, at, et)' \/ MoveOn(34 + 0, "session")
    BY <1>3, <2>3, FieldThere DEF VersionAndRandom
  <2> QED
    BY <2>2, <2>4
<1>4. CASE SessionId
  <2>1. pc = "session" /\ offset = 43 /\ NoFault(h)
    BY <1>4 DEF SessionId, Field, Walk, InBody, AtExtension, AtList, AtEntry
  <2>2. offset + 1 <= 9 + Size(b) /\ offset \in Nat
    BY <1>1, <2>1 DEF z
  <2>3. \/ Walk(h, b, at, et)'
        \/ ~Short(1) /\ MoveOn(1 + Byte(offset), "ciphers")
    BY <1>4, <2>2, FieldThere DEF SessionId
  <2>4. CASE ~Short(1) /\ MoveOn(1 + Byte(offset), "ciphers")
    <3>1. offset = 9 + 34 /\ 34 + 1 <= Size(b) /\ 34 \in Nat /\ 34 + 1 = 35
      BY <1>1, <2>1 DEF z
    <3>2. ReadHere(b, 34)
      BY <3>1, HereRead
    <3>3. Byte(offset) = s
      BY <1>1, <2>4, <3>1, <3>2 DEF ReadHere
    <3>4. pc' = "ciphers" /\ offset' = 44 + s
      BY <1>1, <2>1, <2>4, <3>3 DEF MoveOn
    <3> QED
      BY <1>2, <2>1, <3>4 DEF InBody, s
  <2> QED
    BY <2>3, <2>4
<1>5. CASE CipherSuites
  <2>1. pc = "ciphers" /\ offset = 44 + s /\ NoFault(h)
    BY <1>5 DEF CipherSuites, Field, Walk, InBody, AtExtension, AtList, AtEntry, s
  <2>2. offset + 2 <= 9 + Size(b) /\ offset \in Nat
    BY <1>1, <2>1 DEF z
  <2>3. \/ Walk(h, b, at, et)'
        \/ ~Short(2) /\ MoveOn(2 + U16At(offset), "compression")
    BY <1>5, <2>2, FieldThere DEF CipherSuites
  <2>4. CASE ~Short(2) /\ MoveOn(2 + U16At(offset), "compression")
    <3> DEFINE q == 35 + s
    <3>1. offset = 9 + q /\ q + 2 <= Size(b) /\ q \in Nat
      BY <1>1, <2>1 DEF z
    <3>2. TwoAt(b, q) = c
      BY <1>1
    <3> HIDE DEF q
    <3>3. ReadHere(b, q)
      BY <3>1, HereRead
    <3>4. U16At(offset) = c
      BY <2>4, <3>1, <3>2, <3>3 DEF ReadHere
    <3>5. pc' = "compression" /\ offset' = 46 + s + c
      BY <1>1, <2>1, <2>4, <3>4 DEF MoveOn
    <3> QED
      BY <1>2, <2>1, <3>5 DEF InBody, s, c
  <2> QED
    BY <2>3, <2>4
<1>6. CASE CompressionMethods
  <2>1. pc = "compression" /\ offset = 46 + s + c /\ NoFault(h)
    BY <1>6 DEF CompressionMethods, Field, Walk, InBody, AtExtension, AtList, AtEntry, s, c
  <2>2. offset + 1 <= 9 + Size(b) /\ offset \in Nat
    BY <1>1, <2>1 DEF z
  <2>3. \/ Walk(h, b, at, et)'
        \/ ~Short(1) /\ MoveOn(1 + Byte(offset), "extensions")
    BY <1>6, <2>2, FieldThere DEF CompressionMethods
  <2>4. CASE ~Short(1) /\ MoveOn(1 + Byte(offset), "extensions")
    <3> DEFINE q == 37 + s + c
    <3>1. offset = 9 + q /\ q + 1 <= Size(b) /\ q \in Nat /\ q + 1 = 38 + s + c
      BY <1>1, <2>1 DEF z
    <3> HIDE DEF q
    <3>2. b[q + 1] = m
      BY <1>1, <3>1
    <3>3. ReadHere(b, q)
      BY <3>1, HereRead
    <3>4. Byte(offset) = m
      BY <2>4, <3>1, <3>2, <3>3 DEF ReadHere
    <3>5. pc' = "extensions" /\ offset' = 47 + s + c + m
      BY <1>1, <2>1, <2>4, <3>4 DEF MoveOn
    <3> QED
      BY <1>2, <2>1, <3>5 DEF InBody, s, c, m
  <2> QED
    BY <2>3, <2>4
<1> QED
  BY <1>3, <1>4, <1>5, <1>6

ExtensionHere(h, b, at, et, k) ==
  /\ k + 1 \in 1..(Len(h.exts) + 1) /\ (k + 1) - 1 = k
  /\ at[k] \in Nat /\ at[k + 1] \in Nat /\ at[k] + 4 <= at[k + 1] /\ at[k + 1] <= Size(b)
  /\ TwoAt(b, at[k]) = h.exts[k].type /\ TwoAt(b, at[k] + 2) = at[k + 1] - (at[k] + 4)
  /\ IsSni(h.exts[k]) =>
       /\ at[k] + 6 <= at[k + 1]
       /\ NamesAt(b, at[k], at[k + 1], h.exts[k].data, et[k])

\* What the ground says of the extensions.
LEMMA ExtensionsAre ==
  ASSUME NEW h, NEW b, NEW at, NEW et, Ground(h, b, at, et)
  PROVE  /\ Len(h.exts) \in Nat /\ at[Len(h.exts) + 1] = Size(b)
         /\ at[1] = 40 + h.session + h.ciphers + h.compression /\ at[1] <= Size(b)
         /\ at[1] \in Nat
         /\ \A k \in 1..Len(h.exts) : ExtensionHere(h, b, at, et, k)
<1> DEFINE n == Len(h.exts)
<1>1. /\ n \in Nat /\ at[n + 1] = Size(b)
      /\ at[1] = 40 + h.session + h.ciphers + h.compression
      /\ at \in [1..(n + 1) -> Nat] /\ \A k \in 1..(n + 1) : at[k] <= Size(b)
      /\ \A k \in 1..n : ExtensionAt(b, at[k], at[k + 1], h.exts[k], et[k])
  BY Zenon DEF Ground, Layout
<1> HIDE DEF n
<1>2. 1 \in 1..(n + 1) /\ \A k \in 1..n : k \in 1..(n + 1) /\ k + 1 \in 1..(n + 1)
                                          /\ (k + 1) - 1 = k
  BY <1>1
<1>3. \A k \in 1..n : ExtensionHere(h, b, at, et, k)
  <2>1. ASSUME NEW k \in 1..n PROVE ExtensionHere(h, b, at, et, k)
    <3>1. at[k] \in Nat /\ at[k + 1] \in Nat /\ at[k + 1] <= Size(b)
      BY <1>1, <1>2
    <3>2. ExtensionAt(b, at[k], at[k + 1], h.exts[k], et[k])
      BY <1>1
    <3>3. k + 1 \in 1..(n + 1) /\ (k + 1) - 1 = k
      BY <1>2
    <3> QED
      BY <3>1, <3>2, <3>3, Zenon DEF ExtensionAt, ExtensionHere, n
  <2> QED
    BY <2>1
<1>4. at[1] \in Nat /\ at[1] <= Size(b)
  BY <1>1, <1>2
<1> QED
  BY <1>1, <1>3, <1>4 DEF n

\* The loop over the extensions goes from one to the next.
LEMMA WalkToExtensions ==
  ASSUME NEW h, NEW b, NEW at, NEW et, Ground(h, b, at, et), Walk(h, b, at, et),
         ExtensionsLength
  PROVE  Walk(h, b, at, et)'
<1> DEFINE s == h.session
           c == h.ciphers
           m == h.compression
           z == Size(b)
           f == Fault(h, "extensions")
           a == at[1]
           q == 38 + s + c + m
<1>1. /\ s \in Nat /\ c \in Nat /\ m \in Nat /\ z \in Nat /\ f \in Nat
      /\ a = 40 + s + c + m /\ a <= z /\ TwoAt(b, q) = (z - a) + f
      /\ Len(h.exts) \in Nat
  <2>1. /\ s \in Nat /\ c \in Nat /\ m \in Nat /\ z \in Nat /\ f \in Nat
        /\ TwoAt(b, q) = (z - a) + f
    BY Zenon DEF Ground, Layout
  <2> QED
    BY <2>1, ExtensionsAre
<1>2. pc = "extensions" /\ NoFault(h) /\ offset = 47 + h.session + h.ciphers + h.compression
  BY DEF ExtensionsLength, Walk, InBody, AtExtension, AtList, AtEntry
<1> HIDE DEF s, c, m, f, a, q
<1>3. /\ offset = 9 + q /\ q \in Nat /\ q + 2 = a /\ q + 2 <= Size(b)
  <2> HIDE DEF z
  <2>1. offset = 47 + s + c + m
    BY <1>2 DEF s, c, m
  <2> QED
    BY <1>1, <2>1 DEF q, z
<1>4. CASE Short(2)
  <2>1. ~Entire(h, b, payload)
    BY <1>1, <1>3, <1>4, GroundIs DEF Short
  <2>2. Return(None)
    BY <1>4 DEF ExtensionsLength
  <2> QED
    BY <2>1, <2>2, GivesUp
<1>5. CASE ~Short(2)
  <2>1. /\ extEnd' = offset + 2 + U16At(offset) /\ pc' = "extension" /\ offset' = offset + 2
    BY <1>5 DEF ExtensionsLength, MoveOn
  <2>2. ReadHere(b, q)
    BY <1>3, HereRead
  <2>3. U16At(offset) = (z - a) + f
    BY <1>1, <1>3, <1>5, <2>2 DEF ReadHere
  <2>4. extEnd' = 9 + z + f /\ offset' = 9 + a
    <3> HIDE DEF z
    <3> QED
      BY <1>1, <1>3, <2>1, <2>3
  <2>5. 1 \in 1..(Len(h.exts) + 1) /\ 1..(1 - 1) = {}
    BY <1>1
  <2>6. AtExtension(h, b, at)'
    BY <2>1, <2>4, <2>5 DEF AtExtension, a, f
  <2> QED
    BY <1>2, <2>6 DEF Walk, InBody
<1> QED
  BY <1>4, <1>5

\* In the loop a step goes on to the next extension, into the first server name
\* extension, or to the end.
LEMMA WalkThroughExtensions ==
  ASSUME NEW h, NEW b, NEW at, NEW et, Ground(h, b, at, et), Walk(h, b, at, et),
         OtherExtension \/ SniExtension \/ NoMoreExtensions
  PROVE  Walk(h, b, at, et)'
<1> DEFINE z == Size(b)
           f == Fault(h, "extensions")
           n == Len(h.exts)
<1>1. /\ z \in Nat /\ f \in Nat /\ n \in Nat /\ at[n + 1] = z
      /\ Len(payload) \in Nat
      /\ Entire(h, b, payload) => Len(payload) >= 9 + z /\ f = 0
      /\ Len(payload) <= 9 + z \/ f = 0
  <2>1. /\ z \in Nat /\ Len(payload) \in Nat /\ Size(payload) = Len(payload)
        /\ Entire(h, b, payload) => Len(payload) >= 9 + z
    BY GroundIs
  <2>2. f \in Nat /\ (Size(payload) <= 9 + z \/ f = 0)
    BY Zenon DEF Ground, Reads
  <2>3. Entire(h, b, payload) => f = 0
    BY Zenon DEF Entire
  <2> QED
    BY <2>1, <2>2, <2>3, ExtensionsAre
<1>2. AtExtension(h, b, at) /\ NoFault(h)
  BY DEF OtherExtension, SniExtension, NoMoreExtensions, Walk, InBody, AtList, AtEntry
<1>3. PICK k \in 1..(n + 1) :
        offset = 9 + at[k] /\ \A j \in 1..(k - 1) : ~IsSni(h.exts[j])
  BY <1>2 DEF AtExtension
<1>4. extEnd = 9 + z + f
  BY <1>2 DEF AtExtension
<1> HIDE DEF z, f, n
<1>5. k # n + 1 => ExtensionHere(h, b, at, et, k) /\ k \in 1..n
  <2>1. k # n + 1 => k \in 1..n
    BY <1>1
  <2> QED
    BY <2>1, ExtensionsAre DEF n
<1>6. MoreExtensions => k # n + 1
  <2>1. SUFFICES ASSUME MoreExtensions, k = n + 1 PROVE FALSE
    OBVIOUS
  <2>2. offset = 9 + z /\ offset + 4 <= extEnd /\ ~(Len(payload) < offset + 4)
    BY <1>1, <1>3, <2>1 DEF MoreExtensions, Short
  <2> QED
    BY <1>1, <1>4, <2>2
<1>7. CASE NoMoreExtensions
  <2>1. Entire(h, b, payload) => ServerName(h) = None
    <3>1. SUFFICES ASSUME Entire(h, b, payload) PROVE ServerName(h) = None
      OBVIOUS
    <3>2. k = n + 1
      <4>1. SUFFICES ASSUME k # n + 1 PROVE FALSE
        OBVIOUS
      <4>2. /\ at[k] \in Nat /\ at[k + 1] \in Nat /\ at[k] + 4 <= at[k + 1] /\ at[k + 1] <= z
        BY <1>5, <4>1 DEF ExtensionHere, z
      <4>3. offset + 4 <= 9 + z
        BY <1>1, <1>3, <4>2, SMTT(30)
      <4>4. MoreExtensions
        BY <1>1, <1>3, <1>4, <3>1, <4>2, <4>3 DEF MoreExtensions, Short
      <4> QED
        BY <1>7, <4>4 DEF NoMoreExtensions
    <3>3. \A j \in 1..n : ~IsSni(h.exts[j])
      BY <1>1, <1>3, <3>2
    <3> QED
      BY <3>3, Zenon DEF Ground, NameOf, n
  <2> QED
    BY <1>7, <2>1, GivesUp DEF NoMoreExtensions
<1>8. CASE OtherExtension \/ SniExtension
  <2> DEFINE q == at[k]
             e == at[k + 1]
  <2>1. MoreExtensions /\ ~Short(4)
    BY <1>8 DEF OtherExtension, SniExtension, MoreExtensions
  <2>2. /\ k \in 1..n /\ q \in Nat /\ e \in Nat /\ q + 4 <= e /\ e <= z
        /\ k + 1 \in 1..(n + 1) /\ (k + 1) - 1 = k
        /\ TwoAt(b, q) = h.exts[k].type /\ TwoAt(b, q + 2) = e - (q + 4)
    BY <1>5, <1>6, <2>1, Zenon DEF ExtensionHere, z, n
  <2>3. offset = 9 + q
    BY <1>3
  <2> HIDE DEF q, e
  <2>4. ReadAt(b, q) /\ ReadAt(b, q + 2)
    BY <2>2, GroundIs
  <2>5. q + 2 <= z /\ (q + 2) + 2 <= z /\ ~(Len(payload) < 9 + q + 2)
        /\ ~(Len(payload) < 9 + (q + 2) + 2) /\ 9 + (q + 2) = offset + 2
    BY <1>1, <2>1, <2>2, <2>3 DEF Short
  <2>6. U16At(offset) = h.exts[k].type /\ U16At(offset + 2) = e - (q + 4)
    BY <2>2, <2>3, <2>4, <2>5 DEF ReadAt, z
  <2>7. CASE OtherExtension
    <3>1. ~IsSni(h.exts[k])
      BY <2>6, <2>7 DEF OtherExtension, IsSni
    <3>2. pc' = "extension" /\ extEnd' = extEnd /\ offset' = offset + (4 + U16At(offset + 2))
      BY <2>7 DEF OtherExtension, MoveOn
    <3>3. offset' = 9 + e
      BY <2>2, <2>3, <2>6, <3>2
    <3>4. \A j \in 1..k : ~IsSni(h.exts[j])
      <4>1. \A j \in 1..k : j = k \/ j \in 1..(k - 1)
        BY <2>2
      <4> QED
        BY <1>3, <3>1, <4>1
    <3>5. AtExtension(h, b, at)'
      BY <1>4, <2>2, <3>2, <3>3, <3>4 DEF AtExtension, e, n, z, f
    <3> QED
      BY <1>2, <3>5 DEF Walk, InBody
  <2>8. CASE SniExtension
    <3>1. IsSni(h.exts[k])
      BY <2>6, <2>8 DEF SniExtension, IsSni
    <3>2. pc' = "list" /\ offset' = offset + 4
      BY <2>8 DEF SniExtension, MoveOn
    <3>3. FirstSni(h, k)
      BY <1>3, <2>2, <3>1 DEF FirstSni, n
    <3>4. offset' = 13 + q
      BY <2>2, <2>3, <3>2
    <3>5. AtList(h, at)'
      BY <3>2, <3>3, <3>4 DEF AtList, q
    <3> QED
      BY <1>2, <3>5 DEF Walk, InBody
  <2> QED
    BY <1>8, <2>7, <2>8
<1> QED
  BY <1>7, <1>8

\* The length of the list of names leads to the first of them.
LEMMA WalkToNames ==
  ASSUME NEW h, NEW b, NEW at, NEW et, Ground(h, b, at, et), Walk(h, b, at, et),
         ListLength
  PROVE  Walk(h, b, at, et)'
<1>1. AtList(h, at) /\ NoFault(h)
  BY DEF ListLength, Walk, InBody, AtExtension, AtEntry
<1>2. PICK k : FirstSni(h, k) /\ offset = 13 + at[k]
  BY <1>1 DEF AtList
<1> DEFINE z == Size(b)
           a == at[k]
           e == at[k + 1]
           q == a + 4
           d == h.exts[k].data
           t == et[k]
<1>3. ExtensionHere(h, b, at, et, k) /\ IsSni(h.exts[k])
  BY <1>2, ExtensionsAre DEF FirstSni
<1>4. /\ a \in Nat /\ e \in Nat /\ e <= z /\ a + 6 <= e /\ NamesAt(b, a, e, d, t)
  BY <1>3, Zenon DEF ExtensionHere
<1>5. t[1] = a + 6 /\ TwoAt(b, q) = e - (a + 6) /\ Len(d) \in Nat
  BY <1>4, Zenon DEF NamesAt
<1>6. z \in Nat /\ Len(payload) \in Nat
      /\ (Entire(h, b, payload) => Len(payload) >= 9 + z)
  BY GroundIs
<1>7. offset = 13 + a
  BY <1>2
<1> HIDE DEF a, e, d, t
<1>8. offset = 9 + q /\ q \in Nat /\ q + 2 = a + 6 /\ q + 2 <= z
  BY <1>4, <1>6, <1>7
<1> HIDE DEF q, z
<1>9. CASE Short(2)
  <2>1. ~Entire(h, b, payload)
    BY <1>6, <1>8, <1>9 DEF Short
  <2>2. Return(None)
    BY <1>9 DEF ListLength
  <2> QED
    BY <2>1, <2>2, GivesUp
<1>10. CASE ~Short(2)
  <2>1. listEnd' = offset + 2 + U16At(offset) /\ pc' = "entry" /\ offset' = offset + 2
    BY <1>10 DEF ListLength, MoveOn
  <2>2. ReadHere(b, q)
    BY <1>8, HereRead
  <2>3. U16At(offset) = e - (a + 6)
    BY <1>5, <1>8, <1>10, <2>2 DEF ReadHere, z
  <2>4. listEnd' = 9 + e /\ offset' = 9 + t[1]
    BY <1>4, <1>5, <1>8, <2>1, <2>3
  <2>5. 1 \in 1..(Len(d) + 1) /\ 1..(1 - 1) = {}
    BY <1>5
  <2>6. AtEntry(h, at, et)'
    BY <1>2, <2>1, <2>4, <2>5 DEF AtEntry, e, d, t
  <2> QED
    BY <1>1, <2>6 DEF Walk, InBody
<1> QED
  BY <1>9, <1>10

\* The names of a message are bytes.
LEMMA NamesAreNumbers ==
  ASSUME NEW h, IsHello(h), NEW k \in 1..Len(h.exts), IsSni(h.exts[k]),
         NEW l \in 1..Len(h.exts[k].data)
  PROVE  h.exts[k].data[l].name \in Seq(Nat)
<1> DEFINE d == h.exts[k].data
<1>1. h.exts \in Seq(Range(h.exts)) /\ \A ext \in Range(h.exts) : IsExtension(ext)
  BY Zenon DEF IsHello
<1>2. IsExtension(h.exts[k])
  BY <1>1 DEF Range
<1>3. d \in Seq(Range(d)) /\ \A e \in Range(d) : IsEntry(e)
  BY <1>2, Zenon DEF IsExtension
<1> HIDE DEF d
<1>4. IsEntry(d[l])
  BY <1>3 DEF Range, d
<1> QED
  BY <1>4, ValuesAreNumbers, Zenon DEF IsEntry, d

\* In the list a step goes on to the next name, returns the first host name, or
\* ends.
LEMMA WalkThroughNames ==
  ASSUME NEW h, NEW b, NEW at, NEW et, Ground(h, b, at, et), Walk(h, b, at, et),
         OtherEntry \/ HostName \/ NoMoreEntries
  PROVE  Walk(h, b, at, et)'
<1>1. AtEntry(h, at, et) /\ NoFault(h)
  BY DEF OtherEntry, HostName, NoMoreEntries, Walk, InBody, AtExtension, AtList
<1>2. PICK k : /\ FirstSni(h, k) /\ listEnd = 9 + at[k + 1]
               /\ \E l \in 1..(Len(h.exts[k].data) + 1) :
                    /\ offset = 9 + et[k][l]
                    /\ \A j \in 1..(l - 1) : h.exts[k].data[j].type # TLS_SNI_TYPE_HOSTNAME
  BY <1>1 DEF AtEntry
<1> DEFINE z == Size(b)
           e == at[k + 1]
           d == h.exts[k].data
           t == et[k]
           n == Len(d)
<1>3. PICK l \in 1..(n + 1) :
        offset = 9 + t[l] /\ \A j \in 1..(l - 1) : d[j].type # TLS_SNI_TYPE_HOSTNAME
  BY <1>2
<1>4. ExtensionHere(h, b, at, et, k) /\ IsSni(h.exts[k])
  BY <1>2, ExtensionsAre DEF FirstSni
<1>5. /\ e \in Nat /\ e <= z /\ NamesAt(b, at[k], e, d, t)
  BY <1>4, Zenon DEF ExtensionHere
<1>6. /\ n \in Nat /\ t \in [1..(n + 1) -> Nat] /\ t[n + 1] = e
      /\ \A j \in 1..n :
           /\ t[j + 1] = t[j] + 3 + Size(d[j].name) /\ Size(d[j].name) \in Nat
           /\ t[j + 1] <= e /\ EntryAt(b, t[j], d[j])
  BY <1>5, Zenon DEF NamesAt
<1>7. z \in Nat /\ payload \in Seq(Nat) /\ Len(payload) \in Nat
      /\ (Entire(h, b, payload) => Len(payload) >= 9 + z)
  BY GroundIs
<1>8. listEnd = 9 + e
  BY <1>2
<1>9. /\ (\A j \in 1..n : d[j].type # TLS_SNI_TYPE_HOSTNAME) => ServerName(h) = None
      /\ \A j : FirstHost(d, j) => ServerName(h) = d[j].name
  BY <1>1, <1>2, Zenon DEF Ground, NameOf
<1> HIDE DEF e, d, t, n, z
<1> DEFINE q == t[l]
           y == Size(d[l].name)
<1>10. q \in Nat /\ offset = 9 + q
  BY <1>3, <1>6
<1>11. l # n + 1 =>
         /\ l \in 1..n /\ l + 1 \in 1..(n + 1) /\ (l + 1) - 1 = l
         /\ t[l + 1] = q + 3 + y /\ y \in Nat /\ q + 3 + y <= z
         /\ q + 3 + y <= e /\ EntryAt(b, q, d[l])
  <2>1. SUFFICES ASSUME l # n + 1
                 PROVE  /\ l \in 1..n /\ l + 1 \in 1..(n + 1) /\ (l + 1) - 1 = l
                        /\ t[l + 1] = q + 3 + y /\ y \in Nat /\ q + 3 + y <= z
                        /\ q + 3 + y <= e /\ EntryAt(b, q, d[l])
    OBVIOUS
  <2>2. l \in 1..n /\ l + 1 \in 1..(n + 1) /\ (l + 1) - 1 = l
    BY <1>6, <2>1
  <2>3. /\ t[l + 1] = q + 3 + y /\ y \in Nat /\ t[l + 1] <= e /\ EntryAt(b, q, d[l])
    BY <1>6, <2>2
  <2> HIDE DEF q, y
  <2> QED
    BY <1>5, <1>7, <1>10, <2>2, <2>3 DEF z
<1> HIDE DEF q
<1>12. CASE NoMoreEntries
  <2>1. Entire(h, b, payload) => ServerName(h) = None
    <3>1. SUFFICES ASSUME Entire(h, b, payload) PROVE ServerName(h) = None
      OBVIOUS
    <3>2. l = n + 1
      <4>1. SUFFICES ASSUME l # n + 1 PROVE FALSE
        OBVIOUS
      <4> HIDE DEF y
      <4>2. y \in Nat /\ q + 3 + y <= z /\ q + 3 + y <= e
        BY <1>11, <4>1
      <4>3. offset + 3 <= listEnd /\ ~(Len(payload) < offset + 3)
        BY <1>5, <1>7, <1>8, <1>10, <3>1, <4>2
      <4> QED
        BY <1>12, <4>3 DEF NoMoreEntries, MoreEntries, Short
    <3>3. \A j \in 1..n : d[j].type # TLS_SNI_TYPE_HOSTNAME
      BY <1>3, <1>6, <3>2
    <3> QED
      BY <1>9, <3>3
  <2> QED
    BY <1>12, <2>1, GivesUp DEF NoMoreEntries
<1>13. CASE OtherEntry \/ HostName
  <2>1. offset + 3 <= listEnd /\ ~(Len(payload) < offset + 3)
    BY <1>13 DEF OtherEntry, HostName, MoreEntries, Short
  <2>2. l # n + 1
    <3>1. SUFFICES ASSUME l = n + 1 PROVE FALSE
      OBVIOUS
    <3>2. q = e
      BY <1>6, <3>1 DEF q
    <3> QED
      BY <1>5, <1>8, <1>10, <2>1, <3>2
  <2>3. /\ l \in 1..n /\ l + 1 \in 1..(n + 1) /\ (l + 1) - 1 = l
        /\ t[l + 1] = q + 3 + y /\ y \in Nat /\ q + 3 + y <= z
        /\ EntryAt(b, q, d[l])
    BY <1>11, <2>2
  <2> HIDE DEF y
  <2>4. /\ b[q + 1] = d[l].type /\ TwoAt(b, q + 1) = y
        /\ \A i \in 1..y : b[(q + 3) + i] = d[l].name[i]
    BY <2>3 DEF EntryAt, y
  <2>5. ReadAt(b, q) /\ ReadAt(b, q + 1)
    BY <1>10, GroundIs
  <2>6. /\ q + 1 <= z /\ (q + 1) + 2 <= z /\ ~(Len(payload) < 9 + q + 1)
        /\ ~(Len(payload) < 9 + (q + 1) + 2) /\ 9 + (q + 1) = offset + 1
    BY <1>7, <1>10, <2>1, <2>3
  <2>7. Byte(offset) = d[l].type /\ U16At(offset + 1) = y
    BY <1>10, <2>4, <2>5, <2>6 DEF ReadAt, z
  <2>8. CASE OtherEntry
    <3>1. d[l].type # TLS_SNI_TYPE_HOSTNAME
      BY <2>7, <2>8 DEF OtherEntry
    <3>2. pc' = "entry" /\ listEnd' = listEnd /\ offset' = offset + (3 + U16At(offset + 1))
      BY <2>8 DEF OtherEntry, MoveOn
    <3>3. offset' = 9 + t[l + 1]
      BY <1>10, <2>3, <2>7, <3>2
    <3>4. \A j \in 1..l : d[j].type # TLS_SNI_TYPE_HOSTNAME
      <4>1. \A j \in 1..l : j = l \/ j \in 1..(l - 1)
        BY <2>3
      <4> QED
        BY <1>3, <3>1, <4>1
    <3>5. AtEntry(h, at, et)'
      BY <1>2, <1>8, <2>3, <3>2, <3>3, <3>4 DEF AtEntry, e, d, t, n
    <3> QED
      BY <1>1, <3>5 DEF Walk, InBody
  <2>9. CASE HostName
    <3> DEFINE g == d[l].name
    <3>1. FirstHost(d, l)
      BY <1>3, <2>3, <2>7, <2>9 DEF HostName, FirstHost, n
    <3>2. ServerName(h) = g
      BY <1>9, <3>1
    <3>3. CASE Short(3 + y)
      <4>1. ~Entire(h, b, payload)
        BY <1>7, <1>10, <2>3, <3>3 DEF Short
      <4>2. Return(None)
        BY <2>7, <2>9, <3>3 DEF HostName
      <4> QED
        BY <4>1, <4>2, GivesUp
    <3>4. CASE ~Short(3 + y)
      <4>1. Return(Slice(offset + 3, y))
        BY <2>7, <2>9, <3>4 DEF HostName
      <4>2. Slice(offset + 3, y) = g
        <5> DEFINE o == offset + 3
        <5>1. o \in Nat /\ o + y <= Len(payload) /\ o = 9 + (q + 3)
          BY <1>7, <1>10, <2>3, <3>4 DEF Short
        <5>2. g \in Seq(Nat) /\ Len(g) = y
          <6>1. g \in Seq(Nat)
            BY <1>2, <1>4, <2>3, NamesAreNumbers DEF d, n, FirstSni, Ground
          <6> QED
            BY <6>1 DEF y, Size
        <5>3. \A i \in 1..y : payload[o + i] = g[i]
          <6>1. ASSUME NEW i \in 1..y PROVE payload[o + i] = g[i]
            <7>1. \A j \in 1..z : 9 + j <= Len(payload) => payload[9 + j] = b[j]
              BY <1>7 DEF Ground, Reads, Size, z
            <7>2. (q + 3) + i \in 1..z /\ 9 + ((q + 3) + i) = o + i /\ o + i <= Len(payload)
              BY <1>7, <1>10, <2>3, <5>1
            <7>3. payload[9 + ((q + 3) + i)] = b[(q + 3) + i]
              BY <7>1, <7>2
            <7> QED
              BY <2>4, <7>2, <7>3
          <6> QED
            BY <6>1
        <5> HIDE DEF o, g
        <5>4. SubSeq(payload, o + 1, o + y) \in Seq(Nat)
              /\ Len(SubSeq(payload, o + 1, o + y)) = y
              /\ \A i \in 1..y : SubSeq(payload, o + 1, o + y)[i] = payload[o + i]
          BY <1>7, <2>3, <5>1, SliceIs, Zenon
        <5> DEFINE u == SubSeq(payload, o + 1, o + y)
        <5>5. Slice(o, y) = u
          BY <5>1 DEF Slice
        <5>6. u \in Seq(Nat) /\ Len(u) = y /\ \A i \in 1..y : u[i] = g[i]
          BY <5>3, <5>4
        <5> HIDE DEF u
        <5>7. u = g
          BY <5>2, <5>6
        <5> QED
          BY <5>5, <5>7 DEF o
      <4>3. pc' = "done" /\ name' = g
        BY <4>1, <4>2 DEF Return
      <4> QED
        BY <3>2, <4>3 DEF Walk
    <3> QED
      BY <3>3, <3>4
  <2> QED
    BY <1>13, <2>8, <2>9
<1> QED
  BY <1>12, <1>13

\* Where the message h is read, the extractor is on its way through it.
Follows(h) ==
  Fault(h, "name") = 0 /\ Reads(h, EncodeBody(h), payload)
    => \E at, et : Layout(h, EncodeBody(h), at, et) /\ Walk(h, EncodeBody(h), at, et)

\* A message with its layout, in a payload, is a ground to walk on.
LEMMA GroundStands ==
  ASSUME NEW h, IsHello(h), NEW b, NEW at, NEW et, Layout(h, b, at, et), Reads(h, b, payload)
  PROVE  Ground(h, b, at, et)
<1>1. /\ \A f : Fault(h, f) \in Nat
      /\ \A f : h.fault # f => Fault(h, f) = 0
      /\ \A f : h.fault = f /\ f # "none" => Fault(h, f) > 0
  BY FaultsAre
<1>2. NoFault(h) <=> Fault(h, "record") = 0 /\ Fault(h, "message") = 0
  BY <1>1 DEF NoFault
<1>3. NameOf(h)
  BY NameOfHello
<1> QED
  BY <1>1, <1>2, <1>3, Zenon DEF Ground

\* Every step of the extractor goes on from where it is.
LEMMA WalkStep ==
  ASSUME NEW h, NEW b, NEW at, NEW et, Ground(h, b, at, et), Walk(h, b, at, et), Next
  PROVE  Walk(h, b, at, et)'
<1>1. CASE RecordHeader \/ HandshakeHeader
  BY <1>1, WalkThroughHeaders
<1>2. CASE VersionAndRandom \/ SessionId \/ CipherSuites \/ CompressionMethods
  BY <1>2, WalkThroughFields
<1>3. CASE ExtensionsLength
  BY <1>3, WalkToExtensions
<1>4. CASE OtherExtension \/ SniExtension \/ NoMoreExtensions
  BY <1>4, WalkThroughExtensions
<1>5. CASE ListLength
  BY <1>5, WalkToNames
<1>6. CASE OtherEntry \/ HostName \/ NoMoreEntries
  BY <1>6, WalkThroughNames
<1> QED
  BY <1>1, <1>2, <1>3, <1>4, <1>5, <1>6 DEF Next

\* So it stays on its way through the message.
LEMMA FollowsOn ==
  ASSUME NEW h, IsHello(h), Follows(h), Next
  PROVE  Follows(h)'
<1> DEFINE b == EncodeBody(h)
<1>1. Reads(h, b, payload)' => Reads(h, b, payload)
  BY NextKeepsPayload, Zenon
<1>2. SUFFICES ASSUME Fault(h, "name") = 0, Reads(h, b, payload)
               PROVE  \E at, et : Layout(h, b, at, et) /\ Walk(h, b, at, et)'
  BY <1>1, Zenon DEF Follows
<1>3. PICK at, et : Layout(h, b, at, et) /\ Walk(h, b, at, et)
  BY <1>2, Zenon DEF Follows
<1>4. Ground(h, b, at, et)
  BY <1>2, <1>3, GroundStands, Zenon
<1>5. Walk(h, b, at, et)'
  BY <1>3, <1>4, WalkStep, Zenon
<1> QED
  BY <1>3, <1>5, Zenon

\* The way begins where the extractor starts.
LEMMA FollowsFirst ==
  ASSUME NEW h, IsHello(h)
  PROVE  /\ pc = "record" /\ offset = 0 => Follows(h)
         /\ pc' = "record" /\ offset' = 0 => Follows(h)'
<1> DEFINE b == EncodeBody(h)
<1>1. Fault(h, "name") = 0 => \E at, et : Layout(h, b, at, et)
  BY BodyIs, Zenon
<1>2. \A at, et : pc = "record" /\ offset = 0 => Walk(h, b, at, et)
  BY Zenon DEF Walk
<1>3. \A at, et : pc' = "record" /\ offset' = 0 => Walk(h, b, at, et)'
  BY Zenon DEF Walk
<1> QED
  BY <1>1, <1>2, <1>3, Zenon DEF Follows

\* A message that is all there, and correct but for its types.
Correct(h) == h.fault \in {"none", "record", "message"}

\* With nothing behind it the message is read as far as it has arrived, and with
\* nothing missing it is read whole.
LEMMA MessageArrives ==
  ASSUME NEW w, IsFrame(w), w.body.kind = "hello", NEW h, h = w.body.hello
  PROVE  /\ IsHello(h) /\ Size(EncodeBody(h)) \in Nat
         /\ h.trail = 0 /\ Size(Padding(w)) = 0 => Reads(h, EncodeBody(h), Content(w))
         /\ w.cut = 0 /\ Correct(h) =>
              Reads(h, EncodeBody(h), Content(w)) /\ Entire(h, EncodeBody(h), Content(w))
<1> DEFINE r  == Record(h)
           p  == Content(w)
           b  == EncodeBody(h)
           z  == Size(b)
           sh == Fault(h, "short")
<1>1. IsHello(h) /\ IsRecord(r, h) /\ Arrives(p, r, w, h)
  BY HelloArrives, Zenon
<1>2. /\ \A f : Fault(h, f) \in Nat
      /\ \A f : h.fault # f => Fault(h, f) = 0
  BY <1>1, FaultsAre
<1>3. z \in Nat
  <2>1. b \in Seq(Nat)
    BY <1>1, HelloIsBytes, Zenon DEF PartsAreBytes
  <2> QED
    BY <2>1 DEF Size
<1> HIDE DEF r, p, b
<1>4. /\ r[1] = TLS_CONTENT_TYPE_HANDSHAKE + Fault(h, "record")
      /\ 256 * r[4] + r[5] = Size(r) - 5
      /\ Size(r) \in Nat /\ Size(r) >= 5
      /\ Size(r) = IF sh <= 4 + z THEN 9 + z - sh ELSE 5
      /\ Size(r) >= 6 => r[6] = TLS_HANDSHAKE_TYPE_CLIENT_HELLO + Fault(h, "message")
      /\ Size(r) >= 9 =>
           256 * (256 * r[7] + r[8]) + r[9] = MessageLength(h) + Fault(h, "handshake")
      /\ \A i \in 1..z : 9 + i <= Size(r) => r[9 + i] = b[i]
  BY <1>1, Zenon DEF IsRecord, b
<1>5. p \in Seq(Nat) /\ Size(p) \in Nat
  BY <1>1 DEF Arrives
<1>6. MessageLength(h) = IF sh < z THEN z - sh ELSE 0
  BY DEF MessageLength, Size, b
<1>7. sh \in Nat
  BY <1>2
<1> DEFINE a == Size(r)
           n == Size(p)
<1> HIDE DEF z, sh, a, n
<1>8. a <= 9 + z
  BY <1>3, <1>4, <1>7 DEF a
<1>9. ASSUME NEW m \in Nat, m <= n, m <= a, n <= m \/ m = a,
             n <= 9 + z \/ Fault(h, "extensions") = 0, n <= m \/ a = 9 + z,
             \A i \in 1..m : p[i] = r[i]
      PROVE  Reads(h, b, p)
  <2>1. a \in Nat /\ n \in Nat /\ a >= 5
    BY <1>4, <1>5 DEF a, n
  <2>2. n >= 1 => p[1] = r[1]
    <3>1. n >= 1 => 1 \in 1..m
      BY <1>9, <2>1
    <3> QED
      BY <1>9, <3>1
  <2>3. n >= 6 => p[6] = TLS_HANDSHAKE_TYPE_CLIENT_HELLO + Fault(h, "message")
    <3>1. n >= 6 => 6 \in 1..m /\ a >= 6
      BY <1>3, <1>9, <2>1
    <3> QED
      BY <1>4, <1>9, <3>1 DEF a
  <2>4. \A i \in 1..z : 9 + i <= n => p[9 + i] = b[i]
    <3>1. ASSUME NEW i \in 1..z, 9 + i <= n PROVE p[9 + i] = b[i]
      <4>1. 9 + i \in 1..m /\ 9 + i <= a
        BY <1>3, <1>9, <2>1, <3>1
      <4> QED
        BY <1>4, <1>9, <4>1 DEF a
    <3> QED
      BY <3>1
  <2> QED
    BY <1>4, <1>5, <1>9, <2>2, <2>3, <2>4 DEF Reads, n, z
<1>10. ASSUME h.trail = 0, Size(Padding(w)) = 0 PROVE Reads(h, b, p)
  <2>1. n <= a /\ \A i \in 1..n : p[i] = r[i]
    BY <1>1, <1>10, Zenon DEF Arrives, a, n
  <2>2. a \in Nat /\ n \in Nat
    BY <1>4, <1>5 DEF a, n
  <2>3. n <= n /\ n <= 9 + z
    BY <1>3, <1>8, <2>1, <2>2
  <2> QED
    BY <1>9, <2>1, <2>2, <2>3
<1>11. ASSUME w.cut = 0, Correct(h) PROVE Reads(h, b, p) /\ Entire(h, b, p)
  <2>1. h.fault \notin {"cut", "short", "handshake", "extensions"}
    BY <1>11 DEF Correct
  <2>2. Fault(h, "short") = 0 /\ Fault(h, "handshake") = 0 /\ Fault(h, "extensions") = 0
    BY <1>2, <2>1
  <2>3. n >= a /\ \A i \in 1..a : p[i] = r[i]
    BY <1>1, <1>11, <2>1, Zenon DEF Arrives, a, n
  <2>4. a = 9 + z
    BY <1>3, <1>4, <2>2 DEF a, sh
  <2>5. a \in Nat /\ n \in Nat
    BY <1>4, <1>5 DEF a, n
  <2>6. a <= n /\ a <= a
    BY <2>3, <2>5
  <2>7. Reads(h, b, p)
    BY <1>9, <2>2, <2>3, <2>4, <2>5, <2>6
  <2>8. MessageLength(h) + Fault(h, "handshake") = z
    BY <1>3, <1>6, <2>2 DEF sh
  <2>9. a - 5 = 4 + z /\ a >= 9 /\ n >= 9 + z
    BY <1>3, <2>3, <2>4, <2>5
  <2>10. 4 \in 1..a /\ 5 \in 1..a /\ 7 \in 1..a /\ 8 \in 1..a /\ 9 \in 1..a
    BY <2>5, <2>9
  <2>11. p[4] = r[4] /\ p[5] = r[5] /\ p[7] = r[7] /\ p[8] = r[8] /\ p[9] = r[9]
    BY <2>3, <2>10
  <2>12. 256 * r[4] + r[5] = 4 + z
    BY <1>4, <2>9 DEF a
  <2>13. 256 * (256 * r[7] + r[8]) + r[9] = z
    BY <1>4, <2>8, <2>9 DEF a
  <2>14. Entire(h, b, p)
    BY <2>2, <2>9, <2>11, <2>12, <2>13, ZenonT(30) DEF Entire, n, z
  <2> QED
    BY <2>7, <2>14
<1> QED
  BY <1>1, <1>3, <1>10, <1>11 DEF b, p, z

\* What holds on the way to the name in a Client Hello.
OnTrack == Carries("hello") => Follows(Hello)
WalkInv == NamesInv /\ OnTrack

\* The frame and the message in it are constant.
LEMMA HelloKept ==
  ASSUME NamesInv, Carries("hello")
  PROVE  IsFrame(wire) /\ IsHello(Hello)
<1>1. IsFrame(wire)
  BY DEF NamesInv, VerdictInv, KnowsHeaders
<1> QED
  BY <1>1, Zenon DEF Carries, Hello, IsFrame

\* At first the extractor has not gone anywhere.
LEMMA WalkInit == DissectionInit => WalkInv
<1> SUFFICES ASSUME DissectionInit PROVE WalkInv
  OBVIOUS
<1>1. NamesInv
  BY NamesInit
<1>2. pc = "record" /\ offset = 0
  BY DEF DissectionInit, Start
<1> QED
  BY <1>1, <1>2, HelloKept, FollowsFirst, Zenon DEF WalkInv, OnTrack

\* Every step of the engine keeps the extractor on its way.
LEMMA WalkInvStep ==
  ASSUME WalkInv, [DissectionNext]_dissectionVars
  PROVE  WalkInv'
<1>1. NamesInv /\ OnTrack /\ ExtractorCalled
  BY DEF WalkInv, NamesInv
<1>2. NamesInv'
  BY <1>1, NamesStep
<1>3. wire' = wire
  BY <1>1, KnowsStep DEF NamesInv, VerdictInv
<1>4. SUFFICES ASSUME Carries("hello") PROVE Follows(Hello)'
  BY <1>2, <1>3 DEF WalkInv, OnTrack, Carries
<1> DEFINE g == wire.body.hello
<1>5. PICK h : h = g
  OBVIOUS
<1>6. IsHello(h) /\ Follows(h)
  BY <1>1, <1>4, <1>5, HelloKept, Zenon DEF OnTrack, Hello
<1>7. Follows(h)'
  <2>1. CASE UNCHANGED vars
    <3>1. payload' = payload /\ pc' = pc /\ offset' = offset /\ extEnd' = extEnd
          /\ listEnd' = listEnd /\ name' = name
      BY <2>1 DEF vars
    <3>2. \A at, et : Walk(h, EncodeBody(h), at, et)' <=> Walk(h, EncodeBody(h), at, et)
      BY <3>1 DEF Walk, InBody, AtExtension, AtList, AtEntry, None, Entire
    <3> QED
      BY <1>6, <3>1, <3>2, Zenon DEF Follows
  <2>2. CASE TryTls
    <3>1. pc = "record" /\ offset = 0
      BY <1>1, <2>2 DEF TryTls, HasPort, ExtractorCalled
    <3>2. pc' = "record" /\ offset' = 0
      BY <2>2, <3>1 DEF TryTls
    <3> QED
      BY <1>6, <3>2, FollowsFirst
  <2>3. CASE Extract
    BY <1>6, <2>3, FollowsOn DEF Extract
  <2>4. UNCHANGED vars \/ TryTls \/ Extract
    BY DEF DissectionNext, DissectionStep, Dissected, dissectionVars, Configure, ParseFrame,
           NotParsed, NoPorts, Pass, TryHttp, TryNothing, Extracted, Judge
  <2> QED
    BY <2>1, <2>2, <2>3, <2>4
<1>8. Hello' = h
  BY <1>3, <1>5 DEF Hello
<1> QED
  BY <1>7, <1>8

\* Of a Client Hello that is read, the host name is shown or none, and if it is
\* read whole, its host name.
LEMMA WalkShows ==
  ASSUME WalkInv, Judged, Carries("hello"), SeeksTls(wire), Fault(Hello, "name") = 0,
         Reads(Hello, EncodeBody(Hello), Content(wire))
  PROVE  /\ shown \in {NoName, Decode(NameIn(wire))}
         /\ Entire(Hello, EncodeBody(Hello), Content(wire)) => shown = Decode(NameIn(wire))
<1> DEFINE s == ServerName(Hello)
<1>1. /\ payload = Content(wire) /\ pc = "done"
      /\ shown = IF name = None THEN NoName ELSE Decode(name)
  BY DEF WalkInv, NamesInv, ExtractorCalled, NameShown
<1>2. PICK at, et : Walk(Hello, EncodeBody(Hello), at, et)
  BY <1>1, Zenon DEF WalkInv, OnTrack, Follows
<1>3. /\ name = None \/ name = s
      /\ Entire(Hello, EncodeBody(Hello), Content(wire)) => name = s
  BY <1>1, <1>2 DEF Walk, InBody, AtExtension, AtList, AtEntry
<1>4. NameIn(wire) = IF s = None THEN <<>> ELSE s
  BY DEF NameIn, SeeksTls, Carries, Hello
<1>5. Decode(<<>>) = NoName
  BY DEF Decode, NoName
<1> HIDE DEF s
<1> QED
  BY <1>1, <1>3, <1>4, <1>5

\* Where neither extractor finds anything, no name is shown.
LEMMA OthersShowNothing ==
  ASSUME WalkInv, Judged, ~SeeksTls(wire), ~Carries("request")
  PROVE  shown = NoName
<1>1. IsFrame(wire) /\ NameShown
  BY DEF WalkInv, NamesInv, VerdictInv, KnowsHeaders, ExtractorCalled
<1>2. CASE SeeksHttp(wire)
  <2> DEFINE p == Content(wire)
  <2>1. p \in Seq(Nat) /\ shown = HttpHost(p)
    BY <1>1, <1>2, ContentIsBytes, Zenon DEF NameShown
  <2>2. p # <<>> => p[1] # METHOD
    <3>1. wire.body.kind \in {"hello", "raw"}
      BY <1>1 DEF IsFrame, Carries
    <3>2. p # <<>> => p[1] \in U8Values \/ p[1] = 0
      BY <1>1, <3>1, ContentBegins, Zenon
    <3>3. (\A x \in U8Values : x # METHOD) /\ 0 # METHOD
      BY DEF U8Values, METHOD
    <3> HIDE DEF p
    <3> QED
      BY <3>2, <3>3
  <2> HIDE DEF p
  <2>3. HttpHost(p) = NoHost
    BY <2>1, <2>2, NoHostFound, Zenon
  <2> QED
    BY <2>1, <2>3 DEF NoHost, NoName
<1>3. CASE ~SeeksHttp(wire)
  BY <1>1, <1>3 DEF NameShown
<1> QED
  BY <1>2, <1>3

\* In padding there is no room for a Client Hello.
LEMMA PaddedIsBarren ==
  ASSUME IsFrame(wire), payload = Content(wire), SeeksTls(wire), Carries("hello"),
         Size(Padding(wire)) # 0
  PROVE  Barren
<1>1. Arrives(payload, Record(Hello), wire, Hello)
  BY HelloArrives, Zenon DEF Carries, Hello
<1>2. Size(payload) <= 18 /\ payload \in Seq(Nat)
  BY <1>1, Zenon DEF Arrives, SeeksTls
<1> QED
  BY <1>2 DEF Barren, Size

\* A part of a host name is never taken for one.
LEMMA WholeNameOnly == WalkInv => NeverPartOfName
<1> SUFFICES ASSUME WalkInv, Judged, Carries("hello"), Hello.fault # "name", Hello.trail = 0
             PROVE  shown \in {NoName, Decode(NameIn(wire))}
  BY DEF NeverPartOfName
<1>1. NamesInv /\ IsFrame(wire) /\ IsHello(Hello)
  BY HelloKept DEF WalkInv
<1>2. CASE ~SeeksTls(wire)
  <2>1. ~Carries("request")
    BY DEF Carries
  <2> QED
    BY <1>2, <2>1, OthersShowNothing
<1>3. CASE SeeksTls(wire) /\ Size(Padding(wire)) # 0
  <2>1. payload = Content(wire) => Barren
    BY <1>1, <1>3, PaddedIsBarren
  <2> QED
    BY <1>1, <1>3, <2>1, BarrenShowsNothing
<1>4. CASE SeeksTls(wire) /\ Size(Padding(wire)) = 0
  <2>1. Reads(Hello, EncodeBody(Hello), Content(wire))
    BY <1>1, <1>4, MessageArrives, Zenon DEF Carries, Hello
  <2>2. Fault(Hello, "name") = 0
    BY <1>1, FaultsAre
  <2> QED
    BY <1>4, <2>1, <2>2, WalkShows
<1> QED
  BY <1>2, <1>3, <1>4

\* In what is whole and correct the host name is found.
LEMMA NameIsFound == WalkInv => FindsName
<1> SUFFICES ASSUME WalkInv, Judged, wire.cut = 0,
                    Carries("hello") => Hello.fault \in {"none", "record", "message"},
                    Carries("request") => Plain(Request)
             PROVE  shown = Decode(NameIn(wire))
  BY DEF FindsName
<1>1. NamesInv /\ IsFrame(wire)
  BY DEF WalkInv, NamesInv, VerdictInv, KnowsHeaders
<1>2. Decode(<<>>) = NoName
  BY DEF Decode, NoName
<1>3. CASE Carries("request")
  BY <1>1, <1>3, RequestShowsName
<1>4. CASE Carries("raw")
  <2>1. NameIn(wire) = <<>> /\ ~Carries("request") /\ wire.body.kind # "hello"
    BY <1>4 DEF NameIn, Carries
  <2>2. shown = NoName
    <3>1. CASE SeeksTls(wire)
      <4>1. payload = Content(wire) => Barren
        BY <1>1, <2>1, OthersAreBarren
      <4> QED
        BY <1>1, <3>1, <4>1, BarrenShowsNothing
    <3> QED
      BY <2>1, <3>1, OthersShowNothing
  <2> QED
    BY <1>2, <2>1, <2>2
<1>5. CASE Carries("hello")
  <2>1. Correct(Hello)
    BY <1>5 DEF Correct
  <2>2. /\ IsHello(Hello) /\ Size(EncodeBody(Hello)) \in Nat
        /\ Reads(Hello, EncodeBody(Hello), Content(wire))
        /\ Entire(Hello, EncodeBody(Hello), Content(wire))
    BY <1>1, <1>5, <2>1, MessageArrives, Zenon DEF Carries, Hello
  <2>3. Fault(Hello, "name") = 0
    <3>1. Hello.fault # "name"
      BY <2>1 DEF Correct
    <3> QED
      BY <2>2, <3>1, FaultsAre
  <2>4. CASE SeeksTls(wire)
    BY <1>5, <2>2, <2>3, <2>4, WalkShows
  <2>5. CASE ~SeeksTls(wire)
    <3>1. Len(Content(wire)) >= 6
      <4> DEFINE z == Size(EncodeBody(Hello))
                 n == Size(Content(wire))
      <4>1. z \in Nat /\ n >= 9 + z /\ Content(wire) \in Seq(Nat)
        BY <2>2, Zenon DEF Entire, Reads
      <4>2. n \in Nat /\ n = Len(Content(wire))
        BY <4>1 DEF Size
      <4> HIDE DEF z, n
      <4> QED
        BY <4>1, <4>2
    <3>2. NameIn(wire) = <<>> /\ ~Carries("request")
      BY <1>5, <2>5, <3>1 DEF NameIn, SeeksTls, Carries
    <3>3. shown = NoName
      BY <2>5, <3>2, OthersShowNothing
    <3> QED
      BY <1>2, <3>2, <3>3
  <2> QED
    BY <2>4, <2>5
<1>6. Carries("request") \/ Carries("raw") \/ Carries("hello")
  BY <1>1 DEF IsFrame, Carries
<1> QED
  BY <1>3, <1>4, <1>5, <1>6

\* Wherever a Client Hello ends and whatever its outer lengths say, the name that
\* is shown is all of its host name or nothing.
THEOREM EveryNameIsWhole == DissectionSpec => []NeverPartOfName
<1>1. DissectionInit => WalkInv
  BY WalkInit
<1>2. WalkInv /\ [DissectionNext]_dissectionVars => WalkInv'
  BY WalkInvStep
<1>3. WalkInv => NeverPartOfName
  BY WholeNameOnly
<1> QED
  BY <1>1, <1>2, <1>3, PTL DEF DissectionSpec

\* The host name of a Client Hello that is whole and correct is found, wherever
\* it stands, and so is that of a plain request; none is found where there is none.
THEOREM FindsEveryName == DissectionSpec => []FindsName
<1>1. DissectionInit => WalkInv
  BY WalkInit
<1>2. WalkInv /\ [DissectionNext]_dissectionVars => WalkInv'
  BY WalkInvStep
<1>3. WalkInv => FindsName
  BY NameIsFound
<1> QED
  BY <1>1, <1>2, <1>3, PTL DEF DissectionSpec

=============================================================================
