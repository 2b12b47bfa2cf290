---------------------------- MODULE PacketParser ----------------------------
(***************************************************************************)
(* Parsing a captured frame (PacketParser.parse in packet_parser.py): one  *)
(* step per header, each at an offset that the headers before it give.     *)
(*                                                                         *)
(* Offsets count from 0, as in the code; the sequence frame from 1.  An    *)
(* address is the list of the numbers in its dotted form, which is what    *)
(* _ip_to_str makes of it.  MAC addresses, the time to live, sequence      *)
(* numbers and flags are copied by the code and used by nobody.            *)
(***************************************************************************)
EXTENDS Integers, Sequences

ETHERNET_HEADER_SIZE == 14
IPV4_MIN_HEADER_SIZE == 20
TCP_MIN_HEADER_SIZE  == 20
UDP_HEADER_SIZE      == 8

ETHERTYPE_IPV4 == 2048
PROTO_TCP      == 6
PROTO_UDP      == 17

VARIABLES
  frame,   \* raw.data
  stage,   \* the header that comes next, or "parsed" or "rejected"
  parsed,  \* the fields of ParsedPacket that the engines use
  reach    \* history: where the reads of the last step can have ended

parserVars == <<frame, stage, parsed, reach>>

\* The defaults of ParsedPacket; no ports while neither has_tcp nor has_udp.
Unparsed ==
  [src |-> <<>>, dst |-> <<>>, protocol |-> 0, ports |-> <<>>, payload |-> <<>>]

ParserStart == stage = "ethernet" /\ parsed = Unparsed /\ reach = 0

\* The tests "len(data) < n".
Lacks(n) == Len(frame) < n

\* data[o], data[o : o + n], and struct.unpack_from(">H", data, o).
Octet(o)     == IF o < Len(frame) THEN frame[o + 1] ELSE 0
Octets(o, n) == SubSeq(frame, o + 1, o + n)
Word(o)      == 256 * Octet(o) + Octet(o + 1)

IpHeaderLen     == 4 * (Octet(ETHERNET_HEADER_SIZE) % 16)
TransportOffset == ETHERNET_HEADER_SIZE + IpHeaderLen

Reject(n) ==
  /\ stage' = "rejected"
  /\ reach' = n
  /\ UNCHANGED <<frame, parsed>>

Ethernet ==
  /\ stage = "ethernet"
  /\ \/ Lacks(ETHERNET_HEADER_SIZE) /\ Reject(0)
     \/ /\ ~Lacks(ETHERNET_HEADER_SIZE)
        /\ \/ Word(12) # ETHERTYPE_IPV4 /\ Reject(ETHERNET_HEADER_SIZE)
           \/ /\ Word(12) = ETHERTYPE_IPV4
              /\ stage' = "ip"
              /\ reach' = ETHERNET_HEADER_SIZE
              /\ UNCHANGED <<frame, parsed>>

\* An IPv4 header that is there with all its options.
WholeIpHeader ==
  /\ Octet(ETHERNET_HEADER_SIZE) \div 16 = 4
  /\ IpHeaderLen >= IPV4_MIN_HEADER_SIZE
  /\ ~Lacks(TransportOffset)

\* Nothing is made of the total length, but to count bytes.
IPv4 ==
  LET ip  == ETHERNET_HEADER_SIZE
      end == ip + IPV4_MIN_HEADER_SIZE
  IN  /\ stage = "ip"
      /\ \/ Lacks(end) /\ Reject(0)
         \/ ~Lacks(end) /\ ~WholeIpHeader /\ Reject(end)
         \/ /\ ~Lacks(end) /\ WholeIpHeader
            /\ parsed' = [parsed EXCEPT !.protocol = Octet(ip + 9),
                                        !.src = Octets(ip + 12, 4),
                                        !.dst = Octets(ip + 16, 4)]
            /\ stage' = CASE Octet(ip + 9) = PROTO_TCP -> "tcp"
                          [] Octet(ip + 9) = PROTO_UDP -> "udp"
                          [] OTHER -> "parsed"
            /\ reach' = end
            /\ UNCHANGED frame

\* Mutant: the test forgets the options of the IP header.
TransportMutant(here, least, size) ==
  /\ stage = here
  /\ \/ Lacks(ETHERNET_HEADER_SIZE + IPV4_MIN_HEADER_SIZE + least) /\ Reject(0)
     \/ /\ ~Lacks(ETHERNET_HEADER_SIZE + IPV4_MIN_HEADER_SIZE + least)
        /\ parsed' = [parsed EXCEPT
             !.ports   = <<Word(TransportOffset), Word(TransportOffset + 2)>>,
             !.payload = SubSeq(frame, TransportOffset + size + 1, Len(frame))]
        /\ stage' = "parsed"
        /\ reach' = TransportOffset + least
        /\ UNCHANGED frame

\* A transport header of at least "least" bytes, and the payload behind its
\* "size" bytes: all the rest of the frame, padding included.
Transport(here, least, size) ==
  /\ stage = here
  /\ \/ Lacks(TransportOffset + least) /\ Reject(0)
     \/ /\ ~Lacks(TransportOffset + least)
        /\ parsed' = [parsed EXCEPT
             !.ports   = <<Word(TransportOffset), Word(TransportOffset + 2)>>,
             !.payload = SubSeq(frame, TransportOffset + size + 1, Len(frame))]
        /\ stage' = "parsed"
        /\ reach' = TransportOffset + least
        /\ UNCHANGED frame

\* Mutant: a data offset that is too small is believed.
TcpHeaderLenMutant == 4 * (Octet(TransportOffset + 12) \div 16)

TcpHeaderLen ==
  LET len == 4 * (Octet(TransportOffset + 12) \div 16)
  IN  IF len < TCP_MIN_HEADER_SIZE THEN TCP_MIN_HEADER_SIZE ELSE len

Tcp == Transport("tcp", TCP_MIN_HEADER_SIZE, TcpHeaderLen)
Udp == Transport("udp", UDP_HEADER_SIZE, UDP_HEADER_SIZE)

Parse == Ethernet \/ IPv4 \/ Tcp \/ Udp

-----------------------------------------------------------------------------
(* The parser by itself, on any frame *)

ParserSpec ==
  /\ frame \in Seq(0..255) /\ ParserStart
  /\ [][Parse]_parserVars

(***************************************************************************)
(* No byte is read behind the end of the frame, where Python would raise   *)
(* and end the reader: neither options that the header announces nor a     *)
(* frame that the capture has cut lead the parser there.                   *)
(***************************************************************************)
NoReadPastFrame == reach <= Len(frame)

=============================================================================
