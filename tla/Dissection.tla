------------------------------ MODULE Dissection ----------------------------
(***************************************************************************)
(* From the bytes of a frame to the verdict on it: the rules are added,    *)
(* the frame is parsed, the extractor for its port looks for a host name,  *)
(* and the classifier and the rules of FastPath decide.  The frame is the  *)
(* first of its flow.  The models of the engines start from what is found  *)
(* here: the record Packet.                                                *)
(***************************************************************************)
EXTENDS PacketParser, RuleTable, Frames

CONSTANTS
  Cases,    \* pairs of a frame (see Frames) and the arguments for the rules
  Spelling  \* words and their characters: domain rules and keywords of names

VARIABLES
  wire,     \* the frame before its parts became bytes
  given,    \* the arguments for the rules before any was added
  phase,    \* "rules", "parse", "tls", "judge" or "done"
  shown,    \* the name in the packet, decoded; the empty string if None
  flow,     \* the Flow after the packet
  verdict   \* "none", "skip" (not parsed), "forward" or "drop"

dissectionVars == <<parserVars, ruleVars, vars, wire, given, phase, shown, flow, verdict>>

NoName == <<>>

\* make_five_tuple
FiveTuple ==
  IF parsed.ports = <<>> THEN NoName
  ELSE [src |-> StrToIp(parsed.src), dst |-> StrToIp(parsed.dst),
        ports |-> parsed.ports, protocol |-> parsed.protocol]

IsSubText(s, t) ==
  \E i \in 0..(Len(t) - Len(s)) : SubSeq(t, i + 1, i + Len(s)) = s

WordsIn(text) == {w \in DOMAIN Spelling : IsSubText(Spelling[w], Lower(text))}

\* The engines' rules and classifier, about this packet.
Engine == INSTANCE FastPath WITH
  Tuples  <- {FiveTuple},
  NoTuple <- NoName,
  SrcIp   <- [t \in {FiveTuple} |-> t.src],
  DstPort <- [t \in {FiveTuple} |-> t.ports[2]],
  Hash    <- [t \in {FiveTuple} |-> 0],
  Names   <- {shown} \ {NoName},
  Within  <- [n \in {shown, NoName} |-> WordsIn(n)],
  Inputs  <- {},
  Rules   <- [ips |-> ips, apps |-> apps,
              domains |-> {w \in DOMAIN Spelling : Spelling[w] \in domains}]

\* Arguments of the command line: applications, addresses of four parts of 16
\* bits at most, and domains that are spelled out in Spelling.
IsArguments(g) ==
  /\ DOMAIN g = {"apps", "ips", "domains"}
  /\ g.apps \in Seq(DOMAIN Upper)
  /\ g.ips \in Seq([1..4 -> U16Values])
  /\ g.domains \in Seq(Seq(Nat))
  /\ \A dom \in ToSet(g.domains) : Lower(dom) \in Range(Spelling)

ASSUME CasesAssumption ==
  /\ \A c \in Cases : IsFrame(c[1]) /\ IsArguments(c[2])
  /\ AppNames = Engine!AppTypes

\* What the rest of the engine sees of the frame.
Packet ==
  [ parsed |-> stage = "parsed", tuple |-> FiveTuple, addr |-> 0,
    size |-> Len(parsed.payload), name |-> shown ]

DissectionInit ==
  /\ \E c \in Cases : wire = c[1] /\ given = c[2]
  /\ frame = Captured(wire) /\ ParserStart
  /\ args = given /\ RulesStart
  /\ payload = <<>> /\ Start
  /\ phase = "rules"
  /\ shown = NoName /\ flow = Engine!NewFlow /\ verdict = "none"

-----------------------------------------------------------------------------

\* The command line is worked off before the engine runs.
Configure ==
  /\ phase = "rules"
  /\ \/ AddRule /\ UNCHANGED phase
     \/ RulesComplete /\ phase' = "parse" /\ UNCHANGED ruleVars
  /\ UNCHANGED <<parserVars, vars, wire, given, shown, flow, verdict>>

ParseFrame ==
  /\ phase = "parse"
  /\ Parse
  /\ UNCHANGED <<ruleVars, vars, wire, given, phase, shown, flow, verdict>>

\* A frame that does not parse is skipped, one without ports forwarded.
Pass(result) ==
  /\ phase' = "done"
  /\ verdict' = result
  /\ UNCHANGED <<parserVars, ruleVars, vars, wire, given, shown, flow>>

NotParsed == phase = "parse" /\ stage = "rejected" /\ Pass("skip")
NoPorts   == phase = "parse" /\ stage = "parsed" /\ parsed.ports = <<>> /\ Pass("forward")

HasPort(port, least) ==
  /\ phase = "parse" /\ stage = "parsed" /\ parsed.ports # <<>>
  /\ parsed.ports[2] = port /\ Len(parsed.payload) >= least

\* _classify calls the extractor for the port ...
TryTls ==
  /\ HasPort(Engine!HTTPS_PORT, Engine!TLS_MIN_PAYLOAD)
  /\ payload' = parsed.payload
  /\ phase' = "tls"
  /\ UNCHANGED <<parserVars, ruleVars, pc, offset, extEnd, listEnd, name, seen,
                 wire, given, shown, flow, verdict>>

TryHttp ==
  /\ HasPort(Engine!HTTP_PORT, 1)
  /\ shown' = HttpHost(parsed.payload)
  /\ phase' = "judge"
  /\ UNCHANGED <<parserVars, ruleVars, vars, wire, given, flow, verdict>>

\* ... or none.
TryNothing ==
  /\ HasPort(parsed.ports[2], 0)
  /\ ~HasPort(Engine!HTTPS_PORT, Engine!TLS_MIN_PAYLOAD)
  /\ ~HasPort(Engine!HTTP_PORT, 1)
  /\ phase' = "judge"
  /\ UNCHANGED <<parserVars, ruleVars, vars, wire, given, shown, flow, verdict>>

Extract ==
  /\ phase = "tls"
  /\ Next
  /\ UNCHANGED <<parserVars, ruleVars, wire, given, phase, shown, flow, verdict>>

Extracted ==
  /\ phase = "tls" /\ pc = "done"
  /\ shown' = IF name = None THEN NoName ELSE Decode(name)
  /\ phase' = "judge"
  /\ UNCHANGED <<parserVars, ruleVars, vars, wire, given, flow, verdict>>

\* The flow is classified after the name, and judged.
Judge ==
  /\ phase = "judge"
  /\ flow' = Engine!Inspect(Packet, flow)
  /\ verdict' = IF flow'.blocked THEN "drop" ELSE "forward"
  /\ phase' = "done"
  /\ UNCHANGED <<parserVars, ruleVars, vars, wire, given, shown>>

Dissected == phase = "done" /\ UNCHANGED dissectionVars

DissectionStep ==
  \/ Configure \/ ParseFrame \/ NotParsed \/ NoPorts
  \/ TryTls \/ TryHttp \/ TryNothing \/ Extract \/ Extracted \/ Judge

DissectionNext == DissectionStep \/ Dissected

DissectionSpec ==
  DissectionInit /\ [][DissectionNext]_dissectionVars
    /\ WF_dissectionVars(DissectionStep)

-----------------------------------------------------------------------------
(* Properties *)

(***************************************************************************)
(* Wherever options move the headers to, the parser finds the addresses,   *)
(* the ports and the whole payload of a frame whose headers are right, and *)
(* what fills up a short frame counts as payload.  It finds nothing in a   *)
(* frame of which a header is wrong or not all there.                      *)
(***************************************************************************)
ParsesWhatIsThere ==
  phase # "rules" /\ stage \in {"parsed", "rejected"} =>
    /\ (stage = "parsed") <=> WellFormed(wire)
    /\ WellFormed(wire) => parsed =
         [ src      |-> wire.src,
           dst      |-> wire.dst,
           protocol |-> wire.protocol,
           ports    |-> IF HasPorts(wire) THEN wire.ports ELSE <<>>,
           payload  |-> IF HasPorts(wire)
                        THEN Without(Body(wire) \o Padding(wire), wire.cut) ELSE <<>> ]

Judged == phase = "done" /\ verdict \in {"forward", "drop"}
Carries(kind) == wire.body.kind = kind
Hello == wire.body.hello
Request == wire.body.request

(***************************************************************************)
(* In a message that is whole and correct, also when another record        *)
(* follows in the same payload, the extractor for its port finds the host  *)
(* name; it finds none where there is none, be it in padding.  Of requests *)
(* only those are meant that are Plain: of others the code does not keep   *)
(* the promise of HTTPHostExtractor: the value of the Host header.         *)
(***************************************************************************)
FindsName ==
  /\ Judged
  /\ wire.cut = 0
  /\ Carries("hello") => Hello.fault \in {"none", "record", "message"}
  /\ Carries("request") => Plain(Request)
  => shown = Decode(NameIn(wire))

(***************************************************************************)
(* A record of which the end is missing, because TCP has split it over two *)
(* packets or the capture has cut the frame, shows no name, even when the  *)
(* whole name has arrived.                                                 *)
(***************************************************************************)
CutHelloShowsNothing ==
  /\ Judged
  /\ Carries("hello") /\ Hello.trail = 0
  /\ Hello.fault = "cut" \/ wire.cut > 0
  => shown = NoName

(***************************************************************************)
(* Wherever a Client Hello ends, and whatever the outer lengths say, a     *)
(* part of a host name is never taken for a host name.  Of a name that     *)
(* claims to be longer than its list this cannot be said, or of a record   *)
(* with others behind it: the code only tests that a name ends in the      *)
(* payload.                                                                *)
(***************************************************************************)
NeverPartOfName ==
  Judged /\ Carries("hello") /\ Hello.fault # "name" /\ Hello.trail = 0
    => shown \in {NoName, Decode(NameIn(wire))}

\* What has arrived of the host of a request: what follows it is cut off first.
HostArrived ==
  LET behind == Len(Request.rest)
  IN  Without(NameIn(wire), IF wire.cut > behind THEN wire.cut - behind ELSE 0)

(***************************************************************************)
(* Of a request that is cut off in its host, the part that has arrived is  *)
(* taken for the host, no more and no less; cut off behind its host, be it *)
(* between CR and LF, in its port or in blanks, it shows all of it.        *)
(***************************************************************************)
CutRequestShowsPart ==
  Judged /\ Carries("request") /\ Plain(Request) /\ wire.cut > 0
    => shown = Decode(HostArrived)

\* Does an argument of four parts name the address src?  The parts are not
\* limited to 255, and what is beyond sets bits of the part before, so that
\* "10.0.0.265" and "10.0.1.265" name 10.0.1.9.  If it is beyond in the first
\* part, no address is named.
NamesAddress(ip, src) ==
  Bits(ip[1]) \subseteq 0..7 /\ \A k \in DOMAIN ip :
    Bits(src[k]) = { b \in 0..7 :
      b \in Bits(ip[k]) \/ (k < Len(ip) /\ b + 8 \in Bits(ip[k + 1])) }

RuleFor(src, app, text) ==
  \/ \E ip \in ToSet(given.ips) : NamesAddress(ip, src)
  \/ \E arg \in ToSet(given.apps) : Upper[arg] = app
  \/ \E dom \in ToSet(given.domains) : IsSubText(Lower(dom), Lower(text))

(***************************************************************************)
(* A packet with ports is dropped exactly if one of the arguments of the   *)
(* command line names its source address, its application, or a part of    *)
(* the host name in it, whatever the case; the empty domain is a part of   *)
(* every name, also of the empty one.                                      *)
(***************************************************************************)
VerdictFollowsRules ==
  Judged /\ parsed.ports # <<>> =>
    ((verdict = "drop") <=> RuleFor(wire.src, flow.app, shown))

\* Every frame gets its verdict: no length in it keeps parser or extractor.
Returns == <>(phase = "done")

-----------------------------------------------------------------------------
(* What the documentation says and the code does not do *)

(***************************************************************************)
(* "Block all traffic from the given source IP": a packet from an address  *)
(* that is listed is not forwarded.  In the code a packet without ports is *)
(* forwarded before any rule is asked.                                     *)
(***************************************************************************)
BlocksAllTraffic ==
  phase = "done" /\ verdict = "forward" => wire.src \notin ToSet(given.ips)

=============================================================================
