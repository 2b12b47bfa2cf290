------------------------------ MODULE DpiTypes ------------------------------
(***************************************************************************)
(* The data that the components of the DPI engine exchange                 *)
(* (dpi_types.py): host names and the applications they stand for,         *)
(* captured packets, and the state kept per flow.                          *)
(*                                                                         *)
(* Strings and bytes appear only as far as the engine tells them apart.  A *)
(* host name is a value of Names together with the set of substrings that  *)
(* the engine finds in its lower-case form; a packet is what the parser    *)
(* and the extractors report about it.                                     *)
(***************************************************************************)
EXTENDS Integers, Sequences

CONSTANTS
  Tuples,   \* the FiveTuples that occur in a capture
  NoTuple,  \* the "None" of a packet that is neither TCP nor UDP
  SrcIp,    \* [Tuples -> addresses], field src_ip
  DstPort,  \* [Tuples -> port numbers], field dst_port
  Hash,     \* [Tuples -> Int], hash() of the frozen dataclass
  Names,    \* the non-empty host names an extractor can return
  NoName,   \* the empty string of a flow without a name
  Within,   \* [Names \cup {NoName} -> sets of substrings of name.lower()]
  Inputs    \* the captures: a set of sequences of packet records

ASSUME TuplesAssumption ==
  /\ NoTuple \notin Tuples
  /\ DOMAIN SrcIp = Tuples
  /\ DstPort \in [Tuples -> Nat]
  /\ Hash \in [Tuples -> Int]

ASSUME NamesAssumption ==
  /\ NoName \notin Names
  /\ DOMAIN Within = Names \cup {NoName}

-----------------------------------------------------------------------------
(* AppType and sni_to_app_type *)

AppTypes ==
  { "UNKNOWN", "HTTP", "HTTPS", "DNS", "GOOGLE", "YOUTUBE", "FACEBOOK",
    "TWITTER", "INSTAGRAM", "TIKTOK", "NETFLIX", "AMAZON", "GITHUB",
    "REDDIT", "WIKIPEDIA", "ZOOM", "TEAMS", "SLACK", "DISCORD", "TWITCH",
    "SPOTIFY", "APPLE", "MICROSOFT" }

\* Keyword and application, in the order in which the code tries them.
SniMapping == <<
  <<"youtube", "YOUTUBE">>,     <<"googlevideo", "YOUTUBE">>,
  <<"facebook", "FACEBOOK">>,   <<"fbcdn", "FACEBOOK">>,
  <<"instagram", "INSTAGRAM">>, <<"twitter", "TWITTER">>,
  <<"tiktok", "TIKTOK">>,       <<"netflix", "NETFLIX">>,
  <<"nflxvideo", "NETFLIX">>,   <<"amazon", "AMAZON">>,
  <<"twitch", "TWITCH">>,       <<"spotify", "SPOTIFY">>,
  <<"zoom", "ZOOM">>,           <<"teams", "TEAMS">>,
  <<"slack", "SLACK">>,         <<"discord", "DISCORD">>,
  <<"reddit", "REDDIT">>,       <<"wikipedia", "WIKIPEDIA">>,
  <<"github", "GITHUB">>,       <<"apple", "APPLE">>,
  <<"icloud", "APPLE">>,        <<"microsoft", "MICROSOFT">>,
  <<"office365", "MICROSOFT">>, <<"google", "GOOGLE">> >>

\* Mutant: the wrong column of the table is returned.
SniToAppTypeMutant(name) ==
  LET hits == {k \in DOMAIN SniMapping : SniMapping[k][1] \in Within[name]}
  IN  IF hits = {}
      THEN "UNKNOWN"
      ELSE SniMapping[CHOOSE k \in hits : \A l \in hits : k <= l][1]

\* The application of the first keyword of the table that the name contains.
SniToAppType(name) ==
  LET hits == {k \in DOMAIN SniMapping : SniMapping[k][1] \in Within[name]}
  IN  IF hits = {}
      THEN "UNKNOWN"
      ELSE SniMapping[CHOOSE k \in hits : \A l \in hits : k <= l][2]

-----------------------------------------------------------------------------
(* Packets and flows *)

(***************************************************************************)
(* One record of the capture as the rest of the engine sees it:            *)
(*   parsed  what PacketParser.parse returns                               *)
(*   tuple   what PacketParser.make_five_tuple returns                     *)
(*   addr    id() of the Packet object, used when there is no tuple        *)
(*   size    len(parsed.payload)                                           *)
(*   name    what the extractor for the destination port finds in the      *)
(*           payload, NoName when it returns None or ""                    *)
(***************************************************************************)
PacketRecords ==
  [ parsed : BOOLEAN,
    tuple  : Tuples \cup {NoTuple},
    addr   : Nat,
    size   : Nat,
    name   : Names \cup {NoName} ]

ASSUME InputsAssumption == Inputs \subseteq Seq(PacketRecords)

\* Byte counts and time stamps of a flow are only printed and are left out.
Flows ==
  [ sni     : Names \cup {NoName},
    host    : Names \cup {NoName},
    app     : AppTypes,
    blocked : BOOLEAN,
    packets : Nat ]

\* The defaults of the dataclass Flow.  The flow table of the model is total:
\* a key that is absent from the dictionary is mapped to NewFlow.
NewFlow ==
  [ sni |-> NoName, host |-> NoName, app |-> "UNKNOWN",
    blocked |-> FALSE, packets |-> 0 ]

\* The number the reader and the load balancers reduce modulo their fan-out.
HashOf(pkt) == IF pkt.tuple # NoTuple THEN Hash[pkt.tuple] ELSE pkt.addr

=============================================================================
