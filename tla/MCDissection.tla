----------------------------- MODULE MCDissection ---------------------------
(***************************************************************************)
(* Dissection on frames that are right, wrong in one header, or end        *)
(* anywhere, with Client Hello messages of up to two extensions and server *)
(* name lists of up to two names, and with requests.                       *)
(***************************************************************************)
EXTENDS Dissection

MCAppNames == Engine!AppTypes
MCUpper == [zoom |-> "ZOOM", Https |-> "HTTPS", nonesuch |-> "NONESUCH"]

\* "zoom" is a keyword; "Ab" is a domain rule, and 0 stands in no name.
MCSpelling ==
  [zoom |-> <<122, 111, 111, 109>>, ab |-> <<97, 98>>, nothing |-> <<>>]

Named1(n) == [type |-> 0, name |-> n]
Other(n)  == [type |-> 1, name |-> n]

NameLists ==
  { <<>>, <<Named1(<<>>)>>, <<Named1(<<65, 98>>)>>, <<Other(<<99>>)>>,
    <<Other(<<99>>), Named1(<<97>>)>>, <<Named1(<<97>>), Named1(<<98>>)>>,
    <<Named1(<<97>>), Other(<<>>)>> }

Extensions ==
  { [type |-> 0, data |-> l] : l \in NameLists }
    \cup { [type |-> 10, data |-> <<>>], [type |-> 256, data |-> <<0, 0>>] }

Messages(exts, sessions, ciphers, fault, amounts, trails) ==
  [ session : sessions, ciphers : ciphers, compression : {1},
    exts : SeqOf(exts, 2), fault : {fault}, by : amounts, trail : trails ]

(* The shortest body has 45 bytes, so that "short" and "cut" end a message   *)
(* at every field.                                                           *)
Hellos ==
  LET few == { e \in Extensions : Len(e.data) # 1 \/ e.data = <<Named1(<<65, 98>>)>> }
  IN  Messages(Extensions, {0, 2}, {2, 4}, "none", {0}, {0, 5})
        \cup Messages(few, {0}, {2}, "record", {1}, {0})
        \cup Messages(few, {0}, {2}, "message", {1}, {0})
        \cup Messages(Extensions, {0}, {2}, "name", {1, 3}, {0, 5})
        \cup Messages(few, {0}, {2}, "extensions", {1, 6}, {0, 5})
        \cup Messages(few, {0}, {2}, "handshake", {1}, {0, 5})
        \cup Messages(few, {2}, {2}, "short", 1..46, {0})
        \cup Messages(few, {2}, {2}, "cut", 1..8 \cup {20, 45, 52}, {0})

HelloFor(n) ==
  [ session |-> 0, ciphers |-> 2, compression |-> 1,
    exts |-> <<[type |-> 0, data |-> <<Named1(n)>>]>>,
    fault |-> "none", by |-> 0, trail |-> 0 ]

HelloBody(h) == [kind |-> "hello", hello |-> h]
Raw(n) == [kind |-> "raw", size |-> n]

Requests ==
  [ kind : {"request"},
    request : [decoy : BOOLEAN, spaced : BOOLEAN,
               host : {<<>>, <<97, 66>>, <<122, 111, 111, 109, 200>>},
               rest : {<<>>, <<LF>>, <<COLON, 56, CR, LF, CR, LF>>,
                       <<32, CR, LF, 98, COLON, CR, LF>>}] ]

\* A frame that is right.
Frame(port, body) ==
  [ ethertype |-> 2048, version |-> 4, ihl |-> 5, protocol |-> 6, doff |-> 5,
    src |-> <<10, 0, 1, 9>>, dst |-> <<8, 8, 8, 8>>, ports |-> <<50000, port>>,
    body |-> body, padded |-> FALSE, cut |-> 0 ]

\* Headers of other lengths and other kinds, with and without faults.
Shapes(w) ==
  { [w EXCEPT !.ihl = i, !.doff = d, !.protocol = p] :
      i \in {4, 5, 6, 15}, d \in {0, 5, 8}, p \in {1, 6, 17} }
    \cup { [w EXCEPT !.ethertype = 2054], [w EXCEPT !.version = 6] }

NoArgs == [apps |-> <<>>, ips |-> <<>>, domains |-> <<>>]

Given ==
  { [NoArgs EXCEPT !.apps = <<"nonesuch", "zoom">>], [NoArgs EXCEPT !.apps = <<"Https">>],
    [NoArgs EXCEPT !.ips = <<<<10, 0, 1, 8>>, <<10, 0, 1, 9>>>>],
    [NoArgs EXCEPT !.ips = <<<<10, 0, 0, 265>>>>], [NoArgs EXCEPT !.ips = <<<<10, 0, 1, 265>>>>],
    [NoArgs EXCEPT !.ips = <<<<10, 0, 0, 9>>>>], [NoArgs EXCEPT !.ips = <<<<266, 0, 1, 9>>>>],
    [NoArgs EXCEPT !.domains = <<<<65, 98>>>>], [NoArgs EXCEPT !.domains = <<<<>>>>] }

Typical ==
  { Frame(443, HelloBody(HelloFor(<<97, 98>>))), Frame(443, HelloBody(HelloFor(<<90, 111, 111, 109>>))),
    Frame(443, Raw(0)), [Frame(443, Raw(0)) EXCEPT !.padded = TRUE],
    Frame(53, Raw(3)), [Frame(443, Raw(8)) EXCEPT !.protocol = 1] }

MCCases ==
  ({ Frame(443, HelloBody(h)) : h \in Hellos } \X {NoArgs})
    \cup ({ Frame(port, r) : port \in {80, 443}, r \in Requests } \X {NoArgs})
    \cup ({ [Frame(80, r) EXCEPT !.cut = c] : r \in Requests, c \in 1..6 } \X {NoArgs})
    \cup ((UNION { Shapes(w) : w \in Typical }) \X {NoArgs})
    \cup ({ [w EXCEPT !.ihl = 6, !.protocol = p, !.cut = c] :
              w \in Typical, p \in {6, 17}, c \in 1..80 } \X {NoArgs})
    \cup ((Typical \cup { Frame(80, r) : r \in Requests }) \X Given)

=============================================================================
