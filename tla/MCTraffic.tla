------------------------------ MODULE MCTraffic -----------------------------
(***************************************************************************)
(* Small traffic for TLC, shared by the MC modules: four flows and the     *)
(* packets that exercise the classifier and the rules on them.             *)
(*   web1, web2  HTTPS flows; the rules block names with "tv." in them     *)
(*   page        an HTTP flow                                              *)
(*   query       a DNS flow from a blocked source address                  *)
(***************************************************************************)
EXTENDS Integers, Sequences, SequencesExt

CONSTANTS web1, web2, page, query, noTuple, noName

MCTuples == {web1, web2, page, query}
MCSrcIp == [t \in MCTuples |-> IF t = query THEN "10.0.0.66" ELSE "10.0.0.1"]
MCDstPort == web1 :> 443 @@ web2 :> 443 @@ page :> 80 @@ query :> 53
\* Python's hash is signed; every residue modulo 2, 3 and 4 occurs.
MCHash == web1 :> -4 @@ web2 :> 3 @@ page :> 1 @@ query :> 2

MCNames == {"r1.googlevideo.com", "tv.example", "tv.github.com", "plain.example"}

\* The keywords and domain rules that a name contains, and the empty string.
MCWithin ==
  [n \in MCNames \cup {noName} |->
     CASE n = "r1.googlevideo.com" -> {"", "google", "googlevideo"}
       [] n = "tv.example" -> {"", "tv."}
       [] n = "tv.github.com" -> {"", "tv.", "github"}
       [] OTHER -> {""}]

MCRules ==
  [ips |-> {"10.0.0.66"}, apps |-> {"YOUTUBE"}, domains |-> {"tv."}]

Pkt(tuple, size, name) ==
  [parsed |-> TRUE, tuple |-> tuple, addr |-> 0, size |-> size, name |-> name]

Syn(t)      == Pkt(t, 0, noName)   \* no payload
Data(t)     == Pkt(t, 7, noName)   \* a payload that shows no name
Hello(t, n) == Pkt(t, 6, n)        \* a Client Hello or a request
Ping(a)     == [Pkt(noTuple, 0, noName) EXCEPT !.addr = a]
Arp         == [Ping(0) EXCEPT !.parsed = FALSE]

\* Everything the classifier distinguishes, up to three packets.
PacketKinds ==
  { Syn(web1), Data(web1), Data(web2), Syn(page), Data(query), Ping(0), Arp }
    \cup {Hello(web1, n) : n \in MCNames}
    \cup {Hello(page, n) : n \in {"plain.example", "tv.example"}}

MCInputs == SeqOf(PacketKinds, 3)

=============================================================================
