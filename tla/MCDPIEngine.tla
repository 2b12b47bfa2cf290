----------------------------- MODULE MCDPIEngine ----------------------------
(***************************************************************************)
(* DPIEngine on small captures of MCTraffic.                               *)
(***************************************************************************)
EXTENDS DPIEngine, MCTraffic

\* A flow that is blocked at its second packet behind one of another flow in the
\* same queues, a flow that is blocked from its first packet on, a flow that may
\* go on behind the packet with its name, and a packet without a flow before a
\* record that does not parse.
MCStageInputs ==
  { <<Data(web1), Data(query), Hello(web1, "tv.example")>>,
    <<Hello(web1, "tv.example"), Data(web1)>>,
    <<Hello(web2, "plain.example"), Data(web2)>>,
    <<Ping(1), Arp>> }

\* At most two packets, for the checks of liveness.
MCShortInputs ==
  { <<Data(web1), Hello(web1, "tv.example")>>,
    <<Hello(web1, "plain.example"), Data(web2)>>,
    <<Ping(1), Syn(page)>> }

\* Two packets of one flow, both let through.
MCPairInputs == { <<Syn(web1), Data(web1)>> }

\* One flow per residue modulo the four fast paths.
MCSpreadInputs == { <<Data(web1), Data(page), Data(query), Data(web2)>> }

=============================================================================
