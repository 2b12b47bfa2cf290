--------------------------- MODULE MCPacketFilter ---------------------------
(* PacketFilter on every capture of at most three packets of MCTraffic. *)
EXTENDS PacketFilter, MCTraffic

=============================================================================
