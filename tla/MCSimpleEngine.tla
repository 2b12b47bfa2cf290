--------------------------- MODULE MCSimpleEngine ---------------------------
(* SimpleEngine on every capture of at most three packets of MCTraffic. *)
EXTENDS SimpleEngine, MCTraffic

=============================================================================
