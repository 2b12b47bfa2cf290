--------------------------- MODULE MCQueueClients ---------------------------
(***************************************************************************)
(* QueueClients with its numbers given by the configuration.               *)
(***************************************************************************)
EXTENDS QueueClients

=============================================================================
