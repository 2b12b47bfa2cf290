----------------------------- MODULE OutputWriter ---------------------------
(***************************************************************************)
(* The output queue and the thread that empties it into the output file    *)
(* (DPIEngine._output_writer).                                             *)
(***************************************************************************)
EXTENDS TSQueue

CONSTANT OutCap  \* maxsize of the output queue (5000 in the code)

VARIABLES
  outq,  \* the output queue, shared with the fast paths
  wpc,   \* "pop", "write", "none" (pop has returned None) or "done"
  wpkt,  \* the packet being written
  file   \* what has been written, as positions in the capture

writerVars == <<wpc, wpkt, file>>

NoPacket == 0  \* a thread that holds no packet

WriterInit ==
  /\ outq = <<>>
  /\ wpc = "pop"
  /\ wpkt = NoPacket
  /\ file = <<>>

WriterPop ==
  /\ wpc = "pop"
  /\ HasItem(outq)
  /\ outq' = Tail(outq)
  /\ wpkt' = Head(outq)
  /\ wpc' = "write"
  /\ UNCHANGED file

WriterPopNone ==
  /\ wpc = "pop"
  /\ ~HasItem(outq)
  /\ outq' = AfterNone(outq, OutCap)
  /\ wpc' = "none"
  /\ UNCHANGED <<wpkt, file>>

\* After None: an empty queue ends the loop, closes the file and sets
\* _writer_done; otherwise the loop goes on.
WriterDecide ==
  /\ wpc = "none"
  /\ wpc' = IF outq = <<>> THEN "done" ELSE "pop"
  /\ UNCHANGED <<outq, wpkt, file>>

WriterWrite ==
  /\ wpc = "write"
  /\ file' = Append(file, wpkt)
  /\ wpkt' = NoPacket
  /\ wpc' = "pop"
  /\ UNCHANGED outq

WriterStep == WriterPop \/ WriterPopNone \/ WriterDecide \/ WriterWrite

=============================================================================
