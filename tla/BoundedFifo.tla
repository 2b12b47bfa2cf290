----------------------------- MODULE BoundedFifo ----------------------------
(***************************************************************************)
(* What the users of TSQueue rely on: a buffer of limited size out of      *)
(* which every item comes once, in the order in which the items went in.   *)
(***************************************************************************)
EXTENDS Naturals, Sequences

CONSTANTS Elements, Size

VARIABLES
  buffer,  \* the items inside
  out      \* the items that have come out

fifoVars == <<buffer, out>>

FifoInit == buffer = <<>> /\ out = <<>>

Put(x) ==
  /\ Len(buffer) < Size
  /\ buffer' = Append(buffer, x)
  /\ UNCHANGED out

Get ==
  /\ buffer # <<>>
  /\ out' = Append(out, Head(buffer))
  /\ buffer' = Tail(buffer)

FifoSpec == FifoInit /\ [][Get \/ \E x \in Elements : Put(x)]_fifoVars

=============================================================================
