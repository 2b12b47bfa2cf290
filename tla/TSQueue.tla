------------------------------- MODULE TSQueue ------------------------------
(***************************************************************************)
(* The bounded FIFO queue between two stages (thread_safe_queue.py): the   *)
(* contents of the wrapped queue.Queue as a sequence whose items are       *)
(* positive numbers, and what the methods of TSQueue do to it.             *)
(***************************************************************************)
EXTENDS Naturals, Sequences

\* The shutdown marker, an object that is no item.
Sentinel == 0

\* The items waiting in a queue.
Items(q) == {q[k] : k \in DOMAIN q} \ {Sentinel}

\* Queues of capacity maxsize that hold items of S and perhaps the marker.
BoundedQueues(S, maxsize) == {q \in Seq(S \cup {Sentinel}) : Len(q) <= maxsize}

\* push blocks while this holds, put_nowait raises queue.Full.
Full(q, maxsize) == Len(q) >= maxsize

\* Mutant: put_nowait does not look at the capacity.
PutNowaitMutant(q, x, maxsize) == Append(q, x)

\* put_nowait with queue.Full swallowed, as shutdown and re-insertion use it.
PutNowait(q, x, maxsize) == IF Full(q, maxsize) THEN q ELSE Append(q, x)

\* pop and try_pop return an item.
HasItem(q) == q # <<>> /\ Head(q) # Sentinel

(***************************************************************************)
(* What pop and try_pop leave behind when they return None: an empty queue *)
(* (pop after 0.1 s), or the marker, which goes back to the end.  Taking   *)
(* the marker out and putting it back are two critical sections in the     *)
(* code; they are one step here because the engine shuts a queue down only *)
(* when its producers have been joined and a queue has one consumer, so    *)
(* that nobody touches the queue in between.                               *)
(***************************************************************************)
AfterNone(q, maxsize) ==
  IF q = <<>> THEN q ELSE PutNowait(Tail(q), Sentinel, maxsize)

=============================================================================
