---------------------------- MODULE FastPathThread --------------------------
(***************************************************************************)
(* The Fast Path threads (FastPath._run in fast_path.py): each takes       *)
(* packets from its own queue, inspects them with its own flow table, and  *)
(* pushes what is not blocked to the output queue.                         *)
(*                                                                         *)
(* A step is one access to something threads share -- a queue or the       *)
(* running flag -- together with the private work that follows it.         *)
(***************************************************************************)
EXTENDS FastPath, OutputWriter

CONSTANTS
  NumLBs,    \* num_lbs, the number of load balancers
  FPsPerLB,  \* num_fps, the number of fast paths of each of them
  FPCap      \* queue_size of a fast path (1000 in the code)

FPs == 0..(NumLBs * FPsPerLB - 1)

VARIABLES
  input,       \* the capture
  fpq,         \* per fast path: its queue, shared with its load balancer,
  fpRunning,   \* the flag _running, which main clears,
  fppc,        \* "check", "pop", "push", "drain" or "done",
  fppkt,       \* the packet it holds,
  flows,       \* its flow table (ConnectionTracker),
  processed, fpForwarded, fpDropped,  \* and its statistics
  fate         \* history: per packet "none", "forward", "drop" or "discard"

\* What only the fast paths write, besides the queues.
fpVars == <<fppc, fppkt, flows, processed, fpForwarded, fpDropped, fate>>

Packets == 1..Len(input)

FPInit ==
  /\ fpq = [j \in FPs |-> <<>>]
  /\ fpRunning = [j \in FPs |-> TRUE]
  /\ fppc = [j \in FPs |-> "check"]
  /\ fppkt = [j \in FPs |-> NoPacket]
  /\ flows = [j \in FPs |-> [t \in Tuples |-> NewFlow]]
  /\ processed = [j \in FPs |-> 0]
  /\ fpForwarded = [j \in FPs |-> 0]
  /\ fpDropped = [j \in FPs |-> 0]
  /\ fate = [p \in Packets |-> "none"]

\* while self._running
FPCheck(j) ==
  /\ fppc[j] = "check"
  /\ fppc' = [fppc EXCEPT ![j] = IF fpRunning[j] THEN "pop" ELSE "drain"]
  /\ UNCHANGED <<fpq, fppkt, flows, processed, fpForwarded, fpDropped, fate, outq>>

\* Pop a packet that has a flow: count it, classify the flow, judge it.
FPInspect(j) ==
  LET p    == Head(fpq[j])
      t    == input[p].tuple
      flow == Inspect(input[p], flows[j][t])
  IN  /\ fppc[j] = "pop"
      /\ HasItem(fpq[j])
      /\ t # NoTuple
      /\ fpq' = [fpq EXCEPT ![j] = Tail(@)]
      /\ processed' = [processed EXCEPT ![j] = @ + 1]
      /\ flows' = [flows EXCEPT ![j][t] = flow]
      /\ IF flow.blocked
         THEN /\ fate' = [fate EXCEPT ![p] = "drop"]
              /\ fpDropped' = [fpDropped EXCEPT ![j] = @ + 1]
              /\ fppc' = [fppc EXCEPT ![j] = "check"]
              /\ UNCHANGED fppkt
         ELSE /\ fate' = [fate EXCEPT ![p] = "forward"]
              /\ fppkt' = [fppkt EXCEPT ![j] = p]
              /\ fppc' = [fppc EXCEPT ![j] = "push"]
              /\ UNCHANGED fpDropped
      /\ UNCHANGED <<fpForwarded, outq>>

\* Pop a packet that has none: it is forwarded as it is.
FPPassThrough(j) ==
  LET p == Head(fpq[j])
  IN  /\ fppc[j] = "pop"
      /\ HasItem(fpq[j])
      /\ input[p].tuple = NoTuple
      /\ fpq' = [fpq EXCEPT ![j] = Tail(@)]
      /\ processed' = [processed EXCEPT ![j] = @ + 1]
      /\ fate' = [fate EXCEPT ![p] = "forward"]
      /\ fppkt' = [fppkt EXCEPT ![j] = p]
      /\ fppc' = [fppc EXCEPT ![j] = "push"]
      /\ UNCHANGED <<flows, fpForwarded, fpDropped, outq>>

\* pop returns None.
FPPopNone(j) ==
  /\ fppc[j] = "pop"
  /\ ~HasItem(fpq[j])
  /\ fpq' = [fpq EXCEPT ![j] = AfterNone(@, FPCap)]
  /\ fppc' = [fppc EXCEPT ![j] = "check"]
  /\ UNCHANGED <<fppkt, flows, processed, fpForwarded, fpDropped, fate, outq>>

\* _forward: push, which blocks while the output queue is full, and count.
FPForward(j) ==
  /\ fppc[j] = "push"
  /\ ~Full(outq, OutCap)
  /\ outq' = Append(outq, fppkt[j])
  /\ fpForwarded' = [fpForwarded EXCEPT ![j] = @ + 1]
  /\ fppkt' = [fppkt EXCEPT ![j] = NoPacket]
  /\ fppc' = [fppc EXCEPT ![j] = "check"]
  /\ UNCHANGED <<fpq, flows, processed, fpDropped, fate>>

\* The drain loop of a stopped fast path throws its packets away.  Nobody else
\* takes from the queue: testing for emptiness and try_pop are one step.
FPDrainItem(j) ==
  /\ fppc[j] = "drain"
  /\ HasItem(fpq[j])
  /\ fpq' = [fpq EXCEPT ![j] = Tail(@)]
  /\ processed' = [processed EXCEPT ![j] = @ + 1]
  /\ fate' = [fate EXCEPT ![Head(fpq[j])] = "discard"]
  /\ UNCHANGED <<fppc, fppkt, flows, fpForwarded, fpDropped, outq>>

\* Mutant: the marker does not end the drain loop; only an empty queue does.
FPDrainEndMutant(j) ==
  /\ fppc[j] = "drain"
  /\ ~HasItem(fpq[j])
  /\ fpq' = [fpq EXCEPT ![j] = AfterNone(@, FPCap)]
  /\ fppc' = [fppc EXCEPT ![j] = IF fpq[j] = <<>> THEN "done" ELSE "drain"]
  /\ UNCHANGED <<fppkt, flows, processed, fpForwarded, fpDropped, fate, outq>>

\* An empty queue or the marker ends the drain loop and the thread.
FPDrainEnd(j) ==
  /\ fppc[j] = "drain"
  /\ ~HasItem(fpq[j])
  /\ fpq' = [fpq EXCEPT ![j] = AfterNone(@, FPCap)]
  /\ fppc' = [fppc EXCEPT ![j] = "done"]
  /\ UNCHANGED <<fppkt, flows, processed, fpForwarded, fpDropped, fate, outq>>

FPStep(j) ==
  \/ FPCheck(j) \/ FPInspect(j) \/ FPPassThrough(j) \/ FPPopNone(j)
  \/ FPForward(j) \/ FPDrainItem(j) \/ FPDrainEnd(j)

=============================================================================
