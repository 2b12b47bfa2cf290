----------------------------- MODULE LoadBalancer ---------------------------
(***************************************************************************)
(* The load balancer threads (load_balancer.py): each takes packets from   *)
(* its own queue and pushes each to one of its fast paths, chosen by the   *)
(* hash of the packet's five-tuple.                                        *)
(***************************************************************************)
EXTENDS FastPathThread

CONSTANT LBCap  \* queue_size of a load balancer (1000 in the code)

VARIABLES
  lbq,        \* per load balancer: its queue, shared with the reader,
  lbRunning,  \* the flag _running, which main clears,
  lbpc,       \* "check", "pop", "push", "drain", "drainPush" or "done",
  lbpkt,      \* the packet it holds,
  dispatched  \* and its statistics

\* What only the load balancers write, besides the queues.
lbVars == <<lbpc, lbpkt, dispatched>>

LBs == 0..(NumLBs - 1)

LBInit ==
  /\ lbq = [i \in LBs |-> <<>>]
  /\ lbRunning = [i \in LBs |-> TRUE]
  /\ lbpc = [i \in LBs |-> "check"]
  /\ lbpkt = [i \in LBs |-> NoPacket]
  /\ dispatched = [i \in LBs |-> 0]

\* Mutant: the packets take turns among the fast paths of a load balancer.
SelectFPMutant(i, p) == i * FPsPerLB + (p % FPsPerLB)

\* Load balancer i owns the slice of the pool that starts at i * FPsPerLB;
\* _select_fp picks the fast path within the slice.
SelectFP(i, p) == i * FPsPerLB + (HashOf(input[p]) % FPsPerLB)

\* while self._running
LBCheck(i) ==
  /\ lbpc[i] = "check"
  /\ lbpc' = [lbpc EXCEPT ![i] = IF lbRunning[i] THEN "pop" ELSE "drain"]
  /\ UNCHANGED <<lbq, lbpkt, dispatched, fpq>>

LBPop(i) ==
  /\ lbpc[i] = "pop"
  /\ HasItem(lbq[i])
  /\ lbq' = [lbq EXCEPT ![i] = Tail(@)]
  /\ lbpkt' = [lbpkt EXCEPT ![i] = Head(lbq[i])]
  /\ lbpc' = [lbpc EXCEPT ![i] = "push"]
  /\ UNCHANGED <<dispatched, fpq>>

\* pop returns None.
LBPopNone(i) ==
  /\ lbpc[i] = "pop"
  /\ ~HasItem(lbq[i])
  /\ lbq' = [lbq EXCEPT ![i] = AfterNone(@, LBCap)]
  /\ lbpc' = [lbpc EXCEPT ![i] = "check"]
  /\ UNCHANGED <<lbpkt, dispatched, fpq>>

\* Mutant: the drain loop does not count what it hands on.
LBPushMutant(i) ==
  LET j == SelectFP(i, lbpkt[i])
  IN  /\ lbpc[i] \in {"push", "drainPush"}
      /\ ~Full(fpq[j], FPCap)
      /\ fpq' = [fpq EXCEPT ![j] = Append(@, lbpkt[i])]
      /\ dispatched' = [dispatched EXCEPT ![i] = IF lbpc[i] = "push" THEN @ + 1 ELSE @]
      /\ lbpkt' = [lbpkt EXCEPT ![i] = NoPacket]
      /\ lbpc' = [lbpc EXCEPT ![i] = IF @ = "push" THEN "check" ELSE "drain"]
      /\ UNCHANGED lbq

\* Hand the packet on, in the main loop or in the drain loop; the push blocks
\* while the queue of the fast path is full.
LBPush(i) ==
  LET j == SelectFP(i, lbpkt[i])
  IN  /\ lbpc[i] \in {"push", "drainPush"}
      /\ ~Full(fpq[j], FPCap)
      /\ fpq' = [fpq EXCEPT ![j] = Append(@, lbpkt[i])]
      /\ dispatched' = [dispatched EXCEPT ![i] = @ + 1]
      /\ lbpkt' = [lbpkt EXCEPT ![i] = NoPacket]
      /\ lbpc' = [lbpc EXCEPT ![i] = IF @ = "push" THEN "check" ELSE "drain"]
      /\ UNCHANGED lbq

\* Mutant: the drain loop throws packets away, as that of a fast path does.
LBDrainItemMutant(i) ==
  /\ lbpc[i] = "drain"
  /\ HasItem(lbq[i])
  /\ lbq' = [lbq EXCEPT ![i] = Tail(@)]
  /\ UNCHANGED <<lbpc, lbpkt, dispatched, fpq>>

\* The drain loop: what is left in the queue is handed on too.  Nobody else
\* takes from the queue: testing for emptiness and try_pop are one step.
LBDrainItem(i) ==
  /\ lbpc[i] = "drain"
  /\ HasItem(lbq[i])
  /\ lbq' = [lbq EXCEPT ![i] = Tail(@)]
  /\ lbpkt' = [lbpkt EXCEPT ![i] = Head(lbq[i])]
  /\ lbpc' = [lbpc EXCEPT ![i] = "drainPush"]
  /\ UNCHANGED <<dispatched, fpq>>

\* An empty queue or the marker ends the drain loop and the thread.
LBDrainEnd(i) ==
  /\ lbpc[i] = "drain"
  /\ ~HasItem(lbq[i])
  /\ lbq' = [lbq EXCEPT ![i] = AfterNone(@, LBCap)]
  /\ lbpc' = [lbpc EXCEPT ![i] = "done"]
  /\ UNCHANGED <<lbpkt, dispatched, fpq>>

LBStep(i) ==
  \/ LBCheck(i) \/ LBPop(i) \/ LBPopNone(i) \/ LBPush(i)
  \/ LBDrainItem(i) \/ LBDrainEnd(i)

=============================================================================
