------------------------------ MODULE DPIEngine -----------------------------
(***************************************************************************)
(* The multi-threaded engine (dpi_engine.py): the main thread reads the    *)
(* capture and hands each packet to a load balancer, which hands it to one *)
(* of its fast paths, which judges it and hands it to the output writer.   *)
(*                                                                         *)
(*        main --lbq[i]--> LB i --fpq[j]--> FP j --outq--> writer          *)
(*                                                                         *)
(* This module adds the main thread, DPIEngine.run, and lets the threads   *)
(* interleave.  A step is one access to something threads share -- a queue *)
(* operation, a look at or a change of a running flag, the end of a thread *)
(* -- with the private work that goes with it.  The initial state is that  *)
(* after _start_workers.                                                   *)
(***************************************************************************)
EXTENDS LoadBalancer, FiniteSets

ASSUME SizesAssumption ==
  /\ NumLBs \in Nat \ {0} /\ FPsPerLB \in Nat \ {0}
  /\ LBCap \in Nat \ {0} /\ FPCap \in Nat \ {0} /\ OutCap \in Nat \ {0}

VARIABLES
  truncated,  \* does the capture end inside a record?
  mpc,        \* where run() is
  mi,         \* index of the loop over the threads in _drain_and_stop
  next,       \* position of the next record to read
  total,      \* _total_packets
  report      \* the counters as _print_report found them

mainVars == <<truncated, mpc, mi, next, total, report>>
vars == <<input, fpq, fpRunning, fpVars, lbq, lbRunning, lbVars,
          outq, writerVars, mainVars>>

\* The process lives: the main thread is not through and has not raised.
Alive == mpc \notin {"exited", "aborted"}

Init ==
  /\ input \in Inputs
  /\ truncated \in BOOLEAN
  /\ mpc = "read"
  /\ mi = 0
  /\ next = 1
  /\ total = 0
  /\ report = [total |-> 0, forwarded |-> 0, dropped |-> [j \in FPs |-> 0]]
  /\ LBInit /\ FPInit /\ WriterInit

-----------------------------------------------------------------------------
(* Main thread: _reader_thread *)

\* Mutant: packets take turns instead of being hashed by flow.
LBOfMutant(p) == p % NumLBs

\* The load balancer the reader chooses.
LBOf(p) == HashOf(input[p]) % NumLBs

\* A record that does not parse is skipped.
ReaderSkip ==
  /\ mpc = "read"
  /\ next <= Len(input)
  /\ ~input[next].parsed
  /\ next' = next + 1
  /\ UNCHANGED <<mpc, mi, total, report, lbq, lbRunning, fpq, fpRunning, outq>>

\* Count a packet and push it; the push blocks while the queue is full.
ReaderDispatch ==
  /\ mpc = "read"
  /\ next <= Len(input)
  /\ input[next].parsed
  /\ ~Full(lbq[LBOf(next)], LBCap)
  /\ lbq' = [lbq EXCEPT ![LBOf(next)] = Append(@, next)]
  /\ total' = total + 1
  /\ next' = next + 1
  /\ UNCHANGED <<mpc, mi, report, lbRunning, fpq, fpRunning, outq>>

\* At the end of the file the reader returns, or raises ValueError when the
\* last record is incomplete; run() does not catch it.
ReaderEnd ==
  /\ mpc = "read"
  /\ next > Len(input)
  /\ mpc' = IF truncated THEN "aborted" ELSE "stopLB"
  /\ UNCHANGED <<mi, next, total, report, lbq, lbRunning, fpq, fpRunning, outq>>

-----------------------------------------------------------------------------
(* Main thread: _drain_and_stop *)

\* LoadBalancer.stop clears the flag ...
StopLB ==
  /\ mpc = "stopLB"
  /\ lbRunning' = [lbRunning EXCEPT ![mi] = FALSE]
  /\ mpc' = "shutLB"
  /\ UNCHANGED <<mi, next, total, report, lbq, fpq, fpRunning, outq>>

\* ... and shuts the queue down; then the next load balancer's turn comes.
ShutLB ==
  /\ mpc = "shutLB"
  /\ lbq' = [lbq EXCEPT ![mi] = PutNowait(@, Sentinel, LBCap)]
  /\ \/ mi + 1 \in LBs /\ mi' = mi + 1 /\ mpc' = "stopLB"
     \/ mi + 1 \notin LBs /\ mi' = 0 /\ mpc' = "joinLB"
  /\ UNCHANGED <<next, total, report, lbRunning, fpq, fpRunning, outq>>

\* Mutant: the fast paths are stopped without waiting for the load balancers.
JoinLBsMutant ==
  /\ mpc = "joinLB"
  /\ mpc' = "stopFP"
  /\ UNCHANGED <<mi, next, total, report, lbq, lbRunning, fpq, fpRunning, outq>>

JoinLBs ==
  /\ mpc = "joinLB"
  /\ \A i \in LBs : lbpc[i] = "done"
  /\ mpc' = "stopFP"
  /\ UNCHANGED <<mi, next, total, report, lbq, lbRunning, fpq, fpRunning, outq>>

\* FastPath.stop, likewise in two steps.
StopFP ==
  /\ mpc = "stopFP"
  /\ fpRunning' = [fpRunning EXCEPT ![mi] = FALSE]
  /\ mpc' = "shutFP"
  /\ UNCHANGED <<mi, next, total, report, lbq, lbRunning, fpq, outq>>

ShutFP ==
  /\ mpc = "shutFP"
  /\ fpq' = [fpq EXCEPT ![mi] = PutNowait(@, Sentinel, FPCap)]
  /\ \/ mi + 1 \in FPs /\ mi' = mi + 1 /\ mpc' = "stopFP"
     \/ mi + 1 \notin FPs /\ mi' = 0 /\ mpc' = "joinFP"
  /\ UNCHANGED <<next, total, report, lbq, lbRunning, fpRunning, outq>>

\* Mutant: the report is made without waiting for the fast paths.
JoinFPsMutant ==
  /\ mpc = "joinFP"
  /\ mpc' = "shutOut"
  /\ UNCHANGED <<mi, next, total, report, lbq, lbRunning, fpq, fpRunning, outq>>

JoinFPs ==
  /\ mpc = "joinFP"
  /\ \A j \in FPs : fppc[j] = "done"
  /\ mpc' = "shutOut"
  /\ UNCHANGED <<mi, next, total, report, lbq, lbRunning, fpq, fpRunning, outq>>

\* Shut the output queue down.
ShutOutput ==
  /\ mpc = "shutOut"
  /\ outq' = PutNowait(outq, Sentinel, OutCap)
  /\ mpc' = "await"
  /\ UNCHANGED <<mi, next, total, report, lbq, lbRunning, fpq, fpRunning>>

\* _writer_done.wait(timeout=10) returns because the writer is done ...
AwaitWriter ==
  /\ mpc = "await"
  /\ wpc = "done"
  /\ mpc' = "report"
  /\ UNCHANGED <<mi, next, total, report, lbq, lbRunning, fpq, fpRunning, outq>>

\* ... or because ten seconds have passed.
AwaitTimeout ==
  /\ mpc = "await"
  /\ wpc # "done"
  /\ mpc' = "report"
  /\ UNCHANGED <<mi, next, total, report, lbq, lbRunning, fpq, fpRunning, outq>>

\* _print_report reads the counters, also those of a writer still at work.
PrintReport ==
  /\ mpc = "report"
  /\ report' = [total |-> total, forwarded |-> Len(file), dropped |-> fpDropped]
  /\ mpc' = "exiting"
  /\ UNCHANGED <<mi, next, total, lbq, lbRunning, fpq, fpRunning, outq>>

\* The interpreter ends, and with it every daemon thread where it stands.
Exit ==
  /\ mpc = "exiting"
  /\ mpc' = "exited"
  /\ UNCHANGED <<mi, next, total, report, lbq, lbRunning, fpq, fpRunning, outq>>

MainStep ==
  \/ ReaderSkip \/ ReaderDispatch \/ ReaderEnd
  \/ StopLB \/ ShutLB \/ JoinLBs
  \/ StopFP \/ ShutFP \/ JoinFPs
  \/ ShutOutput \/ AwaitWriter \/ AwaitTimeout \/ PrintReport \/ Exit

-----------------------------------------------------------------------------
(* The threads together *)

Main ==
  /\ MainStep
  /\ UNCHANGED <<input, truncated, lbVars, fpVars, writerVars>>

LB(i) ==
  /\ Alive
  /\ LBStep(i)
  /\ UNCHANGED <<input, lbRunning, fpRunning, fpVars, outq, writerVars, mainVars>>

FP(j) ==
  /\ Alive
  /\ FPStep(j)
  /\ UNCHANGED <<input, lbq, lbRunning, lbVars, fpRunning, writerVars, mainVars>>

Writer ==
  /\ Alive
  /\ WriterStep
  /\ UNCHANGED <<input, lbq, lbRunning, lbVars, fpq, fpRunning, fpVars, mainVars>>

Terminated == ~Alive /\ UNCHANGED vars

Next ==
  \/ Main
  \/ \E i \in LBs : LB(i)
  \/ \E j \in FPs : FP(j)
  \/ Writer
  \/ Terminated

\* Every thread that can run is run, and a wait that can time out ends.
Fairness ==
  /\ WF_vars(Main)
  /\ \A i \in LBs : WF_vars(LB(i))
  /\ \A j \in FPs : WF_vars(FP(j))
  /\ WF_vars(Writer)

Spec == Init /\ [][Next]_vars /\ Fairness

\* The same program on a machine so fast that main's ten seconds are forever:
\* nothing forces AwaitTimeout to happen.
PatientSpec ==
  /\ Init /\ [][Next]_vars
  /\ WF_vars(Main /\ (wpc = "done" \/ mpc # "await"))
  /\ \A i \in LBs : WF_vars(LB(i))
  /\ \A j \in FPs : WF_vars(FP(j))
  /\ WF_vars(Writer)

-----------------------------------------------------------------------------
(* Where packets are *)

\* The fast path to which packet p belongs.
FPOf(p) == SelectFP(LBOf(p), p)

\* Packets that the reader has handed to a load balancer.
Dispatched == {p \in Packets : p < next /\ input[p].parsed}

Written(p) == \E k \in DOMAIN file : file[k] = p

\* Every place that has hold of packet p.
Places(p) ==
  {<<"lbq", i>> : i \in {i \in LBs : p \in Items(lbq[i])}}
    \cup {<<"lb", i>> : i \in {i \in LBs : lbpkt[i] = p}}
    \cup {<<"fpq", j>> : j \in {j \in FPs : p \in Items(fpq[j])}}
    \cup {<<"fp", j>> : j \in {j \in FPs : fppkt[j] = p}}
    \cup {<<s, 0>> : s \in {s \in {"outq", "writer", "file", "dropped", "discarded"} :
            CASE s = "outq"      -> p \in Items(outq)
              [] s = "writer"    -> wpkt = p
              [] s = "file"      -> Written(p)
              [] s = "dropped"   -> fate[p] = "drop"
              [] s = "discarded" -> fate[p] = "discard"}}

-----------------------------------------------------------------------------
(* Properties *)

LBTypeOK ==
  /\ lbq \in [LBs -> BoundedQueues(Packets, LBCap)]
  /\ lbRunning \in [LBs -> BOOLEAN]
  /\ lbpc \in [LBs -> {"check", "pop", "push", "drain", "drainPush", "done"}]
  /\ lbpkt \in [LBs -> Packets \cup {NoPacket}]
  /\ dispatched \in [LBs -> Nat]

FPTypeOK ==
  /\ fpq \in [FPs -> BoundedQueues(Packets, FPCap)]
  /\ fpRunning \in [FPs -> BOOLEAN]
  /\ fppc \in [FPs -> {"check", "pop", "push", "drain", "done"}]
  /\ fppkt \in [FPs -> Packets \cup {NoPacket}]
  /\ flows \in [FPs -> [Tuples -> Flows]]
  /\ processed \in [FPs -> Nat]
  /\ fpForwarded \in [FPs -> Nat]
  /\ fpDropped \in [FPs -> Nat]
  /\ fate \in [Packets -> {"none", "forward", "drop", "discard"}]

WriterTypeOK ==
  /\ outq \in BoundedQueues(Packets, OutCap)
  /\ wpc \in {"pop", "write", "none", "done"}
  /\ wpkt \in Packets \cup {NoPacket}
  /\ file \in Seq(Packets)

MainTypeOK ==
  /\ input \in Inputs
  /\ truncated \in BOOLEAN
  /\ mpc \in {"read", "stopLB", "shutLB", "joinLB", "stopFP", "shutFP", "joinFP",
              "shutOut", "await", "report", "exiting", "exited", "aborted"}
  /\ mi \in LBs \cup FPs
  /\ next \in 1..(Len(input) + 1)
  /\ total \in Nat
  /\ report \in [total : Nat, forwarded : Nat, dropped : [FPs -> Nat]]

(***************************************************************************)
(* Types; and no queue ever holds more than its capacity, the marker       *)
(* included, although shutdown and pop insert it without waiting.          *)
(***************************************************************************)
TypeOK == LBTypeOK /\ FPTypeOK /\ WriterTypeOK /\ MainTypeOK

(***************************************************************************)
(* No packet is lost or duplicated between the stages: a packet that the   *)
(* reader has dispatched is in exactly one place until it is written,      *)
(* dropped by a rule, or thrown away by a fast path that has been stopped. *)
(***************************************************************************)
Conservation ==
  \A p \in Packets :
    Cardinality(Places(p)) = IF p \in Dispatched THEN 1 ELSE 0

(***************************************************************************)
(* "Stop all threads in the correct order": a load balancer ends only when *)
(* the reader is through and its queue is drained, a fast path only when   *)
(* all load balancers have ended and its queue is drained, and the output  *)
(* queue is shut down only when all fast paths have ended.                 *)
(***************************************************************************)
DrainedInOrder ==
  /\ \A i \in LBs : lbpc[i] = "done" =>
       /\ next > Len(input)
       /\ Items(lbq[i]) = {}
       /\ lbpkt[i] = NoPacket
  /\ \A j \in FPs : fppc[j] = "done" =>
       /\ \A i \in LBs : lbpc[i] = "done"
       /\ Items(fpq[j]) = {}
       /\ fppkt[j] = NoPacket
  /\ (\E k \in DOMAIN outq : outq[k] = Sentinel) =>
       \A j \in FPs : fppc[j] = "done"

(***************************************************************************)
(* The report can be trusted, although it reads the counters of other      *)
(* threads: the packet count and the drop counts are final, the drops are  *)
(* the packets of each fast path that a rule blocked, and no packet is     *)
(* called forwarded that has not been written.                             *)
(***************************************************************************)
ReportIsSound ==
  mpc \in {"exiting", "exited"} =>
    /\ report.total = Cardinality({p \in Packets : input[p].parsed})
    /\ \A j \in FPs :
         report.dropped[j] = Cardinality({p \in Packets : fate[p] = "drop" /\ FPOf(p) = j})
    /\ report.forwarded <= Len(file)

(***************************************************************************)
(* The statistics per thread are those of the hashing: when the fast paths *)
(* have been joined, each load balancer has counted exactly the packets of *)
(* the flows that hash to it, and so has each fast path.  They do not add  *)
(* up: what a fast path has processed it has forwarded, dropped, or taken  *)
(* out of its queue after it was stopped and thrown away uncounted.        *)
(***************************************************************************)
StatisticsFollowHash ==
  mpc \in {"shutOut", "await", "report", "exiting", "exited"} =>
    /\ \A i \in LBs :
         dispatched[i] = Cardinality({p \in Dispatched : LBOf(p) = i})
    /\ \A j \in FPs :
         LET Mine(f) == Cardinality({p \in Dispatched : FPOf(p) = j /\ fate[p] = f})
         IN  /\ processed[j] = Cardinality({p \in Dispatched : FPOf(p) = j})
             /\ fpForwarded[j] = Mine("forward")
             /\ processed[j] = fpForwarded[j] + fpDropped[j] + Mine("discard")

(***************************************************************************)
(* Threads, queues and private flow tables notwithstanding, the engine is  *)
(* a packet filter with one flow table: the hashing keeps the packets of a *)
(* flow together and in order from the reader to the output file.          *)
(***************************************************************************)
FPOfTuple(t) == (Hash[t] % NumLBs) * FPsPerLB + (Hash[t] % FPsPerLB)

Filter == INSTANCE PacketFilter WITH
  arrived <- next - 1,
  flows   <- [t \in Tuples |-> flows[FPOfTuple(t)][t]],
  fate    <- [p \in Packets |-> IF fate[p] = "discard" THEN "none" ELSE fate[p]]

ImplementsFilter == Filter!Spec

\* The output is in flow order, holds nothing twice and nothing that was
\* blocked (see PacketFilter).
FileInFlowOrder == Filter!FileInFlowOrder

\* Whatever the schedule, a packet gets the verdict that judging the capture
\* one packet after the other would give it (see PacketFilter).
JudgedInTurn == Filter!JudgedInTurn

(***************************************************************************)
(* run() ends under every fair schedule, unless the writer has given up    *)
(* early and left a fast path in push, in front of an output queue that is *)
(* full and stays so: no other wait of a thread for another lasts for      *)
(* ever.                                                                   *)
(***************************************************************************)
HangsOnlyBehindWriter ==
  <>(\/ ~Alive
     \/ /\ wpc = "done"
        /\ Full(outq, OutCap)
        /\ \E j \in FPs : fppc[j] = "push")

-----------------------------------------------------------------------------
(* What the documentation says and the code does not do *)

(***************************************************************************)
(* "shutdown() - unblock all waiting threads so they can exit": once the   *)
(* output queue has been shut down the writer ends, unless main leaves     *)
(* first.  In the code the writer keeps the queue from ever being empty by *)
(* putting the marker back.                                                *)
(***************************************************************************)
WriterStopsAfterShutdown == (mpc = "await") ~> (wpc = "done" \/ mpc # "await")

(***************************************************************************)
(* "while (running_ || output_queue.size() > 0)": when the run is over and *)
(* the writer has ended, every packet let through has been written.  In    *)
(* the code an idle moment ends the writer in the middle of the run.       *)
(***************************************************************************)
ForwardedIsWritten ==
  mpc = "exited" /\ wpc = "done" =>
    \A p \in Packets : fate[p] = "forward" => Written(p)

(***************************************************************************)
(* "Stop all threads ... and wait for completion": after the reader, run() *)
(* completes.  In the code it hangs in join when a fast path waits for     *)
(* room in an output queue that nobody empties any more.                   *)
(***************************************************************************)
StopCompletes == (mpc = "stopLB") ~> (mpc = "exited")

(***************************************************************************)
(* "Distribute packets across a pool of Fast Path threads": when the hash  *)
(* values of a capture leave every residue modulo the size of the pool,    *)
(* every fast path has a packet.  In the code the same hash chooses first  *)
(* the load balancer and then the fast path, and some have none.           *)
(***************************************************************************)
SpreadsOverPool ==
  LET residues == {HashOf(input[p]) % (NumLBs * FPsPerLB) : p \in Dispatched}
  IN  residues = FPs => {FPOf(p) : p \in Dispatched} = FPs

=============================================================================
