--------------------------- MODULE DPIEngineProofs --------------------------
(***************************************************************************)
(* Theorems about the multi-threaded engine, for every capture, every      *)
(* number of threads and every capacity of the queues.                     *)
(***************************************************************************)
EXTENDS DPIEngine, SequenceProofs, FastPathProofs, FiniteSetTheorems

-----------------------------------------------------------------------------
(* Types *)

\* A thread holds a packet exactly between taking it and passing it on.
HoldsPacket ==
  /\ \A i \in LBs : lbpc[i] \in {"push", "drainPush"} <=> lbpkt[i] # NoPacket
  /\ \A j \in FPs : fppc[j] = "push" <=> fppkt[j] # NoPacket
  /\ wpc = "write" <=> wpkt # NoPacket

TypeInv == TypeOK /\ HoldsPacket

\* Input records are packet records, and positions of packets are not markers.
LEMMA InputType ==
  ASSUME MainTypeOK
  PROVE  /\ input \in Seq(PacketRecords)
         /\ \A p \in Packets : input[p] \in PacketRecords
         /\ Len(input) \in Nat
         /\ NoPacket \notin Packets
         /\ Sentinel \notin Packets
<1>1. input \in Seq(PacketRecords)
  BY InputsAssumption DEF MainTypeOK
<1> QED
  BY <1>1 DEF Packets, NoPacket, Sentinel

\* What is in front of a queue of packets, if it is an item, is a packet.
LEMMA HeadIsPacket ==
  ASSUME NEW cap, NEW q \in BoundedQueues(Packets, cap), HasItem(q)
  PROVE  Head(q) \in Packets /\ q # <<>> /\ q \in Seq(Packets \cup {Sentinel})
BY DEF BoundedQueues, HasItem

LEMMA CapsType == LBCap \in Nat /\ FPCap \in Nat /\ OutCap \in Nat
BY SizesAssumption

LEMMA InitTypeInv == Init => TypeInv
<1> SUFFICES ASSUME Init PROVE TypeInv
  OBVIOUS
<1> USE DEF Init, LBInit, FPInit, WriterInit
<1>1. LBTypeOK
  BY CapsType DEF LBTypeOK, BoundedQueues
<1>2. FPTypeOK
  BY CapsType, NewFlowType DEF FPTypeOK, BoundedQueues
<1>3. WriterTypeOK
  BY CapsType DEF WriterTypeOK, BoundedQueues
<1>4. MainTypeOK
  <2>1. input \in Inputs /\ Len(input) \in Nat
    BY InputsAssumption
  <2>2. 0 \in LBs
    BY SizesAssumption DEF LBs
  <2> QED
    BY <2>1, <2>2 DEF MainTypeOK
<1>5. HoldsPacket
  BY DEF HoldsPacket, NoPacket
<1> QED
  BY <1>1, <1>2, <1>3, <1>4, <1>5 DEF TypeInv, TypeOK

\* A step of a load balancer keeps the types.
LEMMA LBTypes ==
  ASSUME TypeInv, NEW i \in LBs, LB(i)
  PROVE  TypeInv'
<1> USE CapsType, InputType DEF TypeInv, TypeOK, LB, lbVars, fpVars, writerVars, mainVars
<1>1. Packets' = Packets /\ LBs' = LBs /\ FPs' = FPs
  BY DEF Packets
<1>2. WriterTypeOK' /\ MainTypeOK'
  BY <1>1 DEF WriterTypeOK, MainTypeOK
<1>3. CASE LBCheck(i)
  BY <1>1, <1>2, <1>3 DEF LBCheck, LBTypeOK, FPTypeOK, HoldsPacket
<1>4. CASE LBPop(i)
  <2>1. /\ Head(lbq[i]) \in Packets
        /\ Tail(lbq[i]) \in BoundedQueues(Packets, LBCap)
    BY <1>4, HeadIsPacket, TailOfQueue DEF LBPop, LBTypeOK
  <2> QED
    BY <1>1, <1>2, <1>4, <2>1 DEF LBPop, LBTypeOK, FPTypeOK, HoldsPacket
<1>5. CASE LBPopNone(i)
  <2>1. AfterNone(lbq[i], LBCap) \in BoundedQueues(Packets, LBCap)
    BY <1>5, PopNone DEF LBPopNone, LBTypeOK
  <2> QED
    BY <1>1, <1>2, <1>5, <2>1 DEF LBPopNone, LBTypeOK, FPTypeOK, HoldsPacket
<1>6. CASE LBPush(i)
  <2> DEFINE j == SelectFP(i, lbpkt[i])
  <2>1. lbpkt[i] \in Packets
    BY <1>6 DEF LBPush, LBTypeOK, HoldsPacket
  <2>2. j \in FPs => Append(fpq[j], lbpkt[i]) \in BoundedQueues(Packets, FPCap)
    BY <1>6, <2>1, PushItem DEF LBPush, FPTypeOK
  <2>3. fpq' \in [FPs -> BoundedQueues(Packets, FPCap)]
    <3> HIDE DEF j
    <3> QED BY <1>6, <2>2 DEF LBPush, FPTypeOK, j
  <2>4. FPTypeOK'
    BY <1>1, <2>3 DEF FPTypeOK
  <2>5. LBTypeOK'
    BY <1>1, <1>6 DEF LBPush, LBTypeOK
  <2>6. HoldsPacket'
    BY <1>1, <1>6 DEF LBPush, LBTypeOK, HoldsPacket
  <2> QED
    BY <1>2, <2>4, <2>5, <2>6
<1>7. CASE LBDrainItem(i)
  <2>1. /\ Head(lbq[i]) \in Packets
        /\ Tail(lbq[i]) \in BoundedQueues(Packets, LBCap)
    BY <1>7, HeadIsPacket, TailOfQueue DEF LBDrainItem, LBTypeOK
  <2> QED
    BY <1>1, <1>2, <1>7, <2>1 DEF LBDrainItem, LBTypeOK, FPTypeOK, HoldsPacket
<1>8. CASE LBDrainEnd(i)
  <2>1. AfterNone(lbq[i], LBCap) \in BoundedQueues(Packets, LBCap)
    BY <1>8, PopNone DEF LBDrainEnd, LBTypeOK
  <2> QED
    BY <1>1, <1>2, <1>8, <2>1 DEF LBDrainEnd, LBTypeOK, FPTypeOK, HoldsPacket
<1> QED
  BY <1>3, <1>4, <1>5, <1>6, <1>7, <1>8 DEF LBStep

\* A step of a fast path keeps the types.
LEMMA FPTypes ==
  ASSUME TypeInv, NEW j \in FPs, FP(j)
  PROVE  TypeInv'
<1> USE CapsType, InputType DEF TypeInv, TypeOK, FP, lbVars, fpVars, writerVars, mainVars
<1>1. Packets' = Packets /\ LBs' = LBs /\ FPs' = FPs
  BY DEF Packets
<1>2. LBTypeOK' /\ MainTypeOK'
  BY <1>1 DEF LBTypeOK, MainTypeOK
<1>3. CASE FPCheck(j)
  BY <1>1, <1>2, <1>3 DEF FPCheck, FPTypeOK, WriterTypeOK, HoldsPacket
<1>4. CASE FPInspect(j)
  <2> DEFINE p == Head(fpq[j])
             t == input[p].tuple
             flow == Inspect(input[p], flows[j][t])
  <2>1. p \in Packets /\ Tail(fpq[j]) \in BoundedQueues(Packets, FPCap)
    BY <1>4, HeadIsPacket, TailOfQueue DEF FPInspect, FPTypeOK
  <2>2. t \in Tuples
    BY <1>4, <2>1 DEF FPInspect, PacketRecords
  <2>3. flow \in Flows /\ flow.blocked \in BOOLEAN
    <3>1. flow \in Flows
      BY <2>1, <2>2, InspectType DEF FPTypeOK
    <3> QED BY <3>1 DEF Flows
  <2> HIDE DEF p, t, flow
  <2>4. FPTypeOK'
    <3>1. /\ fpq' = [fpq EXCEPT ![j] = Tail(@)]
          /\ processed' = [processed EXCEPT ![j] = @ + 1]
          /\ flows' = [flows EXCEPT ![j][t] = flow]
          /\ fpForwarded' = fpForwarded
          /\ fpRunning' = fpRunning
      BY <1>4 DEF FPInspect, p, t, flow
    <3>2. \/ /\ fate' = [fate EXCEPT ![p] = "drop"]
             /\ fpDropped' = [fpDropped EXCEPT ![j] = @ + 1]
             /\ fppc' = [fppc EXCEPT ![j] = "check"]
             /\ fppkt' = fppkt
          \/ /\ fate' = [fate EXCEPT ![p] = "forward"]
             /\ fpDropped' = fpDropped
             /\ fppc' = [fppc EXCEPT ![j] = "push"]
             /\ fppkt' = [fppkt EXCEPT ![j] = p]
      BY <1>4 DEF FPInspect, p, t, flow
    <3>3. flows' \in [FPs -> [Tuples -> Flows]]
      BY <2>2, <2>3, <3>1 DEF FPTypeOK
    <3>4. /\ fpq' \in [FPs -> BoundedQueues(Packets, FPCap)]
          /\ processed' \in [FPs -> Nat]
      BY <2>1, <3>1 DEF FPTypeOK
    <3>5. fate' \in [Packets -> {"none", "forward", "drop", "discard"}]
      BY <2>1, <3>2 DEF FPTypeOK
    <3>6. fpDropped' \in [FPs -> Nat]
      <4>1. [fpDropped EXCEPT ![j] = @ + 1] \in [FPs -> Nat]
        BY DEF FPTypeOK
      <4> QED
        BY <3>2, <4>1 DEF FPTypeOK
    <3>7. fppc' \in [FPs -> {"check", "pop", "push", "drain", "done"}]
      BY <3>2 DEF FPTypeOK
    <3>8. fppkt' \in [FPs -> Packets \cup {NoPacket}]
      <4>1. [fppkt EXCEPT ![j] = p] \in [FPs -> Packets \cup {NoPacket}]
        BY <2>1 DEF FPTypeOK
      <4> QED
        BY <3>2, <4>1 DEF FPTypeOK
    <3> QED
      BY <1>1, <3>1, <3>3, <3>4, <3>5, <3>6, <3>7, <3>8 DEF FPTypeOK
  <2>5. WriterTypeOK'
    BY <1>1, <1>4 DEF FPInspect, WriterTypeOK
  <2>6. HoldsPacket'
    BY <1>1, <1>4, <2>1 DEF FPInspect, FPTypeOK, HoldsPacket, p
  <2> QED
    BY <1>2, <2>4, <2>5, <2>6
<1>5. CASE FPPassThrough(j)
  <2>1. Head(fpq[j]) \in Packets /\ Tail(fpq[j]) \in BoundedQueues(Packets, FPCap)
    BY <1>5, HeadIsPacket, TailOfQueue DEF FPPassThrough, FPTypeOK
  <2> QED
    BY <1>1, <1>2, <1>5, <2>1 DEF FPPassThrough, FPTypeOK, WriterTypeOK, HoldsPacket
<1>6. CASE FPPopNone(j)
  <2>1. AfterNone(fpq[j], FPCap) \in BoundedQueues(Packets, FPCap)
    BY <1>6, PopNone DEF FPPopNone, FPTypeOK
  <2> QED
    BY <1>1, <1>2, <1>6, <2>1 DEF FPPopNone, FPTypeOK, WriterTypeOK, HoldsPacket
<1>7. CASE FPForward(j)
  <2>1. Append(outq, fppkt[j]) \in BoundedQueues(Packets, OutCap)
    BY <1>7, PushItem DEF FPForward, FPTypeOK, WriterTypeOK, HoldsPacket
  <2> QED
    BY <1>1, <1>2, <1>7, <2>1 DEF FPForward, FPTypeOK, WriterTypeOK, HoldsPacket
<1>8. CASE FPDrainItem(j)
  <2>1. Head(fpq[j]) \in Packets /\ Tail(fpq[j]) \in BoundedQueues(Packets, FPCap)
    BY <1>8, HeadIsPacket, TailOfQueue DEF FPDrainItem, FPTypeOK
  <2> QED
    BY <1>1, <1>2, <1>8, <2>1 DEF FPDrainItem, FPTypeOK, WriterTypeOK, HoldsPacket
<1>9. CASE FPDrainEnd(j)
  <2>1. AfterNone(fpq[j], FPCap) \in BoundedQueues(Packets, FPCap)
    BY <1>9, PopNone DEF FPDrainEnd, FPTypeOK
  <2> QED
    BY <1>1, <1>2, <1>9, <2>1 DEF FPDrainEnd, FPTypeOK, WriterTypeOK, HoldsPacket
<1> QED
  BY <1>3, <1>4, <1>5, <1>6, <1>7, <1>8, <1>9 DEF FPStep

\* A step of the output writer keeps the types.
LEMMA WriterTypes ==
  ASSUME TypeInv, Writer
  PROVE  TypeInv'
<1> USE CapsType, InputType DEF TypeInv, TypeOK, Writer, lbVars, fpVars, mainVars
<1>1. Packets' = Packets /\ LBs' = LBs /\ FPs' = FPs
  BY DEF Packets
<1>2. LBTypeOK' /\ FPTypeOK' /\ MainTypeOK'
  BY <1>1 DEF LBTypeOK, FPTypeOK, MainTypeOK
<1>3. CASE WriterPop
  <2>1. Head(outq) \in Packets /\ Tail(outq) \in BoundedQueues(Packets, OutCap)
    BY <1>3, HeadIsPacket, TailOfQueue DEF WriterPop, WriterTypeOK
  <2> QED
    BY <1>1, <1>2, <1>3, <2>1 DEF WriterPop, WriterTypeOK, HoldsPacket
<1>4. CASE WriterPopNone
  <2>1. AfterNone(outq, OutCap) \in BoundedQueues(Packets, OutCap)
    BY <1>4, PopNone DEF WriterPopNone, WriterTypeOK
  <2> QED
    BY <1>1, <1>2, <1>4, <2>1 DEF WriterPopNone, WriterTypeOK, HoldsPacket
<1>5. CASE WriterDecide
  BY <1>1, <1>2, <1>5 DEF WriterDecide, WriterTypeOK, HoldsPacket
<1>6. CASE WriterWrite
  BY <1>1, <1>2, <1>6 DEF WriterWrite, WriterTypeOK, HoldsPacket
<1> QED
  BY <1>3, <1>4, <1>5, <1>6 DEF WriterStep

\* A step of the main thread keeps the types.
LEMMA MainTypes ==
  ASSUME TypeInv, Main
  PROVE  TypeInv'
<1> USE CapsType, InputType DEF TypeInv, TypeOK, Main, lbVars, fpVars, writerVars
<1>1. Packets' = Packets /\ LBs' = LBs /\ FPs' = FPs
  BY DEF Packets
<1>2. HoldsPacket'
  BY <1>1 DEF HoldsPacket
<1>3. 0 \in LBs
  BY SizesAssumption DEF LBs
<1>4. CASE ReaderSkip
  BY <1>1, <1>2, <1>4 DEF ReaderSkip, LBTypeOK, FPTypeOK, WriterTypeOK, MainTypeOK
<1>5. CASE ReaderDispatch
  <2> DEFINE i == LBOf(next)
  <2>1. next \in Packets
    BY <1>5 DEF ReaderDispatch, MainTypeOK, Packets
  <2>2. i \in LBs => Append(lbq[i], next) \in BoundedQueues(Packets, LBCap)
    BY <1>5, <2>1, PushItem DEF ReaderDispatch, LBTypeOK
  <2>3. lbq' \in [LBs -> BoundedQueues(Packets, LBCap)]
    <3> HIDE DEF i
    <3> QED BY <1>5, <2>2 DEF ReaderDispatch, LBTypeOK, i
  <2>4. LBTypeOK'
    BY <1>1, <1>5, <2>3 DEF ReaderDispatch, LBTypeOK
  <2>5. FPTypeOK' /\ WriterTypeOK'
    BY <1>1, <1>5 DEF ReaderDispatch, FPTypeOK, WriterTypeOK
  <2>6. MainTypeOK'
    BY <1>1, <1>5 DEF ReaderDispatch, MainTypeOK
  <2> QED
    BY <1>2, <2>4, <2>5, <2>6
<1>6. CASE ReaderEnd
  BY <1>1, <1>2, <1>6 DEF ReaderEnd, LBTypeOK, FPTypeOK, WriterTypeOK, MainTypeOK
<1>7. CASE StopLB
  BY <1>1, <1>2, <1>7 DEF StopLB, LBTypeOK, FPTypeOK, WriterTypeOK, MainTypeOK
<1>8. CASE ShutLB
  <2>1. mi \in LBs => PutNowait(lbq[mi], Sentinel, LBCap) \in BoundedQueues(Packets, LBCap)
    BY PutMarker DEF LBTypeOK
  <2>2. LBTypeOK'
    BY <1>1, <1>8, <2>1 DEF ShutLB, LBTypeOK
  <2>3. FPTypeOK' /\ WriterTypeOK'
    BY <1>1, <1>8 DEF ShutLB, FPTypeOK, WriterTypeOK
  <2>4. MainTypeOK'
    BY <1>1, <1>3, <1>8 DEF ShutLB, MainTypeOK
  <2> QED
    BY <1>2, <2>2, <2>3, <2>4
<1>9. CASE StopFP
  BY <1>1, <1>2, <1>9 DEF StopFP, LBTypeOK, FPTypeOK, WriterTypeOK, MainTypeOK
<1>10. CASE ShutFP
  <2>1. mi \in FPs => PutNowait(fpq[mi], Sentinel, FPCap) \in BoundedQueues(Packets, FPCap)
    BY PutMarker DEF FPTypeOK
  <2>2. FPTypeOK'
    BY <1>1, <1>10, <2>1 DEF ShutFP, FPTypeOK
  <2>3. LBTypeOK' /\ WriterTypeOK'
    BY <1>1, <1>10 DEF ShutFP, LBTypeOK, WriterTypeOK
  <2>4. MainTypeOK'
    BY <1>1, <1>3, <1>10 DEF ShutFP, MainTypeOK
  <2> QED
    BY <1>2, <2>2, <2>3, <2>4
<1>11. CASE ShutOutput
  <2>1. PutNowait(outq, Sentinel, OutCap) \in BoundedQueues(Packets, OutCap)
    BY PutMarker DEF WriterTypeOK
  <2> QED
    BY <1>1, <1>2, <1>11, <2>1
    DEF ShutOutput, LBTypeOK, FPTypeOK, WriterTypeOK, MainTypeOK
<1>12. CASE JoinLBs \/ JoinFPs \/ AwaitWriter \/ AwaitTimeout \/ Exit
  BY <1>1, <1>2, <1>12 DEF JoinLBs, JoinFPs, AwaitWriter, AwaitTimeout, Exit,
     LBTypeOK, FPTypeOK, WriterTypeOK, MainTypeOK
<1>13. CASE PrintReport
  <2>1. Len(file) \in Nat
    BY DEF WriterTypeOK
  <2>2. report' \in [total : Nat, forwarded : Nat, dropped : [FPs -> Nat]]
    BY <1>13, <2>1 DEF PrintReport, FPTypeOK, MainTypeOK
  <2> QED
    BY <1>1, <1>2, <1>13, <2>2
    DEF PrintReport, LBTypeOK, FPTypeOK, WriterTypeOK, MainTypeOK
<1> QED
  BY <1>4, <1>5, <1>6, <1>7, <1>8, <1>9, <1>10, <1>11, <1>12, <1>13 DEF MainStep

\* A step that changes nothing keeps the types.
LEMMA StutterTypes ==
  ASSUME TypeInv, UNCHANGED vars
  PROVE  TypeInv'
BY DEF TypeInv, TypeOK, vars, lbVars, fpVars, writerVars, mainVars, Packets,
       LBTypeOK, FPTypeOK, WriterTypeOK, MainTypeOK, HoldsPacket

LEMMA NextTypeInv == TypeInv /\ [Next]_vars => TypeInv'
BY LBTypes, FPTypes, WriterTypes, MainTypes, StutterTypes DEF Next, Terminated

(***************************************************************************)
(* Types, and the capacities of all queues: shutdown and pop never insert  *)
(* a marker into a full queue.                                             *)
(***************************************************************************)
THEOREM TypeCorrect == Spec => []TypeOK
<1>1. Spec => []TypeInv
  BY InitTypeInv, NextTypeInv, PTL DEF Spec
<1>2. TypeInv => TypeOK
  BY DEF TypeInv
<1> QED
  BY <1>1, <1>2, PTL

-----------------------------------------------------------------------------
(* The order of the shutdown *)

LBsDone == \A i \in LBs : lbpc[i] = "done"
FPsDone == \A j \in FPs : fppc[j] = "done"

\* Main has joined the load balancers, and the fast paths.
LBsJoined == mpc \in {"stopFP", "shutFP", "joinFP", "shutOut", "await",
                      "report", "exiting", "exited"}
FPsJoined == mpc \in {"shutOut", "await", "report", "exiting", "exited"}

MainOrder ==
  /\ mpc # "read" => next > Len(input)
  /\ LBsJoined => LBsDone
  /\ FPsJoined => FPsDone

\* The flag and the marker say that the reader is through; a load balancer
\* believes the flag, and loses nothing at the marker, which comes last.
LBOrder ==
  \A i \in LBs :
    /\ MarkersLast(lbq[i])
    /\ HasMarker(lbq[i]) \/ ~lbRunning[i] => mpc # "read"
    /\ lbpc[i] \in {"drain", "drainPush", "done"} => ~lbRunning[i]
    /\ lbpc[i] = "done" => Items(lbq[i]) = {}

\* For a fast path they say that all load balancers have ended.
FPOrder ==
  \A j \in FPs :
    /\ MarkersLast(fpq[j])
    /\ HasMarker(fpq[j]) \/ ~fpRunning[j] => LBsDone
    /\ fppc[j] \in {"drain", "done"} => ~fpRunning[j]
    /\ fppc[j] = "done" => Items(fpq[j]) = {}

OutOrder == HasMarker(outq) => FPsDone

OrderInv == TypeInv /\ MainOrder /\ LBOrder /\ FPOrder /\ OutOrder

LEMMA InitOrder == Init => OrderInv
<1> SUFFICES ASSUME Init PROVE OrderInv
  OBVIOUS
<1>1. TypeInv
  BY InitTypeInv
<1>2. MainOrder
  BY DEF Init, MainOrder, LBsJoined, FPsJoined
<1>3. LBOrder
  BY DEF Init, LBInit, LBOrder, MarkersLast, HasMarker, Items
<1>4. FPOrder
  BY DEF Init, FPInit, FPOrder, MarkersLast, HasMarker, Items
<1>5. OutOrder
  BY DEF Init, WriterInit, OutOrder, HasMarker
<1> QED
  BY <1>1, <1>2, <1>3, <1>4, <1>5 DEF OrderInv

\* A step of a load balancer keeps the order.
LEMMA LBKeepsOrder ==
  ASSUME OrderInv, NEW i \in LBs, LB(i)
  PROVE  OrderInv'
<1> USE InputType DEF OrderInv, LB, lbVars, fpVars, writerVars, mainVars
<1>1. TypeInv'
  BY LBTypes
<1>2. /\ LBTypeOK /\ FPTypeOK /\ MainTypeOK
      /\ LBCap \in Nat /\ FPCap \in Nat
  BY CapsType DEF TypeInv, TypeOK
<1>3. /\ lbq[i] \in BoundedQueues(Packets, LBCap)
      /\ lbpc \in [LBs -> {"check", "pop", "push", "drain", "drainPush", "done"}]
  BY <1>2 DEF LBTypeOK
<1>4. lbpc[i] # "done"
  BY DEF LBStep, LBCheck, LBPop, LBPopNone, LBPush, LBDrainItem, LBDrainEnd
<1>5. MainOrder' /\ ~LBsDone
  BY <1>4 DEF MainOrder, LBsJoined, FPsJoined, LBsDone, FPsDone
<1>6. OutOrder'
  BY DEF OutOrder, FPsDone
<1>7. CASE LBPush(i)
  <2> DEFINE j == SelectFP(i, lbpkt[i])
  <2>1. lbpkt[i] \in Packets
    BY <1>2, <1>7 DEF LBPush, LBTypeOK, TypeInv, HoldsPacket
  <2>2. j \in FPs => /\ ~HasMarker(fpq[j]) /\ fpRunning[j]
                     /\ MarkersLast(Append(fpq[j], lbpkt[i]))
                     /\ ~HasMarker(Append(fpq[j], lbpkt[i]))
    <3>1. j \in FPs => ~HasMarker(fpq[j]) /\ fpRunning[j]
      BY <1>5 DEF FPOrder
    <3> QED
      BY <1>2, <1>7, <2>1, <3>1, PushItem DEF LBPush, FPTypeOK
  <2>3. \A k \in FPs : fpq'[k] = IF k = j THEN Append(fpq[j], lbpkt[i]) ELSE fpq[k]
    <3> HIDE DEF j
    <3> QED BY <1>2, <1>7 DEF LBPush, FPTypeOK, j
  <2>4. FPOrder'
    <3> HIDE DEF j
    <3> QED BY <1>5, <2>2, <2>3 DEF FPOrder, LBsDone
  <2>5. LBOrder'
    BY <1>3, <1>7 DEF LBPush, LBOrder
  <2> QED
    BY <1>1, <1>5, <1>6, <2>4, <2>5
<1>8. CASE ~LBPush(i)
  <2>1. FPOrder'
    BY <1>5, <1>8 DEF FPOrder, LBsDone, LBStep, LBCheck, LBPop, LBPopNone,
       LBDrainItem, LBDrainEnd
  <2>2. CASE LBCheck(i)
    BY <1>1, <1>3, <1>5, <1>6, <2>1, <2>2 DEF LBCheck, LBOrder
  <2>3. CASE LBPop(i) \/ LBDrainItem(i)
    <3>1. /\ MarkersLast(Tail(lbq[i]))
          /\ HasMarker(Tail(lbq[i])) => HasMarker(lbq[i])
      BY <1>2, <1>3, <2>3, HeadIsPacket, TailOfQueue DEF LBPop, LBDrainItem, LBOrder
    <3>2. LBOrder'
      BY <1>2, <1>3, <2>3, <3>1 DEF LBPop, LBDrainItem, LBTypeOK, LBOrder
    <3> QED
      BY <1>1, <1>5, <1>6, <2>1, <3>2
  <2>4. CASE LBPopNone(i) \/ LBDrainEnd(i)
    <3> DEFINE q == AfterNone(lbq[i], LBCap)
    <3>1. /\ MarkersLast(q) /\ Items(q) = {}
          /\ HasMarker(q) => HasMarker(lbq[i])
      BY <1>2, <1>3, <2>4, PopNone DEF LBPopNone, LBDrainEnd, LBOrder
    <3>2. /\ lbq' = [lbq EXCEPT ![i] = q] /\ lbRunning' = lbRunning /\ mpc' = mpc
          /\ \/ lbpc' = [lbpc EXCEPT ![i] = "check"]
             \/ lbpc[i] = "drain" /\ lbpc' = [lbpc EXCEPT ![i] = "done"]
      BY <2>4 DEF LBPopNone, LBDrainEnd
    <3> HIDE DEF q
    <3>3. LBOrder'
      BY <1>2, <1>3, <3>1, <3>2 DEF LBTypeOK, LBOrder
    <3> QED
      BY <1>1, <1>5, <1>6, <2>1, <3>3
  <2> QED
    BY <1>8, <2>2, <2>3, <2>4 DEF LBStep
<1> QED
  BY <1>7, <1>8

\* A step of a fast path keeps the order.
LEMMA FPKeepsOrder ==
  ASSUME OrderInv, NEW j \in FPs, FP(j)
  PROVE  OrderInv'
<1> USE InputType DEF OrderInv, FP, lbVars, fpVars, writerVars, mainVars
<1>1. TypeInv'
  BY FPTypes
<1>2. /\ FPTypeOK /\ WriterTypeOK /\ MainTypeOK
      /\ FPCap \in Nat /\ OutCap \in Nat
  BY CapsType DEF TypeInv, TypeOK
<1>3. /\ fpq[j] \in BoundedQueues(Packets, FPCap)
      /\ fppc \in [FPs -> {"check", "pop", "push", "drain", "done"}]
  BY <1>2 DEF FPTypeOK
<1>4. fppc[j] # "done"
  BY DEF FPStep, FPCheck, FPInspect, FPPassThrough, FPPopNone, FPForward,
     FPDrainItem, FPDrainEnd
<1>5. MainOrder' /\ ~FPsDone
  BY <1>4 DEF MainOrder, LBsJoined, FPsJoined, LBsDone, FPsDone
<1>6. LBOrder'
  BY DEF LBOrder
<1>7. OutOrder'
  <2>1. CASE FPForward(j)
    <3>1. fppkt[j] \in Packets
      BY <1>2, <2>1 DEF FPForward, FPTypeOK, TypeInv, HoldsPacket
    <3>2. ~HasMarker(Append(outq, fppkt[j]))
      BY <1>2, <1>5, <2>1, <3>1, PushItem DEF FPForward, WriterTypeOK, OutOrder
    <3> QED
      BY <2>1, <3>2 DEF FPForward, OutOrder
  <2>2. CASE ~FPForward(j)
    BY <1>5, <2>2 DEF OutOrder, FPStep, FPCheck, FPInspect, FPPassThrough,
       FPPopNone, FPDrainItem, FPDrainEnd
  <2> QED
    BY <2>1, <2>2
<1>8. LBsDone' <=> LBsDone
  BY DEF LBsDone
<1>9. CASE FPCheck(j) \/ FPForward(j)
  <2>1. FPOrder'
    BY <1>3, <1>8, <1>9 DEF FPCheck, FPForward, FPOrder
  <2> QED
    BY <1>1, <1>5, <1>6, <1>7, <2>1
<1>10. CASE FPInspect(j) \/ FPPassThrough(j) \/ FPDrainItem(j)
  <2> DEFINE q == Tail(fpq[j])
  <2>1. /\ MarkersLast(q)
        /\ HasMarker(q) => HasMarker(fpq[j])
    <3>1. HasItem(fpq[j])
      BY <1>10 DEF FPInspect, FPPassThrough, FPDrainItem
    <3>2. MarkersLast(fpq[j])
      BY DEF FPOrder
    <3> QED
      BY <1>2, <1>3, <3>1, <3>2, HeadIsPacket, TailOfQueue
  <2>2. /\ fpq' = [fpq EXCEPT ![j] = q]
        /\ fpRunning' = fpRunning
        /\ \/ fppc' = [fppc EXCEPT ![j] = "check"]
           \/ fppc' = [fppc EXCEPT ![j] = "push"]
           \/ fppc' = fppc
    BY <1>10 DEF FPInspect, FPPassThrough, FPDrainItem
  <2> HIDE DEF q
  <2>3. FPOrder'
    BY <1>2, <1>3, <1>4, <1>8, <2>1, <2>2 DEF FPTypeOK, FPOrder
  <2> QED
    BY <1>1, <1>5, <1>6, <1>7, <2>3
<1>11. CASE FPPopNone(j) \/ FPDrainEnd(j)
  <2> DEFINE q == AfterNone(fpq[j], FPCap)
  <2>1. /\ MarkersLast(q) /\ Items(q) = {}
        /\ HasMarker(q) => HasMarker(fpq[j])
    BY <1>2, <1>3, <1>11, PopNone DEF FPPopNone, FPDrainEnd, FPOrder
  <2>2. /\ fpq' = [fpq EXCEPT ![j] = q]
        /\ fpRunning' = fpRunning
        /\ \/ fppc' = [fppc EXCEPT ![j] = "check"]
           \/ fppc[j] = "drain" /\ fppc' = [fppc EXCEPT ![j] = "done"]
    BY <1>11 DEF FPPopNone, FPDrainEnd
  <2> HIDE DEF q
  <2>3. FPOrder'
    BY <1>2, <1>3, <1>8, <2>1, <2>2 DEF FPTypeOK, FPOrder
  <2> QED
    BY <1>1, <1>5, <1>6, <1>7, <2>3
<1> QED
  BY <1>9, <1>10, <1>11 DEF FPStep

\* A step of the output writer keeps the order.
LEMMA WriterKeepsOrder ==
  ASSUME OrderInv, Writer
  PROVE  OrderInv'
<1> USE DEF OrderInv, Writer, lbVars, fpVars, mainVars
<1>1. TypeInv'
  BY WriterTypes
<1>2. WriterTypeOK /\ MainTypeOK /\ OutCap \in Nat
  BY CapsType DEF TypeInv, TypeOK
<1>3. MainOrder' /\ LBOrder' /\ FPOrder'
  BY DEF MainOrder, LBsJoined, FPsJoined, LBsDone, FPsDone, LBOrder, FPOrder
<1>4. HasMarker(outq') => HasMarker(outq)
  <2>1. CASE WriterPop
    BY <1>2, <2>1, HeadIsPacket, TailOfQueue DEF WriterPop, WriterTypeOK
  <2>2. CASE WriterPopNone
    BY <1>2, <2>2, PopNone DEF WriterPopNone, WriterTypeOK
  <2> QED
    BY <2>1, <2>2 DEF WriterStep, WriterDecide, WriterWrite
<1>5. OutOrder'
  BY <1>4 DEF OutOrder, FPsDone
<1> QED
  BY <1>1, <1>3, <1>5

\* A step of the main thread keeps the order.
LEMMA MainKeepsOrder ==
  ASSUME OrderInv, Main
  PROVE  OrderInv'
<1> USE InputType DEF OrderInv, Main, lbVars, fpVars, writerVars
<1>1. TypeInv'
  BY MainTypes
<1>2. /\ LBTypeOK /\ FPTypeOK /\ WriterTypeOK /\ MainTypeOK
      /\ LBCap \in Nat /\ FPCap \in Nat /\ OutCap \in Nat
  BY CapsType DEF TypeInv, TypeOK
<1>3. (LBsDone' <=> LBsDone) /\ (FPsDone' <=> FPsDone)
  BY DEF LBsDone, FPsDone
<1>4. MainOrder'
  BY <1>2, <1>3 DEF MainOrder, LBsJoined, FPsJoined, LBsDone, FPsDone, MainTypeOK,
     MainStep, ReaderSkip, ReaderDispatch, ReaderEnd, StopLB, ShutLB, JoinLBs,
     StopFP, ShutFP, JoinFPs, ShutOutput, AwaitWriter, AwaitTimeout, PrintReport, Exit
<1>5. CASE ReaderDispatch
  <2> DEFINE i == LBOf(next)
  <2>1. next \in Packets
    BY <1>2, <1>5 DEF ReaderDispatch, MainTypeOK, Packets
  <2>2. i \in LBs => /\ MarkersLast(Append(lbq[i], next))
                     /\ ~HasMarker(Append(lbq[i], next))
                     /\ lbpc[i] # "done"
    <3>1. i \in LBs => ~HasMarker(lbq[i]) /\ lbRunning[i]
      BY <1>5 DEF ReaderDispatch, LBOrder
    <3> QED
      BY <1>2, <1>5, <2>1, <3>1, PushItem DEF ReaderDispatch, LBTypeOK, LBOrder
  <2>3. \A k \in LBs : lbq'[k] = IF k = i THEN Append(lbq[i], next) ELSE lbq[k]
    <3> HIDE DEF i
    <3> QED BY <1>2, <1>5 DEF ReaderDispatch, LBTypeOK, i
  <2>4. LBOrder'
    <3> HIDE DEF i
    <3> QED BY <1>5, <2>2, <2>3 DEF ReaderDispatch, LBOrder
  <2>5. FPOrder' /\ OutOrder'
    BY <1>3, <1>5 DEF ReaderDispatch, FPOrder, OutOrder
  <2> QED
    BY <1>1, <1>4, <2>4, <2>5
<1>6. CASE ShutLB
  <2> DEFINE q == PutNowait(lbq[mi], Sentinel, LBCap)
  <2>1. mi \in LBs => /\ MarkersLast(q)
                      /\ Items(q) = Items(lbq[mi])
    BY <1>2, PutMarker DEF LBTypeOK, LBOrder
  <2>2. \A k \in LBs : lbq'[k] = IF k = mi THEN q ELSE lbq[k]
    BY <1>2, <1>6 DEF ShutLB, LBTypeOK
  <2>3. mpc' # "read"
    BY <1>6 DEF ShutLB
  <2> HIDE DEF q
  <2>4. LBOrder'
    BY <1>6, <2>1, <2>2, <2>3 DEF ShutLB, LBOrder
  <2>5. FPOrder' /\ OutOrder'
    BY <1>3, <1>6 DEF ShutLB, FPOrder, OutOrder
  <2> QED
    BY <1>1, <1>4, <2>4, <2>5
<1>7. CASE ShutFP
  <2> DEFINE q == PutNowait(fpq[mi], Sentinel, FPCap)
  <2>1. mi \in FPs => /\ MarkersLast(q)
                      /\ Items(q) = Items(fpq[mi])
    BY <1>2, PutMarker DEF FPTypeOK, FPOrder
  <2>2. \A k \in FPs : fpq'[k] = IF k = mi THEN q ELSE fpq[k]
    BY <1>2, <1>7 DEF ShutFP, FPTypeOK
  <2>3. LBsDone
    BY <1>7 DEF ShutFP, MainOrder, LBsJoined
  <2> HIDE DEF q
  <2>4. FPOrder'
    BY <1>3, <1>7, <2>1, <2>2, <2>3 DEF ShutFP, FPOrder
  <2>5. LBOrder' /\ OutOrder'
    BY <1>3, <1>7 DEF ShutFP, LBOrder, OutOrder
  <2> QED
    BY <1>1, <1>4, <2>4, <2>5
<1>8. CASE ShutOutput
  <2>1. FPsDone
    BY <1>8 DEF ShutOutput, MainOrder, FPsJoined
  <2>2. LBOrder' /\ FPOrder' /\ OutOrder'
    BY <1>3, <1>8, <2>1 DEF ShutOutput, LBOrder, FPOrder, OutOrder
  <2> QED
    BY <1>1, <1>4, <2>2
<1>9. CASE StopLB \/ StopFP
  <2>1. LBOrder'
    BY <1>2, <1>9 DEF StopLB, StopFP, LBOrder, LBTypeOK
  <2>2. StopFP => LBsDone
    BY DEF StopFP, MainOrder, LBsJoined
  <2>3. FPOrder'
    BY <1>2, <1>3, <1>9, <2>2 DEF StopLB, StopFP, FPOrder, FPTypeOK
  <2>4. OutOrder'
    BY <1>3, <1>9 DEF StopLB, StopFP, OutOrder
  <2> QED
    BY <1>1, <1>4, <2>1, <2>3, <2>4
<1>10. CASE ReaderSkip \/ ReaderEnd \/ JoinLBs \/ JoinFPs \/ AwaitWriter
              \/ AwaitTimeout \/ PrintReport \/ Exit
  <2>1. /\ UNCHANGED <<lbq, lbRunning, fpq, fpRunning, outq>>
        /\ mpc' = "read" => mpc = "read"
    BY <1>10 DEF ReaderSkip, ReaderEnd, JoinLBs, JoinFPs, AwaitWriter, AwaitTimeout,
       PrintReport, Exit
  <2>2. LBOrder' /\ FPOrder' /\ OutOrder'
    BY <1>3, <2>1 DEF LBOrder, FPOrder, OutOrder
  <2> QED
    BY <1>1, <1>4, <2>2
<1> QED
  BY <1>5, <1>6, <1>7, <1>8, <1>9, <1>10 DEF MainStep

LEMMA StutterKeepsOrder ==
  ASSUME OrderInv, UNCHANGED vars
  PROVE  OrderInv'
<1>1. TypeInv'
  BY StutterTypes DEF OrderInv
<1> QED
  BY <1>1 DEF OrderInv, vars, lbVars, fpVars, writerVars, mainVars, MainOrder,
     LBsJoined, FPsJoined, LBsDone, FPsDone, LBOrder, FPOrder, OutOrder

LEMMA NextOrder == OrderInv /\ [Next]_vars => OrderInv'
BY LBKeepsOrder, FPKeepsOrder, WriterKeepsOrder, MainKeepsOrder, StutterKeepsOrder
DEF Next, Terminated

(***************************************************************************)
(* Threads end in the order of the pipeline, and each only when nothing is *)
(* left for it to do, although a marker can be lost at a full queue and    *)
(* although a flag can be seen long after it was cleared.                  *)
(***************************************************************************)
THEOREM ShutdownInOrder == Spec => []DrainedInOrder
<1>1. Spec => []OrderInv
  BY InitOrder, NextOrder, PTL DEF Spec
<1>2. OrderInv => DrainedInOrder
  <2> SUFFICES ASSUME OrderInv PROVE DrainedInOrder
    OBVIOUS
  <2> USE DEF OrderInv
  <2>1. ASSUME NEW i \in LBs, lbpc[i] = "done"
        PROVE  next > Len(input) /\ Items(lbq[i]) = {} /\ lbpkt[i] = NoPacket
    BY <2>1 DEF LBOrder, MainOrder, TypeInv, HoldsPacket
  <2>2. ASSUME NEW j \in FPs, fppc[j] = "done"
        PROVE  LBsDone /\ Items(fpq[j]) = {} /\ fppkt[j] = NoPacket
    BY <2>2 DEF FPOrder, TypeInv, HoldsPacket
  <2> QED
    BY <2>1, <2>2 DEF DrainedInOrder, LBsDone, FPsDone, OutOrder, HasMarker
<1> QED
  BY <1>1, <1>2, PTL

-----------------------------------------------------------------------------
(* The way of a packet *)

(***************************************************************************)
(* A packet goes through stages, never back:                               *)
(*   0  not handed on by the reader       5  in the output queue           *)
(*   1  in the queue of a load balancer   6  with the writer               *)
(*   2  with the load balancer            7  in the file                   *)
(*   3  in the queue of a fast path       8  dropped                       *)
(*   4  with the fast path, let through   9  discarded                     *)
(* The hash says which load balancer and which fast path.  The invariant   *)
(* says that some assignment of stages to packets explains all places and  *)
(* all counters.                                                           *)
(***************************************************************************)
Stages == [Packets -> 0..9]

\* Packets that go the same way.
Sibling(p, q) == LBOf(p) = LBOf(q) /\ FPOf(p) = FPOf(q)

\* The second of them may stand behind the first in a queue.
Follows == {pq \in Packets \X Packets : Sibling(pq[1], pq[2]) => pq[1] < pq[2]}

ReadPlaces(st) == \A p \in Packets : p \in Dispatched <=> st[p] > 0

LBPlaces(st) ==
  \A p \in Packets : \A i \in LBs :
    /\ p \in Items(lbq[i]) <=> st[p] = 1 /\ LBOf(p) = i
    /\ lbpkt[i] = p <=> st[p] = 2 /\ LBOf(p) = i

FPPlaces(st) ==
  \A p \in Packets : \A j \in FPs :
    /\ p \in Items(fpq[j]) <=> st[p] = 3 /\ FPOf(p) = j
    /\ fppkt[j] = p <=> st[p] = 4 /\ FPOf(p) = j

OutPlaces(st) ==
  \A p \in Packets :
    /\ p \in Items(outq) <=> st[p] = 5
    /\ wpkt = p <=> st[p] = 6
    /\ Written(p) <=> st[p] = 7

Fates(st) ==
  \A p \in Packets :
    /\ fate[p] = "none" <=> st[p] < 4
    /\ fate[p] = "drop" <=> st[p] = 8
    /\ fate[p] = "discard" <=> st[p] = 9

Placed(st) ==
  ReadPlaces(st) /\ LBPlaces(st) /\ FPPlaces(st) /\ OutPlaces(st) /\ Fates(st)

\* Of two packets that go the same way the later one is not in front, except
\* that it may be dropped while the earlier one is on its way to the file.
NoOvertaking(st) ==
  \A p, q \in Packets :
    p < q /\ Sibling(p, q) /\ st[p] > 0 /\ st[q] > 0
      => st[q] <= st[p] \/ (st[p] >= 4 /\ st[q] >= 8)

QueuesSorted ==
  /\ \A i \in LBs : Sorted(lbq[i], Follows)
  /\ \A j \in FPs : Sorted(fpq[j], Follows)
  /\ Sorted(outq, Follows)
  /\ Sorted(file, Follows)

\* How many packets of A are at a stage of T.
Count(st, A, T) == Cardinality({p \in A : st[p] \in T})

ToLB(i) == {p \in Packets : LBOf(p) = i}
ToFP(j) == {p \in Packets : FPOf(p) = j}

LBCounters(st) == \A i \in LBs : dispatched[i] = Count(st, ToLB(i), 3..9)
FPCounters(st) ==
  \A j \in FPs :
    /\ processed[j]   = Count(st, ToFP(j), 4..9)
    /\ fpForwarded[j] = Count(st, ToFP(j), 5..7)
    /\ fpDropped[j]   = Count(st, ToFP(j), {8})
Counters(st) == total = Count(st, Packets, 1..9) /\ LBCounters(st) /\ FPCounters(st)

Travel(st) == st \in Stages /\ Placed(st) /\ NoOvertaking(st) /\ Counters(st)

\* Only a fast path in its drain loop discards.
DiscardsAtEnd ==
  \A p \in Packets : fate[p] = "discard" => fppc[FPOf(p)] \in {"drain", "done"}

TravelInv == OrderInv /\ QueuesSorted /\ DiscardsAtEnd /\ \E st : Travel(st)

-----------------------------------------------------------------------------
(* Stages change one at a time *)

\* Packet p goes to stage s.
Moves(st, new, p, s) == s \in 0..9 /\ new = [st EXCEPT ![p] = s]

LEMMA CanMove == \A st, p : \A s \in 0..9 : \E new : Moves(st, new, p, s)
<1> SUFFICES ASSUME NEW st, NEW p, NEW s \in 0..9
             PROVE  \E new : new = [st EXCEPT ![p] = s]
  BY DEF Moves
<1> WITNESS [st EXCEPT ![p] = s]
<1> QED
  OBVIOUS

\* Hashing leads to a thread that exists.
LEMMA HashLeadsToThread ==
  ASSUME NEW h \in Int
  PROVE  /\ h % NumLBs \in LBs
         /\ (h % NumLBs) * FPsPerLB + (h % FPsPerLB) \in FPs
<1>1. h % NumLBs \in 0..(NumLBs - 1) /\ h % FPsPerLB \in 0..(FPsPerLB - 1)
  BY SizesAssumption
<1>2. ASSUME NEW i \in 0..(NumLBs - 1), NEW r \in 0..(FPsPerLB - 1)
      PROVE  i * FPsPerLB + r \in 0..(NumLBs * FPsPerLB - 1)
  <2>1. i * FPsPerLB \in Nat /\ (i + 1) * FPsPerLB = i * FPsPerLB + FPsPerLB
    BY SizesAssumption
  <2>2. (i + 1) * FPsPerLB <= NumLBs * FPsPerLB
    BY SizesAssumption
  <2>3. NumLBs * FPsPerLB \in Nat
    BY SizesAssumption
  <2> QED
    BY <2>1, <2>2, <2>3, SizesAssumption
<1> QED
  BY <1>1, <1>2 DEF LBs, FPs

LEMMA Ways ==
  ASSUME MainTypeOK, NEW p \in Packets
  PROVE  LBOf(p) \in LBs /\ FPOf(p) \in FPs
<1>1. HashOf(input[p]) \in Int
  BY InputType, TuplesAssumption DEF HashOf, PacketRecords
<1> QED
  BY <1>1, HashLeadsToThread DEF LBOf, FPOf, SelectFP

LEMMA FollowsStrict == \A x : <<x, x>> \notin Follows
BY DEF Follows, Sibling, Packets

\* A packet that is the first of its siblings at its stage may advance.
LEMMA Advance ==
  ASSUME MainTypeOK, NEW st \in Stages, NoOvertaking(st),
         NEW p \in Packets, NEW s, NEW new, Moves(st, new, p, s),
         st[p] > 0,
         s = st[p] + 1 \/ (st[p] = 3 /\ s >= 8),
         \A q \in Packets : Sibling(q, p) /\ st[q] = st[p]
           => q = p \/ <<p, q>> \in Follows
  PROVE  NoOvertaking(new)
<1>1. /\ \A q \in Packets : st[q] \in 0..9 /\ new[q] = IF q = p THEN s ELSE st[q]
      /\ s \in 0..9
  BY DEF Stages, Moves
<1>2. Packets \subseteq Int
  BY DEF Packets
<1>3. SUFFICES ASSUME NEW q \in Packets, NEW r \in Packets, q < r, Sibling(q, r),
                      new[q] > 0, new[r] > 0
               PROVE  new[r] <= new[q] \/ (new[q] >= 4 /\ new[r] >= 8)
  BY DEF NoOvertaking
<1>4. CASE q = p
  BY <1>1, <1>2, <1>3, <1>4 DEF NoOvertaking
<1>5. CASE r = p
  <2>1. <<p, q>> \notin Follows
    BY <1>2, <1>3, <1>5 DEF Follows, Sibling
  <2>2. st[q] # st[p]
    BY <1>2, <1>3, <1>5, <2>1
  <2> QED
    BY <1>1, <1>2, <1>3, <1>5, <2>2 DEF NoOvertaking
<1>6. CASE q # p /\ r # p
  BY <1>1, <1>3, <1>6 DEF NoOvertaking
<1> QED
  BY <1>4, <1>5, <1>6

\* What is at a later stage than p stands in front of it.
LEMMA BehindOthers ==
  ASSUME MainTypeOK, NEW st \in Stages, NoOvertaking(st),
         NEW p \in Packets, NEW y \in Packets, 0 < st[p], st[p] < st[y], st[y] < 8
  PROVE  <<y, p>> \in Follows
<1>1. st[p] \in 0..9 /\ st[y] \in 0..9 /\ p \in Int /\ y \in Int
  <2>1. Packets \subseteq Int
    BY DEF Packets
  <2> QED
    BY <2>1 DEF Stages
<1>2. SUFFICES ASSUME Sibling(y, p) PROVE y < p
  BY DEF Follows
<1>3. Sibling(p, y)
  BY <1>2 DEF Sibling
<1> QED
  BY <1>1, <1>2, <1>3 DEF NoOvertaking

\* A counter goes up by one when a packet of its own enters its stages.
LEMMA CountMoved ==
  ASSUME MainTypeOK, NEW st \in Stages, NEW p \in Packets,
         NEW s, NEW new, Moves(st, new, p, s),
         NEW A, A \subseteq Packets, NEW T,
         p \in A /\ st[p] \in T => s \in T
  PROVE  /\ Count(st, A, T) \in Nat
         /\ Count(new, A, T)
              = IF p \in A /\ st[p] \notin T /\ s \in T
                THEN Count(st, A, T) + 1 ELSE Count(st, A, T)
<1> DEFINE Old == {q \in A : st[q] \in T}
           Now == {q \in A : new[q] \in T}
<1>1. IsFiniteSet(Old)
  <2>1. IsFiniteSet(Packets)
    BY InputType, FS_Interval DEF Packets
  <2> QED
    BY <2>1, FS_Subset
<1>2. \A q \in Packets : new[q] = IF q = p THEN s ELSE st[q]
  BY DEF Stages, Moves
<1>3. CASE p \in A /\ st[p] \notin T /\ s \in T
  <2>1. Now = Old \cup {p} /\ p \notin Old
    BY <1>2, <1>3
  <2> QED
    BY <1>1, <1>3, <2>1, FS_AddElement, FS_CardinalityType DEF Count
<1>4. CASE ~(p \in A /\ st[p] \notin T /\ s \in T)
  <2>1. Now = Old
    BY <1>2, <1>4
  <2> QED
    BY <1>1, <1>4, <2>1, FS_CardinalityType DEF Count
<1> QED
  BY <1>3, <1>4

\* What depends on the capture only does not change.
LEMMA SameCapture ==
  ASSUME input' = input
  PROVE  /\ Packets' = Packets /\ Stages' = Stages /\ Follows' = Follows
         /\ \A p : LBOf(p)' = LBOf(p) /\ FPOf(p)' = FPOf(p)
         /\ \A k : ToLB(k)' = ToLB(k) /\ ToFP(k)' = ToFP(k)
         /\ \A st : NoOvertaking(st)' <=> NoOvertaking(st)
<1>1. /\ Packets' = Packets
      /\ \A p : LBOf(p)' = LBOf(p) /\ FPOf(p)' = FPOf(p)
  BY DEF Packets, LBOf, FPOf, SelectFP
<1> QED
  BY <1>1 DEF Stages, Follows, NoOvertaking, Sibling, ToLB, ToFP

\* The sets of packets that are counted are subsets of Packets.
LEMMA SubsetsOfPackets == \A k : ToLB(k) \subseteq Packets /\ ToFP(k) \subseteq Packets
BY DEF ToLB, ToFP

-----------------------------------------------------------------------------
(* A packet at each step *)

\* A load balancer moves packets on.
LEMMA LBTravels ==
  ASSUME TravelInv, NEW i \in LBs, LB(i)
  PROVE  TravelInv'
<1> USE DEF LB, lbVars, fpVars, writerVars, mainVars
<1>1. OrderInv /\ OrderInv'
  BY LBKeepsOrder DEF TravelInv
<1>2. /\ LBTypeOK /\ FPTypeOK /\ WriterTypeOK /\ MainTypeOK /\ HoldsPacket
      /\ NoPacket \notin Packets /\ Sentinel \notin Packets
  BY <1>1, InputType DEF OrderInv, TypeInv, TypeOK
<1>3. /\ Packets' = Packets /\ Stages' = Stages /\ Follows' = Follows
      /\ \A p : LBOf(p)' = LBOf(p) /\ FPOf(p)' = FPOf(p)
      /\ \A k : ToLB(k)' = ToLB(k) /\ ToFP(k)' = ToFP(k)
      /\ \A st : NoOvertaking(st)' <=> NoOvertaking(st)
      /\ Dispatched' = Dispatched
  BY SameCapture DEF Dispatched
<1>4. DiscardsAtEnd'
  BY <1>3 DEF TravelInv, DiscardsAtEnd
<1>5. PICK st \in Stages : Travel(st)
  BY DEF TravelInv, Travel
<1>6. /\ Sorted(lbq[i], Follows) /\ lbq[i] \in Seq(Packets \cup {Sentinel})
      /\ lbq \in [LBs -> BoundedQueues(Packets, LBCap)]
  BY <1>2 DEF TravelInv, QueuesSorted, LBTypeOK, BoundedQueues
<1>7. \A new \in Stages :
        /\ \A p \in Packets : st[p] # new[p] => st[p] \in 1..3 /\ new[p] \in 1..3
        => ReadPlaces(new)' /\ OutPlaces(new)' /\ Fates(new)'
  <2> SUFFICES ASSUME NEW new \in Stages,
                      \A p \in Packets : st[p] # new[p] => st[p] \in 1..3 /\ new[p] \in 1..3
               PROVE  ReadPlaces(new)' /\ OutPlaces(new)' /\ Fates(new)'
    OBVIOUS
  <2>1. \A p \in Packets : st[p] \in 0..9 /\ new[p] \in 0..9
    BY DEF Stages
  <2>2. ReadPlaces(new)'
    BY <1>3, <1>5, <2>1 DEF Travel, Placed, ReadPlaces
  <2>3. OutPlaces(new)'
    BY <1>3, <1>5, <2>1 DEF Travel, Placed, OutPlaces, Written
  <2>4. Fates(new)'
    BY <1>3, <1>5, <2>1 DEF Travel, Placed, Fates
  <2> QED
    BY <2>2, <2>3, <2>4
\* No packet moves.
<1>8. ASSUME LBCheck(i) \/ LBPopNone(i) \/ LBDrainEnd(i)
      PROVE  TravelInv'
  <2>1. /\ UNCHANGED <<lbpkt, dispatched, fpq>>
        /\ \A k \in LBs : /\ Items(lbq'[k]) = Items(lbq[k])
                          /\ Sorted(lbq'[k], Follows)
    <3>1. CASE LBCheck(i)
      BY <3>1 DEF LBCheck, TravelInv, QueuesSorted
    <3>2. CASE LBPopNone(i) \/ LBDrainEnd(i)
      <4>1. /\ Items(AfterNone(lbq[i], LBCap)) = Items(lbq[i])
            /\ Sorted(AfterNone(lbq[i], LBCap), Follows)
        BY <1>6, <3>2, NoneSorted DEF LBPopNone, LBDrainEnd
      <4> QED
        BY <1>6, <3>2, <4>1 DEF LBPopNone, LBDrainEnd, TravelInv, QueuesSorted
    <3> QED
      BY <1>8, <3>1, <3>2
  <2>2. QueuesSorted'
    BY <1>3, <2>1 DEF TravelInv, QueuesSorted
  <2>3. LBPlaces(st)' /\ FPPlaces(st)'
    BY <1>3, <1>5, <2>1 DEF Travel, Placed, LBPlaces, FPPlaces
  <2>4. Counters(st)'
    BY <1>3, <1>5, <2>1 DEF Travel, Counters, LBCounters, FPCounters, Count
  <2>5. Travel(st)'
    BY <1>3, <1>5, <1>7, <2>3, <2>4 DEF Travel, Placed
  <2> QED
    BY <1>1, <1>4, <2>2, <2>5 DEF TravelInv
\* A packet goes from the queue to the load balancer.
<1>9. ASSUME LBPop(i) \/ LBDrainItem(i)
      PROVE  TravelInv'
  <2>1. PICK p \in Packets : p = Head(lbq[i])
    BY <1>2, <1>6, <1>9, HeadIsPacket DEF LBPop, LBDrainItem
  <2>2. PICK new : Moves(st, new, p, 2)
    BY CanMove, 2 \in 0..9
  <2>3. /\ HasItem(lbq[i]) /\ lbpkt[i] = NoPacket
        /\ lbq' = [lbq EXCEPT ![i] = Tail(@)]
        /\ lbpkt' = [lbpkt EXCEPT ![i] = p]
        /\ UNCHANGED <<dispatched, fpq>>
    BY <1>2, <1>9, <2>1 DEF LBPop, LBDrainItem, HoldsPacket
  <2>4. /\ p \in Items(lbq[i])
        /\ Items(Tail(lbq[i])) = Items(lbq[i]) \ {p}
        /\ \A x \in Items(Tail(lbq[i])) : <<p, x>> \in Follows
        /\ Sorted(Tail(lbq[i]), Follows)
    BY <1>6, <2>1, <2>3, FollowsStrict, PopSorted
  <2>5. st[p] = 1 /\ LBOf(p) = i
    BY <1>5, <2>4 DEF Travel, Placed, LBPlaces
  <2>6. /\ \A q \in Packets : new[q] = IF q = p THEN 2 ELSE st[q]
        /\ new \in Stages
    BY <2>2 DEF Stages, Moves
  <2>7. \A k \in LBs : /\ lbq'[k] = IF k = i THEN Tail(lbq[i]) ELSE lbq[k]
                       /\ lbpkt'[k] = IF k = i THEN p ELSE lbpkt[k]
    BY <1>2, <2>3 DEF LBTypeOK
  <2>8. QueuesSorted'
    BY <1>3, <2>3, <2>4, <2>7 DEF TravelInv, QueuesSorted
  <2>9. LBPlaces(new)'
    BY <1>2, <1>3, <1>5, <2>3, <2>4, <2>5, <2>6, <2>7 DEF Travel, Placed, LBPlaces
  <2>10. FPPlaces(new)'
    BY <1>3, <1>5, <2>3, <2>5, <2>6 DEF Travel, Placed, FPPlaces
  <2>11. NoOvertaking(new)
    <3>1. \A q \in Packets : Sibling(q, p) /\ st[q] = 1 => q = p \/ <<p, q>> \in Follows
      BY <1>5, <2>4, <2>5 DEF Travel, Placed, LBPlaces, Sibling
    <3> QED
      BY <1>2, <1>5, <2>2, <2>5, <3>1, Advance DEF Travel
  <2>12. Counters(new)
    <3>1. ASSUME NEW A, NEW T, A \subseteq Packets, 1 \in T <=> 2 \in T
          PROVE  Count(new, A, T) = Count(st, A, T)
      BY <1>2, <2>2, <2>5, <3>1, CountMoved
    <3> QED
      BY <1>5, <3>1, SubsetsOfPackets DEF Travel, Counters, LBCounters, FPCounters
  <2>13. Counters(new)'
    BY <1>3, <2>3, <2>12 DEF Counters, LBCounters, FPCounters, Count
  <2>14. ReadPlaces(new)' /\ OutPlaces(new)' /\ Fates(new)'
    BY <1>7, <2>5, <2>6
  <2>15. Travel(new)'
    BY <1>3, <2>6, <2>9, <2>10, <2>11, <2>13, <2>14 DEF Travel, Placed
  <2> QED
    BY <1>1, <1>4, <2>8, <2>15 DEF TravelInv
\* A packet goes to the queue of its fast path.
<1>10. ASSUME LBPush(i)
       PROVE  TravelInv'
  <2>1. PICK p \in Packets : p = lbpkt[i]
    BY <1>2, <1>10 DEF LBPush, LBTypeOK, HoldsPacket
  <2>2. PICK j \in FPs : j = FPOf(p)
    BY <1>2, Ways
  <2>3. PICK new : Moves(st, new, p, 3)
    BY CanMove, 3 \in 0..9
  <2>4. st[p] = 2 /\ LBOf(p) = i
    BY <1>5, <2>1 DEF Travel, Placed, LBPlaces
  <2>5. /\ fpq' = [fpq EXCEPT ![j] = Append(@, p)]
        /\ dispatched' = [dispatched EXCEPT ![i] = @ + 1]
        /\ lbpkt' = [lbpkt EXCEPT ![i] = NoPacket]
        /\ UNCHANGED lbq
    BY <1>10, <2>1, <2>2, <2>4 DEF LBPush, FPOf
  <2>6. /\ \A q \in Packets : new[q] = IF q = p THEN 3 ELSE st[q]
        /\ new \in Stages
    BY <2>3 DEF Stages, Moves
  <2>7. /\ Items(Append(fpq[j], p)) = Items(fpq[j]) \cup {p}
        /\ Sorted(Append(fpq[j], p), Follows)
    <3>1. fpq[j] \in Seq(Packets \cup {Sentinel}) /\ Sorted(fpq[j], Follows)
      BY <1>2 DEF FPTypeOK, BoundedQueues, TravelInv, QueuesSorted
    <3>2. \A y \in Items(fpq[j]) : <<y, p>> \in Follows
      <4> SUFFICES ASSUME NEW y \in Items(fpq[j]) PROVE <<y, p>> \in Follows
        OBVIOUS
      <4>1. y \in Packets
        BY <3>1 DEF Items
      <4>2. st[y] = 3
        BY <1>5, <4>1 DEF Travel, Placed, FPPlaces
      <4> QED
        BY <1>2, <1>5, <2>4, <4>1, <4>2, BehindOthers DEF Travel
    <3> QED
      BY <1>2, <3>1, <3>2, PushSorted
  <2>8. /\ \A k \in FPs : fpq'[k] = IF k = j THEN Append(fpq[j], p) ELSE fpq[k]
        /\ \A k \in LBs : /\ lbpkt'[k] = IF k = i THEN NoPacket ELSE lbpkt[k]
                          /\ dispatched'[k] = IF k = i THEN dispatched[i] + 1 ELSE dispatched[k]
    BY <1>2, <2>5 DEF LBTypeOK, FPTypeOK
  <2>9. QueuesSorted'
    BY <1>3, <2>5, <2>7, <2>8 DEF TravelInv, QueuesSorted
  <2>10. LBPlaces(new)'
    BY <1>2, <1>3, <1>5, <2>1, <2>4, <2>5, <2>6, <2>8 DEF Travel, Placed, LBPlaces
  <2>11. FPPlaces(new)'
    BY <1>2, <1>3, <1>5, <2>2, <2>4, <2>5, <2>6, <2>7, <2>8 DEF Travel, Placed, FPPlaces
  <2>12. NoOvertaking(new)
    <3>1. \A q \in Packets : Sibling(q, p) /\ st[q] = 2 => q = p
      BY <1>5, <2>1, <2>4 DEF Travel, Placed, LBPlaces, Sibling
    <3> QED
      BY <1>2, <1>5, <2>3, <2>4, <3>1, Advance DEF Travel
  <2>13. /\ total = Count(new, Packets, 1..9)
         /\ \A k \in LBs : dispatched'[k] = Count(new, ToLB(k), 3..9)
         /\ FPCounters(new)
    <3>1. ASSUME NEW A, NEW T, A \subseteq Packets, 2 \in T <=> 3 \in T
          PROVE  Count(new, A, T) = Count(st, A, T)
      BY <1>2, <2>3, <2>4, <3>1, CountMoved
    <3>2. \A k \in LBs : Count(new, ToLB(k), 3..9) =
            IF k = i THEN Count(st, ToLB(k), 3..9) + 1 ELSE Count(st, ToLB(k), 3..9)
      <4> SUFFICES ASSUME NEW k \in LBs
                   PROVE  Count(new, ToLB(k), 3..9) =
                            IF k = i THEN Count(st, ToLB(k), 3..9) + 1 ELSE Count(st, ToLB(k), 3..9)
        OBVIOUS
      <4>1. p \in ToLB(k) <=> k = i
        BY <2>4 DEF ToLB
      <4>2. ToLB(k) \subseteq Packets /\ 2 \notin 3..9 /\ 3 \in 3..9 /\ 3 \in 0..9
        BY SubsetsOfPackets
      <4> QED
        BY <1>2, <2>3, <2>4, <4>1, <4>2, CountMoved
    <3>3. total = Count(new, Packets, 1..9) /\ FPCounters(new)
      BY <1>5, <3>1, SubsetsOfPackets DEF Travel, Counters, FPCounters
    <3> QED
      BY <1>5, <2>8, <3>2, <3>3 DEF Travel, Counters, LBCounters
  <2>14. Counters(new)'
    BY <1>3, <2>5, <2>13 DEF Counters, LBCounters, FPCounters, Count
  <2>15. ReadPlaces(new)' /\ OutPlaces(new)' /\ Fates(new)'
    BY <1>7, <2>4, <2>6
  <2>16. Travel(new)'
    BY <1>3, <2>6, <2>10, <2>11, <2>12, <2>14, <2>15 DEF Travel, Placed
  <2> QED
    BY <1>1, <1>4, <2>9, <2>16 DEF TravelInv
<1> QED
  BY <1>8, <1>9, <1>10 DEF LBStep

\* The outcome of an inspection, and of the drain loop, as a stage.
FateAt(s) == IF s = 4 THEN "forward" ELSE IF s = 8 THEN "drop" ELSE "discard"

\* Fast path j takes packet p out of its queue, and p gets to stage s.
Takes(j, p, s) ==
  /\ HasItem(fpq[j]) /\ Head(fpq[j]) = p /\ fppkt[j] = NoPacket
  /\ fpq' = [fpq EXCEPT ![j] = Tail(@)]
  /\ fppkt' = IF s = 4 THEN [fppkt EXCEPT ![j] = p] ELSE fppkt
  /\ fate' = [fate EXCEPT ![p] = FateAt(s)]
  /\ processed' = [processed EXCEPT ![j] = @ + 1]
  /\ fpDropped' = IF s = 8 THEN [fpDropped EXCEPT ![j] = @ + 1] ELSE fpDropped
  /\ UNCHANGED <<fpForwarded, outq>>
  /\ IF s = 9 THEN fppc[j] = "drain" /\ UNCHANGED fppc
              ELSE /\ fppc[j] = "pop"
                   /\ fppc' = [fppc EXCEPT ![j] = IF s = 4 THEN "push" ELSE "check"]

\* The three actions that take a packet out of the queue.
LEMMA TakingActions ==
  ASSUME TypeInv, NEW j \in FPs, FPInspect(j) \/ FPPassThrough(j) \/ FPDrainItem(j)
  PROVE  \E p \in Packets : \E s \in {4, 8, 9} : Takes(j, p, s)
<1> PICK p \in Packets : p = Head(fpq[j])
  BY HeadIsPacket DEF FPInspect, FPPassThrough, FPDrainItem, TypeInv, TypeOK, FPTypeOK
<1>1. fppc[j] \in {"pop", "drain"} => fppkt[j] = NoPacket
  BY DEF TypeInv, HoldsPacket
<1>2. CASE FPInspect(j)
  <2> PICK b : b = Inspect(input[p], flows[j][input[p].tuple]).blocked
    OBVIOUS
  <2>1. CASE b
    <3>1. Takes(j, p, 8)
      BY <1>1, <1>2, <2>1 DEF FPInspect, Takes, FateAt
    <3> QED
      BY <3>1
  <2>2. CASE ~b
    <3>1. Takes(j, p, 4)
      BY <1>1, <1>2, <2>2 DEF FPInspect, Takes, FateAt
    <3> QED
      BY <3>1
  <2> QED
    BY <2>1, <2>2
<1>3. CASE FPPassThrough(j)
  <2>1. Takes(j, p, 4)
    BY <1>1, <1>3 DEF FPPassThrough, Takes, FateAt
  <2> QED
    BY <2>1
<1>4. CASE FPDrainItem(j)
  <2>1. Takes(j, p, 9)
    BY <1>1, <1>4 DEF FPDrainItem, Takes, FateAt
  <2> QED
    BY <2>1
<1> QED
  BY <1>2, <1>3, <1>4

\* A fast path moves packets on.
LEMMA FPTravels ==
  ASSUME TravelInv, NEW j \in FPs, FP(j)
  PROVE  TravelInv'
<1> USE DEF FP, lbVars, writerVars, mainVars
<1>1. OrderInv /\ OrderInv'
  BY FPKeepsOrder DEF TravelInv
<1>2. /\ TypeInv /\ LBTypeOK /\ FPTypeOK /\ WriterTypeOK /\ MainTypeOK /\ HoldsPacket
      /\ NoPacket \notin Packets /\ Sentinel \notin Packets
  BY <1>1, InputType DEF OrderInv, TypeInv, TypeOK
<1>3. /\ Packets' = Packets /\ Stages' = Stages /\ Follows' = Follows
      /\ \A p : LBOf(p)' = LBOf(p) /\ FPOf(p)' = FPOf(p)
      /\ \A k : ToLB(k)' = ToLB(k) /\ ToFP(k)' = ToFP(k)
      /\ \A st : NoOvertaking(st)' <=> NoOvertaking(st)
      /\ Dispatched' = Dispatched
  BY SameCapture DEF Dispatched
<1>5. PICK st \in Stages : Travel(st)
  BY DEF TravelInv, Travel
<1>6. /\ Sorted(fpq[j], Follows) /\ fpq[j] \in Seq(Packets \cup {Sentinel})
      /\ Sorted(outq, Follows) /\ outq \in Seq(Packets \cup {Sentinel})
  BY <1>2 DEF TravelInv, QueuesSorted, FPTypeOK, WriterTypeOK, BoundedQueues
<1>7. \A new \in Stages :
        (\A p \in Packets : st[p] # new[p] => st[p] \in 3..9 /\ new[p] \in 3..9)
        => ReadPlaces(new)' /\ LBPlaces(new)'
  <2> SUFFICES ASSUME NEW new \in Stages,
                      \A p \in Packets : st[p] # new[p] => st[p] \in 3..9 /\ new[p] \in 3..9
               PROVE  ReadPlaces(new)' /\ LBPlaces(new)'
    OBVIOUS
  <2>1. \A p \in Packets : st[p] \in 0..9 /\ new[p] \in 0..9
    BY DEF Stages
  <2>2. ReadPlaces(new)'
    BY <1>3, <1>5, <2>1 DEF Travel, Placed, ReadPlaces
  <2>3. LBPlaces(new)'
    BY <1>3, <1>5, <2>1 DEF Travel, Placed, LBPlaces
  <2> QED
    BY <2>2, <2>3
\* No packet moves.
<1>8. ASSUME FPCheck(j) \/ FPPopNone(j) \/ FPDrainEnd(j)
      PROVE  TravelInv'
  <2>1. /\ UNCHANGED <<fppkt, processed, fpForwarded, fpDropped, fate, outq>>
        /\ \A k \in FPs : /\ Items(fpq'[k]) = Items(fpq[k])
                          /\ Sorted(fpq'[k], Follows)
    <3>1. CASE FPCheck(j)
      BY <3>1 DEF FPCheck, TravelInv, QueuesSorted
    <3>2. CASE FPPopNone(j) \/ FPDrainEnd(j)
      <4>1. /\ Items(AfterNone(fpq[j], FPCap)) = Items(fpq[j])
            /\ Sorted(AfterNone(fpq[j], FPCap), Follows)
        BY <1>6, <3>2, NoneSorted DEF FPPopNone, FPDrainEnd
      <4> QED
        BY <1>2, <3>2, <4>1 DEF FPPopNone, FPDrainEnd, TravelInv, QueuesSorted, FPTypeOK
    <3> QED
      BY <1>8, <3>1, <3>2
  <2>2. QueuesSorted'
    BY <1>3, <2>1 DEF TravelInv, QueuesSorted
  <2>3. FPPlaces(st)' /\ OutPlaces(st)' /\ Fates(st)'
    BY <1>3, <1>5, <2>1 DEF Travel, Placed, FPPlaces, OutPlaces, Fates, Written
  <2>4. Counters(st)'
    BY <1>3, <1>5, <2>1 DEF Travel, Counters, LBCounters, FPCounters, Count
  <2>5. Travel(st)'
    BY <1>3, <1>5, <1>7, <2>3, <2>4 DEF Travel, Placed
  <2>6. DiscardsAtEnd'
    <3>1. \A k \in FPs : fppc[k] \in {"drain", "done"} => fppc'[k] \in {"drain", "done"}
      BY <1>2, <1>8 DEF FPTypeOK, FPCheck, FPPopNone, FPDrainEnd
    <3>2. \A p \in Packets : FPOf(p) \in FPs
      BY <1>2, Ways
    <3> QED
      BY <1>3, <2>1, <3>1, <3>2 DEF TravelInv, DiscardsAtEnd
  <2> QED
    BY <1>1, <2>2, <2>5, <2>6 DEF TravelInv
\* A packet leaves the queue.
<1>9. ASSUME NEW p \in Packets, NEW s \in {4, 8, 9}, Takes(j, p, s)
      PROVE  TravelInv'
  <2>1. PICK new : Moves(st, new, p, s)
    BY CanMove, s \in 0..9
  <2>2. /\ p \in Items(fpq[j])
        /\ Items(Tail(fpq[j])) = Items(fpq[j]) \ {p}
        /\ \A x \in Items(Tail(fpq[j])) : <<p, x>> \in Follows
        /\ Sorted(Tail(fpq[j]), Follows)
    BY <1>6, <1>9, FollowsStrict, PopSorted DEF Takes
  <2>3. st[p] = 3 /\ FPOf(p) = j
    BY <1>5, <2>2 DEF Travel, Placed, FPPlaces
  <2>4. /\ \A q \in Packets : new[q] = IF q = p THEN s ELSE st[q]
        /\ new \in Stages
    BY <2>1 DEF Stages, Moves
  <2>5. /\ fpq' = [fpq EXCEPT ![j] = Tail(fpq[j])]
        /\ \A k \in FPs :
             /\ fpq'[k] = IF k = j THEN Tail(fpq[j]) ELSE fpq[k]
             /\ fppkt'[k] = IF s = 4 /\ k = j THEN p ELSE fppkt[k]
             /\ processed'[k] = IF k = j THEN processed[k] + 1 ELSE processed[k]
             /\ fpDropped'[k] = IF s = 8 /\ k = j THEN fpDropped[k] + 1 ELSE fpDropped[k]
        /\ \A q \in Packets : fate'[q] = IF q = p THEN FateAt(s) ELSE fate[q]
        /\ fpForwarded' = fpForwarded /\ outq' = outq /\ fppkt[j] = NoPacket
    BY <1>2, <1>9 DEF Takes, FPTypeOK
  <2>6. QueuesSorted'
    BY <1>3, <2>2, <2>5 DEF TravelInv, QueuesSorted
  <2>7. FPPlaces(new)'
    BY <1>2, <1>3, <1>5, <2>2, <2>3, <2>4, <2>5 DEF Travel, Placed, FPPlaces
  <2>8. OutPlaces(new)'
    BY <1>3, <1>5, <2>3, <2>4, <2>5 DEF Travel, Placed, OutPlaces, Written
  <2>9. Fates(new)'
    BY <1>3, <1>5, <2>3, <2>4, <2>5 DEF Travel, Placed, Fates, FateAt
  <2>10. NoOvertaking(new)
    <3>1. \A q \in Packets : Sibling(q, p) /\ st[q] = 3 => q = p \/ <<p, q>> \in Follows
      BY <1>5, <2>2, <2>3 DEF Travel, Placed, FPPlaces, Sibling
    <3>2. s = st[p] + 1 \/ (st[p] = 3 /\ s >= 8)
      BY <2>3
    <3> QED
      BY <1>2, <1>5, <2>1, <2>3, <3>1, <3>2, Advance DEF Travel
  <2>11. /\ total = Count(new, Packets, 1..9)
         /\ LBCounters(new)
         /\ \A k \in FPs :
              /\ processed'[k] = Count(new, ToFP(k), 4..9)
              /\ fpForwarded[k] = Count(new, ToFP(k), 5..7)
              /\ fpDropped'[k] = Count(new, ToFP(k), {8})
    <3>1. ASSUME NEW A, NEW T, A \subseteq Packets, 3 \in T <=> s \in T
          PROVE  Count(new, A, T) = Count(st, A, T)
      BY <1>2, <2>1, <2>3, <3>1, CountMoved
    <3>2. total = Count(new, Packets, 1..9) /\ LBCounters(new)
      BY <1>5, <3>1, SubsetsOfPackets DEF Travel, Counters, LBCounters
    <3>3. ASSUME NEW k \in FPs
          PROVE  /\ processed'[k] = Count(new, ToFP(k), 4..9)
                 /\ fpForwarded[k] = Count(new, ToFP(k), 5..7)
                 /\ fpDropped'[k] = Count(new, ToFP(k), {8})
      <4>1. p \in ToFP(k) <=> k = j
        BY <2>3 DEF ToFP
      <4>2. /\ processed[k] = Count(st, ToFP(k), 4..9)
            /\ fpForwarded[k] = Count(st, ToFP(k), 5..7)
            /\ fpDropped[k] = Count(st, ToFP(k), {8})
        BY <1>5 DEF Travel, Counters, FPCounters
      <4>3. ToFP(k) \subseteq Packets /\ 3 \notin 4..9 /\ s \in 4..9
            /\ 3 \notin 5..7 /\ s \notin 5..7 /\ 3 \notin {8} /\ (s \in {8} <=> s = 8)
        BY SubsetsOfPackets
      <4>4. Count(new, ToFP(k), 4..9) =
              IF k = j THEN Count(st, ToFP(k), 4..9) + 1 ELSE Count(st, ToFP(k), 4..9)
        BY <1>2, <2>1, <2>3, <4>1, <4>3, CountMoved
      <4>5. Count(new, ToFP(k), {8}) =
              IF s = 8 /\ k = j THEN Count(st, ToFP(k), {8}) + 1 ELSE Count(st, ToFP(k), {8})
        BY <1>2, <2>1, <2>3, <4>1, <4>3, CountMoved
      <4>6. Count(new, ToFP(k), 5..7) = Count(st, ToFP(k), 5..7)
        BY <3>1, <4>3
      <4> QED
        BY <2>5, <4>2, <4>4, <4>5, <4>6
    <3> QED
      BY <3>2, <3>3
  <2>12. Counters(new)'
    BY <1>3, <2>5, <2>11 DEF Counters, LBCounters, FPCounters, Count
  <2>13. ReadPlaces(new)' /\ LBPlaces(new)'
    BY <1>7, <2>3, <2>4
  <2>14. Travel(new)'
    BY <1>3, <2>4, <2>7, <2>8, <2>9, <2>10, <2>12, <2>13 DEF Travel, Placed
  <2>15. DiscardsAtEnd'
    <3> SUFFICES ASSUME NEW q \in Packets, fate'[q] = "discard"
                 PROVE  fppc'[FPOf(q)] \in {"drain", "done"}
      BY <1>3 DEF DiscardsAtEnd
    <3>1. CASE s = 9
      BY <1>9, <2>3, <2>5, <3>1 DEF Takes, TravelInv, DiscardsAtEnd
    <3>2. CASE s # 9
      <4>1. fate[q] = "discard"
        BY <2>5, <3>2 DEF FateAt
      <4>2. fppc[FPOf(q)] \in {"drain", "done"} /\ fppc[j] = "pop" /\ FPOf(q) \in FPs
        BY <1>2, <1>9, <3>2, <4>1, Ways DEF Takes, TravelInv, DiscardsAtEnd
      <4>3. fppc'[FPOf(q)] = fppc[FPOf(q)]
        BY <1>2, <1>9, <3>2, <4>2 DEF Takes, FPTypeOK
      <4> QED
        BY <4>2, <4>3
    <3> QED
      BY <3>1, <3>2
  <2> QED
    BY <1>1, <2>6, <2>14, <2>15 DEF TravelInv
\* A packet goes to the output queue.
<1>10. ASSUME FPForward(j)
       PROVE  TravelInv'
  <2>1. PICK p \in Packets : p = fppkt[j]
    BY <1>2, <1>10 DEF FPForward, FPTypeOK, HoldsPacket
  <2>2. PICK new : Moves(st, new, p, 5)
    BY CanMove, 5 \in 0..9
  <2>3. st[p] = 4 /\ FPOf(p) = j
    BY <1>5, <2>1 DEF Travel, Placed, FPPlaces
  <2>4. /\ \A q \in Packets : new[q] = IF q = p THEN 5 ELSE st[q]
        /\ new \in Stages
    BY <2>2 DEF Stages, Moves
  <2>5. /\ outq' = Append(outq, p)
        /\ \A k \in FPs :
             /\ fppkt'[k] = IF k = j THEN NoPacket ELSE fppkt[k]
             /\ fpForwarded'[k] = IF k = j THEN fpForwarded[k] + 1 ELSE fpForwarded[k]
             /\ fppc'[k] = IF k = j THEN "check" ELSE fppc[k]
        /\ UNCHANGED <<fpq, processed, fpDropped, fate>>
        /\ fppc[j] = "push"
    BY <1>2, <1>10, <2>1 DEF FPForward, FPTypeOK
  <2>6. /\ Items(Append(outq, p)) = Items(outq) \cup {p}
        /\ Sorted(Append(outq, p), Follows)
    <3>1. \A y \in Items(outq) : <<y, p>> \in Follows
      <4> SUFFICES ASSUME NEW y \in Items(outq) PROVE <<y, p>> \in Follows
        OBVIOUS
      <4>1. y \in Packets
        BY <1>6 DEF Items
      <4>2. st[y] = 5
        BY <1>5, <4>1 DEF Travel, Placed, OutPlaces
      <4> QED
        BY <1>2, <1>5, <2>3, <4>1, <4>2, BehindOthers DEF Travel
    <3> QED
      BY <1>2, <1>6, <3>1, PushSorted
  <2>7. QueuesSorted'
    BY <1>3, <2>5, <2>6 DEF TravelInv, QueuesSorted
  <2>8. FPPlaces(new)'
    BY <1>2, <1>3, <1>5, <2>1, <2>3, <2>4, <2>5 DEF Travel, Placed, FPPlaces
  <2>9. OutPlaces(new)'
    BY <1>3, <1>5, <2>3, <2>4, <2>5, <2>6 DEF Travel, Placed, OutPlaces, Written
  <2>10. Fates(new)'
    BY <1>3, <1>5, <2>3, <2>4, <2>5 DEF Travel, Placed, Fates
  <2>11. NoOvertaking(new)
    <3>1. \A q \in Packets : Sibling(q, p) /\ st[q] = 4 => q = p
      BY <1>5, <2>1, <2>3 DEF Travel, Placed, FPPlaces, Sibling
    <3> QED
      BY <1>2, <1>5, <2>2, <2>3, <3>1, Advance DEF Travel
  <2>12. /\ total = Count(new, Packets, 1..9)
         /\ LBCounters(new)
         /\ \A k \in FPs :
              /\ processed[k] = Count(new, ToFP(k), 4..9)
              /\ fpForwarded'[k] = Count(new, ToFP(k), 5..7)
              /\ fpDropped[k] = Count(new, ToFP(k), {8})
    <3>1. ASSUME NEW A, NEW T, A \subseteq Packets, 4 \in T <=> 5 \in T
          PROVE  Count(new, A, T) = Count(st, A, T)
      BY <1>2, <2>2, <2>3, <3>1, CountMoved
    <3>2. total = Count(new, Packets, 1..9) /\ LBCounters(new)
      BY <1>5, <3>1, SubsetsOfPackets DEF Travel, Counters, LBCounters
    <3>3. ASSUME NEW k \in FPs
          PROVE  /\ processed[k] = Count(new, ToFP(k), 4..9)
                 /\ fpForwarded'[k] = Count(new, ToFP(k), 5..7)
                 /\ fpDropped[k] = Count(new, ToFP(k), {8})
      <4>1. p \in ToFP(k) <=> k = j
        BY <2>3 DEF ToFP
      <4>2. /\ processed[k] = Count(st, ToFP(k), 4..9)
            /\ fpForwarded[k] = Count(st, ToFP(k), 5..7)
            /\ fpDropped[k] = Count(st, ToFP(k), {8})
        BY <1>5 DEF Travel, Counters, FPCounters
      <4>3. ToFP(k) \subseteq Packets /\ 4 \notin 5..7 /\ 5 \in 5..7
        BY SubsetsOfPackets
      <4>4. Count(new, ToFP(k), 5..7) =
              IF k = j THEN Count(st, ToFP(k), 5..7) + 1 ELSE Count(st, ToFP(k), 5..7)
        BY <1>2, <2>2, <2>3, <4>1, <4>3, CountMoved
      <4>5. /\ Count(new, ToFP(k), 4..9) = Count(st, ToFP(k), 4..9)
            /\ Count(new, ToFP(k), {8}) = Count(st, ToFP(k), {8})
        BY <3>1, <4>3
      <4> QED
        BY <2>5, <4>2, <4>4, <4>5
    <3> QED
      BY <3>2, <3>3
  <2>13. Counters(new)'
    BY <1>3, <2>5, <2>12 DEF Counters, LBCounters, FPCounters, Count
  <2>14. ReadPlaces(new)' /\ LBPlaces(new)'
    BY <1>7, <2>3, <2>4
  <2>15. Travel(new)'
    BY <1>3, <2>4, <2>8, <2>9, <2>10, <2>11, <2>13, <2>14 DEF Travel, Placed
  <2>16. DiscardsAtEnd'
    <3>1. \A q \in Packets : FPOf(q) \in FPs
      BY <1>2, Ways
    <3> QED
      BY <1>3, <2>5, <3>1 DEF TravelInv, DiscardsAtEnd
  <2> QED
    BY <1>1, <2>7, <2>15, <2>16 DEF TravelInv
<1>11. ASSUME FPInspect(j) \/ FPPassThrough(j) \/ FPDrainItem(j)
       PROVE  TravelInv'
  BY <1>2, <1>9, <1>11, TakingActions
<1> QED
  BY <1>8, <1>10, <1>11 DEF FPStep

\* The output writer moves packets on.
LEMMA WriterTravels ==
  ASSUME TravelInv, Writer
  PROVE  TravelInv'
<1> USE DEF Writer, lbVars, fpVars, mainVars
<1>1. OrderInv /\ OrderInv'
  BY WriterKeepsOrder DEF TravelInv
<1>2. /\ LBTypeOK /\ FPTypeOK /\ WriterTypeOK /\ MainTypeOK /\ HoldsPacket
      /\ NoPacket \notin Packets /\ Sentinel \notin Packets
  BY <1>1, InputType DEF OrderInv, TypeInv, TypeOK
<1>3. /\ Packets' = Packets /\ Stages' = Stages /\ Follows' = Follows
      /\ \A p : LBOf(p)' = LBOf(p) /\ FPOf(p)' = FPOf(p)
      /\ \A k : ToLB(k)' = ToLB(k) /\ ToFP(k)' = ToFP(k)
      /\ \A st : NoOvertaking(st)' <=> NoOvertaking(st)
      /\ Dispatched' = Dispatched
  BY SameCapture DEF Dispatched
<1>4. DiscardsAtEnd'
  BY <1>3 DEF TravelInv, DiscardsAtEnd
<1>5. PICK st \in Stages : Travel(st)
  BY DEF TravelInv, Travel
<1>6. /\ Sorted(outq, Follows) /\ outq \in Seq(Packets \cup {Sentinel})
      /\ Sorted(file, Follows) /\ file \in Seq(Packets \cup {Sentinel})
  <2>1. file \in Seq(Packets \cup {Sentinel})
    <3>1. file \in Seq(Packets)
      BY <1>2 DEF WriterTypeOK
    <3> QED
      BY <3>1
  <2> QED
    BY <1>2, <2>1 DEF TravelInv, QueuesSorted, WriterTypeOK, BoundedQueues
\* A packet on its way from the output queue to the file.
<1>7. ASSUME NEW p \in Packets, NEW s \in 6..7, NEW new, Moves(st, new, p, s),
             s = st[p] + 1,
             \A q \in Packets : Sibling(q, p) /\ st[q] = st[p]
               => q = p \/ <<p, q>> \in Follows,
             OutPlaces(new)'
      PROVE  Travel(new)'
  <2>1. st[p] \in 5..6
    BY <1>7 DEF Stages
  <2>2. /\ \A q \in Packets : new[q] = IF q = p THEN s ELSE st[q]
        /\ new \in Stages
    BY <1>7 DEF Stages, Moves
  <2>3. ReadPlaces(new)' /\ LBPlaces(new)' /\ FPPlaces(new)' /\ Fates(new)'
    <3>1. ReadPlaces(new)' /\ Fates(new)'
      BY <1>3, <1>5, <2>1, <2>2 DEF Travel, Placed, ReadPlaces, Fates
    <3>2. LBPlaces(new)' /\ FPPlaces(new)'
      BY <1>3, <1>5, <2>1, <2>2 DEF Travel, Placed, LBPlaces, FPPlaces
    <3> QED
      BY <3>1, <3>2
  <2>4. NoOvertaking(new)
    BY <1>2, <1>5, <1>7, <2>1, Advance DEF Travel
  <2>5. Counters(new)
    <3>1. ASSUME NEW A, NEW T, A \subseteq Packets, st[p] \in T <=> s \in T
          PROVE  Count(new, A, T) = Count(st, A, T)
      BY <1>2, <1>7, <3>1, CountMoved
    <3>2. st[p] \in 1..9 /\ s \in 1..9 /\ st[p] \in 3..9 /\ s \in 3..9
          /\ st[p] \in 4..9 /\ s \in 4..9 /\ st[p] \in 5..7 /\ s \in 5..7
          /\ st[p] \notin {8} /\ s \notin {8}
      BY <2>1
    <3> QED
      BY <1>5, <3>1, <3>2, SubsetsOfPackets DEF Travel, Counters, LBCounters, FPCounters
  <2>6. Counters(new)'
    BY <1>3, <2>5 DEF Counters, LBCounters, FPCounters, Count
  <2> QED
    BY <1>3, <1>7, <2>2, <2>3, <2>4, <2>6 DEF Travel, Placed
\* The writer takes a packet from the queue.
<1>8. ASSUME WriterPop
      PROVE  TravelInv'
  <2>1. PICK p \in Packets : p = Head(outq)
    BY <1>2, <1>8, HeadIsPacket DEF WriterPop, WriterTypeOK
  <2>2. PICK new : Moves(st, new, p, 6)
    BY CanMove, 6 \in 0..9
  <2>3. /\ HasItem(outq) /\ wpkt = NoPacket
        /\ outq' = Tail(outq) /\ wpkt' = p /\ file' = file
    BY <1>2, <1>8, <2>1 DEF WriterPop, HoldsPacket
  <2>4. /\ p \in Items(outq)
        /\ Items(Tail(outq)) = Items(outq) \ {p}
        /\ \A x \in Items(Tail(outq)) : <<p, x>> \in Follows
        /\ Sorted(Tail(outq), Follows)
    BY <1>6, <2>1, <2>3, FollowsStrict, PopSorted
  <2>5. st[p] = 5
    BY <1>5, <2>4 DEF Travel, Placed, OutPlaces
  <2>6. \A q \in Packets : new[q] = IF q = p THEN 6 ELSE st[q]
    BY <2>2 DEF Stages, Moves
  <2>7. OutPlaces(new)'
    BY <1>2, <1>3, <1>5, <2>3, <2>4, <2>5, <2>6 DEF Travel, Placed, OutPlaces, Written
  <2>8. \A q \in Packets : Sibling(q, p) /\ st[q] = st[p] => q = p \/ <<p, q>> \in Follows
    BY <1>5, <2>4, <2>5 DEF Travel, Placed, OutPlaces
  <2>9. Travel(new)'
    BY <1>7, <2>2, <2>5, <2>7, <2>8
  <2>10. QueuesSorted'
    BY <1>3, <2>3, <2>4 DEF TravelInv, QueuesSorted
  <2> QED
    BY <1>1, <1>4, <2>9, <2>10 DEF TravelInv
\* The writer writes the packet.
<1>9. ASSUME WriterWrite
      PROVE  TravelInv'
  <2>1. PICK p \in Packets : p = wpkt
    BY <1>2, <1>9 DEF WriterWrite, WriterTypeOK, HoldsPacket
  <2>2. PICK new : Moves(st, new, p, 7)
    BY CanMove, 7 \in 0..9
  <2>3. file' = Append(file, p) /\ wpkt' = NoPacket /\ outq' = outq
    BY <1>9, <2>1 DEF WriterWrite
  <2>4. st[p] = 6
    BY <1>5, <2>1 DEF Travel, Placed, OutPlaces
  <2>5. \A q \in Packets : new[q] = IF q = p THEN 7 ELSE st[q]
    BY <2>2 DEF Stages, Moves
  <2>6. \A y \in Packets : /\ Written(y) <=> y \in Items(file)
                           /\ Written(y)' <=> y \in Items(file')
    BY <1>2 DEF Written, Items
  <2>7. /\ Items(Append(file, p)) = Items(file) \cup {p}
        /\ Sorted(Append(file, p), Follows)
    <3>1. \A y \in Items(file) : <<y, p>> \in Follows
      <4> SUFFICES ASSUME NEW y \in Items(file) PROVE <<y, p>> \in Follows
        OBVIOUS
      <4>1. y \in Packets
        BY <1>6 DEF Items
      <4>2. st[y] = 7
        BY <1>5, <2>6, <4>1 DEF Travel, Placed, OutPlaces
      <4> QED
        BY <1>2, <1>5, <2>4, <4>1, <4>2, BehindOthers DEF Travel
    <3> QED
      BY <1>2, <1>6, <3>1, PushSorted
  <2>8. OutPlaces(new)'
    <3> SUFFICES ASSUME NEW q \in Packets
                 PROVE  /\ q \in Items(outq') <=> new[q] = 5
                        /\ wpkt' = q <=> new[q] = 6
                        /\ Written(q)' <=> new[q] = 7
      BY <1>3 DEF OutPlaces
    <3>1. /\ q \in Items(outq) <=> st[q] = 5
          /\ wpkt = q <=> st[q] = 6
          /\ q \in Items(file) <=> st[q] = 7
      BY <1>5, <2>6 DEF Travel, Placed, OutPlaces
    <3> QED
      BY <1>2, <2>1, <2>3, <2>4, <2>5, <2>6, <2>7, <3>1
  <2>9. \A q \in Packets : Sibling(q, p) /\ st[q] = st[p] => q = p \/ <<p, q>> \in Follows
    BY <1>5, <2>1, <2>4 DEF Travel, Placed, OutPlaces
  <2>10. Travel(new)'
    BY <1>7, <2>2, <2>4, <2>8, <2>9
  <2>11. QueuesSorted'
    BY <1>3, <2>3, <2>7 DEF TravelInv, QueuesSorted
  <2> QED
    BY <1>1, <1>4, <2>10, <2>11 DEF TravelInv
\* No packet moves.
<1>10. ASSUME WriterPopNone \/ WriterDecide
       PROVE  TravelInv'
  <2>1. /\ UNCHANGED <<wpkt, file>>
        /\ Items(outq') = Items(outq) /\ Sorted(outq', Follows)
    BY <1>6, <1>10, NoneSorted DEF WriterPopNone, WriterDecide
  <2>2. QueuesSorted'
    BY <1>3, <2>1 DEF TravelInv, QueuesSorted
  <2>3. Placed(st)'
    <3>1. ReadPlaces(st)' /\ OutPlaces(st)' /\ Fates(st)'
      BY <1>3, <1>5, <2>1 DEF Travel, Placed, ReadPlaces, OutPlaces, Fates, Written
    <3>2. LBPlaces(st)' /\ FPPlaces(st)'
      BY <1>3, <1>5 DEF Travel, Placed, LBPlaces, FPPlaces
    <3> QED
      BY <3>1, <3>2 DEF Placed
  <2>4. Counters(st)'
    BY <1>3, <1>5 DEF Travel, Counters, LBCounters, FPCounters, Count
  <2> QED
    BY <1>1, <1>3, <1>4, <1>5, <2>2, <2>3, <2>4 DEF TravelInv, Travel
<1> QED
  BY <1>8, <1>9, <1>10 DEF WriterStep

\* The main thread hands packets on, and shuts queues down without moving any.
LEMMA MainTravels ==
  ASSUME TravelInv, Main
  PROVE  TravelInv'
<1> USE DEF Main, lbVars, fpVars, writerVars
<1>1. OrderInv /\ OrderInv'
  BY MainKeepsOrder DEF TravelInv
<1>2. /\ LBTypeOK /\ FPTypeOK /\ WriterTypeOK /\ MainTypeOK
      /\ NoPacket \notin Packets /\ Sentinel \notin Packets
  BY <1>1, InputType DEF OrderInv, TypeInv, TypeOK
<1>3. /\ Packets' = Packets /\ Stages' = Stages /\ Follows' = Follows
      /\ \A p : LBOf(p)' = LBOf(p) /\ FPOf(p)' = FPOf(p)
      /\ \A k : ToLB(k)' = ToLB(k) /\ ToFP(k)' = ToFP(k)
      /\ \A st : NoOvertaking(st)' <=> NoOvertaking(st)
  BY SameCapture
<1>4. DiscardsAtEnd'
  BY <1>3 DEF TravelInv, DiscardsAtEnd
<1>5. PICK st \in Stages : Travel(st)
  BY DEF TravelInv, Travel
<1>6. /\ \A i \in LBs : Sorted(lbq[i], Follows) /\ lbq[i] \in Seq(Packets \cup {Sentinel})
      /\ \A j \in FPs : Sorted(fpq[j], Follows) /\ fpq[j] \in Seq(Packets \cup {Sentinel})
      /\ Sorted(outq, Follows) /\ outq \in Seq(Packets \cup {Sentinel})
  BY <1>2 DEF TravelInv, QueuesSorted, LBTypeOK, FPTypeOK, WriterTypeOK, BoundedQueues
<1>7. \A new : Fates(new)' <=> Fates(new)
  BY <1>3 DEF Fates
\* The reader hands on the next packet.
<1>8. ASSUME ReaderDispatch
      PROVE  TravelInv'
  <2>1. PICK p \in Packets : p = next
    BY <1>2, <1>8 DEF ReaderDispatch, MainTypeOK, Packets
  <2>2. PICK i \in LBs : i = LBOf(p)
    BY <1>2, Ways
  <2>3. PICK new : Moves(st, new, p, 1)
    BY CanMove, 1 \in 0..9
  <2>4. /\ input[p].parsed /\ next' = p + 1 /\ total' = total + 1
        /\ lbq' = [lbq EXCEPT ![i] = Append(@, p)]
        /\ UNCHANGED <<fpq, outq>>
    BY <1>8, <2>1, <2>2 DEF ReaderDispatch
  <2>5. /\ \A q \in Packets : st[q] \in 0..9 /\ q \in Int
        /\ \A q \in Packets : st[q] > 0 => q < p
        /\ st[p] = 0
    <3>1. \A q \in Packets : st[q] \in 0..9 /\ q \in Int
      BY DEF Stages, Packets
    <3>2. \A q \in Packets : st[q] > 0 => q < p
      BY <1>5, <2>1 DEF Travel, Placed, ReadPlaces, Dispatched
    <3> QED
      BY <3>1, <3>2
  <2>6. /\ \A q \in Packets : new[q] = IF q = p THEN 1 ELSE st[q]
        /\ new \in Stages
    BY <2>3 DEF Stages, Moves
  <2>7. ReadPlaces(new)'
    <3> SUFFICES ASSUME NEW q \in Packets PROVE q \in Dispatched' <=> new[q] > 0
      BY <1>3 DEF ReadPlaces
    <3>1. q \in Dispatched <=> st[q] > 0
      BY <1>5 DEF Travel, Placed, ReadPlaces
    <3>2. q \in Dispatched' <=> q \in Dispatched \/ q = p
      BY <1>3, <2>1, <2>4, <2>5 DEF Dispatched
    <3> QED
      BY <2>5, <2>6, <3>1, <3>2
  <2>8. /\ Items(Append(lbq[i], p)) = Items(lbq[i]) \cup {p}
        /\ Sorted(Append(lbq[i], p), Follows)
    <3>1. \A y \in Items(lbq[i]) : <<y, p>> \in Follows
      <4> SUFFICES ASSUME NEW y \in Items(lbq[i]) PROVE <<y, p>> \in Follows
        OBVIOUS
      <4>1. y \in Packets
        BY <1>6 DEF Items
      <4>2. st[y] = 1
        BY <1>5, <4>1 DEF Travel, Placed, LBPlaces
      <4> QED
        BY <2>5, <4>1, <4>2 DEF Follows
    <3> QED
      BY <1>2, <1>6, <3>1, PushSorted
  <2>9. \A k \in LBs : lbq'[k] = IF k = i THEN Append(lbq[i], p) ELSE lbq[k]
    BY <1>2, <2>4 DEF LBTypeOK
  <2>10. QueuesSorted'
    BY <1>3, <2>4, <2>8, <2>9 DEF TravelInv, QueuesSorted
  <2>11. LBPlaces(new)'
    BY <1>3, <1>5, <2>2, <2>5, <2>6, <2>8, <2>9 DEF Travel, Placed, LBPlaces
  <2>12. FPPlaces(new)' /\ OutPlaces(new)' /\ Fates(new)'
    <3>1. FPPlaces(new)'
      BY <1>3, <1>5, <2>4, <2>5, <2>6 DEF Travel, Placed, FPPlaces
    <3>2. OutPlaces(new)'
      BY <1>3, <1>5, <2>4, <2>5, <2>6 DEF Travel, Placed, OutPlaces, Written
    <3>3. Fates(new)'
      BY <1>3, <1>5, <2>5, <2>6 DEF Travel, Placed, Fates
    <3> QED
      BY <3>1, <3>2, <3>3
  <2>13. NoOvertaking(new)
    <3> SUFFICES ASSUME NEW q \in Packets, NEW r \in Packets, q < r, Sibling(q, r),
                        new[q] > 0, new[r] > 0
                 PROVE  new[r] <= new[q] \/ (new[q] >= 4 /\ new[r] >= 8)
      BY DEF NoOvertaking
    <3>1. q # p
      BY <2>5, <2>6
    <3>2. CASE r = p
      BY <2>5, <2>6, <3>1, <3>2
    <3>3. CASE r # p
      BY <1>5, <2>6, <3>1, <3>3 DEF Travel, NoOvertaking
    <3> QED
      BY <3>2, <3>3
  <2>14. total' = Count(new, Packets, 1..9) /\ LBCounters(new) /\ FPCounters(new)
    <3>1. ASSUME NEW A, NEW T, A \subseteq Packets, 0 \in T <=> 1 \in T
          PROVE  Count(new, A, T) = Count(st, A, T)
      BY <1>2, <2>3, <2>5, <3>1, CountMoved
    <3>2. LBCounters(new) /\ FPCounters(new)
      BY <1>5, <3>1, SubsetsOfPackets DEF Travel, Counters, LBCounters, FPCounters
    <3>3. Count(new, Packets, 1..9) = Count(st, Packets, 1..9) + 1
      <4>1. 0 \notin 1..9 /\ 1 \in 1..9
        OBVIOUS
      <4> QED
        BY <1>2, <2>3, <2>5, <4>1, CountMoved
    <3> QED
      BY <1>5, <2>4, <3>2, <3>3 DEF Travel, Counters
  <2>15. Counters(new)'
    BY <1>3, <2>14 DEF Counters, LBCounters, FPCounters, Count
  <2>16. Travel(new)'
    BY <1>3, <2>6, <2>7, <2>11, <2>12, <2>13, <2>15 DEF Travel, Placed
  <2> QED
    BY <1>1, <1>4, <2>10, <2>16 DEF TravelInv
\* No packet moves: queues keep their items.
<1>9. ASSUME Dispatched' = Dispatched, total' = total,
             \A i \in LBs : Items(lbq'[i]) = Items(lbq[i]) /\ Sorted(lbq'[i], Follows),
             \A j \in FPs : Items(fpq'[j]) = Items(fpq[j]) /\ Sorted(fpq'[j], Follows),
             Items(outq') = Items(outq) /\ Sorted(outq', Follows)
      PROVE  TravelInv'
  <2>1. QueuesSorted'
    BY <1>3, <1>9 DEF TravelInv, QueuesSorted
  <2>2. Placed(st)'
    <3>1. ReadPlaces(st)' /\ OutPlaces(st)' /\ Fates(st)'
      BY <1>3, <1>5, <1>7, <1>9 DEF Travel, Placed, ReadPlaces, OutPlaces, Written
    <3>2. LBPlaces(st)' /\ FPPlaces(st)'
      BY <1>3, <1>5, <1>9 DEF Travel, Placed, LBPlaces, FPPlaces
    <3> QED
      BY <3>1, <3>2 DEF Placed
  <2>3. Counters(st)'
    BY <1>3, <1>5, <1>9 DEF Travel, Counters, LBCounters, FPCounters, Count
  <2> QED
    BY <1>1, <1>3, <1>4, <1>5, <2>1, <2>2, <2>3 DEF TravelInv, Travel
<1>10. CASE ReaderSkip
  <2>1. Dispatched' = Dispatched
    BY <1>2, <1>3, <1>10 DEF ReaderSkip, Dispatched, MainTypeOK, Packets
  <2> QED
    BY <1>6, <1>9, <1>10, <2>1 DEF ReaderSkip
<1>11. CASE ShutLB
  <2>1. \A i \in LBs : Items(lbq'[i]) = Items(lbq[i]) /\ Sorted(lbq'[i], Follows)
    <3> SUFFICES ASSUME NEW i \in LBs
                 PROVE  Items(lbq'[i]) = Items(lbq[i]) /\ Sorted(lbq'[i], Follows)
      OBVIOUS
    <3>1. lbq'[i] = lbq[i] \/ lbq'[i] = PutNowait(lbq[i], Sentinel, LBCap)
      BY <1>2, <1>11 DEF ShutLB, LBTypeOK
    <3> QED
      BY <1>6, <3>1, MarkSorted
  <2>2. Dispatched' = Dispatched /\ total' = total /\ fpq' = fpq /\ outq' = outq
    BY <1>3, <1>11 DEF ShutLB, Dispatched
  <2> QED
    BY <1>6, <1>9, <2>1, <2>2
<1>12. CASE ShutFP
  <2>1. \A j \in FPs : Items(fpq'[j]) = Items(fpq[j]) /\ Sorted(fpq'[j], Follows)
    <3> SUFFICES ASSUME NEW j \in FPs
                 PROVE  Items(fpq'[j]) = Items(fpq[j]) /\ Sorted(fpq'[j], Follows)
      OBVIOUS
    <3>1. fpq'[j] = fpq[j] \/ fpq'[j] = PutNowait(fpq[j], Sentinel, FPCap)
      BY <1>2, <1>12 DEF ShutFP, FPTypeOK
    <3> QED
      BY <1>6, <3>1, MarkSorted
  <2>2. Dispatched' = Dispatched /\ total' = total /\ lbq' = lbq /\ outq' = outq
    BY <1>3, <1>12 DEF ShutFP, Dispatched
  <2> QED
    BY <1>6, <1>9, <2>1, <2>2
<1>13. CASE ShutOutput
  <2>1. Items(outq') = Items(outq) /\ Sorted(outq', Follows)
    BY <1>6, <1>13, MarkSorted DEF ShutOutput
  <2>2. Dispatched' = Dispatched /\ total' = total /\ lbq' = lbq /\ fpq' = fpq
    BY <1>3, <1>13 DEF ShutOutput, Dispatched
  <2> QED
    BY <1>6, <1>9, <2>1, <2>2
<1>14. CASE \/ ReaderEnd \/ StopLB \/ JoinLBs \/ StopFP \/ JoinFPs
            \/ AwaitWriter \/ AwaitTimeout \/ PrintReport \/ Exit
  <2>1. UNCHANGED <<next, total, lbq, fpq, outq>>
    BY <1>14 DEF ReaderEnd, StopLB, JoinLBs, StopFP, JoinFPs, AwaitWriter, AwaitTimeout,
       PrintReport, Exit
  <2>2. Dispatched' = Dispatched
    BY <1>3, <2>1 DEF Dispatched
  <2> QED
    BY <1>6, <1>9, <2>1, <2>2
<1> QED
  BY <1>8, <1>10, <1>11, <1>12, <1>13, <1>14 DEF MainStep

LEMMA StutterTravels ==
  ASSUME TravelInv, UNCHANGED vars
  PROVE  TravelInv'
<1> USE DEF vars, lbVars, fpVars, writerVars, mainVars
<1>1. OrderInv'
  BY StutterKeepsOrder DEF TravelInv
<1>2. /\ Packets' = Packets /\ Stages' = Stages /\ Follows' = Follows
      /\ \A p : LBOf(p)' = LBOf(p) /\ FPOf(p)' = FPOf(p)
      /\ \A k : ToLB(k)' = ToLB(k) /\ ToFP(k)' = ToFP(k)
      /\ \A st : NoOvertaking(st)' <=> NoOvertaking(st)
      /\ Dispatched' = Dispatched
  BY SameCapture DEF Dispatched
<1>3. QueuesSorted' /\ DiscardsAtEnd'
  BY <1>2 DEF TravelInv, QueuesSorted, DiscardsAtEnd
<1>4. PICK st \in Stages : Travel(st)
  BY DEF TravelInv, Travel
<1>5. Placed(st)'
  BY <1>2, <1>4 DEF Travel, Placed, ReadPlaces, LBPlaces, FPPlaces, OutPlaces, Fates, Written
<1>6. Counters(st)'
  BY <1>2, <1>4 DEF Travel, Counters, LBCounters, FPCounters, Count
<1> QED
  BY <1>1, <1>2, <1>3, <1>4, <1>5, <1>6 DEF TravelInv, Travel

LEMMA InitTravel == Init => TravelInv
<1> SUFFICES ASSUME Init PROVE TravelInv
  OBVIOUS
<1> DEFINE st == [p \in Packets |-> 0]
<1>1. OrderInv /\ MainTypeOK
  BY InitOrder DEF OrderInv, TypeInv, TypeOK
<1>2. QueuesSorted /\ DiscardsAtEnd
  BY DEF Init, LBInit, FPInit, WriterInit, QueuesSorted, Sorted, DiscardsAtEnd
<1>3. st \in Stages /\ \A p \in Packets : st[p] = 0
  BY DEF Stages
<1> HIDE DEF st
<1>4. NoPacket \notin Packets /\ Packets \subseteq Int
  BY <1>1, InputType DEF Packets
<1>5. Placed(st)
  <2>1. Dispatched = {}
    BY <1>1 DEF Dispatched, Init, Packets
  <2>2. ReadPlaces(st) /\ Fates(st)
    BY <1>3, <2>1 DEF Init, FPInit, ReadPlaces, Fates
  <2>3. LBPlaces(st) /\ FPPlaces(st)
    BY <1>3, <1>4 DEF Init, LBInit, FPInit, LBPlaces, FPPlaces, Items
  <2>4. OutPlaces(st)
    BY <1>3, <1>4 DEF Init, WriterInit, OutPlaces, Items, Written
  <2> QED
    BY <2>2, <2>3, <2>4 DEF Placed
<1>6. NoOvertaking(st)
  BY <1>3 DEF NoOvertaking
<1>7. Counters(st)
  <2>1. ASSUME NEW A, A \subseteq Packets, NEW T, 0 \notin T PROVE Count(st, A, T) = 0
    <3>1. {p \in A : st[p] \in T} = {}
      BY <1>3, <2>1
    <3> QED
      BY <3>1, FS_EmptySet DEF Count
  <2>2. total = Count(st, Packets, 1..9)
    <3>1. 0 \notin 1..9
      OBVIOUS
    <3> QED
      BY <2>1, <3>1 DEF Init
  <2>3. LBCounters(st)
    <3>1. 0 \notin 3..9
      OBVIOUS
    <3> QED
      BY <2>1, <3>1, SubsetsOfPackets DEF Init, LBInit, LBCounters
  <2>4. FPCounters(st)
    <3>1. 0 \notin 4..9 /\ 0 \notin 5..7 /\ 0 \notin {8}
      OBVIOUS
    <3> QED
      BY <2>1, <3>1, SubsetsOfPackets DEF Init, FPInit, FPCounters
  <2> QED
    BY <2>2, <2>3, <2>4 DEF Counters
<1> QED
  BY <1>1, <1>2, <1>3, <1>5, <1>6, <1>7 DEF TravelInv, Travel

LEMMA NextTravel == TravelInv /\ [Next]_vars => TravelInv'
BY LBTravels, FPTravels, WriterTravels, MainTravels, StutterTravels
DEF Next, Terminated

LEMMA AlwaysTravel == Spec => []TravelInv
BY InitTravel, NextTravel, PTL DEF Spec

\* What the invariant says of the capture and of the types.
LEMMA TravelTypes ==
  ASSUME TravelInv
  PROVE  /\ OrderInv /\ TypeInv
         /\ LBTypeOK /\ FPTypeOK /\ WriterTypeOK /\ MainTypeOK /\ HoldsPacket
         /\ NoPacket \notin Packets /\ Sentinel \notin Packets
         /\ Packets \subseteq Int /\ IsFiniteSet(Packets)
         /\ \E st \in Stages : Travel(st)
<1>1. OrderInv /\ TypeInv /\ LBTypeOK /\ FPTypeOK /\ WriterTypeOK /\ MainTypeOK /\ HoldsPacket
  BY DEF TravelInv, OrderInv, TypeInv, TypeOK
<1>2. Packets \subseteq Int /\ IsFiniteSet(Packets)
  BY <1>1, InputType, FS_Interval DEF Packets
<1> QED
  BY <1>1, <1>2, InputType DEF TravelInv, Travel

-----------------------------------------------------------------------------
(* Nothing is lost or duplicated *)

\* The place that a stage stands for.
Place(st, p) ==
  CASE st[p] = 1 -> <<"lbq", LBOf(p)>>  [] st[p] = 2 -> <<"lb", LBOf(p)>>
    [] st[p] = 3 -> <<"fpq", FPOf(p)>>  [] st[p] = 4 -> <<"fp", FPOf(p)>>
    [] st[p] = 5 -> <<"outq", 0>>       [] st[p] = 6 -> <<"writer", 0>>
    [] st[p] = 7 -> <<"file", 0>>       [] st[p] = 8 -> <<"dropped", 0>>
    [] OTHER     -> <<"discarded", 0>>

LEMMA OnePlace ==
  ASSUME TravelInv, NEW st \in Stages, Travel(st), NEW p \in Packets
  PROVE  Places(p) = IF st[p] = 0 THEN {} ELSE {Place(st, p)}
<1> DEFINE Names5 == {s \in {"outq", "writer", "file", "dropped", "discarded"} :
            CASE s = "outq"      -> p \in Items(outq)
              [] s = "writer"    -> wpkt = p
              [] s = "file"      -> Written(p)
              [] s = "dropped"   -> fate[p] = "drop"
              [] s = "discarded" -> fate[p] = "discard"}
<1>1. st[p] \in 0..9 /\ LBOf(p) \in LBs /\ FPOf(p) \in FPs
  BY TravelTypes, Ways DEF Stages
<1>2. {i \in LBs : p \in Items(lbq[i])} = IF st[p] = 1 THEN {LBOf(p)} ELSE {}
  BY <1>1 DEF Travel, Placed, LBPlaces
<1>3. {i \in LBs : lbpkt[i] = p} = IF st[p] = 2 THEN {LBOf(p)} ELSE {}
  BY <1>1 DEF Travel, Placed, LBPlaces
<1>4. {j \in FPs : p \in Items(fpq[j])} = IF st[p] = 3 THEN {FPOf(p)} ELSE {}
  BY <1>1 DEF Travel, Placed, FPPlaces
<1>5. {j \in FPs : fppkt[j] = p} = IF st[p] = 4 THEN {FPOf(p)} ELSE {}
  BY <1>1 DEF Travel, Placed, FPPlaces
<1>6. Names5 = IF st[p] = 5 THEN {"outq"} ELSE IF st[p] = 6 THEN {"writer"}
               ELSE IF st[p] = 7 THEN {"file"} ELSE IF st[p] = 8 THEN {"dropped"}
               ELSE IF st[p] = 9 THEN {"discarded"} ELSE {}
  <2>1. /\ p \in Items(outq) <=> st[p] = 5
        /\ wpkt = p <=> st[p] = 6
        /\ Written(p) <=> st[p] = 7
        /\ fate[p] = "drop" <=> st[p] = 8
        /\ fate[p] = "discard" <=> st[p] = 9
    BY DEF Travel, Placed, OutPlaces, Fates
  <2>2. /\ "outq" \in Names5 <=> st[p] = 5
        /\ "writer" \in Names5 <=> st[p] = 6
        /\ "file" \in Names5 <=> st[p] = 7
        /\ "dropped" \in Names5 <=> st[p] = 8
        /\ "discarded" \in Names5 <=> st[p] = 9
    BY <2>1
  <2>3. Names5 \subseteq {"outq", "writer", "file", "dropped", "discarded"}
    OBVIOUS
  <2> HIDE DEF Names5
  <2>4. \A s : s \in Names5 <=> \/ s = "outq" /\ st[p] = 5
                                \/ s = "writer" /\ st[p] = 6
                                \/ s = "file" /\ st[p] = 7
                                \/ s = "dropped" /\ st[p] = 8
                                \/ s = "discarded" /\ st[p] = 9
    BY <2>2, <2>3
  <2>5. CASE st[p] \in 0..4
    BY <2>4, <2>5
  <2>6. CASE st[p] \in 5..9
    BY <2>4, <2>6
  <2> QED
    BY <1>1, <2>5, <2>6
<1> HIDE DEF Names5
<1>7. Places(p) =
        {<<"lbq", i>> : i \in IF st[p] = 1 THEN {LBOf(p)} ELSE {}}
          \cup {<<"lb", i>> : i \in IF st[p] = 2 THEN {LBOf(p)} ELSE {}}
          \cup {<<"fpq", j>> : j \in IF st[p] = 3 THEN {FPOf(p)} ELSE {}}
          \cup {<<"fp", j>> : j \in IF st[p] = 4 THEN {FPOf(p)} ELSE {}}
          \cup {<<s, 0>> : s \in Names5}
  BY <1>2, <1>3, <1>4, <1>5 DEF Places, Names5
<1> QED
  BY <1>1, <1>6, <1>7 DEF Place

(***************************************************************************)
(* Every packet that the reader has handed on is in exactly one place: in  *)
(* one queue, in the hands of one thread, in the file, or among the        *)
(* dropped or the discarded.                                               *)
(***************************************************************************)
THEOREM NothingLost == Spec => []Conservation
<1>1. TravelInv => Conservation
  <2> SUFFICES ASSUME TravelInv, NEW p \in Packets
               PROVE  Cardinality(Places(p)) = IF p \in Dispatched THEN 1 ELSE 0
    BY DEF Conservation
  <2>1. PICK st \in Stages : Travel(st)
    BY TravelTypes
  <2>2. p \in Dispatched <=> st[p] # 0
    BY <2>1 DEF Travel, Placed, ReadPlaces, Stages
  <2> QED
    <3>1. Places(p) = IF st[p] = 0 THEN {} ELSE {Place(st, p)}
      BY <2>1, OnePlace
    <3>2. CASE st[p] = 0
      BY <2>2, <3>1, <3>2, FS_EmptySet
    <3>3. CASE st[p] # 0
      BY <2>2, <3>1, <3>3, FS_Singleton
    <3> QED
      BY <3>2, <3>3
<1> QED
  BY <1>1, AlwaysTravel, PTL

-----------------------------------------------------------------------------
(* Statistics and report *)

\* Where no packet can be any more once the threads have been joined.
LEMMA StagesWhenJoined ==
  ASSUME TravelInv, FPsJoined, NEW st \in Stages, Travel(st), NEW p \in Packets
  PROVE  /\ st[p] \in 0..9 /\ st[p] \notin 1..4
         /\ LBOf(p) \in LBs /\ FPOf(p) \in FPs
<1>1. LBOf(p) \in LBs /\ FPOf(p) \in FPs /\ st[p] \in 0..9
  BY TravelTypes, Ways DEF Stages
<1>2. lbpc[LBOf(p)] = "done" /\ fppc[FPOf(p)] = "done"
  BY <1>1, TravelTypes DEF OrderInv, MainOrder, LBsJoined, FPsJoined, LBsDone, FPsDone
<1>3. /\ Items(lbq[LBOf(p)]) = {} /\ lbpkt[LBOf(p)] = NoPacket
      /\ Items(fpq[FPOf(p)]) = {} /\ fppkt[FPOf(p)] = NoPacket
  BY <1>1, <1>2, TravelTypes DEF OrderInv, LBOrder, FPOrder, HoldsPacket
<1>4. st[p] # 1 /\ st[p] # 2 /\ st[p] # 3 /\ st[p] # 4
  BY <1>1, <1>3, TravelTypes DEF Travel, Placed, LBPlaces, FPPlaces
<1> QED
  BY <1>1, <1>4

\* Packets at different stages are different packets.
LEMMA CountApart ==
  ASSUME NEW st, NEW A, IsFiniteSet(A), NEW S, NEW T, S \cap T = {}
  PROVE  /\ Count(st, A, S) \in Nat
         /\ Count(st, A, S \cup T) = Count(st, A, S) + Count(st, A, T)
<1> DEFINE In(U) == {p \in A : st[p] \in U}
<1>1. IsFiniteSet(In(S)) /\ IsFiniteSet(In(T))
  BY FS_Subset
<1>2. In(S) \cap In(T) = {} /\ In(S \cup T) = In(S) \cup In(T)
  OBVIOUS
<1>3. /\ Cardinality(In(S)) \in Nat /\ Cardinality(In(T)) \in Nat
      /\ Cardinality(In(S) \cup In(T))
           = Cardinality(In(S)) + Cardinality(In(T)) - Cardinality(In(S) \cap In(T))
  BY <1>1, FS_Union, FS_CardinalityType
<1>4. Cardinality(In(S) \cap In(T)) = 0
  BY <1>2, FS_EmptySet
<1>5. /\ Count(st, A, S) = Cardinality(In(S))
      /\ Count(st, A, T) = Cardinality(In(T))
      /\ Count(st, A, S \cup T) = Cardinality(In(S \cup T))
  BY DEF Count
<1>6. Cardinality(In(S \cup T)) = Cardinality(In(S) \cup In(T))
  BY <1>2
<1> HIDE DEF In
<1> QED
  BY <1>3, <1>4, <1>5, <1>6

(***************************************************************************)
(* When the threads have been joined their counters are those of the       *)
(* hashing, and the packets of a fast path that are neither forwarded nor  *)
(* dropped are those its drain loop threw away.                            *)
(***************************************************************************)
THEOREM CountersAreHashes == Spec => []StatisticsFollowHash
<1>1. TravelInv => StatisticsFollowHash
  <2> SUFFICES ASSUME TravelInv, FPsJoined PROVE StatisticsFollowHash
    BY DEF StatisticsFollowHash, FPsJoined
  <2> DEFINE Mine(j, f) == {p \in Dispatched : FPOf(p) = j /\ fate[p] = f}
  <2>1. PICK st \in Stages : Travel(st)
    BY TravelTypes
  <2>2. \A p \in Packets :
          /\ st[p] \in 0..9 /\ st[p] \notin 1..4
          /\ p \in Dispatched <=> st[p] > 0
          /\ fate[p] = "forward" <=> st[p] \in 5..7
          /\ fate[p] = "discard" <=> st[p] = 9
    <3> SUFFICES ASSUME NEW p \in Packets
                 PROVE  /\ st[p] \in 0..9 /\ st[p] \notin 1..4
                        /\ p \in Dispatched <=> st[p] > 0
                        /\ fate[p] = "forward" <=> st[p] \in 5..7
                        /\ fate[p] = "discard" <=> st[p] = 9
      OBVIOUS
    <3>1. st[p] \in 0..9 /\ st[p] \notin 1..4
      BY <2>1, StagesWhenJoined
    <3>2. /\ p \in Dispatched <=> st[p] > 0
          /\ fate[p] = "none" <=> st[p] < 4
          /\ fate[p] = "drop" <=> st[p] = 8
          /\ fate[p] = "discard" <=> st[p] = 9
      BY <2>1 DEF Travel, Placed, ReadPlaces, Fates
    <3>3. fate[p] \in {"none", "forward", "drop", "discard"}
      BY TravelTypes DEF FPTypeOK
    <3> QED
      BY <3>1, <3>2, <3>3
  <2>3. Dispatched \subseteq Packets
    BY DEF Dispatched
  <2>4. ASSUME NEW i \in LBs
        PROVE  dispatched[i] = Cardinality({p \in Dispatched : LBOf(p) = i})
    <3>1. {p \in ToLB(i) : st[p] \in 3..9} = {p \in Dispatched : LBOf(p) = i}
      BY <2>2, <2>3 DEF ToLB
    <3> QED
      BY <2>1, <3>1 DEF Travel, Counters, LBCounters, Count
  <2>5. ASSUME NEW j \in FPs
        PROVE  /\ processed[j] = Cardinality({p \in Dispatched : FPOf(p) = j})
               /\ fpForwarded[j] = Cardinality(Mine(j, "forward"))
               /\ processed[j] = fpForwarded[j] + fpDropped[j] + Cardinality(Mine(j, "discard"))
    <3>1. /\ processed[j]   = Count(st, ToFP(j), 4..9)
          /\ fpForwarded[j] = Count(st, ToFP(j), 5..7)
          /\ fpDropped[j]   = Count(st, ToFP(j), {8})
      BY <2>1 DEF Travel, Counters, FPCounters
    <3>2. /\ {p \in ToFP(j) : st[p] \in 4..9} = {p \in Dispatched : FPOf(p) = j}
          /\ {p \in ToFP(j) : st[p] \in 5..7} = Mine(j, "forward")
          /\ {p \in ToFP(j) : st[p] \in {9}} = Mine(j, "discard")
          /\ {p \in ToFP(j) : st[p] \in 4..9} = {p \in ToFP(j) : st[p] \in (5..7 \cup {8}) \cup {9}}
      <4>1. {p \in ToFP(j) : st[p] \in 4..9} = {p \in Dispatched : FPOf(p) = j}
        BY <2>2, <2>3 DEF ToFP
      <4>2. {p \in ToFP(j) : st[p] \in 5..7} = Mine(j, "forward")
        BY <2>2, <2>3 DEF ToFP
      <4>3. {p \in ToFP(j) : st[p] \in {9}} = Mine(j, "discard")
        BY <2>2, <2>3 DEF ToFP
      <4>4. {p \in ToFP(j) : st[p] \in 4..9} = {p \in ToFP(j) : st[p] \in (5..7 \cup {8}) \cup {9}}
        BY <2>2 DEF ToFP
      <4> QED
        BY <4>1, <4>2, <4>3, <4>4
    <3>3. IsFiniteSet(ToFP(j))
      BY TravelTypes, SubsetsOfPackets, FS_Subset
    <3>4. Count(st, ToFP(j), (5..7 \cup {8}) \cup {9})
            = Count(st, ToFP(j), 5..7 \cup {8}) + Count(st, ToFP(j), {9})
      BY <3>3, CountApart, (5..7 \cup {8}) \cap {9} = {}
    <3>5. Count(st, ToFP(j), 5..7 \cup {8})
            = Count(st, ToFP(j), 5..7) + Count(st, ToFP(j), {8})
      BY <3>3, CountApart, 5..7 \cap {8} = {}
    <3> QED
      BY <3>1, <3>2, <3>4, <3>5 DEF Count
  <2> QED
    BY <2>4, <2>5 DEF StatisticsFollowHash
<1> QED
  BY <1>1, AlwaysTravel, PTL

\* Once printed the report stays true: nobody counts any more.
ReportFrozen ==
  mpc \in {"exiting", "exited"} =>
    /\ report.total = total
    /\ report.dropped = fpDropped
    /\ report.forwarded <= Len(file)

ReportInv == TravelInv /\ ReportFrozen

LEMMA NextReport ==
  ASSUME ReportInv, [Next]_vars
  PROVE  ReportInv'
<1>1. TravelInv /\ TravelInv'
  BY NextTravel DEF ReportInv
<1>2. OrderInv /\ WriterTypeOK /\ MainTypeOK /\ Len(file) \in Nat
  <2>1. OrderInv /\ WriterTypeOK /\ MainTypeOK
    BY <1>1, TravelTypes
  <2> QED
    BY <2>1 DEF WriterTypeOK
<1>3. Len(file') \in Nat /\ Len(file) <= Len(file')
  <2>1. file' = file \/ \E p : file' = Append(file, p)
    BY DEF Next, Main, LB, FP, Writer, WriterStep, WriterPop, WriterPopNone, WriterDecide,
       WriterWrite, Terminated, vars, writerVars
  <2>2. ASSUME NEW p, file' = Append(file, p)
        PROVE  Len(file') = Len(file) + 1
    BY <1>2, <2>2 DEF WriterTypeOK
  <2> QED
    BY <1>2, <2>1, <2>2
<1>4. CASE Main
  <2>1. UNCHANGED <<fpDropped, file>>
    BY <1>4 DEF Main, fpVars, writerVars
  <2>2. CASE PrintReport
    BY <1>1, <1>2, <2>1, <2>2 DEF PrintReport, ReportInv, ReportFrozen
  <2>3. CASE Exit
    BY <1>1, <2>1, <2>3 DEF Exit, ReportInv, ReportFrozen
  <2>4. CASE \/ ReaderSkip \/ ReaderDispatch \/ ReaderEnd
             \/ StopLB \/ ShutLB \/ JoinLBs
             \/ StopFP \/ ShutFP \/ JoinFPs
             \/ ShutOutput \/ AwaitWriter \/ AwaitTimeout
    <3>1. mpc' \notin {"exiting", "exited"}
      BY <2>4 DEF ReaderSkip, ReaderDispatch, ReaderEnd, StopLB, ShutLB, JoinLBs, StopFP,
         ShutFP, JoinFPs, ShutOutput, AwaitWriter, AwaitTimeout
    <3> QED
      BY <1>1, <3>1 DEF ReportInv, ReportFrozen
  <2> QED
    BY <1>4, <2>2, <2>3, <2>4 DEF Main, MainStep
<1>5. ASSUME NEW j \in FPs, FP(j)
      PROVE  ReportInv'
  <2>1. UNCHANGED <<mpc, report, total, file>>
    BY <1>5 DEF FP, mainVars, writerVars
  <2>2. CASE FPsJoined
    <3>1. fppc[j] = "done"
      BY <1>2, <2>2 DEF OrderInv, MainOrder, FPsDone
    <3> QED
      BY <1>5, <3>1 DEF FP, FPStep, FPCheck, FPInspect, FPPassThrough, FPPopNone, FPForward,
         FPDrainItem, FPDrainEnd
  <2>3. CASE ~FPsJoined
    BY <1>1, <2>1, <2>3 DEF FPsJoined, ReportInv, ReportFrozen
  <2> QED
    BY <2>2, <2>3
<1>6. CASE Writer \/ (\E i \in LBs : LB(i)) \/ UNCHANGED vars
  <2>1. UNCHANGED <<mpc, report, total, fpDropped>>
    BY <1>6 DEF Writer, LB, vars, mainVars, fpVars
  <2> QED
    BY <1>1, <1>2, <1>3, <2>1 DEF ReportInv, ReportFrozen, MainTypeOK
<1> QED
  BY <1>4, <1>5, <1>6 DEF Next, Terminated

(***************************************************************************)
(* The report counts every packet of the capture and, per fast path, those *)
(* that a rule blocked, and claims no packet forwarded that is not in the  *)
(* file, although the writer may still be at work.                         *)
(***************************************************************************)
THEOREM ReportHolds == Spec => []ReportIsSound
<1>1. Init => ReportInv
  <2>1. Init => ReportFrozen
    BY DEF Init, ReportFrozen
  <2> QED
    BY <2>1, InitTravel DEF ReportInv
<1>2. ReportInv /\ [Next]_vars => ReportInv'
  BY NextReport
<1>3. ReportInv => ReportIsSound
  <2> SUFFICES ASSUME ReportInv, mpc \in {"exiting", "exited"}
               PROVE  /\ report.total = Cardinality({p \in Packets : input[p].parsed})
                      /\ \A j \in FPs : report.dropped[j] =
                           Cardinality({p \in Packets : fate[p] = "drop" /\ FPOf(p) = j})
                      /\ report.forwarded <= Len(file)
    BY DEF ReportIsSound
  <2>1. PICK st \in Stages : Travel(st)
    BY TravelTypes DEF ReportInv
  <2>2. next > Len(input)
    BY TravelTypes DEF ReportInv, OrderInv, MainOrder
  <2>3. \A p \in Packets : st[p] \in 1..9 <=> input[p].parsed
    <3> SUFFICES ASSUME NEW p \in Packets PROVE st[p] \in 1..9 <=> input[p].parsed
      OBVIOUS
    <3>1. p \in Dispatched <=> st[p] > 0
      BY <2>1 DEF Travel, Placed, ReadPlaces
    <3>2. st[p] \in 0..9 /\ p < next
      <4>1. next \in Int /\ Len(input) \in Int
        BY TravelTypes, InputType DEF ReportInv, MainTypeOK
      <4> QED
        BY <2>2, <4>1 DEF Stages, Packets
    <3> QED
      BY <3>1, <3>2 DEF Dispatched
  <2>4. total = Cardinality({p \in Packets : input[p].parsed})
    <3>1. {p \in Packets : st[p] \in 1..9} = {p \in Packets : input[p].parsed}
      BY <2>3
    <3> QED
      BY <2>1, <3>1 DEF Travel, Counters, Count
  <2>5. ASSUME NEW j \in FPs
        PROVE  fpDropped[j] = Cardinality({p \in Packets : fate[p] = "drop" /\ FPOf(p) = j})
    <3>1. {p \in ToFP(j) : st[p] \in {8}} = {p \in Packets : fate[p] = "drop" /\ FPOf(p) = j}
      BY <2>1 DEF ToFP, Travel, Placed, Fates
    <3> QED
      BY <2>1, <3>1 DEF Travel, Counters, FPCounters, Count
  <2> QED
    BY <2>4, <2>5 DEF ReportInv, ReportFrozen
<1> QED
  BY <1>1, <1>2, <1>3, PTL DEF Spec

-----------------------------------------------------------------------------
(* The packet filter *)

\* The flow table and the decisions as the packet filter sees them.
FilterFlows == [t \in Tuples |-> flows[FPOfTuple(t)][t]]
FilterFate == [p \in Packets |-> IF fate[p] = "discard" THEN "none" ELSE fate[p]]

\* The packets of a flow go the same way, to the fast path with its entry.
LEMMA FlowsStayTogether ==
  ASSUME MainTypeOK
  PROVE  /\ \A t \in Tuples : FPOfTuple(t) \in FPs
         /\ \A p \in Packets : input[p].tuple # NoTuple =>
              /\ input[p].tuple \in Tuples
              /\ FPOf(p) = FPOfTuple(input[p].tuple)
         /\ \A p, q \in Packets :
              input[p].tuple # NoTuple /\ input[p].tuple = input[q].tuple => Sibling(p, q)
<1>1. \A t \in Tuples : FPOfTuple(t) \in FPs
  BY HashLeadsToThread, TuplesAssumption DEF FPOfTuple
<1>2. ASSUME NEW p \in Packets, input[p].tuple # NoTuple
      PROVE  /\ input[p].tuple \in Tuples
             /\ LBOf(p) = Hash[input[p].tuple] % NumLBs
             /\ FPOf(p) = FPOfTuple(input[p].tuple)
  <2>1. input[p].tuple \in Tuples /\ HashOf(input[p]) = Hash[input[p].tuple]
    BY <1>2, InputType DEF HashOf, PacketRecords
  <2> QED
    BY <2>1 DEF LBOf, FPOf, SelectFP, FPOfTuple
<1> QED
  BY <1>1, <1>2 DEF Sibling

\* Where the packets are of which p is about to leave a stage.
LEMMA EarlierIsAhead ==
  ASSUME TravelInv, NEW st \in Stages, Travel(st),
         NEW p \in Packets, st[p] > 0, st[p] < 8, Filter!HasFlow(p),
         NEW q \in Filter!Earlier(p)
  PROVE  /\ q \in Packets /\ q < p /\ Sibling(q, p) /\ <<p, q>> \notin Follows
         /\ st[p] <= st[q] /\ st[q] \in 0..9
<1>1. p \in Int /\ p <= Len(input) /\ Len(input) \in Nat /\ next \in Int /\ p < next
  <2>1. next \in Int
    BY TravelTypes DEF MainTypeOK
  <2>2. p < next
    BY DEF Travel, Placed, ReadPlaces, Dispatched
  <2> QED
    BY <2>1, <2>2, TravelTypes, InputType DEF Packets
<1>2. q \in Packets /\ q \in Int /\ q < p /\ input[q].parsed
  BY <1>1 DEF Filter!Earlier, Packets
<1>3. input[p].tuple # NoTuple /\ input[q].tuple = input[p].tuple
  BY DEF Filter!HasFlow, Filter!Earlier
<1>4. Sibling(q, p) /\ Sibling(p, q)
  BY <1>2, <1>3, TravelTypes, FlowsStayTogether
<1>5. st[q] > 0
  BY <1>1, <1>2 DEF Travel, Placed, ReadPlaces, Dispatched
<1>6. st[p] \in 0..9 /\ st[q] \in 0..9
  BY <1>2 DEF Stages
<1>7. st[p] <= st[q]
  BY <1>2, <1>4, <1>5, <1>6 DEF Travel, NoOvertaking
<1>8. <<p, q>> \notin Follows
  BY <1>1, <1>2, <1>4 DEF Follows
<1> QED
  BY <1>2, <1>4, <1>6, <1>7, <1>8

(***************************************************************************)
(* The output is in flow order, holds nothing twice and nothing that was   *)
(* blocked, whatever threads and queues a packet went through.             *)
(***************************************************************************)
THEOREM OutputInFlowOrder == Spec => []FileInFlowOrder
<1>1. TravelInv => FileInFlowOrder
  <2> SUFFICES ASSUME TravelInv PROVE FileInFlowOrder
    OBVIOUS
  <2>1. PICK st \in Stages : Travel(st)
    BY TravelTypes
  <2>2. \A k \in DOMAIN file : file[k] \in Packets /\ file[k] # Sentinel
    BY TravelTypes DEF WriterTypeOK
  <2>3. ASSUME NEW k \in DOMAIN file
        PROVE  FilterFate[file[k]] = "forward"
    <3>1. PICK p \in Packets : p = file[k]
      BY <2>2
    <3>2. st[p] = 7
      BY <2>1, <3>1 DEF Travel, Placed, OutPlaces, Written
    <3>3. fate[p] \notin {"none", "drop", "discard"}
      BY <2>1, <3>2 DEF Travel, Placed, Fates
    <3>4. fate[p] = "forward"
      BY <3>3, TravelTypes DEF FPTypeOK
    <3> QED
      BY <3>1, <3>4 DEF FilterFate
  <2>4. ASSUME NEW k \in DOMAIN file, NEW l \in DOMAIN file, k < l
        PROVE  /\ file[k] # file[l]
               /\ Filter!HasFlow(file[k]) /\ input[file[k]].tuple = input[file[l]].tuple
                    => file[k] < file[l]
    <3>1. <<file[k], file[l]>> \in Follows
      BY <2>2, <2>4 DEF TravelInv, QueuesSorted, Sorted
    <3>2. file[k] # file[l]
      BY <3>1, FollowsStrict
    <3>3. ASSUME Filter!HasFlow(file[k]), input[file[k]].tuple = input[file[l]].tuple
          PROVE  Sibling(file[k], file[l])
      BY <2>2, <3>3, TravelTypes, FlowsStayTogether DEF Filter!HasFlow
    <3> QED
      BY <3>1, <3>2, <3>3 DEF Follows
  <2> QED
    BY <2>3, <2>4 DEF FileInFlowOrder, Filter!FileInFlowOrder, FilterFate
<1> QED
  BY <1>1, AlwaysTravel, PTL

\* The filter judges a packet as a fast path does.
LEMMA FilterInspects ==
  ASSUME NEW pkt, NEW before
  PROVE  Filter!Inspect(pkt, before) = Inspect(pkt, before)
<1>1. \A name : Filter!SniToAppType(name) = SniToAppType(name)
  BY DEF Filter!SniToAppType, SniToAppType, Filter!SniMapping, SniMapping
<1>2. \A flow : Filter!Classify(pkt, flow) = Classify(pkt, flow)
  BY <1>1 DEF Filter!Classify, Classify, Filter!LabelUnknown, LabelUnknown,
              Filter!HTTPS_PORT, Filter!HTTP_PORT, Filter!DNS_PORT,
              Filter!TLS_MIN_PAYLOAD, HTTPS_PORT, HTTP_PORT, DNS_PORT, TLS_MIN_PAYLOAD
<1>3. \A ip, app, sni : Filter!IsBlocked(ip, app, sni) <=> IsBlocked(ip, app, sni)
  BY DEF Filter!IsBlocked, IsBlocked
<1> QED
  BY <1>2, <1>3 DEF Filter!Inspect, Inspect

LEMMA InitIsFilterInit == Init => Filter!Init
<1> SUFFICES ASSUME Init PROVE Filter!Init
  OBVIOUS
<1>1. MainTypeOK
  BY InitTypeInv DEF TypeInv, TypeOK
<1>2. FilterFlows = [t \in Tuples |-> Filter!NewFlow]
  BY <1>1, FlowsStayTogether DEF Init, FPInit, FilterFlows, NewFlow, Filter!NewFlow
<1>3. FilterFate = [p \in Filter!Packets |-> "none"]
  BY DEF Init, FPInit, FilterFate, Packets, Filter!Packets
<1> QED
  BY <1>2, <1>3 DEF Init, WriterInit, Filter!Init, FilterFlows, FilterFate

\* A packet in front of the queue of a fast path that is not draining is the
\* first undecided one of its flow.
LEMMA ReadyToDecide ==
  ASSUME TravelInv, NEW j \in FPs, HasItem(fpq[j]), fppc[j] = "pop",
         NEW p \in Packets, p = Head(fpq[j])
  PROVE  /\ p <= next - 1 /\ input[p].parsed /\ FPOf(p) = j
         /\ FilterFate[p] = "none" /\ fate[p] = "none"
         /\ Filter!HasFlow(p) => \A q \in Filter!Earlier(p) : FilterFate[q] # "none"
<1>1. PICK st \in Stages : Travel(st)
  BY TravelTypes
<1>2. Sorted(fpq[j], Follows) /\ fpq[j] \in Seq(Packets \cup {Sentinel})
  BY TravelTypes DEF TravelInv, QueuesSorted, FPTypeOK, BoundedQueues
<1>3. /\ p \in Items(fpq[j])
      /\ Items(Tail(fpq[j])) = Items(fpq[j]) \ {p}
      /\ \A x \in Items(Tail(fpq[j])) : <<p, x>> \in Follows
  BY <1>2, FollowsStrict, PopSorted
<1>4. st[p] = 3 /\ FPOf(p) = j
  BY <1>1, <1>3 DEF Travel, Placed, FPPlaces
<1>5. p <= next - 1 /\ input[p].parsed
  <2>1. p \in Dispatched
    BY <1>1, <1>4 DEF Travel, Placed, ReadPlaces
  <2>2. p \in Int /\ next \in Int
    BY TravelTypes DEF MainTypeOK
  <2> QED
    BY <2>1, <2>2 DEF Dispatched
<1>6. fate[p] = "none" /\ FilterFate[p] = "none"
  BY <1>1, <1>4 DEF Travel, Placed, Fates, FilterFate
<1>7. ASSUME Filter!HasFlow(p), NEW q \in Filter!Earlier(p)
      PROVE  FilterFate[q] # "none"
  <2>1. /\ q \in Packets /\ Sibling(q, p) /\ <<p, q>> \notin Follows
        /\ 3 <= st[q] /\ st[q] \in 0..9
        /\ q < p
    BY <1>1, <1>4, <1>7, EarlierIsAhead
  <2>2. st[q] # 3
    <3>1. q # p
      BY <2>1, TravelTypes
    <3>2. q \notin Items(fpq[j])
      BY <1>3, <2>1, <3>1
    <3>3. FPOf(q) = j
      BY <1>4, <2>1 DEF Sibling
    <3> QED
      BY <1>1, <2>1, <3>2, <3>3 DEF Travel, Placed, FPPlaces
  <2>3. fate[q] # "none"
    BY <1>1, <2>1, <2>2 DEF Travel, Placed, Fates
  <2>4. fate[q] # "discard"
    BY <1>4, <2>1 DEF Sibling, TravelInv, DiscardsAtEnd
  <2> QED
    BY <2>1, <2>3, <2>4 DEF FilterFate
<1> QED
  BY <1>4, <1>5, <1>6, <1>7

LEMMA InspectIsDecide ==
  ASSUME TravelInv, NEW j \in FPs, FP(j), FPInspect(j)
  PROVE  \E p \in Filter!Packets : Filter!Decide(p)
<1>1. PICK p \in Packets : p = Head(fpq[j])
  BY TravelTypes, HeadIsPacket DEF FPInspect, FPTypeOK
<1>2. PICK t : t = input[p].tuple
  OBVIOUS
<1>3. PICK flow : flow = Inspect(input[p], flows[j][t])
  OBVIOUS
<1>4. /\ HasItem(fpq[j]) /\ fppc[j] = "pop" /\ t # NoTuple
      /\ flows' = [flows EXCEPT ![j][t] = flow]
      /\ fate' = [fate EXCEPT ![p] = IF flow.blocked THEN "drop" ELSE "forward"]
      /\ UNCHANGED <<input, next, file>>
  BY <1>1, <1>2, <1>3 DEF FP, FPInspect, writerVars, mainVars
<1>5. /\ p <= next - 1 /\ input[p].parsed /\ FPOf(p) = j
      /\ FilterFate[p] = "none"
      /\ Filter!HasFlow(p)
      /\ \A q \in Filter!Earlier(p) : FilterFate[q] # "none"
  <2>1. /\ p <= next - 1 /\ input[p].parsed /\ FPOf(p) = j
        /\ FilterFate[p] = "none"
        /\ Filter!HasFlow(p) => \A q \in Filter!Earlier(p) : FilterFate[q] # "none"
    BY <1>1, <1>4, ReadyToDecide
  <2>2. Filter!HasFlow(p)
    BY <1>2, <1>4, <2>1 DEF Filter!HasFlow
  <2> QED
    BY <2>1, <2>2
<1>6. t \in Tuples /\ FPOfTuple(t) = j /\ \A u \in Tuples : FPOfTuple(u) \in FPs
  BY <1>2, <1>4, <1>5, TravelTypes, FlowsStayTogether
<1>7. FilterFlows[t] = flows[j][t]
  BY <1>6 DEF FilterFlows
<1>8. [u \in Tuples |-> flows'[FPOfTuple(u)][u]] = [FilterFlows EXCEPT ![t] = flow]
  <2>1. flows \in [FPs -> [Tuples -> Flows]]
    BY TravelTypes DEF FPTypeOK
  <2>2. \A u \in Tuples :
          flows'[FPOfTuple(u)][u] = IF u = t THEN flow ELSE flows[FPOfTuple(u)][u]
    BY <1>4, <1>6, <2>1
  <2> QED
    BY <1>6, <2>2 DEF FilterFlows
<1>9. [q \in Packets' |-> IF fate'[q] = "discard" THEN "none" ELSE fate'[q]]
        = [FilterFate EXCEPT ![p] = IF flow.blocked THEN "drop" ELSE "forward"]
  <2>1. Packets' = Packets /\ fate \in [Packets -> {"none", "forward", "drop", "discard"}]
    BY <1>4, TravelTypes DEF FPTypeOK, Packets
  <2>2. \A q \in Packets :
          fate'[q] = IF q = p THEN (IF flow.blocked THEN "drop" ELSE "forward") ELSE fate[q]
    BY <1>4, <2>1
  <2> QED
    BY <2>1, <2>2 DEF FilterFate
<1>10. Filter!Inspect(input[p], FilterFlows[t]) = flow
  BY <1>3, <1>7, FilterInspects
<1>11. Filter!Decide(p)
  BY <1>2, <1>4, <1>5, <1>8, <1>9, <1>10 DEF Filter!Decide, FilterFlows, FilterFate
<1> QED
  BY <1>11 DEF Packets, Filter!Packets

LEMMA PassIsPassThrough ==
  ASSUME TravelInv, NEW j \in FPs, FP(j), FPPassThrough(j)
  PROVE  \E p \in Filter!Packets : Filter!PassThrough(p)
<1>1. PICK p \in Packets : p = Head(fpq[j])
  BY TravelTypes, HeadIsPacket DEF FPPassThrough, FPTypeOK
<1>2. /\ HasItem(fpq[j]) /\ fppc[j] = "pop" /\ input[p].tuple = NoTuple
      /\ fate' = [fate EXCEPT ![p] = "forward"]
      /\ UNCHANGED <<input, next, file, flows>>
  BY <1>1 DEF FP, FPPassThrough, writerVars, mainVars
<1>3. p <= next - 1 /\ input[p].parsed /\ FilterFate[p] = "none"
  BY <1>1, <1>2, ReadyToDecide
<1>4. [q \in Packets' |-> IF fate'[q] = "discard" THEN "none" ELSE fate'[q]]
        = [FilterFate EXCEPT ![p] = "forward"]
  <2>1. Packets' = Packets /\ fate \in [Packets -> {"none", "forward", "drop", "discard"}]
    BY <1>2, TravelTypes DEF FPTypeOK, Packets
  <2>2. \A q \in Packets : fate'[q] = IF q = p THEN "forward" ELSE fate[q]
    BY <1>2, <2>1
  <2> QED
    BY <2>1, <2>2 DEF FilterFate
<1>5. Filter!PassThrough(p)
  BY <1>2, <1>3, <1>4 DEF Filter!PassThrough, FilterFate
<1> QED
  BY <1>5 DEF Packets, Filter!Packets

LEMMA WriteIsEmit ==
  ASSUME TravelInv, Writer, WriterWrite
  PROVE  \E p \in Filter!Packets : Filter!Emit(p)
<1>1. PICK p \in Packets : p = wpkt
  BY TravelTypes DEF WriterWrite, WriterTypeOK, HoldsPacket
<1>2. PICK st \in Stages : Travel(st)
  BY TravelTypes
<1>3. st[p] = 6
  BY <1>1, <1>2 DEF Travel, Placed, OutPlaces
<1>4. FilterFate[p] = "forward"
  <2>1. fate[p] \notin {"none", "drop", "discard"}
    BY <1>2, <1>3 DEF Travel, Placed, Fates
  <2>2. fate[p] = "forward"
    BY <2>1, TravelTypes DEF FPTypeOK
  <2> QED
    BY <2>2 DEF FilterFate
<1>5. ~Filter!Written(p)
  BY <1>2, <1>3 DEF Travel, Placed, OutPlaces, Written, Filter!Written
<1>6. ASSUME Filter!HasFlow(p), NEW q \in Filter!Earlier(p), FilterFate[q] = "forward"
      PROVE  Filter!Written(q)
  <2>1. q \in Packets /\ q < p /\ 6 <= st[q] /\ st[q] \in 0..9
    <3>1. st[p] > 0 /\ st[p] < 8
      BY <1>3
    <3>2. q \in Packets /\ q < p /\ st[p] <= st[q] /\ st[q] \in 0..9
      BY <1>2, <1>6, <3>1, EarlierIsAhead
    <3> QED
      BY <1>3, <3>2
  <2>2. fate[q] = "forward"
    BY <1>6, <2>1 DEF FilterFate
  <2>3. st[q] # 8 /\ st[q] # 9
    BY <1>2, <2>1, <2>2 DEF Travel, Placed, Fates
  <2>4. st[q] # 6
    BY <1>1, <1>2, <2>1, TravelTypes DEF Travel, Placed, OutPlaces
  <2>5. Written(q)
    BY <1>2, <2>1, <2>3, <2>4 DEF Travel, Placed, OutPlaces
  <2> QED
    BY <2>5 DEF Written, Filter!Written
<1>7. file' = Append(file, p) /\ UNCHANGED <<input, next, flows, fate>>
  BY <1>1 DEF Writer, WriterWrite, mainVars, fpVars
<1>8. Filter!Emit(p)
  BY <1>4, <1>5, <1>6, <1>7 DEF Filter!Emit, FilterFate, Packets
<1> QED
  BY <1>8 DEF Packets, Filter!Packets

\* A discarded packet was undecided and stays so.
LEMMA DiscardIsStutter ==
  ASSUME TravelInv, NEW j \in FPs, FP(j), FPDrainItem(j)
  PROVE  UNCHANGED Filter!vars
<1>1. PICK p \in Packets : p = Head(fpq[j])
  BY TravelTypes, HeadIsPacket DEF FPDrainItem, FPTypeOK
<1>2. PICK st \in Stages : Travel(st)
  BY TravelTypes
<1>3. /\ HasItem(fpq[j])
      /\ fate' = [fate EXCEPT ![p] = "discard"]
      /\ UNCHANGED <<input, next, file, flows>>
  BY <1>1 DEF FP, FPDrainItem, writerVars, mainVars
<1>4. fate[p] = "none"
  <2>1. Sorted(fpq[j], Follows) /\ fpq[j] \in Seq(Packets \cup {Sentinel})
    BY TravelTypes DEF TravelInv, QueuesSorted, FPTypeOK, BoundedQueues
  <2>2. p \in Items(fpq[j])
    BY <1>1, <1>3, <2>1, FollowsStrict, PopSorted
  <2> QED
    BY <1>2, <2>2 DEF Travel, Placed, FPPlaces, Fates
<1>5. [q \in Packets' |-> IF fate'[q] = "discard" THEN "none" ELSE fate'[q]] = FilterFate
  <2>1. Packets' = Packets /\ fate \in [Packets -> {"none", "forward", "drop", "discard"}]
    BY <1>3, TravelTypes DEF FPTypeOK, Packets
  <2>2. \A q \in Packets : fate'[q] = IF q = p THEN "discard" ELSE fate[q]
    BY <1>3, <2>1
  <2> QED
    BY <1>4, <2>1, <2>2 DEF FilterFate
<1> QED
  BY <1>3, <1>5 DEF Filter!vars, FilterFate

LEMMA StepIsFilterStep ==
  ASSUME TravelInv, [Next]_vars
  PROVE  [Filter!Next]_(Filter!vars)
<1>1. CASE Main
  <2>1. UNCHANGED <<input, flows, fate, file>> /\ Packets' = Packets
    BY <1>1 DEF Main, fpVars, writerVars, Packets
  <2>2. CASE ReaderSkip \/ ReaderDispatch
    <3>1. next - 1 < Len(input) /\ next' - 1 = (next - 1) + 1
      BY <2>2, TravelTypes, InputType DEF ReaderSkip, ReaderDispatch, MainTypeOK
    <3>2. Filter!Arrive
      BY <2>1, <3>1 DEF Filter!Arrive
    <3> QED
      BY <3>2 DEF Filter!Next
  <2>3. CASE \/ ReaderEnd \/ StopLB \/ ShutLB \/ JoinLBs
             \/ StopFP \/ ShutFP \/ JoinFPs
             \/ ShutOutput \/ AwaitWriter \/ AwaitTimeout \/ PrintReport \/ Exit
    <3>1. next' = next
      BY <2>3 DEF ReaderEnd, StopLB, ShutLB, JoinLBs, StopFP, ShutFP, JoinFPs, ShutOutput,
         AwaitWriter, AwaitTimeout, PrintReport, Exit
    <3> QED
      BY <2>1, <3>1 DEF Filter!vars
  <2> QED
    BY <1>1, <2>2, <2>3 DEF Main, MainStep
<1>2. ASSUME NEW j \in FPs, FP(j)
      PROVE  [Filter!Next]_(Filter!vars)
  <2>1. CASE FPInspect(j)
    BY <1>2, <2>1, InspectIsDecide DEF Filter!Next
  <2>2. CASE FPPassThrough(j)
    BY <1>2, <2>2, PassIsPassThrough DEF Filter!Next
  <2>3. CASE FPDrainItem(j)
    BY <1>2, <2>3, DiscardIsStutter
  <2>4. CASE FPCheck(j) \/ FPPopNone(j) \/ FPForward(j) \/ FPDrainEnd(j)
    <3>1. UNCHANGED <<input, next, flows, fate, file>> /\ Packets' = Packets
      BY <1>2, <2>4 DEF FP, FPCheck, FPPopNone, FPForward, FPDrainEnd, mainVars,
         writerVars, Packets
    <3> QED
      BY <3>1 DEF Filter!vars
  <2> QED
    BY <1>2, <2>1, <2>2, <2>3, <2>4 DEF FP, FPStep
<1>3. CASE Writer
  <2>1. CASE WriterWrite
    BY <1>3, <2>1, WriteIsEmit DEF Filter!Next
  <2>2. CASE WriterPop \/ WriterPopNone \/ WriterDecide
    <3>1. UNCHANGED <<input, next, flows, fate, file>> /\ Packets' = Packets
      BY <1>3, <2>2 DEF Writer, WriterPop, WriterPopNone, WriterDecide, mainVars, fpVars, Packets
    <3> QED
      BY <3>1 DEF Filter!vars
  <2> QED
    BY <1>3, <2>1, <2>2 DEF Writer, WriterStep
<1>4. CASE (\E i \in LBs : LB(i)) \/ UNCHANGED vars
  <2>1. UNCHANGED <<input, next, flows, fate, file>> /\ Packets' = Packets
    BY <1>4 DEF LB, vars, mainVars, fpVars, writerVars, Packets
  <2> QED
    BY <2>1 DEF Filter!vars
<1> QED
  BY <1>1, <1>2, <1>3, <1>4 DEF Next, Terminated

(***************************************************************************)
(* The multi-threaded engine implements the packet filter with one flow    *)
(* table: for any number of threads, any capacities and any schedule its   *)
(* verdicts and its output are ones the filter could have produced.        *)
(***************************************************************************)
THEOREM EngineIsFilter == Spec => ImplementsFilter
<1>1. Init => Filter!Init
  BY InitIsFilterInit
<1>2. TravelInv /\ [Next]_vars => [Filter!Next]_(Filter!vars)
  BY StepIsFilterStep
<1> QED
  BY <1>1, <1>2, AlwaysTravel, PTL DEF Spec, ImplementsFilter, Filter!Spec

-----------------------------------------------------------------------------
(* What holds of the filter holds of the engine *)

FilterProofs == INSTANCE PacketFilterProofs WITH
  arrived <- next - 1,
  flows   <- [t \in Tuples |-> flows[FPOfTuple(t)][t]],
  fate    <- [p \in Packets |-> IF fate[p] = "discard" THEN "none" ELSE fate[p]]

\* The filter of the refinement is the one that PacketFilterProofs is about.
LEMMA OneFilter ==
  /\ Filter!Init <=> FilterProofs!Init
  /\ [Filter!Next]_(Filter!vars) <=> [FilterProofs!Next]_(FilterProofs!vars)
  /\ Filter!StickyBlock <=> FilterProofs!StickyBlock
  /\ Filter!BlockedNameStopsFlow <=> FilterProofs!BlockedNameStopsFlow
  /\ Filter!JudgedInTurn <=> FilterProofs!JudgedInTurn
<1>1. \A pkt, flow : Filter!Inspect(pkt, flow) = FilterProofs!Inspect(pkt, flow)
  <2> SUFFICES ASSUME NEW pkt, NEW flow
               PROVE  FilterProofs!Inspect(pkt, flow) = Inspect(pkt, flow)
    BY FilterInspects
  <2>1. \A name : FilterProofs!SniToAppType(name) = SniToAppType(name)
    BY DEF FilterProofs!SniToAppType, SniToAppType, FilterProofs!SniMapping, SniMapping
  <2>2. \A seen : FilterProofs!Classify(pkt, seen) = Classify(pkt, seen)
    BY <2>1 DEF FilterProofs!Classify, Classify, FilterProofs!LabelUnknown, LabelUnknown,
                FilterProofs!HTTPS_PORT, FilterProofs!HTTP_PORT, FilterProofs!DNS_PORT,
                FilterProofs!TLS_MIN_PAYLOAD,
                HTTPS_PORT, HTTP_PORT, DNS_PORT, TLS_MIN_PAYLOAD
  <2>3. \A ip, app, sni : FilterProofs!IsBlocked(ip, app, sni) <=> IsBlocked(ip, app, sni)
    BY DEF FilterProofs!IsBlocked, IsBlocked
  <2> QED
    BY <2>2, <2>3 DEF FilterProofs!Inspect, Inspect
<1>2. /\ Filter!Packets = FilterProofs!Packets
      /\ \A p : /\ Filter!Earlier(p) = FilterProofs!Earlier(p)
                /\ Filter!HasFlow(p) <=> FilterProofs!HasFlow(p)
                /\ Filter!Written(p) <=> FilterProofs!Written(p)
  BY DEF Filter!Packets, Filter!Earlier, Filter!HasFlow, Filter!Written,
         FilterProofs!Packets, FilterProofs!Earlier, FilterProofs!HasFlow,
         FilterProofs!Written
<1>3. Filter!Init <=> FilterProofs!Init
  BY <1>2 DEF Filter!Init, Filter!NewFlow, FilterProofs!Init, FilterProofs!NewFlow
<1>4. Filter!Arrive <=> FilterProofs!Arrive
  BY DEF Filter!Arrive, FilterProofs!Arrive
<1>5. \A p : Filter!Decide(p) <=> FilterProofs!Decide(p)
  BY <1>1, <1>2 DEF Filter!Decide, FilterProofs!Decide
<1>6. \A p : Filter!PassThrough(p) <=> FilterProofs!PassThrough(p)
  BY DEF Filter!PassThrough, FilterProofs!PassThrough
<1>7. \A p : Filter!Emit(p) <=> FilterProofs!Emit(p)
  BY <1>2 DEF Filter!Emit, FilterProofs!Emit
<1>8. Filter!Next <=> FilterProofs!Next
  BY <1>2, <1>4, <1>5, <1>6, <1>7 DEF Filter!Next, FilterProofs!Next
<1>9. UNCHANGED Filter!vars <=> UNCHANGED FilterProofs!vars
  BY DEF Filter!vars, FilterProofs!vars
<1>10. Filter!StickyBlock <=> FilterProofs!StickyBlock
  BY <1>2 DEF Filter!StickyBlock, FilterProofs!StickyBlock
<1>11. \A p : Filter!ShowsName(p) <=> FilterProofs!ShowsName(p)
  BY <1>2 DEF Filter!ShowsName, Filter!HTTPS_PORT, Filter!HTTP_PORT,
              Filter!TLS_MIN_PAYLOAD, FilterProofs!ShowsName,
              FilterProofs!HTTPS_PORT, FilterProofs!HTTP_PORT,
              FilterProofs!TLS_MIN_PAYLOAD
<1>12. \A name : Filter!BlockedName(name) <=> FilterProofs!BlockedName(name)
  BY DEF Filter!BlockedName, Filter!SniToAppType, Filter!SniMapping,
         FilterProofs!BlockedName, FilterProofs!SniToAppType, FilterProofs!SniMapping
<1>13. Filter!BlockedNameStopsFlow <=> FilterProofs!BlockedNameStopsFlow
  BY <1>2, <1>11, <1>12
     DEF Filter!BlockedNameStopsFlow, FilterProofs!BlockedNameStopsFlow
<1>14. \A capture : Filter!FlowsOf(capture) = FilterProofs!FlowsOf(capture)
  <2>1. Filter!NewFlow = FilterProofs!NewFlow
    BY DEF Filter!NewFlow, FilterProofs!NewFlow
  <2> SUFFICES ASSUME NEW capture
               PROVE  Filter!FlowsOf(capture) = FilterProofs!FlowsOf(capture)
    OBVIOUS
  <2> DEFINE
        Judge(pkt, f) == IF pkt.parsed /\ pkt.tuple # NoTuple
                         THEN [f EXCEPT ![pkt.tuple] = Filter!Inspect(pkt, @)]
                         ELSE f
        JudgeToo(pkt, f) == IF pkt.parsed /\ pkt.tuple # NoTuple
                            THEN [f EXCEPT ![pkt.tuple] = FilterProofs!Inspect(pkt, @)]
                            ELSE f
        Rec(g) == [n \in 0..Len(capture) |->
                     IF n = 0 THEN [t \in Tuples |-> Filter!NewFlow]
                     ELSE Judge(capture[n], g[n-1])]
        RecToo(g) == [n \in 0..Len(capture) |->
                        IF n = 0 THEN [t \in Tuples |-> FilterProofs!NewFlow]
                        ELSE JudgeToo(capture[n], g[n-1])]
  <2>2. \A pkt, f : Judge(pkt, f) = JudgeToo(pkt, f)
    BY <1>1
  <2>3. Filter!FlowsOf(capture) = CHOOSE g : g = Rec(g)
    BY DEF Filter!FlowsOf
  <2>4. FilterProofs!FlowsOf(capture) = CHOOSE g : g = RecToo(g)
    BY DEF FilterProofs!FlowsOf
  <2> HIDE DEF Judge, JudgeToo
  <2>5. \A g : Rec(g) = RecToo(g)
    BY <2>1, <2>2
  <2> HIDE DEF Rec, RecToo
  <2>6. (CHOOSE g : g = Rec(g)) = (CHOOSE g : g = RecToo(g))
    BY <2>5, Zenon
  <2> QED
    BY <2>3, <2>4, <2>6
<1>15. Filter!JudgedInTurn <=> FilterProofs!JudgedInTurn
  BY <1>2, <1>14 DEF Filter!JudgedInTurn, FilterProofs!JudgedInTurn
<1> QED
  BY <1>3, <1>8, <1>9, <1>10, <1>13, <1>15

\* So what is proved of the filter holds of the engine.
LEMMA FilterHolds == Spec => FilterProofs!Spec
BY EngineIsFilter, OneFilter, PTL DEF ImplementsFilter, Filter!Spec, FilterProofs!Spec

\* What the filter's theorems assume of its constants is assumed here too.
LEMMA FilterAssumptions ==
  /\ NoTuple \notin Tuples
  /\ DOMAIN SrcIp = Tuples
  /\ DstPort \in [Tuples -> Nat]
  /\ Hash \in [Tuples -> Int]
  /\ NoName \notin Names
  /\ DOMAIN Within = Names \cup {NoName}
  /\ Inputs \subseteq Seq(FilterProofs!PacketRecords)
  /\ DOMAIN Rules = {"ips", "apps", "domains"}
  /\ Rules.apps \subseteq FilterProofs!AppTypes
<1>1. FilterProofs!PacketRecords = PacketRecords
  BY DEF FilterProofs!PacketRecords, PacketRecords
<1>2. FilterProofs!AppTypes = AppTypes
  BY DEF FilterProofs!AppTypes, AppTypes
<1> QED
  BY <1>1, <1>2, TuplesAssumption, NamesAssumption, InputsAssumption, RulesAssumption

(***************************************************************************)
(* Once a fast path has dropped a packet of a flow, no later packet of     *)
(* that flow is let through, by this or any other thread.                  *)
(***************************************************************************)
THEOREM BlocksAreSticky == Spec => []Filter!StickyBlock
BY FilterAssumptions, FilterHolds, OneFilter, FilterProofs!BlocksAreSticky, PTL

(***************************************************************************)
(* A flow whose first name is blocked gets nothing through the engine from *)
(* the packet that shows the name onwards, under every schedule.           *)
(***************************************************************************)
THEOREM BlockedNamesStop == Spec => []Filter!BlockedNameStopsFlow
BY FilterAssumptions, FilterHolds, OneFilter, FilterProofs!BlockedNamesStop, PTL

(***************************************************************************)
(* The verdict on a packet does not depend on the schedule, on the number  *)
(* of threads or on the queues: every packet that a fast path judges gets  *)
(* the verdict that judging the capture one packet after the other gives   *)
(* it.                                                                     *)
(***************************************************************************)
THEOREM VerdictsFollowCapture == Spec => []JudgedInTurn
<1>1. Filter!JudgedInTurn <=> JudgedInTurn
  BY DEF JudgedInTurn
<1> QED
  BY <1>1, FilterAssumptions, FilterHolds, OneFilter,
     FilterProofs!VerdictsFollowCapture, PTL

=============================================================================
