---------------------------- MODULE PacketFilter ----------------------------
(***************************************************************************)
(* What both engines promise, without threads and queues: a filter that    *)
(* reads a capture in order, decides each flow's packets in their order in *)
(* the capture, and copies the packets it lets through to the output, each *)
(* flow's in order.  Packets of different flows may overtake each other,   *)
(* and a packet may be left undecided or unwritten for ever.               *)
(*                                                                         *)
(* SimpleEngine and DPIEngine are checked to implement this specification. *)
(***************************************************************************)
EXTENDS FastPath, FiniteSets

VARIABLES
  input,    \* the capture
  arrived,  \* how many of its records have been read
  flows,    \* [Tuples -> Flows], one table for the whole filter
  fate,     \* per packet: "none" until decided, then "forward" or "drop"
  file      \* the output, as positions in the input

vars == <<input, arrived, flows, fate, file>>

Packets == 1..Len(input)

\* The packets of p's flow that come before it in the capture.
Earlier(p) ==
  {q \in 1..(p-1) : input[q].parsed /\ input[q].tuple = input[p].tuple}

HasFlow(p) == input[p].parsed /\ input[p].tuple # NoTuple

Written(p) == \E k \in DOMAIN file : file[k] = p

Init ==
  /\ input \in Inputs
  /\ arrived = 0
  /\ flows = [t \in Tuples |-> NewFlow]
  /\ fate = [p \in Packets |-> "none"]
  /\ file = <<>>

\* Read the next record.  What does not parse is never decided.
Arrive ==
  /\ arrived < Len(input)
  /\ arrived' = arrived + 1
  /\ UNCHANGED <<input, flows, fate, file>>

\* Mutant: the packets of a flow are judged in any order.
DecideMutant(p) ==
  /\ p <= arrived
  /\ HasFlow(p)
  /\ fate[p] = "none"
  /\ LET flow == Inspect(input[p], flows[input[p].tuple])
     IN  /\ flows' = [flows EXCEPT ![input[p].tuple] = flow]
         /\ fate' = [fate EXCEPT ![p] = IF flow.blocked THEN "drop" ELSE "forward"]
  /\ UNCHANGED <<input, arrived, file>>

\* Decide a packet that has a flow, after all earlier packets of the flow.
Decide(p) ==
  /\ p <= arrived
  /\ HasFlow(p)
  /\ fate[p] = "none"
  /\ \A q \in Earlier(p) : fate[q] # "none"
  /\ LET flow == Inspect(input[p], flows[input[p].tuple])
     IN  /\ flows' = [flows EXCEPT ![input[p].tuple] = flow]
         /\ fate' = [fate EXCEPT ![p] = IF flow.blocked THEN "drop" ELSE "forward"]
  /\ UNCHANGED <<input, arrived, file>>

\* A packet without a flow is let through unseen.
PassThrough(p) ==
  /\ p <= arrived
  /\ input[p].parsed
  /\ input[p].tuple = NoTuple
  /\ fate[p] = "none"
  /\ fate' = [fate EXCEPT ![p] = "forward"]
  /\ UNCHANGED <<input, arrived, flows, file>>

\* Write a packet that was let through, after those of its flow before it.
Emit(p) ==
  /\ fate[p] = "forward"
  /\ ~Written(p)
  /\ HasFlow(p) => \A q \in Earlier(p) : fate[q] = "forward" => Written(q)
  /\ file' = Append(file, p)
  /\ UNCHANGED <<input, arrived, flows, fate>>

Next ==
  \/ Arrive
  \/ \E p \in Packets : Decide(p) \/ PassThrough(p) \/ Emit(p)

Spec == Init /\ [][Next]_vars

-----------------------------------------------------------------------------
(* Properties *)

TypeOK ==
  /\ input \in Seq(PacketRecords)
  /\ arrived \in 0..Len(input)
  /\ flows \in [Tuples -> Flows]
  /\ fate \in [Packets -> {"none", "forward", "drop"}]
  /\ file \in Seq(Packets)

(***************************************************************************)
(* Once a packet of a flow has been dropped, no later packet of that flow  *)
(* is let through: flow.blocked is never forgotten, although the packets   *)
(* are judged one by one and most of them show no name.                    *)
(***************************************************************************)
StickyBlock ==
  \A p \in Packets : HasFlow(p) /\ fate[p] = "forward" =>
    \A q \in Earlier(p) : fate[q] = "forward"

\* The packet carries a name the classifier looks at.
ShowsName(p) ==
  /\ HasFlow(p)
  /\ input[p].name # NoName
  /\ \/ DstPort[input[p].tuple] = HTTPS_PORT /\ input[p].size >= TLS_MIN_PAYLOAD
     \/ DstPort[input[p].tuple] = HTTP_PORT /\ input[p].size > 0

\* A name that a domain rule or an application rule blocks.
BlockedName(name) ==
  \/ \E dom \in Rules.domains : dom \in Within[name]
  \/ SniToAppType(name) \in Rules.apps

(***************************************************************************)
(* A flow whose first name is blocked gets nothing through from the packet *)
(* that shows the name onwards, whatever the flow's packets showed before  *)
(* or show later (--block-domain and --block-app of both engines).         *)
(***************************************************************************)
BlockedNameStopsFlow ==
  \A p \in Packets : HasFlow(p) /\ fate[p] = "forward" =>
    \A q \in Earlier(p) \cup {p} :
      ~ /\ ShowsName(q)
        /\ BlockedName(input[q].name)
        /\ \A r \in Earlier(q) : ~ShowsName(r)

(***************************************************************************)
(* The output holds no packet twice, only packets that were let through,   *)
(* and the packets of each flow in the order in which they were captured.  *)
(***************************************************************************)
FileInFlowOrder ==
  /\ \A k \in DOMAIN file : fate[file[k]] = "forward"
  /\ \A k, l \in DOMAIN file : k < l =>
       /\ file[k] # file[l]
       /\ HasFlow(file[k]) /\ input[file[k]].tuple = input[file[l]].tuple
            => file[k] < file[l]

\* The flows after each of the first packets of a capture, if the packets are
\* judged one after the other.
FlowsOf(capture) ==
  LET after[n \in 0..Len(capture)] ==
        IF n = 0 THEN [t \in Tuples |-> NewFlow]
        ELSE LET pkt == capture[n]
             IN  IF pkt.parsed /\ pkt.tuple # NoTuple
                 THEN [after[n-1] EXCEPT ![pkt.tuple] = Inspect(pkt, @)]
                 ELSE after[n-1]
  IN  after

(***************************************************************************)
(* The verdict on a packet follows from the capture and the rules alone:   *)
(* it is the one that judging the whole capture one packet after the other *)
(* gives, whatever the order in which the flows' packets are decided.      *)
(***************************************************************************)
JudgedInTurn ==
  \A p \in Packets : HasFlow(p) /\ fate[p] # "none" =>
    (fate[p] = "drop" <=> FlowsOf(input)[p][input[p].tuple].blocked)

=============================================================================
