---------------------------- MODULE SimpleEngine ----------------------------
(***************************************************************************)
(* The single-threaded engine (main_simple.py): read a record, look up its *)
(* flow, classify and judge it, write it or drop it, and go on until the   *)
(* capture ends.  main_simple.py repeats the classifier of fast_path.py,   *)
(* and so does this module: that the copies agree is part of what the      *)
(* refinement of PacketFilter shows.                                       *)
(***************************************************************************)
EXTENDS FastPath, FiniteSets

VARIABLES
  input,     \* the capture
  truncated, \* does the capture end inside a record?
  pc,        \* "read", "inspect", "write", "report", "raised" or "done"
  next,      \* position of the next record to read
  flows,     \* the dictionary flows
  file,      \* the packets written, as positions in the input
  closed,    \* has the output file been closed?
  total, forwarded, dropped,  \* the counters of the report
  fate       \* history: what was decided for each packet

vars == <<input, truncated, pc, next, flows, file, closed,
          total, forwarded, dropped, fate>>

Packets == 1..Len(input)

\* The packet that is being processed after the "read" step.
Current == next - 1

Init ==
  /\ input \in Inputs
  /\ truncated \in BOOLEAN
  /\ pc = "read"
  /\ next = 1
  /\ flows = [t \in Tuples |-> NewFlow]
  /\ file = <<>>
  /\ closed = FALSE
  /\ total = 0 /\ forwarded = 0 /\ dropped = 0
  /\ fate = [p \in Packets |-> "none"]

\* Read and parse a record, and sort it by what the parser makes of it.
Read ==
  /\ pc = "read"
  /\ next <= Len(input)
  /\ next' = next + 1
  /\ total' = total + (IF input[next].parsed THEN 1 ELSE 0)
  /\ pc' = IF ~input[next].parsed THEN "read" ELSE "inspect"
  /\ UNCHANGED <<input, truncated, flows, file, closed, forwarded, dropped, fate>>

\* Mutant: the bound on the payload has drifted from that of fast_path.py.
ClassifySimpleMutant(pkt, flow) ==
  LET port  == DstPort[pkt.tuple]
      named == [flow EXCEPT !.sni = pkt.name, !.app = SniToAppType(pkt.name)]
      tls   == port = HTTPS_PORT /\ pkt.size > 6
      http  == port = HTTP_PORT /\ pkt.size # 0
  IN  CASE tls /\ flow.sni = NoName /\ pkt.name # NoName -> named
        [] http /\ flow.host = NoName /\ pkt.name # NoName ->
             [named EXCEPT !.host = pkt.name]
        [] OTHER ->
             IF flow.app = "UNKNOWN" /\ (tls \/ http \/ port = DNS_PORT)
             THEN [flow EXCEPT !.app = IF tls THEN "HTTPS"
                                       ELSE IF http THEN "HTTP" ELSE "DNS"]
             ELSE flow

\* _classify of main_simple.py.
ClassifySimple(pkt, flow) ==
  LET port  == DstPort[pkt.tuple]
      named == [flow EXCEPT !.sni = pkt.name, !.app = SniToAppType(pkt.name)]
      tls   == port = HTTPS_PORT /\ pkt.size >= 6
      http  == port = HTTP_PORT /\ pkt.size # 0
  IN  CASE tls /\ flow.sni = NoName /\ pkt.name # NoName -> named
        [] http /\ flow.host = NoName /\ pkt.name # NoName ->
             [named EXCEPT !.host = pkt.name]
        [] OTHER ->
             IF flow.app = "UNKNOWN" /\ (tls \/ http \/ port = DNS_PORT)
             THEN [flow EXCEPT !.app = IF tls THEN "HTTPS"
                                       ELSE IF http THEN "HTTP" ELSE "DNS"]
             ELSE flow

\* Look up the flow, count, classify, and apply the rules.
InspectFlow ==
  /\ pc = "inspect"
  /\ input[Current].tuple # NoTuple
  /\ LET pkt     == input[Current]
         counted == [flows[pkt.tuple] EXCEPT !.packets = @ + 1]
         flow    == IF counted.blocked THEN counted ELSE ClassifySimple(pkt, counted)
         drop    == flow.blocked
                      \/ IsBlocked(SrcIp[pkt.tuple], flow.app, flow.sni)
     IN  /\ flows' = [flows EXCEPT ![pkt.tuple] = [flow EXCEPT !.blocked = drop]]
         /\ dropped' = dropped + (IF drop THEN 1 ELSE 0)
         /\ fate' = [fate EXCEPT ![Current] = IF drop THEN "drop" ELSE "forward"]
         /\ pc' = IF drop THEN "read" ELSE "write"
  /\ UNCHANGED <<input, truncated, next, file, closed, total, forwarded>>

\* A packet that is neither TCP nor UDP is forwarded unseen.
InspectNoFlow ==
  /\ pc = "inspect"
  /\ input[Current].tuple = NoTuple
  /\ fate' = [fate EXCEPT ![Current] = "forward"]
  /\ pc' = "write"
  /\ UNCHANGED <<input, truncated, next, flows, file, closed,
                 total, forwarded, dropped>>

\* Mutant: the record after the current one is written.
WriteMutant ==
  /\ pc = "write"
  /\ file' = Append(file, next)
  /\ forwarded' = forwarded + 1
  /\ pc' = "read"
  /\ UNCHANGED <<input, truncated, next, flows, closed, total, dropped, fate>>

Write ==
  /\ pc = "write"
  /\ file' = Append(file, Current)
  /\ forwarded' = forwarded + 1
  /\ pc' = "read"
  /\ UNCHANGED <<input, truncated, next, flows, closed, total, dropped, fate>>

\* Mutant: the output file is closed on the normal path only.
EndOfCaptureMutant ==
  /\ pc = "read"
  /\ next > Len(input)
  /\ closed' = ~truncated
  /\ pc' = IF truncated THEN "raised" ELSE "report"
  /\ UNCHANGED <<input, truncated, next, flows, file,
                 total, forwarded, dropped, fate>>

\* Mutant: a truncated record is retried.
EndOfCaptureRetryMutant ==
  /\ pc = "read"
  /\ next > Len(input)
  /\ closed' = TRUE
  /\ pc' = IF truncated THEN "read" ELSE "report"
  /\ UNCHANGED <<input, truncated, next, flows, file,
                 total, forwarded, dropped, fate>>

\* The end of the capture leaves the "with" block, which closes both files:
\* on a clean end before the report, on a truncated record before the
\* ValueError reaches the caller.
EndOfCapture ==
  /\ pc = "read"
  /\ next > Len(input)
  /\ closed' = TRUE
  /\ pc' = IF truncated THEN "raised" ELSE "report"
  /\ UNCHANGED <<input, truncated, next, flows, file,
                 total, forwarded, dropped, fate>>

Report ==
  /\ pc = "report"
  /\ pc' = "done"
  /\ UNCHANGED <<input, truncated, next, flows, file, closed,
                 total, forwarded, dropped, fate>>

Terminated ==
  /\ pc \in {"raised", "done"}
  /\ UNCHANGED vars

Next ==
  \/ Read \/ InspectFlow \/ InspectNoFlow \/ Write \/ EndOfCapture \/ Report
  \/ Terminated

Spec == Init /\ [][Next]_vars /\ WF_vars(Next)

-----------------------------------------------------------------------------
(* Properties *)

TypeOK ==
  /\ input \in Inputs
  /\ truncated \in BOOLEAN
  /\ pc \in {"read", "inspect", "write", "report", "raised", "done"}
  /\ next \in 1..(Len(input) + 1)
  /\ flows \in [Tuples -> Flows]
  /\ file \in Seq(Packets)
  /\ closed \in BOOLEAN
  /\ total \in Nat /\ forwarded \in Nat /\ dropped \in Nat
  /\ fate \in [Packets -> {"none", "forward", "drop"}]

(***************************************************************************)
(* The single-threaded engine is a packet filter, with the classifier and  *)
(* the flow handling of fast_path.py.                                      *)
(***************************************************************************)
Filter == INSTANCE PacketFilter WITH arrived <- next - 1

ImplementsFilter == Filter!Spec

\* The engine's own classifier gives every packet the verdict that
\* fast_path.py would give it (see PacketFilter).
JudgedInTurn == Filter!JudgedInTurn

(***************************************************************************)
(* When the engine ends, cleanly or on a truncated capture, every packet   *)
(* it parsed is settled: the output is closed and holds, in capture order, *)
(* exactly the packets that were let through, the dropped ones are         *)
(* counted, and the report adds up.                                        *)
(***************************************************************************)
EverythingSettled ==
  pc \in {"report", "raised", "done"} =>
    /\ closed
    /\ total = forwarded + dropped
    /\ forwarded = Len(file)
    /\ dropped = Cardinality({p \in Packets : fate[p] = "drop"})
    /\ \A k, l \in DOMAIN file : k < l => file[k] < file[l]
    /\ \A p \in Packets : fate[p] = "forward" => \E k \in DOMAIN file : file[k] = p
    /\ \A p \in Packets : input[p].parsed => fate[p] # "none"

\* The engine comes to an end: with a report unless the capture is truncated.
Ends == <>(IF truncated THEN pc = "raised" ELSE pc = "done")

=============================================================================
