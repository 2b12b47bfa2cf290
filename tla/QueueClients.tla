---------------------------- MODULE QueueClients ----------------------------
(***************************************************************************)
(* TSQueue by itself (thread_safe_queue.py), between any number of threads *)
(* on either side.  Consumers are threads like LoadBalancer and FastPath:  *)
(* a loop around pop while a flag is set, then a loop around try_pop while *)
(* the queue is not empty.  stop() clears the flag and shuts the queue     *)
(* down; unlike in the engine, that may happen while producers push.       *)
(*                                                                         *)
(* A step is one critical section of the wrapped queue.Queue: taking the   *)
(* marker out and putting it back are two.                                 *)
(***************************************************************************)
EXTENDS TSQueue, FiniteSets

CONSTANTS
  NumProducers, NumConsumers,
  PerProducer,  \* how many items each producer pushes
  Capacity      \* maxsize of the queue

ASSUME ClientsAssumption ==
  /\ NumProducers \in Nat /\ NumConsumers \in Nat
  /\ PerProducer \in Nat /\ Capacity \in Nat \ {0}

VARIABLES
  q,        \* contents of the queue
  pushed,   \* [Producers -> Nat], how many items each has pushed
  cpc,      \* [Consumers -> what it does next]
  taken,    \* history: the items popped, in order
  running,  \* the flag that the consumers test
  closer,   \* who stops them: "open", "stopping" or "shut"
  early     \* history: were producers still at work when stop was called?

vars == <<q, pushed, cpc, taken, running, closer, early>>

Producers == 1..NumProducers
Consumers == 1..NumConsumers

\* The n-th item of producer p.
Item(p, n) == (p - 1) * PerProducer + n
AllItems == {Item(p, n) : p \in Producers, n \in 1..PerProducer}

AllPushed == \A p \in Producers : pushed[p] = PerProducer

Init ==
  /\ q = <<>>
  /\ pushed = [p \in Producers |-> 0]
  /\ cpc = [c \in Consumers |-> "check"]
  /\ taken = <<>>
  /\ running = TRUE
  /\ closer = "open"
  /\ early = FALSE

\* push waits while the queue is full; nothing else ever ends the wait.
Push(p) ==
  /\ pushed[p] < PerProducer
  /\ ~Full(q, Capacity)
  /\ q' = Append(q, Item(p, pushed[p] + 1))
  /\ pushed' = [pushed EXCEPT ![p] = @ + 1]
  /\ UNCHANGED <<cpc, taken, running, closer, early>>

Stop ==
  /\ closer = "open"
  /\ running' = FALSE
  /\ closer' = "stopping"
  /\ early' = ~AllPushed
  /\ UNCHANGED <<q, pushed, cpc, taken>>

\* Mutant: shutdown makes room for the marker if there is none.
ShutdownMutant ==
  /\ closer = "stopping"
  /\ q' = IF Full(q, Capacity) THEN Append(Tail(q), Sentinel) ELSE Append(q, Sentinel)
  /\ closer' = "shut"
  /\ UNCHANGED <<pushed, cpc, taken, running, early>>

Shutdown ==
  /\ closer = "stopping"
  /\ q' = PutNowait(q, Sentinel, Capacity)
  /\ closer' = "shut"
  /\ UNCHANGED <<pushed, cpc, taken, running, early>>

-----------------------------------------------------------------------------
(* Consumer c *)

Goto(c, there) == cpc' = [cpc EXCEPT ![c] = there]

Popping(c)  == cpc[c] \in {"pop", "tryPop"}
HoldsMarker(c) == cpc[c] \in {"putBack", "tryPutBack"}

\* Mutant: there is no drain loop.
CheckMutant(c) ==
  /\ cpc[c] = "check"
  /\ Goto(c, IF running THEN "pop" ELSE "done")
  /\ UNCHANGED <<q, pushed, taken, running, closer, early>>

\* while self._running
Check(c) ==
  /\ cpc[c] = "check"
  /\ Goto(c, IF running THEN "pop" ELSE "drain")
  /\ UNCHANGED <<q, pushed, taken, running, closer, early>>

\* pop and try_pop return an item, and the loop goes on.
TakeItem(c) ==
  /\ Popping(c)
  /\ HasItem(q)
  /\ q' = Tail(q)
  /\ taken' = Append(taken, Head(q))
  /\ Goto(c, IF cpc[c] = "pop" THEN "check" ELSE "drain")
  /\ UNCHANGED <<pushed, running, closer, early>>

\* Mutant: a consumer ends as soon as it gets None.
OnNoneMutant(c) == Goto(c, "done")

\* Mutant: the drain loop goes on after None.
OnNoneRetryMutant(c) ==
  Goto(c, IF cpc[c] \in {"pop", "putBack"} THEN "check" ELSE "drain")

\* Where a consumer goes when it gets None: only the drain loop breaks.
OnNone(c) == Goto(c, IF cpc[c] \in {"pop", "putBack"} THEN "check" ELSE "done")

\* The queue is empty: pop gives up after 0.1 s, try_pop at once.
TakeNothing(c) ==
  /\ Popping(c)
  /\ q = <<>>
  /\ OnNone(c)
  /\ UNCHANGED <<q, pushed, taken, running, closer, early>>

\* Mutant: the marker is left in the queue and put back all the same.
TakeMarkerMutant(c) ==
  /\ Popping(c)
  /\ q # <<>> /\ Head(q) = Sentinel
  /\ Goto(c, IF cpc[c] = "pop" THEN "putBack" ELSE "tryPutBack")
  /\ UNCHANGED <<q, pushed, taken, running, closer, early>>

TakeMarker(c) ==
  /\ Popping(c)
  /\ q # <<>> /\ Head(q) = Sentinel
  /\ q' = Tail(q)
  /\ Goto(c, IF cpc[c] = "pop" THEN "putBack" ELSE "tryPutBack")
  /\ UNCHANGED <<pushed, taken, running, closer, early>>

PutBack(c) ==
  /\ HoldsMarker(c)
  /\ q' = PutNowait(q, Sentinel, Capacity)
  /\ OnNone(c)
  /\ UNCHANGED <<pushed, taken, running, closer, early>>

\* while not self._queue.empty()
CheckEmpty(c) ==
  /\ cpc[c] = "drain"
  /\ Goto(c, IF q = <<>> THEN "done" ELSE "tryPop")
  /\ UNCHANGED <<q, pushed, taken, running, closer, early>>

Consume(c) ==
  \/ Check(c) \/ TakeItem(c) \/ TakeNothing(c) \/ TakeMarker(c)
  \/ PutBack(c) \/ CheckEmpty(c)

-----------------------------------------------------------------------------

Next ==
  \/ \E p \in Producers : Push(p)
  \/ \E c \in Consumers : Consume(c)
  \/ Stop \/ Shutdown

\* Threads run when they can; whether and when somebody calls stop is open,
\* but a call once begun ends.
Spec ==
  /\ Init /\ [][Next]_vars
  /\ \A p \in Producers : WF_vars(Push(p))
  /\ \A c \in Consumers : WF_vars(Consume(c))
  /\ WF_vars(Shutdown)

-----------------------------------------------------------------------------
(* Properties *)

TypeOK ==
  /\ q \in BoundedQueues(AllItems, Capacity)
  /\ pushed \in [Producers -> 0..PerProducer]
  /\ cpc \in [Consumers ->
       {"check", "pop", "putBack", "drain", "tryPop", "tryPutBack", "done"}]
  /\ taken \in Seq(AllItems)
  /\ running \in BOOLEAN
  /\ closer \in {"open", "stopping", "shut"}
  /\ early \in BOOLEAN

\* What users see of a queue: its items in order, without the marker.
Visible(s) ==
  LET m == CHOOSE k \in DOMAIN s : s[k] = Sentinel
  IN  IF \E k \in DOMAIN s : s[k] = Sentinel
      THEN [i \in 1..(Len(s) - 1) |-> IF i < m THEN s[i] ELSE s[i + 1]]
      ELSE s

(***************************************************************************)
(* To its users the queue is a bounded FIFO, whatever the marker does in   *)
(* it: no item is lost, doubled or overtaken because several consumers     *)
(* take the marker out and put it back, or because there is no room for    *)
(* it.                                                                     *)
(***************************************************************************)
Fifo == INSTANCE BoundedFifo WITH
  Elements <- AllItems,
  Size     <- Capacity,
  buffer   <- Visible(q),
  out      <- taken

ImplementsFifo == Fifo!FifoSpec

(***************************************************************************)
(* There is never more than one marker, in the queue or in the hands of a  *)
(* consumer about to put it back, and none before the shutdown.            *)
(***************************************************************************)
Markers ==
  {<<"queue", k>> : k \in {k \in DOMAIN q : q[k] = Sentinel}}
    \cup {<<"consumer", c>> : c \in {c \in Consumers : HoldsMarker(c)}}

AtMostOneMarker ==
  /\ \A m, n \in Markers : m = n
  /\ Markers # {} => closer = "shut"

(***************************************************************************)
(* If the producers were through when stop was called, the                 *)
(* consumers drain it together: when all have ended, no item is left, be   *)
(* it because one of them broke off at a marker that another had just put  *)
(* back, or at a queue that was empty for a moment.                        *)
(***************************************************************************)
DrainedTogether ==
  closer = "shut" /\ ~early /\ (\A c \in Consumers : cpc[c] = "done")
    => \A k \in DOMAIN q : q[k] = Sentinel

(***************************************************************************)
(* Once the flag is cleared every consumer ends, although each marker that *)
(* is taken out may be put back, and although producers may still push.    *)
(***************************************************************************)
ConsumersEnd == ~running ~> \A c \in Consumers : cpc[c] = "done"

(***************************************************************************)
(* As long as nobody calls stop, everything is pushed and comes out: no    *)
(* producer waits for ever in front of a full queue.                       *)
(***************************************************************************)
EverythingComesOut == <>(closer # "open" \/ Len(taken) = Cardinality(AllItems))

=============================================================================
