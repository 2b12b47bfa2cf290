# A TLA+ verification of the dnipy packet inspection engine

`dnipy` reads a capture file, follows the flows in it, looks for the host name a
flow talks to (the SNI of a TLS Client Hello, the Host header of an HTTP
request), and writes a second capture without the packets of blocked flows. It
has two engines: `main_simple.py` does everything in one thread;
`dpi_engine.py` is a pipeline of threads connected by bounded queues.

This directory holds TLA+ models of both engines, of the queue by itself, and of
the way from the bytes of a capture file to the verdict on a packet: records,
headers, host names, rules. TLC checks them on small instances, and TLAPS proofs
show what matters most for every instance.
To repeat a run: `tlc -config MCDPIEngine_stages.cfg MCDPIEngine`; to check a
proof: `tlapm DPIEngineProofs.tla`.

## 1. Inventory of the system

| Component | State | Operations | Hard to get right | What makes it correct |
|---|---|---|---|---|
| Main thread, `DPIEngine` (`dpi_engine.py`) | position in the capture, packet counters, lists of threads | `run`: `_start_workers`, `_reader_thread`, `_drain_and_stop`, `_print_report` | stopping three stages in order; joins without a limit; a wait of ten seconds; a `ValueError` in the middle | `DrainedInOrder`, `ReportIsSound`, `HangsOnlyBehindWriter` |
| Output writer (`dpi_engine.py`) | packet in hand, output file, `_forwarded`, `_writer_done` | `_output_writer` | decides to end on two separate observations of the queue | `Conservation`, `ForwardedIsWritten`, `WriterStopsAfterShutdown` (the last two do not hold) |
| Load balancers (`load_balancer.py`) | input queue, `_running`, packet in hand, `dispatched` | `start`, `stop`, `join`, `_run` (loop and drain loop), `_select_fp` | a flag read before a blocking call; blocking on the next stage | `Conservation`, `StatisticsFollowHash`, `SpreadsOverPool` (does not hold) |
| Fast paths (`fast_path.py`) | input queue, `_running`, packet in hand, flow table, three counters | `start`, `stop`, `join`, `_run` (loop and drain loop), `_classify`, `_forward` | the same, and verdicts that depend on the order of a flow's packets | `JudgedInTurn`, `ImplementsFilter`, `FileInFlowOrder`, `StatisticsFollowHash` |
| `TSQueue` (`thread_safe_queue.py`) | contents, `_shutdown` | `push`, `pop`, `try_pop`, `shutdown`, `size`, `empty` | a shutdown marker that travels through the queue, is put back, and is lost when the queue is full | `ImplementsFifo`, `AtMostOneMarker`, `DrainedTogether`, `ConsumersEnd`, `EverythingComesOut` |
| Rules (`rule_manager.py`) | three sets under a lock | `add_blocked_*`, `is_blocked` | addresses as numbers, upper and lower case, empty strings | `VerdictFollowsRules`, `BlockedNameStopsFlow`, `StickyBlock`, `BlocksAllTraffic` (does not hold) |
| Flow table (`connection_tracker.py`) | dictionary from five-tuples to flows | `get_or_create`, `get`, `remove`, ... | one table per fast path, not one for all | `ImplementsFilter` |
| Shared types (`dpi_types.py`) | none | `sni_to_app_type`, `FiveTuple`, `Flow`, `Packet` | order of the keyword table | `SniToAppTypeType`, `ImplementsFilter` |
| Single-threaded engine (`main_simple.py`) | flow table, counters, both files | `run`, `_classify` | a second copy of the classifier; a truncated capture | `EverythingSettled`, `JudgedInTurn`, `ImplementsFilter`, `Ends` |
| Packet parser (`packet_parser.py`) | none | `parse`, `make_five_tuple` | headers of variable length in a frame that may be cut anywhere | `NoReadPastFrame`, `ParsesWhatIsThere` |
| Name extraction (`sni_extractor.py`) | the offset into the payload, two end marks | `SNIExtractor.extract`, `_parse_sni_extension`, `HTTPHostExtractor.extract` | nested lengths that disagree; messages that end anywhere | `FindsName`, `CutHelloShowsNothing`, `NeverPartOfName`, `CutRequestShowsPart`, `NoReadPastEnd`, `Returns` |
| Capture files (`pcap_reader.py`) | file position, byte order | `open`, iteration, `write_packet`, `close` | truncation at any byte, byte order, wrong lengths | `ReadsWholeRecords`, `WritesWhatItCanRead` |
| Report, command line, `CMakeLists.txt` | - | - | - | not modelled, but for the counters and the rules |
| Sample generator (`generate_test_pcap.py`) | - | functions that build frames | - | its builders, generalised, make the input of the models |

How they interact. The reader (main thread) chooses a load balancer with
`hash(tuple) % num_lbs` and pushes the packet to its queue. The load balancer
chooses a fast path of its own slice of the pool with `hash(tuple) % num_fps`
and pushes the packet to that queue. The fast path updates the flow in its
private table, asks the shared rules, and pushes what passes to the one output
queue, from which the writer writes. All queues are bounded and `push` waits
without limit, so pressure travels back to the reader. `stop()` of a thread
clears its flag and puts a marker into its queue *if there is room*. All
threads are daemons: when main returns or raises they are cut off where they
stand.

The list of hazards, each with its line and its properties, is under
`hazards` in `PROJECT.json`.

## 2. Modules

```
DpiTypes <- RuleManager <- FastPath <-+-- PacketFilter    (what a filter promises)
                                      +-- SimpleEngine    (main_simple.py)
TSQueue <- OutputWriter --+           |
                          +-- FastPathThread <- LoadBalancer <- DPIEngine
                  FastPath+
MCTraffic: the packets of these runs   MCPacketFilter, MCSimpleEngine, MCDPIEngine

SNIExtractor <- ClientHello --+
             HTTPHostExtractor+-- Frames --+
                            PacketParser --+-- Dissection <- MCDissection
                               RuleTable --+      (uses FastPath by INSTANCE)

TSQueue <- QueueClients <- MCQueueClients     implements BoundedFifo
CaptureFile <- MCCaptureFile

Proofs: FastPathProofs <- DPIEngineProofs, PacketFilterProofs, SimpleEngineProofs
        SequenceProofs <- DPIEngineProofs, PacketFilterProofs, QueueClientsProofs,
                          CaptureFileProofs, DissectionProofs
        PacketFilterProofs <- DPIEngineProofs, SimpleEngineProofs (by INSTANCE)
```

| Module | Models | State and actions |
|---|---|---|
| `DpiTypes` | `dpi_types.py` | applications, the keyword table, packet and flow records; no state |
| `RuleManager` | `rule_manager.py`, `is_blocked` | to the engines the rules are a constant, as the command line sets them before `run()` |
| `FastPath` | `_classify` and the per-packet body of `FastPath._run` | `Classify`, `Inspect`: pure functions from packet and flow to the new flow |
| `PacketFilter` | the abstract specification | `Arrive`, `Decide`, `PassThrough`, `Emit` |
| `SimpleEngine` | `main_simple.py` | `Read`, `InspectFlow`, `InspectNoFlow`, `Write`, `EndOfCapture`, `Report` |
| `TSQueue` | `thread_safe_queue.py` | operators on sequences; the queues are variables of their users |
| `OutputWriter` | `_output_writer` | `WriterPop`, `WriterPopNone`, `WriterDecide`, `WriterWrite` |
| `FastPathThread` | `FastPath._run`, `_forward` | `FPCheck`, `FPInspect`, `FPPassThrough`, `FPPopNone`, `FPForward`, `FPDrainItem`, `FPDrainEnd` |
| `LoadBalancer` | `LoadBalancer._run`, `_select_fp` | `LBCheck`, `LBPop`, `LBPopNone`, `LBPush`, `LBDrainItem`, `LBDrainEnd` |
| `DPIEngine` | `run` and the composition | `ReaderSkip`, `ReaderDispatch`, `ReaderEnd`, `StopLB`, `ShutLB`, `JoinLBs`, `StopFP`, `ShutFP`, `JoinFPs`, `ShutOutput`, `AwaitWriter`, `AwaitTimeout`, `PrintReport`, `Exit` |
| `BoundedFifo` | what users of a queue rely on | `Put`, `Get` |
| `QueueClients` | `TSQueue` between any number of producers and consumers; the consumers loop as `LoadBalancer._run` and `FastPath._run` do | `Push`, `Stop`, `Shutdown`, and of a consumer `Check`, `TakeItem`, `TakeNothing`, `TakeMarker`, `PutBack`, `CheckEmpty` |
| `PacketParser` | `packet_parser.py` | `Ethernet`, `IPv4`, `Transport` (with `Tcp` and `Udp`): the disjuncts of `Parse` |
| `SNIExtractor` | `SNIExtractor.extract`, `_parse_sni_extension` | one action per header or field: `RecordHeader`, `HandshakeHeader`, `VersionAndRandom`, `SessionId`, `CipherSuites`, `CompressionMethods`, `ExtensionsLength`; per round or end of a loop: `OtherExtension`, `SniExtension`, `NoMoreExtensions`, `ListLength`, `OtherEntry`, `HostName`, `NoMoreEntries` |
| `HTTPHostExtractor` | `HTTPHostExtractor.extract` | `HttpHost`: a pure function from the payload to the name |
| `RuleTable` | the operations of `rule_manager.py` that add rules, and how the command line calls them | `AddBlockedApp`, `AddBlockedIp`, `AddBlockedDomain`, `StrToIp` |
| `ClientHello`, `Frames` | messages and frames after the builders of `generate_test_pcap.py`, with parts of any length, one fault each, and an end at any byte | no state: what they encode, and what should be found in it |
| `Dissection` | a frame's way from bytes to verdict | `Configure`, `ParseFrame`, `NotParsed`, `NoPorts`, `TryTls`, `TryHttp`, `TryNothing`, `Extract` (a step of the extractor), `Extracted`, `Judge` |
| `CaptureFile` | `pcap_reader.py`, run twice: the second time on what the first has written | `OpenInput`, `CreateOutput`, `ReadHeader`, `ReadData`, `WritePacket`, `SkipPacket`, `Again` |

Definitions whose name ends in `Mutant` are plausible mistakes in the
definition that follows them. They are not part of any specification; replacing
the definition by its mutant must break the property `PROJECT.json` names.

### Data

Strings and bytes are reduced to what the engines tell apart. A packet is a
record of what the parser and the extractors report about it: does it parse, its
five-tuple or `None`, the length of its payload, the name in the payload. A host
name comes with the set of substrings that the code searches for in its
lower-case form (`Within`), the empty string among them. Packets are referred to
by their position in the capture, so that "lost", "twice" and "overtaken" can be
said. `hash()` is an arbitrary signed number per five-tuple, `id()` an arbitrary
number per packet. A flow table is a total function: a key that is absent from
the dictionary is mapped to the fresh flow `NewFlow` that `get_or_create` would
make. Byte counts and time stamps are only printed and are left out.

`fate` is a history variable: what was decided for each packet. No action of the
models reads it, except in `PacketFilter`, where it is the state.

Where the bytes are the point - `PacketParser`, `SNIExtractor`,
`HTTPHostExtractor`, `CaptureFile` - a frame, a payload or a file is a sequence of
them, read at the same offsets as in the code. `Frames` and `ClientHello` build
it from parts, so that what should be found in it is known without reading it.
Two shortcuts: the name of an HTTP method and the bytes of `host: ` are one symbol each, since the
code only ever looks for them as a whole. `Dissection` ends with the packet
record that the engines' models start from (`Packet`) and judges it with their
classifier and rules (`Engine == INSTANCE FastPath`), so that the two halves meet
in one definition of a packet.

An address is four octets in the frame and a set of bits as a number: `_str_to_ip`
joins its four parts with `|` and does not limit them to 255. Parts of an argument
have up to 16 bits, and what is beyond eight sets bits of the part before
(`NamesAddress`); beyond the first part it makes an address that no frame has. The words of
a capture file have 32 bits.

What may be encoded is stated as assumptions on the constants: `IsFrame`,
`IsHello`, `IsRequest` and `IsArguments` (`CasesAssumption`) and `IsCapture`
(`CapturesAssumption`) say that numbers fit into their fields, or which one does
not. TLC evaluates them for its instances; the proofs use nothing else about them.

### What is one step

In the threaded model a step is one access to something threads share - a queue
operation, a test or a change of a `_running` flag, the end of a thread - with
the private work that goes with it. Three merges of the engine's model need an argument:

* *Popping and private work.* A fast path's classification, verdict and
  statistics follow the pop in the same step. Nobody else reads them before the
  thread has been joined, and `fp.stats.dropped` is read after the join.
* *Taking the marker out and putting it back* (`pop`, `try_pop`). In between,
  another thread could use the queue. A queue has one consumer, and it is shut
  down only when its producers are through: the reader before the load
  balancers' queues, the joined load balancers before the fast paths', the
  joined fast paths before the output queue. `DrainedInOrder` checks and proves
  this order.
* *`empty()` and the `try_pop` after it* in the drain loops. Only the consumer
  itself takes from the queue, and producers are through.

`QueueClients` makes none of the last two merges. There several consumers share a
queue, producers may still push while it is shut down, and each critical section
of the wrapped `queue.Queue` is a step: taking the marker out, putting it back,
asking `empty()`.

The *writer's* `pop` and its `empty()` are **two** steps: fast paths push in
between, and that is where its mistake is. `pop` returns `None` after 0.1 s on an
empty queue, at any moment from the point of view of other threads; the model
lets it happen whenever the queue is empty. The write and the increment of
`_forwarded` are one step, because only the report, once, reads the counter;
`ReportIsSound` therefore says no more than `<=` about it. `stop()` is two steps,
flag and marker. The initial state is that after `_start_workers`; starting
threads earlier or later is a matter of speed, which the model leaves open.

`sleep(0.2)` in `_drain_and_stop` is no synchronisation and takes no step. A
capture that ends in the middle of a record (`truncated`) raises `ValueError`,
which nobody catches: `aborted`. What is buffered in the output file when a
daemon thread is cut off is outside the model: `file` holds what
`write_packet` was called with.

## 3. Runs

Traffic of the engines (`MCTraffic`): two HTTPS flows, an HTTP flow, a DNS flow from a blocked
address, packets without a flow, and records that do not parse. The rules block
an address, an application (YouTube) and a domain substring. One name matches
two keywords of different applications, two are blocked by the domain rule only
(one of a known application, one of none), one is not blocked. Payload lengths are 0, 6 (the bound `TLS_MIN_PAYLOAD`) and 7.
Hash values are positive and negative, one per residue modulo 4.

### Passing

| Run | Question | Instance |
|---|---|---|
| `packet_filter` | Does a blocked flow stay blocked (`StickyBlock`), does a blocked name stop its flow from the packet that shows it (`BlockedNameStopsFlow`), is every verdict the one that judging packet after packet gives (`JudgedInTurn`), in whatever order packets are decided and written? | every capture of up to 3 packets of 13 kinds |
| `simple_engine` | Does the single-threaded engine implement the packet filter with *the other file's* classifier (`ImplementsFilter`) and give its verdicts (`JudgedInTurn`), end (`Ends`), and settle every packet with its file closed, even on a truncated capture (`EverythingSettled`)? | every capture of up to 3 packets, truncated or not |
| `engine_stages` | Is a packet always in exactly one place (`Conservation`), do threads end in order with drained queues (`DrainedInOrder`), are the report and the per-thread statistics final (`ReportIsSound`, `StatisticsFollowHash`)? Do the private flow tables behind two hashings amount to one flow table, and do verdicts (`JudgedInTurn`) and the order of the output (`ImplementsFilter`, `FileInFlowOrder`) not depend on the schedule? | 2 load balancers with 2 fast paths each, all queues of one place, captures of up to 3 |
| `engine_hang` | Is standing before a full output queue whose writer has ended the *only* way not to end (`HangsOnlyBehindWriter`)? | 2 load balancers with 1 fast path each, captures of 2, output queue of 1 |
| `queue_clients` | Is `TSQueue` a bounded FIFO to its users whatever the marker does (`ImplementsFifo`), is there never a second marker (`AtMostOneMarker`), do several consumers leave nothing behind (`DrainedTogether`), do they all end (`ConsumersEnd`), and does a queue that nobody stops let everything through (`EverythingComesOut`)? | 2 producers of 2 items, 3 consumers, 2 places, stopped at any moment or never |
| `frames` | Is anything read that is not there (`NoReadPastFrame`, `NoReadPastEnd`), does the parser find what the headers say and nothing else (`ParsesWhatIsThere`), is the host name found in a correct Client Hello and in a plain request (`FindsName`), nothing in a record whose end is missing (`CutHelloShowsNothing`), never a part of a TLS name (`NeverPartOfName`), of a cut HTTP host just what has arrived (`CutRequestShowsPart`), is the verdict what the arguments on the command line say (`VerdictFollowsRules`), and does every frame get one (`Returns`)? | frames with Client Hello messages, requests or plain bytes; see Bounds |
| `capture_files` | Are exactly the records read that are there as a whole (`ReadsWholeRecords`), and can the program read what it has written, unchanged (`WritesWhatItCanRead`)? | captures of up to 2 records with five magic numbers, lengths that are right or too large, ending at any byte |

### Violations: where documentation and code disagree

| Run | Claim | What the code does |
|---|---|---|
| `writer_stops` | "shutdown() - unblock all waiting threads so they can exit" (`thread_safe_queue.py:31`) | `pop` puts the marker back, so the writer never sees its queue empty and circles for ever; main leaves after its ten seconds |
| `written` | "while (running_ \|\| output_queue.size() > 0)" (`dpi_engine.py:245`) | an idle 0.1 s ends the writer while the engine runs; packets forwarded later are never written |
| `completes` | "Stop all threads in the correct order and wait for completion" (`dpi_engine.py:171`) | once the writer has ended early and the output queue is full, a fast path waits for ever and main waits for the fast path |
| `spread` | "Distribute packets across a pool of Fast Path threads" (`load_balancer.py:47`) | the same hash is reduced twice; with 2 x 2, fast paths 1 and 2 never see a flow |
| `silent` | "Block all traffic from the given source IP" (`rule_manager.py:41`) | a packet without ports, a ping for example, is forwarded before any rule is asked |

Smaller disagreements have no run of their own; the models follow the code.

* `fast_path.py:12` says a packet is forwarded "or increments the drop counter".
  Packets that a stopped fast path takes out in its drain loop do neither;
  `StatisticsFollowHash` and `Conservation` count them as drained.
* `fast_path.py:212` says of a flow to port 443 without a name "(e.g. SYN packet) ->
  mark as HTTPS". A payload shorter than 6 bytes falls through `Classify` and
  leaves the flow UNKNOWN - unless the frame was filled up to the least size of an
  Ethernet frame, since the payload is taken to run to the end of the frame.
* `sni_extractor.py:88` promises None for a malformed SNI extension. A name is
  tested only against the end of the payload, not against its list or extension,
  and one whose length is too large takes in what follows.
* `sni_extractor.py:209` and `:225` promise the value of the Host header. The code
  searches for `host: ` anywhere in the request: it misses a Host header without the
  space, and takes the value of a header before it whose name ends so
  (X-Forwarded-Host). `FindsName` and `CutRequestShowsPart` therefore leave such
  requests out (`Plain`), and no property says what is shown of them.
* A host that is cut off at the end of a packet is taken as it is; `CutRequestShowsPart`
  says how much of it.
* `10.0.0.265` is accepted as an address and blocks 10.0.1.9.
* The nanosecond magic is accepted in one byte order only, and the output then
  carries nanoseconds under the magic of microseconds.
* `pop` returns None after 0.1 s on an empty queue, not only after a shutdown, and
  a shutdown does not wake a thread that waits in `push`.

### Bounds, and why they suffice

*Engines.* Queues of one place make every queue full and empty in every run: each `push` can
block, each `shutdown` can find its queue full and lose the marker, and each
thread can find it there or not. Three packets make a flow with a first, a
deciding and a later packet, or two packets of a flow with one of another flow
between them. Two load balancers with two fast paths each is the smallest pool
in which both hashings matter. Liveness is checked with two packets, enough to
fill a queue of one place and to block on it. No state constraint is used;
counters are bounded by the length of the capture.

*Queue.* With three consumers, one can hold the marker while a second finds the
queue empty and a third takes an item; with two producers of two items and two
places, producers block, and a producer can take the place of the marker before
it is put back.

*Frames.* IP headers have 4 (too few), 5, 6 or 15 words, TCP headers 0 (too few), 5 or 8; the
protocol is TCP, UDP or another; frames end at each of their last 80 bytes, so
that each test of a length fails. Messages of two extensions, the server name
extension first or second, absent or twice, make the extractor go around its
outer loop, and lists of two names around its inner one. Session identifiers are
0 or 2 bytes long and cipher suites 2 or 4, which is enough to miss the
extensions if a length is misread. Messages stop early at 46 places, and each of
their lengths is too large once. Requests have a decoy header or not, a space or not,
and a host followed by each thing that can follow it; what is said of the name in a request
is said of those without a decoy and with a space (`Plain`), as `generate_test_pcap.py`
builds them; the others are there for the remaining properties. Requests are cut off at each of their last 6 symbols. Names have up to four letters in
either case, and one byte that is no ASCII. Each frame is the first of its flow;
what later packets of a flow do is the engines' matter.

*Capture files.* Two records, one of them empty, make the reader stop before,
inside and between records; the longest file has 60
bytes, and each may end after any of its bytes, or hold none.

Deadlock is checked, except where the system may really stop: `packet_filter`
(a filter that has written everything has nothing to do) and
the runs of the engine with a small output queue, whose hang is the finding
`completes`; `engine_hang` says exactly which hang that is; and `queue_clients`,
where all producers and consumers come to an end, or producers wait in `push`
after the last consumer has ended.

### Fairness

`Spec` of `DPIEngine` is weakly fair to each thread: the operating system runs
every thread that can run, a `push` that finds room goes through (each queue
of the pipeline before the output queue has one producer, and at the output
queue only an end or a standstill of the writer could keep one out), and a
wait with a time-out ends. There is no fairness between the outcomes of
a step. `PatientSpec` drops the time-out of main's last wait, in order to see
what the writer does when nobody cuts it off. `SimpleEngine` is weakly fair to
its only thread, and so is `Dissection`. `QueueClients` is weakly fair to each
producer, each consumer and a call of shutdown once begun, but not to `Stop`: nobody need
ever stop the queue. `PacketFilter`, `BoundedFifo` and `CaptureFile` have no
fairness: they say what may happen, not what must.

## 4. Proofs

| Theorem | Says | Rests on |
|---|---|---|
| `DPIEngineProofs!TypeCorrect` | `Spec => []TypeOK`: types, and no queue above its capacity, marker included | `TypeInv` |
| `DPIEngineProofs!ShutdownInOrder` | `Spec => []DrainedInOrder`: the stages end in order, each with nothing left | `OrderInv` |
| `DPIEngineProofs!NothingLost` | `Spec => []Conservation`: a packet handed on is in exactly one place | `TravelInv` |
| `DPIEngineProofs!CountersAreHashes` | `Spec => []StatisticsFollowHash` | `TravelInv` |
| `DPIEngineProofs!ReportHolds` | `Spec => []ReportIsSound` | `TravelInv`, and that nobody counts after the report |
| `DPIEngineProofs!OutputInFlowOrder` | `Spec => []FileInFlowOrder` | `TravelInv` |
| `DPIEngineProofs!EngineIsFilter` | `Spec => ImplementsFilter`: threads and private flow tables do not show | `TravelInv` |
| `DPIEngineProofs!VerdictsFollowCapture` | `Spec => []JudgedInTurn`: no verdict depends on the schedule, on the number of threads or on the queues | `EngineIsFilter` and the filter's theorem |
| `DPIEngineProofs!BlocksAreSticky`, `BlockedNamesStop` | `Spec => []Filter!StickyBlock`, `Spec => []Filter!BlockedNameStopsFlow` | the same |
| `PacketFilterProofs!TypeCorrect` | `Spec => []TypeOK` | `TypeOK` is inductive |
| `PacketFilterProofs!BlocksAreSticky` | `Spec => []StickyBlock` | packets are decided in flow order, and a flow with a dropped packet is blocked |
| `PacketFilterProofs!BlockedNamesStop` | `Spec => []BlockedNameStopsFlow` | a flow that has shown no name carries none, so that the first one is taken |
| `PacketFilterProofs!VerdictsFollowCapture` | `Spec => []JudgedInTurn`: the verdicts follow from the capture and the rules | `TurnInv`: a flow has been through what comes before its next packet |
| `FastPathProofs!SniToAppTypeType` | `sni_to_app_type` returns an application for every name | the least hit of the keyword table exists |
| `SimpleEngineProofs!TypeCorrect` | `Spec => []TypeOK` | `Inv` |
| `SimpleEngineProofs!AllIsSettled` | `Spec => []EverythingSettled` | `Inv`: the counters are the cardinalities of the sets of decided packets |
| `SimpleEngineProofs!SimpleIsFilter` | `Spec => ImplementsFilter` | the two classifiers agree (`ClassifiersAgree`) |
| `SimpleEngineProofs!VerdictsFollowCapture` | `Spec => []JudgedInTurn`, with the classifier of `fast_path.py` | `SimpleIsFilter` and the filter's theorem |
| `SimpleEngineProofs!BlocksAreSticky`, `BlockedNamesStop` | `Spec => []Filter!StickyBlock`, `Spec => []Filter!BlockedNameStopsFlow` | the same |
| `QueueClientsProofs!TypeCorrect` | `Spec => []TypeOK` | `Inv` |
| `QueueClientsProofs!MarkerIsUnique` | `Spec => []AtMostOneMarker` | `Inv` |
| `QueueClientsProofs!QueueIsFifo` | `Spec => ImplementsFifo` | what the queue operations do to a sequence without its marker |
| `QueueClientsProofs!NothingLeft` | `Spec => []DrainedTogether`, if there is a consumer | `DrainInv`: the marker is behind all items |
| `DissectionProofs!ReadsStayInFrame` | `ParserSpec => []NoReadPastFrame`: no frame makes the parser read past its end | the test before each header |
| `DissectionProofs!AcceptedIsComplete` | what is accepted has two addresses, and two ports exactly if it is TCP or UDP | the same invariant |
| `DissectionProofs!ReadsStayInside` | `Spec => [](TypeOK /\ NoReadPastEnd)`: no payload makes the extractor read past its end | the test before each field |
| `DissectionProofs!EveryStepAdvances` | `Spec => MovesForward`: no payload keeps it in a loop | lengths read from bytes are not negative |
| `DissectionProofs!ParsesEveryFrame` | `DissectionSpec => []ParsesWhatIsThere`: addresses, ports and payload of every frame with right headers, and nothing of any other | `KnowsHeaders`, and where the fields of a frame are |
| `DissectionProofs!EveryVerdictFollowsRules` | `DissectionSpec => []VerdictFollowsRules`: a packet with ports is dropped exactly if an argument names its source, its application or a part of its name | `VerdictInv`, and when two addresses are one number |
| `DissectionProofs!EveryCutHelloShowsNothing` | `DissectionSpec => []CutHelloShowsNothing`: a record of which the end is missing shows no name | `NamesInv`, and when a payload is `Barren` |
| `DissectionProofs!EveryCutRequestShowsPart` | `DissectionSpec => []CutRequestShowsPart`: a plain request cut off anywhere shows just what has arrived of its host | `NamesInv`, and what the search in a request finds |
| `DissectionProofs!EveryNameIsWhole` | `DissectionSpec => []NeverPartOfName`: a Client Hello that ends anywhere shows all of its name or none, whatever its outer lengths say | `WalkInv` |
| `DissectionProofs!FindsEveryName` | `DissectionSpec => []FindsName`: a Client Hello that is whole and correct and a whole plain request show their name, and what has none shows none | `WalkInv`, and `RequestShows` |
| `CaptureFileProofs!FileInvariant` | `Spec => []Inv`: reader and writer are between two records of a capture | `Inv` |
| `CaptureFileProofs!ReadsEveryCapture` | `Spec => []ReadsWholeRecords` | `Inv`, and that records end one behind the other |
| `CaptureFileProofs!ReadsBackWhatItWrote` | `Spec => []WritesWhatItCanRead` | `Inv`: what was written is a capture with right lengths |

They hold for every capture, every number of threads, every capacity and every
set of rules (those of the parser and the extractor: for every sequence of bytes; those
of `Dissection` and `CaptureFile`: for every frame, command line and capture; those
of the queue: for any number of producers, consumers and items) within the
assumptions of the modules: fan-outs and capacities are
positive (`SizesAssumption`, `ClientsAssumption`; the command line does not check this, and a zero
would divide by zero), captures are sequences of packet records
(`InputsAssumption`), five-tuples have addresses, ports and integer hash values
(`TuplesAssumption`), names have substring sets (`NamesAssumption`), the
rules name applications that exist (`RulesAssumption`), and what is encoded fits into its
fields (`CasesAssumption`, `CapturesAssumption`).

*Types.* `TypeOK` of the threaded engine is not inductive: that `LBPush` appends a packet and not "no
packet" needs `HoldsPacket`, which relates a thread's program counter to the
packet in its hand. `TypeInv` is the conjunction of both. `SequenceProofs` says
what each queue operation preserves, and `FastPathProofs` what classification
preserves.

*Shutdown in order.* Two things tell a thread to end, the flag and the marker,
and either may come without the other: a full queue loses the marker, and a
cleared flag may be seen late. The invariant `OrderInv` therefore says of *each*
that it implies that the stage before is through: `MainOrder` ties main's
program counter to the stages already joined, `LBOrder` says that a cleared flag,
a marker or a drain loop of a load balancer implies that the reader is through;
`FPOrder` the same of a fast path and the load balancers; `OutOrder` the same of
the output queue. That a marker is the last element of its queue ties a
`None` from the drain loop to an empty queue: no item can hide behind it. Each
stage's step is then a lemma of its own.

*The way of a packet.* A packet goes through ten stages, from the capture through
two queues and two threads to the fast path's verdict, and from there to the
file, to the dropped or to the discarded. The variables say this five times over,
in queues, hands, history, file and counters. The
invariant `TravelInv` says it once: there is a function `st` from packets to stages
that explains all of them (`Travel(st)`). Its parts are `Placed`, which ties each place
to a stage and to the hash; `Counters`, which makes every counter the number of
packets at certain stages; and `NoOvertaking`, the reason why hashing keeps a flow in order:
of two packets that go the same way the later one is never at a later stage,
except that it may have been dropped while the earlier one is on its way to the
file. `QueuesSorted` says the same of two packets in one queue or in the file. A
step then moves one packet by one stage, and what is left to show for each
action is which one (`Advance`, `BehindOthers` and `CountMoved` do the rest); the steps
of the shutdown move none, because a marker is no item (`MarkSorted`,
`NoneSorted`). `DiscardsAtEnd` is needed for the refinement: a packet that a stopped fast path throws
away stays undecided in the filter, which would forbid any later decision in its
flow, and none follows, for the fast path is past its main loop. The theorems are
short consequences: one stage is one place; at the report, with the
threads joined, no packet is at the stages 1 to 4; and the filter's preconditions
for a decision and for a write are `NoOvertaking` read at stages 3 and 6.

*Stickiness.* Decisions of a flow are made in flow order, so that it is enough
to know that a flow with a dropped packet is blocked, and that `Inspect` never
clears the flag (`InspectKeepsBlock`).

*Names.* A flow is judged by the name it shows first. `NameInv` says that as long
as no packet of a flow has shown a name the flow has none (`Nameless`), be it
labelled after its port or not, and that from the first packet with a blocked
name on everything is dropped (`BlockedFirstDropped`).

*Verdicts in turn.* `FlowsOf(capture)` is what each packet makes of the flows when the
capture is judged one packet after the other, without threads. That this recursion says
what it seems to say is `InTurn`, again by `FoldExists`. `JudgedInTurn` claims that a packet
gets the verdict of `FlowsOf` at its own place, although by then packets of
other flows may have been judged far ahead or not at all. `UpToNext` is the invariant: a
flow whose next packet is `p` looks as in `FlowsOf` just before `p`. It is kept because
packets of other flows leave a flow alone (`NothingBetween`).

*From the filter to the engines.* Both engines are proved to implement the filter, so that
what is proved of it holds of them. `FilterProofs` instantiates the filter's
theorems with the same mapping as the refinement; `OneFilter` shows that this is the
same filter, and `FilterAssumptions` that what its theorems assume of the constants is
assumed by the engine. Since `JudgedInTurn` makes a verdict a function of capture and rules
(`VerdictsFollowCapture` of either engine), the two engines never disagree on a packet
that both have judged, and neither do two runs of the threaded one.

*The single-threaded engine.* `Inv` says which packet is in hand (`Place`), that
all packets before it are decided and those behind it are not (`Behind`), that
the file holds what was let through in capture order (`FileOrder`) and that the
counters are the numbers of such packets (`Counters`). `ImplementsFilter` then is
an argument step by step, where the work lies in `ClassifiersAgree`: the copy of
the classifier in `main_simple.py`, written in another order, gives every flow
the same label for every packet.

*The queue.* `Inv` is the type invariant with the uniqueness of the marker:
whoever takes it out leaves none behind, so there is never one both in the queue
and in a hand, and `shutdown` puts one in only once. The refinement maps the queue to
the sequence without the marker (`Visible`). Taking the marker out, putting it back
and losing it do not change that sequence; a push appends to it; a pop takes
its head. That the abstract buffer is never above its size needs that the marker
takes up room but is not counted. `DrainInv` says what a consumer knows when it
breaks off, provided that stop came after the last push: the marker is then
behind all items, and who has it in hand, or has ended, has seen the last of
them go. Without a consumer nothing is drained, so that the theorem assumes one.

*The parser and the extractor.* For both, the invariant is that the tests passed
so far bound the offset by the length of what is read. In the extractor
`MoveStep` says once what a step past a field preserves. That what is read is a number
(`ByteIsNumber`, `U16IsNumber`) makes every step go forward. Termination itself
(`Returns`) needs the offset as a variant and is left to TLC.

*What the parser finds.* The proofs above hold for any bytes and therefore cannot say
that what is found is right. `ParsesEveryFrame` starts from the parts a frame is made of.
`Holds(s, o, t)` says that the bytes `t` stand in `s` at offset `o`; it survives what
is put in front, behind, or cut off (`ConcatHolds`, `PrefixHolds`), so that
`FrameLayout` follows part by part: after `n` bytes of options everything is `n` bytes
further. `FieldsFound` and `PayloadFound` turn that into what the parser reads, as
far as the capture goes. The invariant `KnowsHeaders` says what each test has
established - at `tcp` and `udp` that all up to the IP header is right and there -
and `WellFormedSize` that the tests together ask for exactly the length that a
well-formed frame has. That Client Hello and request are sequences of numbers at all
(`BodyIsBytes`) is an induction over their lists (`FlatSequence`). No induction
theorem can be used here; `FoldExists` and `UpTo` in `SequenceProofs` prove by the
least element of a set what is needed of one.

*The name in a request.* `RequestShows` follows the search through the symbols of a plain
request, which may be cut off anywhere: it ends at the Host header; `LineEndIs`, `StripIs` and `ValueIs` then say
that the line up to its end, its blanks and its colon is the name, or, where the request
ends in the name, what is there of it.

*The name in a Client Hello.* A name can stand anywhere: it is found through lists within
lists, each of any length. `Layout` names the places: `at[k]` is where the `k`-th
extension of the body begins, `et[k][l]` where the `l`-th name in it does. That there
are such places is `BodyIs`, which rests on `FlatIsRow`: the parts of a flattened
sequence stand one behind the other. `Reads` says that a payload begins with
the message, or with a part of it, and that the lengths do not lead behind it;
`MessageArrives` says of which frames this holds. `Walk` is the invariant of the
extractor, and the heart of the proof: at each field the offset is the place of that field; at
the `k`-th extension none of those before it has been a server name extension; at the `l`-th
entry none before it has been a host name; and what is returned is the host name or
nothing, nothing only if there is no name or if something is missing. Every step
keeps it (`WalkStep`, from one lemma for each part of the message), because a field that is
there has the value that was encoded (`BodyRead`) and leads to the next place. A slice
that passes the test on its end lies in the payload, which has nothing but the message in
it; that is why a part of a name is never returned, and why the two properties leave out
names with wrong lengths and, for incomplete messages, what stands behind them.

Where the message is not read in this way, the payload is `Barren`: it does not begin with a
record, is shorter than 43 bytes or than its record. In such a payload the extractor
ends without a name (`StaysOut`). So it is with requests and zeros on port 443
(`OthersAreBarren`), with padding, in which a frame has at most 18 bytes
(`PaddedIsBarren`), and with records of which the end is missing (`CutIsBarren`). `NamesInv` adds
to that and to `VerdictInv` which extractor was called, and with what (`ExtractorCalled`);
`WalkInv` adds that the extractor is on its way through the message (`OnTrack`).

*The verdict.* `RulesAdded` says that the rules added and the arguments left make up the
arguments given, `OnItsWay` what is known of the packet before each step: the flow is
new, and a name has been found on the ports for names only. The judgement then
falls apart into its three rules. For addresses, `SameNumber` shows bit by bit that an
argument and a source address are the same number exactly if carrying the surplus bits of each
part into the part before gives the address (`NamesItsAddress`). For applications
the classifier must return one that exists (`NameHasApp`); for domains both
sides are searched in lower case.

*Capture files.* `Inv` says that the input is made from a capture (in the second run from
what the first one kept), that the reader stands at the end of the records returned so
far (`ReaderInPlace`), and that the output is the file of the packets kept. That a
record is read back as it is (`ReadsHeader`, `ReadsItsData`) is a matter of `Holds` again,
and of `SplitWord`: four octets, in either order, make
the number they came from. `Inv` speaks of the place only for captures with right
lengths, and the second run always has one. Which records are whole is
counted by the property and known by the invariant; that their ends ascend
(`EndOf`) makes it the same.

### Only model-checked

* Liveness, which is out of the prover's reach: `HangsOnlyBehindWriter`, `Ends`,
  `ConsumersEnd`, `EverythingComesOut`, `Returns`.

## 5. Not modelled

* The layout of the report and argument parsing, except for the rules that the
  arguments add.
* I/O errors while writing. An exception would end the writer thread without
  setting `_writer_done`; what follows is the hang of `HangsOnlyBehindWriter`.
* Calls nobody makes: `ConnectionTracker.get` and `remove`, rules added while the
  engine runs (the program adds them all before `run()`).
* Fields the parser reads but no engine uses: MAC addresses, time to live,
  sequence numbers, flags. The offset of a fragment is not read by the code
  either: a later fragment is a frame with other ports.
* Whether a time stamp counts micro- or nanoseconds: the number is carried over.
* `create_dns_query` and `main` of `generate_test_pcap.py`, and `CMakeLists.txt`, which
  builds nothing of this repository.

## 6. Plan

Every component that decides anything is modelled, and every safety property and
refinement is proved. What is left is to show that the packet which the threaded engine
sees is the one that `Dissection` finds in its frame: today the engines start from the
record `Packet`.
