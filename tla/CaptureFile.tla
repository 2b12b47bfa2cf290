----------------------------- MODULE CaptureFile ----------------------------
(***************************************************************************)
(* Capture files byte by byte (pcap_reader.py), read and written as        *)
(* main_simple.py does it: open the input and then the output, read a      *)
(* record, write it or drop it, and leave the "with" block at the end of   *)
(* the file or with a ValueError.  Then the program runs once more, on the *)
(* file it has written.                                                    *)
(***************************************************************************)
EXTENDS Integers, Sequences, FiniteSets

CONSTANT Captures
  (* The files to begin with, as records of
       magic    the first four bytes: see below
       records  a sequence of [sec, frac, orig, data]: time, length on the
                wire, and what of it is in the file
       extra    by how much the lengths of the data in the file are too large
       cut      how many bytes are missing at the end *)

\* The four ways to begin a file with 0xa1b2c3d4 (times in microseconds) or
\* 0xa1b23c4d (in nanoseconds), low byte or high byte first.
MICRO_LOW  == <<212, 195, 178, 161>>
MICRO_HIGH == <<161, 178, 195, 212>>
NANO_LOW   == <<77, 60, 178, 161>>
NANO_HIGH  == <<161, 178, 60, 77>>

PCAP_GLOBAL_HDR_SIZE == 24
PCAP_PKT_HDR_SIZE    == 16

\* What four bytes can hold: the numbers below 2^32.
Octets == 0..255
Words  == {n \in Nat : n \div 16777216 \in Octets}

\* A packet as the reader returns it; its length has to fit into a word.
RawPackets ==
  {r \in [sec : Words, frac : Words, orig : Words, data : Seq(Octets)] :
     Len(r.data) \in Words}

IsCapture(c) ==
  /\ DOMAIN c = {"magic", "records", "extra", "cut"}
  /\ c.magic \in [1..4 -> Octets]
  /\ c.records \in Seq(RawPackets)
  /\ c.extra \in Nat /\ c.cut \in Nat
  /\ \A k \in DOMAIN c.records : Len(c.records[k].data) + c.extra \in Words

ASSUME CapturesAssumption == \A c \in Captures : IsCapture(c)

VARIABLES
  capture,  \* what the first input is made of
  run,      \* 1, or 2 for the run on the output of the first
  input,    \* the bytes of the input file
  pos,      \* position of the reader in it
  lowFirst, \* _little_endian
  pc,       \* "open", "create", "header", "data", "packet", "end" or "raised"
  header,   \* pkt_header: [sec, frac, incl, orig]
  got,      \* history: the packets that the reader has returned
  output,   \* the bytes of the output file
  kept,     \* history: the packets that have been written
  before    \* history: those of the first run

vars == <<capture, run, input, pos, lowFirst, pc, header, got, output, kept, before>>

-----------------------------------------------------------------------------
(* Files from their parts *)

\* A field of four bytes, the lowest or the highest first.
Low32(n)  == <<n % 256, (n \div 256) % 256, (n \div 65536) % 256, n \div 16777216>>
High32(n) == <<n \div 16777216, (n \div 65536) % 256, (n \div 256) % 256, n % 256>>

\* The fields behind the magic number, which nobody reads.
GlobalHeader(magic) == magic \o [k \in 1..20 |-> 0]

EncodeRecord(low, r, incl) ==
  LET U32(n) == IF low THEN Low32(n) ELSE High32(n)
  IN  U32(r.sec) \o U32(r.frac) \o U32(incl) \o U32(r.orig) \o r.data

LowFirst(magic) == magic \in {MICRO_LOW, NANO_LOW}

EncodeRecords(c) ==
  LET f[k \in 0..Len(c.records)] ==
        IF k = 0 THEN <<>>
        ELSE f[k - 1] \o EncodeRecord(LowFirst(c.magic), c.records[k],
                                      Len(c.records[k].data) + c.extra)
  IN  f[Len(c.records)]

Encode(c) ==
  LET whole == GlobalHeader(c.magic) \o EncodeRecords(c)
  IN  SubSeq(whole, 1, Len(whole) - c.cut)

-----------------------------------------------------------------------------
(* The program *)

NoHeader == [sec |-> 0, frac |-> 0, incl |-> 0, orig |-> 0]

Init ==
  /\ capture \in Captures
  /\ run = 1
  /\ input = Encode(capture) /\ pos = 0
  /\ lowFirst = TRUE /\ header = NoHeader
  /\ pc = "open"
  /\ got = <<>> /\ output = <<>> /\ kept = <<>> /\ before = <<>>

\* file.read(n) returns what is left if that is less.
Left(n)  == IF pos + n <= Len(input) THEN n ELSE Len(input) - pos
Bytes(n) == SubSeq(input, pos + 1, pos + Left(n))

\* One of the four numbers in a packet header.
Number(k) ==
  LET b == SubSeq(Bytes(PCAP_PKT_HDR_SIZE), 4 * k - 3, 4 * k)
  IN  IF lowFirst
      THEN b[1] + 256 * (b[2] + 256 * (b[3] + 256 * b[4]))
      ELSE b[4] + 256 * (b[3] + 256 * (b[2] + 256 * b[1]))

Leave(how) ==
  /\ pc' = how
  /\ UNCHANGED <<lowFirst, header, got>>

\* _read_global_header; the nanosecond magic is known in one order only.
OpenInput ==
  LET magic == Bytes(4)
  IN  /\ pc = "open"
      /\ pos' = pos + Left(PCAP_GLOBAL_HDR_SIZE)
      /\ \/ /\ \/ Left(PCAP_GLOBAL_HDR_SIZE) < PCAP_GLOBAL_HDR_SIZE
               \/ magic \notin {MICRO_LOW, NANO_LOW, MICRO_HIGH}
            /\ Leave("raised")
         \/ /\ Left(PCAP_GLOBAL_HDR_SIZE) = PCAP_GLOBAL_HDR_SIZE
            /\ magic \in {MICRO_LOW, NANO_LOW, MICRO_HIGH}
            /\ lowFirst' = (magic # MICRO_HIGH)
            /\ pc' = "create"
            /\ UNCHANGED <<header, got>>
      /\ UNCHANGED <<capture, run, input, output, kept, before>>

\* PcapWriter.open
CreateOutput ==
  /\ pc = "create"
  /\ output' = GlobalHeader(MICRO_LOW)
  /\ pc' = "header"
  /\ UNCHANGED <<capture, run, input, pos, lowFirst, header, got, kept, before>>

\* Mutant: a header that is not all there is taken for the end of the file.
ReadHeaderMutant ==
  /\ pc = "header"
  /\ pos' = pos + Left(PCAP_PKT_HDR_SIZE)
  /\ \/ Left(PCAP_PKT_HDR_SIZE) < PCAP_PKT_HDR_SIZE /\ Leave("end")
     \/ /\ Left(PCAP_PKT_HDR_SIZE) = PCAP_PKT_HDR_SIZE
        /\ header' = [sec |-> Number(1), frac |-> Number(2),
                      incl |-> Number(3), orig |-> Number(4)]
        /\ pc' = "data"
        /\ UNCHANGED <<lowFirst, got>>
  /\ UNCHANGED <<capture, run, input, output, kept, before>>

\* _read_packet: the header ...
ReadHeader ==
  /\ pc = "header"
  /\ pos' = pos + Left(PCAP_PKT_HDR_SIZE)
  /\ \/ Left(PCAP_PKT_HDR_SIZE) = 0 /\ Leave("end")
     \/ Left(PCAP_PKT_HDR_SIZE) \in 1..(PCAP_PKT_HDR_SIZE - 1) /\ Leave("raised")
     \/ /\ Left(PCAP_PKT_HDR_SIZE) = PCAP_PKT_HDR_SIZE
        /\ header' = [sec |-> Number(1), frac |-> Number(2),
                      incl |-> Number(3), orig |-> Number(4)]
        /\ pc' = "data"
        /\ UNCHANGED <<lowFirst, got>>
  /\ UNCHANGED <<capture, run, input, output, kept, before>>

\* ... and the data.
ReadData ==
  /\ pc = "data"
  /\ pos' = pos + Left(header.incl)
  /\ \/ Left(header.incl) < header.incl /\ Leave("raised")
     \/ /\ Left(header.incl) = header.incl
        /\ got' = Append(got, [sec |-> header.sec, frac |-> header.frac,
                               orig |-> header.orig, data |-> Bytes(header.incl)])
        /\ pc' = "packet"
        /\ UNCHANGED <<lowFirst, header>>
  /\ UNCHANGED <<capture, run, input, output, kept, before>>

RawPacket == got[Len(got)]

\* Mutant: the record keeps the byte order of the input.
WritePacketMutant ==
  /\ pc = "packet"
  /\ output' = output \o EncodeRecord(lowFirst, RawPacket, Len(RawPacket.data))
  /\ kept' = Append(kept, RawPacket)
  /\ pc' = "header"
  /\ UNCHANGED <<capture, run, input, pos, lowFirst, header, got, before>>

\* The packet is let through: write_packet.
WritePacket ==
  /\ pc = "packet"
  /\ output' = output \o EncodeRecord(TRUE, RawPacket, Len(RawPacket.data))
  /\ kept' = Append(kept, RawPacket)
  /\ pc' = "header"
  /\ UNCHANGED <<capture, run, input, pos, lowFirst, header, got, before>>

\* The packet does not parse, or a rule blocks it.
SkipPacket ==
  /\ pc = "packet"
  /\ pc' = "header"
  /\ UNCHANGED <<capture, run, input, pos, lowFirst, header, got, output, kept, before>>

Ended == pc \in {"end", "raised"}

\* Run the program on what it has written.
Again ==
  /\ Ended /\ run = 1
  /\ output # <<>>
  /\ run' = 2
  /\ input' = output /\ pos' = 0
  /\ lowFirst' = TRUE /\ header' = NoHeader
  /\ pc' = "open"
  /\ before' = kept
  /\ got' = <<>> /\ output' = <<>> /\ kept' = <<>>
  /\ UNCHANGED capture

Finished == Ended /\ (run = 2 \/ output = <<>>) /\ UNCHANGED vars

Next ==
  \/ OpenInput \/ CreateOutput \/ ReadHeader \/ ReadData
  \/ WritePacket \/ SkipPacket \/ Again \/ Finished

Spec == Init /\ [][Next]_vars

-----------------------------------------------------------------------------
(* Properties *)

\* Where the k-th record of a capture ends.
EndOf(c, k) ==
  LET f[j \in 0..Len(c.records)] ==
        IF j = 0 THEN PCAP_GLOBAL_HDR_SIZE
        ELSE f[j - 1] + PCAP_PKT_HDR_SIZE + Len(c.records[j].data)
  IN  f[k]

Readable == capture.magic \in {MICRO_LOW, NANO_LOW, MICRO_HIGH}

(***************************************************************************)
(* Whatever the order of its bytes, of a readable capture with right       *)
(* lengths the reader returns exactly the records that are there as a      *)
(* whole, as they were captured; it ends with an error exactly if          *)
(* something is missing at the end.                                        *)
(***************************************************************************)
ReadsWholeRecords ==
  run = 1 /\ Ended /\ capture.extra = 0 =>
    LET ends  == [k \in 0..Len(capture.records) |-> EndOf(capture, k)]
        whole == {k \in DOMAIN ends : ends[k] <= Len(input)}
    IN  /\ got = IF Readable THEN SubSeq(capture.records, 1, Cardinality(whole) - 1)
                 ELSE <<>>
        /\ (pc = "end") <=> (Readable /\ \E k \in whole : ends[k] = Len(input))

(***************************************************************************)
(* What the program writes it can read: however the first run ended, and   *)
(* in whatever byte order its input was, the second one finds exactly the  *)
(* packets that the first let through, with their times and lengths, and   *)
(* ends cleanly.                                                           *)
(***************************************************************************)
WritesWhatItCanRead ==
  run = 2 =>
    /\ pc # "raised"
    /\ got = SubSeq(before, 1, Len(got))
    /\ pc = "end" => got = before

=============================================================================
