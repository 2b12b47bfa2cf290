-------------------------- MODULE CaptureFileProofs -------------------------
(***************************************************************************)
(* What the program reads from a capture file and what it writes, for      *)
(* captures of any number of records of any length that end anywhere.      *)
(***************************************************************************)
EXTENDS CaptureFile, SequenceProofs, SequenceTheorems, FiniteSetTheorems

-----------------------------------------------------------------------------
(* Words *)

\* The octets of a word.
WordSize == 4

\* Four octets make a word.
Value(b) == b[1] + 256 * (b[2] + 256 * (b[3] + 256 * b[4]))

\* One octet after the other can be split off a word.
LEMMA SplitWord ==
  ASSUME NEW n \in Words
  PROVE  /\ Low32(n) \in Seq(Octets) /\ Len(Low32(n)) = WordSize
         /\ High32(n) \in Seq(Octets) /\ Len(High32(n)) = WordSize
         /\ Value(Low32(n)) = n
         /\ High32(n) = <<Low32(n)[4], Low32(n)[3], Low32(n)[2], Low32(n)[1]>>
<1> DEFINE n1 == n \div 256
           n2 == n \div 65536
           n3 == n \div 16777216
<1>1. n \in Nat /\ n3 \in Octets
  BY DEF Words
<1>2. n1 \in Nat /\ n2 \in Nat /\ n3 \in Nat
  BY <1>1
<1>3. n2 = n1 \div 256 /\ n3 = n2 \div 256
  BY <1>1
<1>4. n = (n % 256) + 256 * n1 /\ n % 256 \in Octets
  BY <1>1 DEF Octets
<1>5. n1 = (n1 % 256) + 256 * n2 /\ n1 % 256 \in Octets
  BY <1>2, <1>3 DEF Octets
<1>6. n2 = (n2 % 256) + 256 * n3 /\ n2 % 256 \in Octets
  BY <1>2, <1>3 DEF Octets
<1> QED
  BY <1>1, <1>4, <1>5, <1>6 DEF Low32, High32, Value, WordSize

\* Four octets make a number that fits into a word.
LEMMA JoinWord ==
  ASSUME NEW b1 \in Octets, NEW b2 \in Octets, NEW b3 \in Octets, NEW b4 \in Octets
  PROVE  b1 + 256 * (b2 + 256 * (b3 + 256 * b4)) \in Words
BY DEF Words, Octets

-----------------------------------------------------------------------------
(* The layout of a file *)

\* A field of four octets.
U32(low, n) == IF low THEN Low32(n) ELSE High32(n)

\* Where the fields of a record are.
LEMMA RecordFields ==
  ASSUME NEW low \in BOOLEAN, NEW r \in RawPackets, NEW incl \in Words
  PROVE  LET e == EncodeRecord(low, r, incl)
         IN  /\ e \in Seq(Octets)
             /\ Len(e) = 4 * WordSize + Len(r.data)
             /\ Holds(e, 0, U32(low, r.sec))
             /\ Holds(e, WordSize, U32(low, r.frac))
             /\ Holds(e, 2 * WordSize, U32(low, incl))
             /\ Holds(e, 3 * WordSize, U32(low, r.orig))
             /\ Holds(e, 4 * WordSize, r.data)
<1> DEFINE a == U32(low, r.sec)
           b == U32(low, r.frac)
           c == U32(low, incl)
           d == U32(low, r.orig)
           h2 == a \o b
           h3 == h2 \o c
           h4 == h3 \o d
           p == r.data
           e == h4 \o p
<1>1. /\ r.sec \in Words /\ r.frac \in Words /\ r.orig \in Words
      /\ r.data \in Seq(Octets)
  BY DEF RawPackets
<1>2. ASSUME NEW n \in Words
      PROVE  U32(low, n) \in Seq(Octets) /\ Len(U32(low, n)) = WordSize
  BY SplitWord DEF U32
<1>3. WordSize \in Nat
  BY DEF WordSize
<1>a. a \in Seq(Octets) /\ Len(a) = WordSize
  BY <1>1, <1>2
<1>b. b \in Seq(Octets) /\ Len(b) = WordSize
  BY <1>1, <1>2
<1>c. c \in Seq(Octets) /\ Len(c) = WordSize
  BY <1>2
<1>d. d \in Seq(Octets) /\ Len(d) = WordSize
  BY <1>1, <1>2
<1>p. p \in Seq(Octets) /\ Len(p) \in Nat
  BY <1>1
<1>4. EncodeRecord(low, r, incl) = e
  BY DEF EncodeRecord, U32
<1> HIDE DEF a, b, c, d, p, h2, h3, h4, e
<1>5. h2 \in Seq(Octets) /\ Len(h2) = 2 * WordSize
  BY <1>3, <1>a, <1>b DEF h2
<1>6. h3 \in Seq(Octets) /\ Len(h3) = 3 * WordSize
  BY <1>3, <1>5, <1>c DEF h3
<1>7. h4 \in Seq(Octets) /\ Len(h4) = 4 * WordSize
  BY <1>3, <1>6, <1>d DEF h4
<1>8. e \in Seq(Octets) /\ Len(e) = 4 * WordSize + Len(p)
  BY <1>3, <1>7, <1>p DEF e
<1>9. Holds(h2, 0, a) /\ Holds(h2, WordSize, b)
  BY <1>3, <1>a, <1>b, ConcatHolds DEF h2
<1>10. Holds(h3, 0, h2) /\ Holds(h3, 2 * WordSize, c)
  BY <1>3, <1>5, <1>c, ConcatHolds DEF h3
<1>11. Holds(h4, 0, h3) /\ Holds(h4, 3 * WordSize, d)
  BY <1>3, <1>6, <1>d, ConcatHolds DEF h4
<1>12. Holds(e, 0, h4) /\ Holds(e, 4 * WordSize, p)
  BY <1>3, <1>7, <1>p, ConcatHolds DEF e
<1>13. Holds(e, 3 * WordSize, d) /\ Holds(e, 0, h3)
  BY <1>3, <1>6, <1>7, <1>8, <1>d, <1>11, <1>12, HoldsTrans
<1>14. Holds(e, 2 * WordSize, c) /\ Holds(e, 0, h2)
  BY <1>3, <1>5, <1>6, <1>8, <1>c, <1>10, <1>13, HoldsTrans
<1>15. Holds(e, WordSize, b) /\ Holds(e, 0, a)
  BY <1>3, <1>5, <1>8, <1>a, <1>b, <1>9, <1>14, HoldsTrans
<1> QED
  BY <1>4, <1>8, <1>12, <1>13, <1>14, <1>15 DEF a, b, c, d, p

\* What a record is encoded to, as it is in the file c.
RecordOf(c, k) ==
  EncodeRecord(LowFirst(c.magic), c.records[k], Len(c.records[k].data) + c.extra)

\* Every record of a capture can be encoded.
LEMMA RecordsEncode ==
  ASSUME NEW c, IsCapture(c), NEW k \in 1..Len(c.records)
  PROVE  /\ c.records[k] \in RawPackets
         /\ LowFirst(c.magic) \in BOOLEAN
         /\ Len(c.records[k].data) + c.extra \in Words
         /\ Len(c.records[k].data) \in Nat
         /\ RecordOf(c, k) \in Seq(Octets)
         /\ Len(RecordOf(c, k)) = PCAP_PKT_HDR_SIZE + Len(c.records[k].data)
<1>1. /\ c.records[k] \in RawPackets
      /\ LowFirst(c.magic) \in BOOLEAN
      /\ Len(c.records[k].data) + c.extra \in Words
  BY DEF IsCapture, LowFirst
<1>2. Len(c.records[k].data) \in Nat
  BY <1>1 DEF RawPackets
<1>3. 4 * WordSize = PCAP_PKT_HDR_SIZE
  BY DEF WordSize, PCAP_PKT_HDR_SIZE
<1> QED
  BY <1>1, <1>2, <1>3, RecordFields DEF RecordOf

\* The ends of the records are the sums that EndOf says they are.
LEMMA Ends ==
  ASSUME NEW c, IsCapture(c)
  PROVE  /\ EndOf(c, 0) = PCAP_GLOBAL_HDR_SIZE
         /\ \A k \in 0..Len(c.records) : EndOf(c, k) \in Nat
         /\ \A k \in 1..Len(c.records) :
              EndOf(c, k) = EndOf(c, k-1) + PCAP_PKT_HDR_SIZE + Len(c.records[k].data)
<1> DEFINE n == Len(c.records)
           size == [k \in 1..n |-> Len(c.records[k].data)]
           base == PCAP_GLOBAL_HDR_SIZE
           gap  == PCAP_PKT_HDR_SIZE
           step == [k \in 1..n |-> [v \in Nat |-> v + gap + size[k]]]
           f[j \in 0..n] == IF j = 0 THEN PCAP_GLOBAL_HDR_SIZE
                            ELSE f[j-1] + PCAP_PKT_HDR_SIZE + Len(c.records[j].data)
<1>1. n \in Nat /\ base \in Nat /\ gap \in Nat
  BY DEF IsCapture, PCAP_GLOBAL_HDR_SIZE, PCAP_PKT_HDR_SIZE
<1>2. \A k \in 1..n : size[k] \in Nat /\ size[k] = Len(c.records[k].data)
  BY RecordsEncode
<1>3. \A k : EndOf(c, k) = f[k]
  BY DEF EndOf
<1> HIDE DEF n, base, gap, size
<1>4. step \in [1..n -> [Nat -> Nat]]
  BY <1>1, <1>2
<1>5. \A k \in 1..n : \A v \in Nat : step[k][v] = v + gap + size[k]
  BY <1>1, <1>2
<1> HIDE DEF step
<1>6. PICK g : IsFold(g, n, Nat, base, step)
  BY <1>1, <1>4, FoldExists
<1>7. \A k \in 1..n : k \in 0..n /\ k # 0 /\ k-1 \in 0..n
  BY <1>1
<1>8. g \in [0..n -> Nat] /\ g[0] = base /\ \A k \in 1..n : g[k] = g[k-1] + gap + size[k]
  BY <1>5, <1>6, <1>7 DEF IsFold
<1>9. g = [j \in 0..n |-> IF j = 0 THEN PCAP_GLOBAL_HDR_SIZE
                          ELSE g[j-1] + PCAP_PKT_HDR_SIZE + Len(c.records[j].data)]
  <2>1. \A j \in 0..n : j # 0 => j \in 1..n
    BY <1>1
  <2> QED
    BY <1>2, <1>8, <2>1 DEF base, gap
<1>10. f = [j \in 0..n |-> IF j = 0 THEN PCAP_GLOBAL_HDR_SIZE
                           ELSE f[j-1] + PCAP_PKT_HDR_SIZE + Len(c.records[j].data)]
  BY <1>9
<1> HIDE DEF f
<1>11. f[0] = base /\ \A k \in 1..n : f[k] = f[k-1] + gap + size[k]
  BY <1>1, <1>2, <1>7, <1>10 DEF base, gap
<1>12. \A k \in 0..n : f[k] \in Nat
  <2> DEFINE S == {k \in 0..n : f[k] \in Nat}
  <2>1. 0 \in S
    BY <1>1, <1>11
  <2>2. \A k \in 1..n : k-1 \in S => k \in S
    BY <1>1, <1>2, <1>7, <1>11
  <2> HIDE DEF S
  <2>3. 0..n \subseteq S
    BY <1>1, <2>1, <2>2, UpTo
  <2> QED
    BY <2>3 DEF S
<1> QED
  BY <1>2, <1>3, <1>11, <1>12 DEF n, base, gap

\* f[k] is the first k records of a capture, one behind the other.
Chunks(c, f) ==
  /\ f \in [0..Len(c.records) -> Seq(Octets)]
  /\ f[0] = <<>>
  /\ \A k \in 1..Len(c.records) : f[k] = f[k-1] \o RecordOf(c, k)

\* EncodeRecords puts all of them one behind the other.
LEMMA RecordsInOrder ==
  ASSUME NEW c, IsCapture(c)
  PROVE  \E f : Chunks(c, f) /\ EncodeRecords(c) = f[Len(c.records)]
<1> DEFINE n == Len(c.records)
           rec == [k \in 1..n |-> RecordOf(c, k)]
           bytes == Seq(Octets)
           step == [k \in 1..n |-> [v \in bytes |-> v \o rec[k]]]
           f[k \in 0..n] ==
             IF k = 0 THEN <<>>
             ELSE f[k-1] \o EncodeRecord(LowFirst(c.magic), c.records[k],
                                         Len(c.records[k].data) + c.extra)
<1>1. n \in Nat /\ <<>> \in bytes
  BY DEF IsCapture
<1>2. \A k \in 1..n : rec[k] \in bytes /\ rec[k] = RecordOf(c, k)
  BY RecordsEncode
<1>3. \A v, w \in bytes : v \o w \in bytes
  OBVIOUS
<1>4. EncodeRecords(c) = f[n]
  BY DEF EncodeRecords
<1> HIDE DEF n, rec, bytes
<1>5. step \in [1..n -> [bytes -> bytes]]
  <2>1. ASSUME NEW k \in 1..n PROVE [v \in bytes |-> v \o rec[k]] \in [bytes -> bytes]
    BY <1>2, <1>3
  <2> QED
    BY <2>1
<1>6. \A k \in 1..n : \A v \in bytes : step[k][v] = v \o rec[k]
  OBVIOUS
<1> HIDE DEF step
<1>7. PICK g : IsFold(g, n, bytes, <<>>, step)
  BY <1>1, <1>5, FoldExists
<1>8. \A k \in 1..n : k \in 0..n /\ k # 0 /\ k-1 \in 0..n
  BY <1>1
<1>9. /\ g \in [0..n -> bytes] /\ g[0] = <<>>
      /\ \A k \in 1..n : g[k] = g[k-1] \o rec[k]
  BY <1>6, <1>7, <1>8 DEF IsFold
<1>10. g = [k \in 0..n |->
              IF k = 0 THEN <<>>
              ELSE g[k-1] \o EncodeRecord(LowFirst(c.magic), c.records[k],
                                          Len(c.records[k].data) + c.extra)]
  <2>1. \A k \in 0..n : k # 0 => k \in 1..n
    BY <1>1
  <2> QED
    BY <1>2, <1>9, <2>1 DEF RecordOf
<1>11. f = [k \in 0..n |->
              IF k = 0 THEN <<>>
              ELSE f[k-1] \o EncodeRecord(LowFirst(c.magic), c.records[k],
                                          Len(c.records[k].data) + c.extra)]
  BY <1>10
<1> HIDE DEF f
<1>12. f[0] = <<>> /\ \A k \in 1..n : f[k] = f[k-1] \o rec[k]
  <2>1. 0 \in 0..n
    BY <1>1
  <2>2. f[0] = <<>>
    BY <1>11, <2>1
  <2>3. ASSUME NEW k \in 1..n PROVE f[k] = f[k-1] \o RecordOf(c, k)
    BY <1>8, <1>11 DEF RecordOf
  <2> QED
    BY <1>2, <2>2, <2>3
<1>13. \A k \in 0..n : f[k] = g[k]
  <2> DEFINE S == {k \in 0..n : f[k] = g[k]}
  <2>1. 0 \in S
    BY <1>1, <1>9, <1>12
  <2>2. \A k \in 1..n : k-1 \in S => k \in S
    BY <1>8, <1>9, <1>12
  <2> HIDE DEF S
  <2>3. 0..n \subseteq S
    BY <1>1, <2>1, <2>2, UpTo
  <2> QED
    BY <2>3 DEF S
<1>14. EncodeRecords(c) = g[n]
  BY <1>1, <1>4, <1>13
<1>15. Chunks(c, g)
  BY <1>2, <1>9 DEF n, bytes, Chunks
<1> QED
  BY <1>14, <1>15 DEF n

\* The bytes of a capture of which nothing is missing.
Whole(c) == GlobalHeader(c.magic) \o EncodeRecords(c)

\* The header of a file begins with its magic number.
LEMMA HeaderFields ==
  ASSUME NEW c, IsCapture(c)
  PROVE  /\ GlobalHeader(c.magic) \in Seq(Octets)
         /\ Len(GlobalHeader(c.magic)) = PCAP_GLOBAL_HDR_SIZE
         /\ c.magic \in Seq(Octets) /\ Len(c.magic) = WordSize
         /\ Holds(GlobalHeader(c.magic), 0, c.magic)
<1> DEFINE m == c.magic
           z == [k \in 1..20 |-> 0]
<1>1. m \in Seq(Octets) /\ Len(m) = WordSize
  <2>1. m \in [1..WordSize -> Octets] /\ WordSize \in Nat
    BY DEF IsCapture, WordSize
  <2> HIDE DEF m
  <2> QED
    BY <2>1
<1>2. z \in Seq(Octets) /\ Len(z) = 5 * WordSize
  BY DEF Octets, WordSize
<1>3. WordSize \in Nat /\ 6 * WordSize = PCAP_GLOBAL_HDR_SIZE
  BY DEF WordSize, PCAP_GLOBAL_HDR_SIZE
<1>4. GlobalHeader(c.magic) = m \o z
  BY DEF GlobalHeader
<1> HIDE DEF m, z
<1>5. m \o z \in Seq(Octets) /\ Len(m \o z) = PCAP_GLOBAL_HDR_SIZE
  BY <1>1, <1>2, <1>3
<1>6. Holds(m \o z, 0, m)
  BY <1>1, <1>2, <1>3, ConcatHolds
<1> QED
  BY <1>1, <1>4, <1>5, <1>6 DEF m

\* Each record of a capture is where the one before it ends.
LEMMA Layout ==
  ASSUME NEW c, IsCapture(c)
  PROVE  /\ Whole(c) \in Seq(Octets)
         /\ Len(Whole(c)) = EndOf(c, Len(c.records))
         /\ Holds(Whole(c), 0, c.magic)
         /\ \A k \in 1..Len(c.records) :
              Holds(Whole(c), EndOf(c, k-1), RecordOf(c, k))
<1> DEFINE n == Len(c.records)
           hdr == GlobalHeader(c.magic)
<1>1. n \in Nat
  BY DEF IsCapture
<1>2. PICK f : Chunks(c, f) /\ EncodeRecords(c) = f[n]
  BY RecordsInOrder
<1>3. hdr \in Seq(Octets) /\ Len(hdr) = EndOf(c, 0) /\ Holds(hdr, 0, c.magic) /\ c.magic \in Seq(Octets)
  BY HeaderFields, Ends
<1>4. /\ \A k \in 0..n : f[k] \in Seq(Octets)
      /\ f[0] = <<>>
      /\ \A k \in 1..n : f[k] = f[k-1] \o RecordOf(c, k)
  BY <1>2 DEF Chunks
<1>5. \A k \in 1..n :
        /\ RecordOf(c, k) \in Seq(Octets)
        /\ EndOf(c, k-1) \in Nat
        /\ EndOf(c, k) = EndOf(c, k-1) + Len(RecordOf(c, k))
  <2>1. SUFFICES ASSUME NEW k \in 1..n
                 PROVE  /\ RecordOf(c, k) \in Seq(Octets)
                        /\ EndOf(c, k-1) \in Nat
                        /\ EndOf(c, k) = EndOf(c, k-1) + Len(RecordOf(c, k))
    OBVIOUS
  <2>2. k-1 \in 0..n /\ PCAP_PKT_HDR_SIZE \in Nat
    BY <1>1 DEF PCAP_PKT_HDR_SIZE
  <2>3. /\ RecordOf(c, k) \in Seq(Octets)
        /\ Len(RecordOf(c, k)) = PCAP_PKT_HDR_SIZE + Len(c.records[k].data)
        /\ Len(c.records[k].data) \in Nat
    BY RecordsEncode
  <2>4. /\ EndOf(c, k-1) \in Nat
        /\ EndOf(c, k) = EndOf(c, k-1) + PCAP_PKT_HDR_SIZE + Len(c.records[k].data)
    BY <2>2, Ends
  <2> QED
    BY <2>2, <2>3, <2>4
<1>6. \A k \in 1..n : k \in 0..n /\ k-1 \in 0..n
  BY <1>1
<1> HIDE DEF n, hdr
<1> DEFINE Placed(k) == /\ Len(hdr \o f[k]) = EndOf(c, k)
                        /\ Holds(hdr \o f[k], 0, c.magic)
                        /\ \A j \in 1..k :
                             Holds(hdr \o f[k], EndOf(c, j-1), RecordOf(c, j))
           S == {k \in 0..n : Placed(k)}
<1>7. 0 \in S
  <2>1. hdr \o f[0] = hdr
    BY <1>3, <1>4
  <2>2. Placed(0)
    <3>1. 1..0 = {}
      OBVIOUS
    <3> QED
      BY <1>3, <2>1, <3>1
  <2> HIDE DEF Placed
  <2> QED
    BY <1>1, <2>2
<1>8. ASSUME NEW k \in 1..n, Placed(k-1) PROVE Placed(k)
  <2> DEFINE p == f[k-1]
             a == hdr \o p
             r == RecordOf(c, k)
  <2>1. p \in Seq(Octets) /\ r \in Seq(Octets) /\ f[k] = p \o r
    BY <1>4, <1>5, <1>6
  <2>2. hdr \o f[k] = a \o r /\ a \in Seq(Octets)
    <3> HIDE DEF p, r
    <3>1. hdr \in Seq(Octets)
      BY <1>3
    <3>2. hdr \o (p \o r) = (hdr \o p) \o r
      BY <2>1, <3>1, ConcatAssociative
    <3> QED
      BY <2>1, <3>1, <3>2
  <2>3. /\ Len(a) = EndOf(c, k-1) /\ Holds(a, 0, c.magic)
        /\ \A j \in 1..(k-1) : Holds(a, EndOf(c, j-1), RecordOf(c, j))
    BY <1>8
  <2>4. EndOf(c, k-1) \in Nat /\ EndOf(c, k) = EndOf(c, k-1) + Len(r)
    BY <1>5
  <2>5. \A j \in 1..k : j = k \/ j \in 1..(k-1)
    OBVIOUS
  <2>6. \A j \in 1..(k-1) : j \in 1..n
    BY <1>1
  <2> HIDE DEF p, a, r
  <2>7. Len(a \o r) = EndOf(c, k)
    <3>1. a \in Seq(Octets) /\ r \in Seq(Octets)
      BY <2>1, <2>2
    <3>2. Len(a \o r) = Len(a) + Len(r)
      BY <3>1
    <3> QED
      BY <2>3, <2>4, <3>2
  <2>8. Holds(a \o r, 0, c.magic)
    BY <1>3, <2>1, <2>2, <2>3, AppendedHolds
  <2>9. Holds(a \o r, EndOf(c, k-1), r)
    BY <2>1, <2>2, <2>3, ConcatHolds
  <2>10. ASSUME NEW j \in 1..(k-1) PROVE Holds(a \o r, EndOf(c, j-1), RecordOf(c, j))
    <3>1. RecordOf(c, j) \in Seq(Octets) /\ EndOf(c, j-1) \in Nat
      BY <1>5, <2>6
    <3> QED
      BY <2>1, <2>2, <2>3, <3>1, AppendedHolds
  <2> QED
    BY <2>2, <2>5, <2>7, <2>8, <2>9, <2>10 DEF r
<1> HIDE DEF Placed
<1>9. \A k \in 1..n : k-1 \in S => k \in S
  BY <1>6, <1>8
<1> HIDE DEF S
<1>10. Placed(n)
  <2>1. n \in 0..n /\ 0..n \subseteq S
    BY <1>1, <1>7, <1>9, UpTo
  <2> QED
    BY <2>1 DEF S
<1>11. Whole(c) = hdr \o f[n]
  BY <1>2 DEF Whole, hdr, n
<1>12. f[n] \in Seq(Octets)
  BY <1>1, <1>4
<1>13. hdr \o f[n] \in Seq(Octets)
  BY <1>3, <1>12
<1> QED
  BY <1>10, <1>11, <1>13 DEF Placed, n

\* A later record has its header behind the end of an earlier one.
LEMMA EndsGrow ==
  ASSUME NEW c, IsCapture(c), NEW j \in 0..Len(c.records), NEW k \in 0..Len(c.records),
         j < k
  PROVE  EndOf(c, j) + PCAP_PKT_HDR_SIZE <= EndOf(c, k)
<1> DEFINE n == Len(c.records)
           S == {l \in 0..n : j < l => EndOf(c, j) + PCAP_PKT_HDR_SIZE <= EndOf(c, l)}
<1>1. n \in Nat /\ PCAP_PKT_HDR_SIZE \in Nat
  BY DEF IsCapture, PCAP_PKT_HDR_SIZE
<1>2. \A l \in 0..n : EndOf(c, l) \in Nat
  BY Ends
<1>3. \A l \in 1..n : EndOf(c, l-1) + PCAP_PKT_HDR_SIZE <= EndOf(c, l)
  <2>1. SUFFICES ASSUME NEW l \in 1..n
                 PROVE  EndOf(c, l-1) + PCAP_PKT_HDR_SIZE <= EndOf(c, l)
    OBVIOUS
  <2>2. Len(c.records[l].data) \in Nat
    BY RecordsEncode
  <2>3. EndOf(c, l) = EndOf(c, l-1) + PCAP_PKT_HDR_SIZE + Len(c.records[l].data)
    BY Ends
  <2>4. EndOf(c, l-1) \in Nat
    BY <1>1, <1>2
  <2> QED
    BY <1>1, <2>2, <2>3, <2>4
<1> HIDE DEF n
<1>4. 0 \in S
  BY <1>1 DEF n
<1>5. ASSUME NEW l \in 1..n, l-1 \in S PROVE l \in S
  <2>1. l \in 0..n /\ l-1 \in 0..n /\ j \in Nat
    BY <1>1
  <2>2. EndOf(c, l-1) \in Nat /\ EndOf(c, l) \in Nat
    BY <1>2, <2>1
  <2>3. CASE j < l-1
    BY <1>1, <1>2, <1>3, <1>5, <2>1, <2>2, <2>3 DEF n
  <2>4. CASE j = l-1
    BY <1>3, <2>1, <2>4
  <2>5. CASE ~(j < l)
    BY <2>1, <2>5
  <2> QED
    BY <2>1, <2>3, <2>4, <2>5
<1> HIDE DEF S
<1>6. 0..n \subseteq S
  BY <1>1, <1>4, <1>5, UpTo
<1> QED
  BY <1>6 DEF S, n

\* What is left of a file that ends too early.
LEMMA InputHolds ==
  ASSUME NEW c, IsCapture(c)
  PROVE  /\ Encode(c) \in Seq(Octets)
         /\ Len(Encode(c)) <= EndOf(c, Len(c.records))
         /\ c.cut = 0 => Encode(c) = Whole(c)
         /\ \A o \in Nat, u \in Seq(Octets) :
              Holds(Whole(c), o, u) /\ o + Len(u) <= Len(Encode(c))
                => Holds(Encode(c), o, u)
<1> DEFINE w == Whole(c)
           n == IF c.cut <= Len(w) THEN Len(w) - c.cut ELSE 0
<1>1. w \in Seq(Octets) /\ Len(w) = EndOf(c, Len(c.records))
  BY Layout
<1>2. c.cut \in Nat
  BY DEF IsCapture
<1>3. Encode(c) = SubSeq(w, 1, Len(w) - c.cut)
  BY DEF Encode, Whole
<1> HIDE DEF w
<1>4. n \in 0..Len(w) /\ (c.cut = 0 => n = Len(w))
  BY <1>1, <1>2
<1>5. SubSeq(w, 1, Len(w) - c.cut) = SubSeq(w, 1, n)
  <2>1. CASE c.cut <= Len(w)
    BY <2>1
  <2>2. CASE ~(c.cut <= Len(w))
    BY <1>1, <1>2, <2>2
  <2> QED
    BY <2>1, <2>2
<1> HIDE DEF n
<1>6. SubSeq(w, 1, Len(w)) = w
  BY <1>1
<1> DEFINE e == SubSeq(w, 1, n)
<1>7. /\ e \in Seq(Octets) /\ Len(e) = n
      /\ \A o \in Nat, u \in Seq(Octets) :
           Holds(w, o, u) /\ o + Len(u) <= n => Holds(e, o, u)
  BY <1>1, <1>4, PrefixHolds
<1>8. Encode(c) = e
  BY <1>3, <1>5
<1>9. c.cut = 0 => e = w
  BY <1>4, <1>6
<1> HIDE DEF e
<1>10. n <= EndOf(c, Len(c.records))
  BY <1>1, <1>4
<1> QED
  BY <1>7, <1>8, <1>9, <1>10 DEF w

-----------------------------------------------------------------------------
(* What the program writes *)

\* A file of the given packets, as PcapWriter makes it.
Written(p) == [magic |-> MICRO_LOW, records |-> p, extra |-> 0, cut |-> 0]

\* What the writer has been given is a capture.
LEMMA WrittenIsCapture ==
  ASSUME NEW p \in Seq(RawPackets)
  PROVE  IsCapture(Written(p)) /\ LowFirst(Written(p).magic) = TRUE
<1>1. MICRO_LOW \in [1..4 -> Octets] /\ MICRO_LOW \in {MICRO_LOW, NANO_LOW}
  BY DEF MICRO_LOW, Octets
<1>2. \A k \in DOMAIN p : Len(p[k].data) + 0 \in Words
  <2>1. ASSUME NEW k \in DOMAIN p PROVE Len(p[k].data) \in Words
    BY DEF RawPackets
  <2> QED
    BY <2>1 DEF Words
<1> QED
  BY <1>1, <1>2 DEF Written, IsCapture, LowFirst

\* A file without a packet is a header.
LEMMA WrittenFirst == Encode(Written(<<>>)) = GlobalHeader(MICRO_LOW)
<1> DEFINE c == Written(<<>>)
<1>1. <<>> \in Seq(RawPackets)
  OBVIOUS
<1>2. IsCapture(c) /\ c.records = <<>> /\ c.magic = MICRO_LOW /\ c.cut = 0
  BY <1>1, WrittenIsCapture DEF Written
<1> HIDE DEF c
<1>3. PICK f : Chunks(c, f) /\ EncodeRecords(c) = f[Len(c.records)]
  BY <1>2, RecordsInOrder
<1>4. EncodeRecords(c) = <<>>
  <2>1. Len(c.records) = 0
    BY <1>2
  <2> QED
    BY <1>3, <2>1 DEF Chunks
<1>5. Encode(c) = GlobalHeader(c.magic) \o EncodeRecords(c)
  BY <1>2, InputHolds DEF Whole
<1>6. GlobalHeader(c.magic) \in Seq(Octets)
  BY <1>2, HeaderFields
<1>7. Encode(c) = GlobalHeader(c.magic)
  BY <1>4, <1>5, <1>6
<1> QED
  BY <1>2, <1>7 DEF c

\* One more packet is one more record at the end.
LEMMA WrittenGrows ==
  ASSUME NEW p \in Seq(RawPackets), NEW r \in RawPackets
  PROVE  Encode(Written(Append(p, r))) =
           Encode(Written(p)) \o EncodeRecord(TRUE, r, Len(r.data))
<1> DEFINE q == Append(p, r)
           n == Len(p)
           c == Written(p)
           d == Written(q)
           e == EncodeRecord(TRUE, r, Len(r.data))
<1>1. /\ n \in Nat /\ q \in Seq(RawPackets) /\ Len(q) = n + 1
      /\ q[n+1] = r /\ \A k \in 1..n : q[k] = p[k]
  OBVIOUS
<1>2. /\ IsCapture(c) /\ IsCapture(d)
      /\ LowFirst(c.magic) = TRUE /\ LowFirst(d.magic) = TRUE
  BY <1>1, WrittenIsCapture
<1>3. /\ c.records = p /\ d.records = q /\ c.magic = d.magic
      /\ c.extra = 0 /\ d.extra = 0 /\ c.cut = 0 /\ d.cut = 0
  BY DEF Written
<1>4. PICK f : Chunks(c, f) /\ EncodeRecords(c) = f[n]
  BY <1>2, <1>3, RecordsInOrder
<1>5. PICK g : Chunks(d, g) /\ EncodeRecords(d) = g[n+1]
  BY <1>1, <1>2, <1>3, RecordsInOrder
<1>6. \A k \in 1..n : RecordOf(d, k) = RecordOf(c, k)
  BY <1>1, <1>2, <1>3 DEF RecordOf
<1>7. RecordOf(d, n+1) = e /\ e \in Seq(Octets)
  <2>1. Len(r.data) + 0 = Len(r.data)
    BY DEF RawPackets
  <2>2. n+1 \in 1..Len(d.records)
    BY <1>1, <1>3
  <2>3. RecordOf(d, n+1) = e
    BY <1>1, <1>2, <1>3, <2>1 DEF RecordOf
  <2>4. RecordOf(d, n+1) \in Seq(Octets)
    BY <1>2, <2>2, RecordsEncode
  <2> QED
    BY <2>3, <2>4
<1>8. /\ \A k \in 0..n : f[k] \in Seq(Octets)
      /\ f[0] = g[0]
      /\ \A k \in 1..n : f[k] = f[k-1] \o RecordOf(c, k)
      /\ \A k \in 1..n : g[k] = g[k-1] \o RecordOf(d, k)
      /\ g[n+1] = g[n] \o RecordOf(d, n+1)
  <2>1. \A k \in 1..(n+1) : g[k] = g[k-1] \o RecordOf(d, k)
    BY <1>1, <1>3, <1>5 DEF Chunks
  <2>2. n+1 \in 1..(n+1) /\ (n+1)-1 = n /\ \A k \in 1..n : k \in 1..(n+1)
    BY <1>1
  <2>3. g[n+1] = g[n] \o RecordOf(d, n+1)
    BY <2>1, <2>2
  <2> QED
    BY <1>3, <1>4, <1>5, <2>1, <2>2, <2>3 DEF Chunks
<1> HIDE DEF n, c, d, e, q
<1>9. f[n] = g[n]
  <2> DEFINE S == {k \in 0..n : f[k] = g[k]}
  <2>1. 0 \in S
    BY <1>1, <1>8
  <2>2. ASSUME NEW k \in 1..n, k-1 \in S PROVE k \in S
    <3>1. f[k] = f[k-1] \o RecordOf(c, k) /\ g[k] = g[k-1] \o RecordOf(d, k)
      BY <1>8
    <3>2. RecordOf(d, k) = RecordOf(c, k) /\ f[k-1] = g[k-1]
      BY <1>6, <2>2
    <3>3. k \in 0..n
      BY <1>1
    <3> QED
      BY <3>1, <3>2, <3>3
  <2> HIDE DEF S
  <2>3. n \in Nat
    BY <1>1
  <2>4. 0..n \subseteq S
    BY <2>1, <2>2, <2>3, UpTo
  <2>5. n \in 0..n
    BY <2>3
  <2> QED
    BY <2>4, <2>5 DEF S
<1> DEFINE h == GlobalHeader(c.magic)
           t == f[n]
<1>10. Encode(c) = h \o t /\ Encode(d) = h \o (t \o e)
  <2>1. Encode(c) = Whole(c) /\ Encode(d) = Whole(d)
    BY <1>2, <1>3, InputHolds
  <2>2. Encode(d) = h \o EncodeRecords(d)
    BY <1>3, <2>1 DEF Whole
  <2>3. EncodeRecords(d) = t \o e
    BY <1>5, <1>7, <1>8, <1>9
  <2> QED
    BY <1>4, <2>1, <2>2, <2>3 DEF Whole
<1>11. h \in Seq(Octets)
  BY <1>2, HeaderFields
<1>12. t \in Seq(Octets)
  BY <1>1, <1>8
<1> HIDE DEF h, t
<1>13. h \o (t \o e) = (h \o t) \o e
  BY <1>7, <1>11, <1>12, ConcatAssociative
<1> QED
  BY <1>10, <1>13 DEF c, d, e, q

-----------------------------------------------------------------------------
(* What the reader makes of it *)

\* Reading bytes that are there.
LEMMA BytesRead ==
  ASSUME input \in Seq(Octets), pos \in Nat, NEW n \in Nat, pos + n <= Len(input)
  PROVE  /\ Left(n) = n
         /\ Bytes(n) = SubSeq(input, pos + 1, pos + n)
         /\ Bytes(n) \in Seq(Octets)
         /\ Len(Bytes(n)) = n
         /\ \A d \in Seq(Octets) :
              Holds(input, pos, d) /\ Len(d) = n => Bytes(n) = d
<1>1. Left(n) = n
  BY DEF Left
<1>2. Bytes(n) = SubSeq(input, pos + 1, pos + n)
  BY <1>1 DEF Bytes
<1>3. SubSeq(input, pos + 1, pos + n) \in Seq(Octets) /\ Len(SubSeq(input, pos + 1, pos + n)) = n
  OBVIOUS
<1>4. ASSUME NEW d \in Seq(Octets), Holds(input, pos, d), Len(d) = n
      PROVE  SubSeq(input, pos + 1, pos + n) = d
  BY <1>4, SliceHolds
<1> QED
  BY <1>1, <1>2, <1>3, <1>4

\* The words of a header are at 0, 4, 8 and 12.
LEMMA ReadsNumber ==
  ASSUME input \in Seq(Octets), pos \in Nat, lowFirst \in BOOLEAN,
         pos + PCAP_PKT_HDR_SIZE <= Len(input),
         NEW k \in 1..4
  PROVE  /\ Number(k) \in Words
         /\ \A v \in Words :
              Holds(input, pos + (k-1) * WordSize, U32(lowFirst, v)) => Number(k) = v
<1> DEFINE n == PCAP_PKT_HDR_SIZE
           h == Bytes(n)
           p == (k-1) * WordSize
           b == SubSeq(h, 4*k - 3, 4*k)
<1>1. n \in Nat /\ p \in Nat /\ p + WordSize <= n /\ 4*k - 3 = p + 1 /\ 4*k = p + WordSize
  BY DEF PCAP_PKT_HDR_SIZE, WordSize
<1>2. /\ h = SubSeq(input, pos + 1, pos + n)
      /\ h \in Seq(Octets)
      /\ Len(h) = n
  BY <1>1, BytesRead
<1>3. Number(k) = IF lowFirst
                  THEN b[1] + 256 * (b[2] + 256 * (b[3] + 256 * b[4]))
                  ELSE b[4] + 256 * (b[3] + 256 * (b[2] + 256 * b[1]))
  BY DEF Number
<1>4. b = SubSeq(h, p + 1, p + WordSize)
  BY <1>1
<1> HIDE DEF n, h, p, b
<1>5. b[1] \in Octets /\ b[2] \in Octets /\ b[3] \in Octets /\ b[4] \in Octets
  <2>1. \A i \in 1..4 : p + i \in 1..n /\ b[i] = h[p + i]
    BY <1>1, <1>2, <1>4 DEF WordSize
  <2>2. \A i \in 1..n : h[i] \in Octets
    BY <1>1, <1>2
  <2> QED
    BY <2>1, <2>2
<1>6. Number(k) \in Words
  BY <1>3, <1>5, JoinWord
<1>7. ASSUME NEW v \in Words, Holds(input, pos + p, U32(lowFirst, v))
      PROVE  Number(k) = v
  <2>1. U32(lowFirst, v) \in Seq(Octets) /\ Len(U32(lowFirst, v)) = WordSize
    BY SplitWord DEF U32
  <2>2. pos + n <= Len(input) /\ pos + n \in Nat
    BY <1>1 DEF n
  <2>3. Holds(h, p, U32(lowFirst, v))
    BY <1>1, <1>2, <1>7, <2>1, <2>2, SliceOfHolds
  <2>4. b = U32(lowFirst, v)
    <3>1. SubSeq(h, p + 1, p + Len(U32(lowFirst, v))) = U32(lowFirst, v)
      BY <1>1, <1>2, <2>1, <2>3, SliceHolds
    <3> QED
      BY <1>4, <2>1, <3>1
  <2>5. /\ Value(Low32(v)) = v
        /\ High32(v) = <<Low32(v)[4], Low32(v)[3], Low32(v)[2], Low32(v)[1]>>
    BY SplitWord
  <2>6. CASE lowFirst
    <3>1. b = Low32(v)
      BY <2>4, <2>6 DEF U32
    <3> QED
      BY <1>3, <2>5, <2>6, <3>1 DEF Value
  <2>7. CASE ~lowFirst
    <3>1. b = High32(v)
      BY <2>4, <2>7 DEF U32
    <3>2. b[1] = Low32(v)[4] /\ b[2] = Low32(v)[3] /\ b[3] = Low32(v)[2] /\ b[4] = Low32(v)[1]
      BY <2>5, <3>1
    <3> QED
      BY <1>3, <2>5, <2>7, <3>2 DEF Value
  <2> QED
    BY <2>6, <2>7
<1> QED
  BY <1>6, <1>7 DEF p

\* Where the fields of a record are in the file.
LEMMA FieldsInFile ==
  ASSUME NEW c, IsCapture(c), c.extra = 0, NEW k \in 1..Len(c.records)
  PROVE  LET r   == c.records[k]
             at  == EndOf(c, k-1)
             low == LowFirst(c.magic)
         IN  /\ at \in Nat
             /\ r.sec \in Words /\ r.frac \in Words /\ r.orig \in Words
             /\ Len(r.data) \in Words /\ r.data \in Seq(Octets)
             /\ Holds(Whole(c), at, U32(low, r.sec))
             /\ Holds(Whole(c), at + WordSize, U32(low, r.frac))
             /\ Holds(Whole(c), at + 2 * WordSize, U32(low, Len(r.data)))
             /\ Holds(Whole(c), at + 3 * WordSize, U32(low, r.orig))
             /\ Holds(Whole(c), at + 4 * WordSize, r.data)
<1> DEFINE r   == c.records[k]
           at  == EndOf(c, k-1)
           low == LowFirst(c.magic)
           e   == EncodeRecord(low, r, Len(r.data))
           w   == Whole(c)
<1>1. k-1 \in 0..Len(c.records)
  BY DEF IsCapture
<1>2. at \in Nat
  BY <1>1, Ends
<1>3. r \in RawPackets /\ low \in BOOLEAN
  BY RecordsEncode
<1>4. /\ r.sec \in Words /\ r.frac \in Words /\ r.orig \in Words
      /\ Len(r.data) \in Words /\ r.data \in Seq(Octets)
  BY <1>3 DEF RawPackets
<1>5. RecordOf(c, k) = e
  <2>1. Len(r.data) + c.extra = Len(r.data)
    BY <1>4
  <2> QED
    BY <2>1 DEF RecordOf
<1>6. w \in Seq(Octets) /\ Holds(w, at, e)
  BY <1>5, Layout
<1>7. /\ e \in Seq(Octets)
      /\ Holds(e, 0, U32(low, r.sec))
      /\ Holds(e, WordSize, U32(low, r.frac))
      /\ Holds(e, 2 * WordSize, U32(low, Len(r.data)))
      /\ Holds(e, 3 * WordSize, U32(low, r.orig))
      /\ Holds(e, 4 * WordSize, r.data)
  BY <1>3, <1>4, RecordFields
<1>8. \A v \in Words : U32(low, v) \in Seq(Octets)
  BY SplitWord DEF U32
<1>9. WordSize \in Nat
  BY DEF WordSize
<1> DEFINE a == U32(low, r.sec)
           b == U32(low, r.frac)
           l == U32(low, Len(r.data))
           o == U32(low, r.orig)
           d == r.data
<1>10. a \in Seq(Octets) /\ b \in Seq(Octets) /\ l \in Seq(Octets) /\ o \in Seq(Octets) /\ d \in Seq(Octets)
  BY <1>4, <1>8
<1>11. /\ Holds(e, 0, a) /\ Holds(e, WordSize, b) /\ Holds(e, 2 * WordSize, l)
       /\ Holds(e, 3 * WordSize, o) /\ Holds(e, 4 * WordSize, d)
  BY <1>7
<1> HIDE DEF at, e, w, a, b, l, o, d
<1>12. ASSUME NEW u \in Seq(Octets), NEW x \in Nat, Holds(e, x, u)
       PROVE  Holds(w, at + x, u)
  BY <1>2, <1>6, <1>7, <1>12, HoldsTrans
<1>13. /\ 2 * WordSize \in Nat /\ 3 * WordSize \in Nat /\ 4 * WordSize \in Nat
       /\ at + 0 = at
  BY <1>2, <1>9
<1>14. /\ Holds(w, at, a) /\ Holds(w, at + WordSize, b) /\ Holds(w, at + 2 * WordSize, l)
       /\ Holds(w, at + 3 * WordSize, o) /\ Holds(w, at + 4 * WordSize, d)
  BY <1>9, <1>10, <1>11, <1>12, <1>13
<1> QED
  BY <1>2, <1>4, <1>14 DEF at, w, a, b, l, o, d

\* A header that is all there is the header of the next record.
LEMMA ReadsHeader ==
  ASSUME NEW c, IsCapture(c), c.extra = 0, input = Encode(c),
         lowFirst = LowFirst(c.magic),
         NEW k \in 0..Len(c.records), pos = EndOf(c, k),
         pos + PCAP_PKT_HDR_SIZE <= Len(input)
  PROVE  /\ k < Len(c.records)
         /\ Number(1) = c.records[k+1].sec
         /\ Number(2) = c.records[k+1].frac
         /\ Number(3) = Len(c.records[k+1].data)
         /\ Number(4) = c.records[k+1].orig
<1> DEFINE n == Len(c.records)
           r == c.records[k+1]
<1>1. n \in Nat /\ lowFirst \in BOOLEAN
  BY DEF IsCapture, LowFirst
<1>2. /\ input \in Seq(Octets) /\ Len(input) <= EndOf(c, n)
      /\ \A o \in Nat, u \in Seq(Octets) :
           Holds(Whole(c), o, u) /\ o + Len(u) <= Len(input) => Holds(input, o, u)
  BY InputHolds
<1>3. pos \in Nat /\ Len(input) \in Nat /\ PCAP_PKT_HDR_SIZE = 4 * WordSize /\ WordSize \in Nat \ {0}
  BY <1>2, Ends DEF PCAP_PKT_HDR_SIZE, WordSize
<1>4. k < n
  <2>1. k = n => pos = EndOf(c, n)
    OBVIOUS
  <2>2. EndOf(c, n) \in Nat
    BY <1>1, Ends
  <2>3. k # n
    BY <1>2, <1>3, <2>1, <2>2
  <2> QED
    BY <1>1, <2>3
<1>5. k+1 \in 1..n /\ (k+1) - 1 = k
  BY <1>1, <1>4
<1>6. /\ r.sec \in Words /\ r.frac \in Words /\ r.orig \in Words /\ Len(r.data) \in Words
      /\ Holds(Whole(c), pos, U32(lowFirst, r.sec))
      /\ Holds(Whole(c), pos + WordSize, U32(lowFirst, r.frac))
      /\ Holds(Whole(c), pos + 2 * WordSize, U32(lowFirst, Len(r.data)))
      /\ Holds(Whole(c), pos + 3 * WordSize, U32(lowFirst, r.orig))
  BY <1>5, FieldsInFile
<1>7. ASSUME NEW j \in 1..4, NEW v \in Words,
             Holds(Whole(c), pos + (j-1) * WordSize, U32(lowFirst, v))
      PROVE  Number(j) = v
  <2> DEFINE o == pos + (j-1) * WordSize
             u == U32(lowFirst, v)
  <2>1. u \in Seq(Octets) /\ Len(u) = WordSize
    BY SplitWord DEF U32
  <2>2. o \in Nat /\ o + WordSize <= Len(input)
    BY <1>3 DEF PCAP_PKT_HDR_SIZE, WordSize
  <2>3. Holds(Whole(c), o, u)
    BY <1>7
  <2> HIDE DEF o, u
  <2>4. Holds(input, o, u)
    BY <1>2, <2>1, <2>2, <2>3
  <2> QED
    BY <1>1, <1>2, <1>3, <2>4, ReadsNumber DEF o, u
<1>8. /\ pos + (1-1) * WordSize = pos
      /\ pos + (2-1) * WordSize = pos + WordSize
      /\ pos + (3-1) * WordSize = pos + 2 * WordSize
      /\ pos + (4-1) * WordSize = pos + 3 * WordSize
  BY <1>3
<1> HIDE DEF r
<1>9. Number(1) = r.sec
  BY <1>6, <1>7, <1>8
<1>10. Number(2) = r.frac
  BY <1>6, <1>7, <1>8
<1>11. Number(3) = Len(r.data)
  BY <1>6, <1>7, <1>8
<1>12. Number(4) = r.orig
  BY <1>6, <1>7, <1>8
<1> QED
  BY <1>4, <1>9, <1>10, <1>11, <1>12 DEF r

\* Data that is all there is the data of that record.
LEMMA ReadsItsData ==
  ASSUME NEW c, IsCapture(c), c.extra = 0, input = Encode(c),
         NEW k \in 1..Len(c.records),
         pos = EndOf(c, k-1) + PCAP_PKT_HDR_SIZE,
         pos + Len(c.records[k].data) <= Len(input)
  PROVE  Bytes(Len(c.records[k].data)) = c.records[k].data
<1> DEFINE d == c.records[k].data
<1>1. /\ input \in Seq(Octets)
      /\ \A o \in Nat, u \in Seq(Octets) :
           Holds(Whole(c), o, u) /\ o + Len(u) <= Len(input) => Holds(input, o, u)
  BY InputHolds
<1>2. /\ EndOf(c, k-1) \in Nat
      /\ d \in Seq(Octets)
      /\ Holds(Whole(c), EndOf(c, k-1) + 4 * WordSize, d)
  BY FieldsInFile
<1>3. pos \in Nat /\ pos = EndOf(c, k-1) + 4 * WordSize
  BY <1>2 DEF PCAP_PKT_HDR_SIZE, WordSize
<1> HIDE DEF d
<1>4. Len(d) \in Nat
  BY <1>2
<1>5. Holds(input, pos, d)
  BY <1>1, <1>2, <1>3 DEF d
<1> QED
  BY <1>1, <1>2, <1>3, <1>4, <1>5, BytesRead DEF d

-----------------------------------------------------------------------------
(* The inductive invariant *)

\* What the input of this run is made of.
Source == IF run = 1 THEN capture ELSE Written(before)

Types ==
  /\ capture \in Captures
  /\ run \in {1, 2}
  /\ pos \in Nat
  /\ lowFirst \in BOOLEAN
  /\ pc \in {"open", "create", "header", "data", "packet", "end", "raised"}
  /\ header \in [sec : Words, frac : Words, incl : Words, orig : Words]
  /\ got \in Seq(RawPackets)
  /\ kept \in Seq(RawPackets)
  /\ before \in Seq(RawPackets)
  /\ pc = "packet" => got # <<>>

InFile == input = Encode(Source) /\ pos <= Len(input)

\* The output is a file of the packets that were kept, once it is created.
OutputIsFile ==
  /\ pc \in {"open", "create"} => output = <<>> /\ kept = <<>>
  /\ pc \in {"header", "data", "packet"} => output = Encode(Written(kept))
  /\ pc \in {"end", "raised"} => output \in {<<>>, Encode(Written(kept))}

Known(magic) == magic \in {MICRO_LOW, NANO_LOW, MICRO_HIGH}

\* The reader has understood the header of the file, and has returned its
\* first records.
FirstRecords ==
  /\ Known(Source.magic)
  /\ lowFirst = LowFirst(Source.magic)
  /\ Len(got) <= Len(Source.records)
  /\ \A k \in 1..Len(got) : got[k] = Source.records[k]

\* The header of the next record has been read.
NextHeader ==
  /\ Len(got) < Len(Source.records)
  /\ LET r == Source.records[Len(got) + 1]
     IN  header = [sec |-> r.sec, frac |-> r.frac, incl |-> Len(r.data), orig |-> r.orig]

\* Where the reader stands in a file that has the right lengths, and why it
\* has come to an end.
ReaderInPlace ==
  /\ pc = "open" => pos = 0 /\ got = <<>>
  /\ pc \in {"create", "header", "data", "packet", "end"} => FirstRecords
  /\ pc = "create" => got = <<>>
  /\ pc \in {"create", "header", "packet"} => pos = EndOf(Source, Len(got))
  /\ pc = "data" => NextHeader /\ pos = EndOf(Source, Len(got)) + PCAP_PKT_HDR_SIZE
  /\ pc = "end" => Len(input) = EndOf(Source, Len(got))
  /\ pc = "raised" =>
       \/ got = <<>> /\ Len(input) < PCAP_GLOBAL_HDR_SIZE
       \/ got = <<>> /\ ~Known(Source.magic)
       \/ /\ FirstRecords
          /\ Len(got) < Len(Source.records)
          /\ EndOf(Source, Len(got)) < Len(input)
          /\ Len(input) < EndOf(Source, Len(got) + 1)

Inv ==
  /\ Types
  /\ InFile
  /\ OutputIsFile
  /\ Source.extra = 0 => ReaderInPlace

\* Both runs read a capture: the one given, then the one written.
LEMMA SourceIsCapture ==
  ASSUME Types
  PROVE  IsCapture(Source)
<1>1. CASE run = 1
  BY <1>1, CapturesAssumption DEF Source, Types
<1>2. CASE run # 1
  BY <1>2, WrittenIsCapture DEF Source, Types
<1> QED
  BY <1>1, <1>2

\* The bytes are octets, no more of them than the records take.
LEMMA InputBytes ==
  ASSUME Types, InFile
  PROVE  /\ input \in Seq(Octets)
         /\ Len(input) \in Nat
         /\ Len(input) <= EndOf(Source, Len(Source.records))
         /\ Len(Source.records) \in Nat
         /\ \A k \in 0..Len(Source.records) : EndOf(Source, k) \in Nat
         /\ PCAP_GLOBAL_HDR_SIZE \in Nat /\ PCAP_PKT_HDR_SIZE \in Nat
<1>1. IsCapture(Source)
  BY SourceIsCapture
<1>2. Encode(Source) \in Seq(Octets) /\ Len(Encode(Source)) <= EndOf(Source, Len(Source.records))
  BY <1>1, InputHolds
<1>3. input = Encode(Source)
  BY DEF InFile
<1>4. Len(Source.records) \in Nat
  BY <1>1 DEF IsCapture
<1>5. \A k \in 0..Len(Source.records) : EndOf(Source, k) \in Nat
  BY <1>1, Ends
<1> HIDE DEF Source
<1> QED
  BY <1>2, <1>3, <1>4, <1>5 DEF PCAP_GLOBAL_HDR_SIZE, PCAP_PKT_HDR_SIZE

\* Reading moves the reader forward, at most to the end.
LEMMA LeftInFile ==
  ASSUME Types, InFile, NEW n \in Nat
  PROVE  /\ Left(n) \in 0..n
         /\ pos + Left(n) \in Nat /\ pos + Left(n) <= Len(input)
         /\ Left(n) = n <=> pos + n <= Len(input)
         /\ Left(n) < n => pos + Left(n) = Len(input)
<1>1. pos \in Nat /\ Len(input) \in Nat /\ pos <= Len(input)
  BY InputBytes DEF Types, InFile
<1> QED
  BY <1>1 DEF Left

\* The invariant holds at the start ...
LEMMA InitInv == Init => Inv
<1> SUFFICES ASSUME Init PROVE Inv
  OBVIOUS
<1>1. Source = capture
  BY DEF Init, Source
<1>2. Types
  <2>1. 0 \in Words
    BY DEF Words, Octets
  <2>2. <<>> \in Seq(RawPackets)
    OBVIOUS
  <2> QED
    BY <2>1, <2>2 DEF Init, Types, NoHeader
<1>3. InFile
  <2>1. Encode(capture) \in Seq(Octets)
    BY <1>1, <1>2, SourceIsCapture, InputHolds
  <2>2. Len(Encode(capture)) \in Nat
    BY <2>1
  <2> QED
    BY <1>1, <2>2 DEF Init, InFile
<1>4. OutputIsFile
  BY DEF Init, OutputIsFile
<1>5. ReaderInPlace
  BY DEF Init, ReaderInPlace
<1> QED
  BY <1>2, <1>3, <1>4, <1>5 DEF Inv

\* The magic number of a file that has a whole header.
LEMMA ReadsMagic ==
  ASSUME Types, InFile, pos = 0, PCAP_GLOBAL_HDR_SIZE <= Len(input)
  PROVE  Bytes(4) = Source.magic
<1>1. IsCapture(Source)
  BY SourceIsCapture
<1> DEFINE m == Source.magic
<1>2. m \in Seq(Octets) /\ Len(m) = WordSize /\ Holds(Whole(Source), 0, m)
  BY <1>1, HeaderFields, Layout
<1>3. input \in Seq(Octets)
  BY InputBytes
<1>4. \A o \in Nat, u \in Seq(Octets) :
        Holds(Whole(Source), o, u) /\ o + Len(u) <= Len(input) => Holds(input, o, u)
  BY <1>1, InputHolds DEF InFile
<1>5. WordSize \in Nat /\ 0 + WordSize <= PCAP_GLOBAL_HDR_SIZE /\ PCAP_GLOBAL_HDR_SIZE \in Nat
  BY DEF WordSize, PCAP_GLOBAL_HDR_SIZE
<1> HIDE DEF m
<1>6. 0 + WordSize <= Len(input)
  BY <1>3, <1>5
<1>7. Holds(input, 0, m)
  BY <1>2, <1>4, <1>6
<1>8. Bytes(WordSize) = m
  BY <1>2, <1>3, <1>5, <1>6, <1>7, BytesRead
<1> QED
  BY <1>8 DEF m, WordSize

\* ... and every step keeps it: opening the input, ...
LEMMA OpenInputInv ==
  ASSUME Inv, OpenInput
  PROVE  Inv'
<1> DEFINE n == PCAP_GLOBAL_HDR_SIZE
<1> USE DEF Inv
<1>1. /\ pc = "open" /\ pos' = pos + Left(n)
      /\ UNCHANGED <<capture, run, input, output, kept, before, header, got>>
  BY DEF OpenInput, Leave
<1>2. Source' = Source
  BY <1>1 DEF Source
<1>3. n \in Nat
  BY InputBytes
<1>4. /\ Left(n) \in 0..n
      /\ pos + Left(n) \in Nat /\ pos + Left(n) <= Len(input)
      /\ Left(n) = n <=> pos + n <= Len(input)
  BY <1>3, LeftInFile
<1>5. \/ pc' = "raised" /\ lowFirst' = lowFirst /\ (Left(n) < n \/ ~Known(Bytes(4)))
      \/ pc' = "create" /\ Left(n) = n /\ Known(Bytes(4)) /\ lowFirst' = (Bytes(4) # MICRO_HIGH)
  BY DEF OpenInput, Leave, Known
<1>6. Types'
  BY <1>1, <1>4, <1>5 DEF Types
<1>7. InFile'
  BY <1>1, <1>2, <1>4 DEF InFile
<1>8. OutputIsFile'
  BY <1>1, <1>5 DEF OutputIsFile
<1>9. ASSUME Source.extra = 0 PROVE ReaderInPlace'
  <2>1. pos = 0 /\ got = <<>>
    BY <1>1, <1>9 DEF ReaderInPlace
  <2>2. Len(input) \in Nat /\ Len(Source.records) \in Nat
    BY InputBytes
  <2>3. CASE pc' = "raised"
    <3>1. Len(input) < n \/ ~Known(Source.magic)
      BY <1>3, <1>4, <1>5, <2>1, <2>2, <2>3, ReadsMagic
    <3> QED
      BY <1>1, <1>2, <2>1, <2>3, <3>1 DEF ReaderInPlace
  <2>4. CASE pc' = "create"
    <3>1. Bytes(4) = Source.magic /\ Left(n) = n
      BY <1>3, <1>4, <1>5, <2>1, <2>2, <2>4, ReadsMagic
    <3>2. Known(Source.magic) /\ lowFirst' = LowFirst(Source.magic)
      BY <1>5, <2>4, <3>1 DEF Known, LowFirst, MICRO_LOW, MICRO_HIGH, NANO_LOW
    <3>3. EndOf(Source, 0) = n
      BY SourceIsCapture, Ends
    <3>4. FirstRecords'
      BY <1>1, <1>2, <2>1, <2>2, <3>2 DEF FirstRecords
    <3>5. pos' = EndOf(Source, Len(got))
      BY <1>1, <1>3, <2>1, <3>1, <3>3
    <3> QED
      BY <1>1, <1>2, <2>1, <2>4, <3>4, <3>5 DEF ReaderInPlace
  <2> QED
    BY <1>5, <2>3, <2>4
<1> QED
  BY <1>2, <1>6, <1>7, <1>8, <1>9

\* ... creating the output, ...
LEMMA CreateOutputInv ==
  ASSUME Inv, CreateOutput
  PROVE  Inv'
<1> USE DEF Inv
<1>1. /\ pc = "create" /\ pc' = "header" /\ output' = GlobalHeader(MICRO_LOW)
      /\ UNCHANGED <<capture, run, input, pos, lowFirst, header, got, kept, before>>
  BY DEF CreateOutput
<1>2. Source' = Source
  BY <1>1 DEF Source
<1>3. Types'
  BY <1>1 DEF Types
<1>4. InFile'
  BY <1>1, <1>2 DEF InFile
<1>5. OutputIsFile'
  BY <1>1, WrittenFirst DEF OutputIsFile
<1>6. ASSUME Source.extra = 0 PROVE ReaderInPlace'
  <2>1. FirstRecords /\ pos = EndOf(Source, Len(got))
    BY <1>1, <1>6 DEF ReaderInPlace
  <2>2. FirstRecords'
    BY <1>1, <1>2, <2>1 DEF FirstRecords
  <2> QED
    BY <1>1, <1>2, <2>1, <2>2 DEF ReaderInPlace
<1> QED
  BY <1>2, <1>3, <1>4, <1>5, <1>6

\* ... reading the header of a record, ...
LEMMA ReadHeaderInv ==
  ASSUME Inv, ReadHeader
  PROVE  Inv'
<1> DEFINE n == PCAP_PKT_HDR_SIZE
           k == Len(got)
<1> USE DEF Inv
<1>1. /\ pc = "header" /\ pos' = pos + Left(n)
      /\ UNCHANGED <<capture, run, input, output, kept, before, lowFirst, got>>
  BY DEF ReadHeader, Leave
<1>2. Source' = Source
  BY <1>1 DEF Source
<1>3. n \in Nat \ {0} /\ input \in Seq(Octets)
  BY InputBytes DEF PCAP_PKT_HDR_SIZE
<1>4. /\ Left(n) \in 0..n
      /\ pos + Left(n) \in Nat /\ pos + Left(n) <= Len(input)
      /\ Left(n) = n <=> pos + n <= Len(input)
      /\ Left(n) < n => pos + Left(n) = Len(input)
  BY <1>3, LeftInFile
<1>5. \/ pc' = "end" /\ header' = header /\ Left(n) = 0
      \/ pc' = "raised" /\ header' = header /\ Left(n) # 0 /\ Left(n) # n
      \/ /\ pc' = "data" /\ Left(n) = n
         /\ header' = [sec |-> Number(1), frac |-> Number(2),
                       incl |-> Number(3), orig |-> Number(4)]
  BY <1>3 DEF ReadHeader, Leave
<1>6. pos \in Nat /\ lowFirst \in BOOLEAN /\ k \in Nat
  BY DEF Types
<1>7. Types'
  <2>1. header' \in [sec : Words, frac : Words, incl : Words, orig : Words]
    <3>1. CASE header' = header
      BY <3>1 DEF Types
    <3>2. CASE header' # header
      <4>1. pos + n <= Len(input)
        BY <1>4, <1>5, <3>2
      <4>2. \A j \in 1..4 : Number(j) \in Words
        BY <1>3, <1>6, <4>1, ReadsNumber
      <4> QED
        BY <1>5, <3>2, <4>2
    <3> QED
      BY <3>1, <3>2
  <2> QED
    BY <1>1, <1>4, <1>5, <2>1 DEF Types
<1>8. InFile'
  BY <1>1, <1>2, <1>4 DEF InFile
<1>9. OutputIsFile'
  BY <1>1, <1>5 DEF OutputIsFile
<1>10. ASSUME Source.extra = 0 PROVE ReaderInPlace'
  <2> DEFINE m == Len(Source.records)
  <2>1. FirstRecords /\ pos = EndOf(Source, k)
    BY <1>1, <1>10 DEF ReaderInPlace
  <2>2. FirstRecords'
    BY <1>1, <1>2, <2>1 DEF FirstRecords
  <2>3. /\ m \in Nat /\ Len(input) \in Nat /\ Len(input) <= EndOf(Source, m)
        /\ \A j \in 0..m : EndOf(Source, j) \in Nat
    BY InputBytes
  <2>4. IsCapture(Source) /\ k \in 0..m
    BY <1>6, <2>1, <2>3, SourceIsCapture DEF FirstRecords
  <2>5. Len(got') = k
    BY <1>1
  <2>6. CASE pc' = "end"
    <3>1. Len(input) = EndOf(Source, k)
      BY <1>3, <1>4, <1>5, <1>6, <2>1, <2>3, <2>6
    <3> QED
      BY <1>1, <1>2, <2>2, <2>6, <3>1 DEF ReaderInPlace
  <2>7. CASE pc' = "raised"
    <3>1. EndOf(Source, k) < Len(input) /\ Len(input) < EndOf(Source, k) + n
      BY <1>3, <1>4, <1>5, <1>6, <2>1, <2>3, <2>7
    <3>2. k < m
      BY <2>3, <2>4, <3>1
    <3>3. EndOf(Source, k) + n <= EndOf(Source, k+1)
      BY <2>3, <2>4, <3>2, EndsGrow
    <3>4. EndOf(Source, k+1) \in Nat /\ EndOf(Source, k) \in Nat
      BY <2>3, <2>4, <3>2
    <3>5. Len(input) < EndOf(Source, k+1)
      BY <1>3, <2>3, <3>1, <3>3, <3>4
    <3> QED
      BY <1>1, <1>2, <2>2, <2>5, <2>7, <3>1, <3>2, <3>5 DEF ReaderInPlace
  <2>8. CASE pc' = "data"
    <3>1. pos + n <= Len(input)
      BY <1>4, <1>5, <2>8
    <3>2. lowFirst = LowFirst(Source.magic) /\ input = Encode(Source)
      BY <2>1 DEF FirstRecords, InFile
    <3>3. /\ k < m
          /\ Number(1) = Source.records[k+1].sec
          /\ Number(2) = Source.records[k+1].frac
          /\ Number(3) = Len(Source.records[k+1].data)
          /\ Number(4) = Source.records[k+1].orig
      BY <1>10, <2>1, <2>4, <3>1, <3>2, ReadsHeader
    <3>4. NextHeader'
      BY <1>1, <1>2, <1>5, <2>8, <3>3 DEF NextHeader
    <3>5. pos' = EndOf(Source, k) + n
      BY <1>1, <1>5, <2>1, <2>8
    <3> QED
      BY <1>1, <1>2, <2>2, <2>8, <3>4, <3>5 DEF ReaderInPlace
  <2> QED
    BY <1>5, <2>6, <2>7, <2>8
<1> QED
  BY <1>2, <1>7, <1>8, <1>9, <1>10

\* ... or its data, ...
LEMMA ReadDataInv ==
  ASSUME Inv, ReadData
  PROVE  Inv'
<1> DEFINE n == header.incl
           k == Len(got)
           new == [sec |-> header.sec, frac |-> header.frac,
                   orig |-> header.orig, data |-> Bytes(n)]
<1> USE DEF Inv
<1>1. /\ pc = "data" /\ pos' = pos + Left(n)
      /\ UNCHANGED <<capture, run, input, output, kept, before, lowFirst, header>>
  BY DEF ReadData, Leave
<1>2. Source' = Source
  BY <1>1 DEF Source
<1>3. n \in Words /\ n \in Nat /\ input \in Seq(Octets)
  BY InputBytes DEF Types, Words
<1>4. /\ Left(n) \in 0..n
      /\ pos + Left(n) \in Nat /\ pos + Left(n) <= Len(input)
      /\ Left(n) = n <=> pos + n <= Len(input)
      /\ Left(n) < n => pos + Left(n) = Len(input)
  BY <1>3, LeftInFile
<1>5. \/ pc' = "raised" /\ got' = got /\ Left(n) # n
      \/ pc' = "packet" /\ got' = Append(got, new) /\ Left(n) = n
  BY <1>3 DEF ReadData, Leave
<1>6. pos \in Nat /\ got \in Seq(RawPackets) /\ k \in Nat
  BY DEF Types
<1>7. Left(n) = n => new \in RawPackets
  <2>1. ASSUME Left(n) = n PROVE Bytes(n) \in Seq(Octets) /\ Len(Bytes(n)) = n
    BY <1>3, <1>4, <1>6, <2>1, BytesRead
  <2>2. header \in [sec : Words, frac : Words, incl : Words, orig : Words]
    BY DEF Types
  <2> QED
    BY <1>3, <2>1, <2>2 DEF RawPackets
<1> HIDE DEF new
<1>8. got' \in Seq(RawPackets) /\ (pc' = "packet" => got' # <<>>)
  BY <1>5, <1>6, <1>7
<1>9. Types'
  BY <1>1, <1>4, <1>5, <1>8 DEF Types
<1>10. InFile'
  BY <1>1, <1>2, <1>4 DEF InFile
<1>11. OutputIsFile'
  BY <1>1, <1>5 DEF OutputIsFile
<1>12. ASSUME Source.extra = 0 PROVE ReaderInPlace'
  <2> DEFINE m == Len(Source.records)
             r == Source.records[k+1]
  <2>1. FirstRecords /\ NextHeader /\ pos = EndOf(Source, k) + PCAP_PKT_HDR_SIZE
    BY <1>1, <1>12 DEF ReaderInPlace
  <2>2. /\ m \in Nat /\ Len(input) \in Nat
        /\ \A j \in 0..m : EndOf(Source, j) \in Nat
        /\ PCAP_PKT_HDR_SIZE \in Nat \ {0}
    BY InputBytes DEF PCAP_PKT_HDR_SIZE
  <2>3. k+1 \in 1..m /\ k \in 0..m /\ k+1 \in 0..m /\ (k+1) - 1 = k
    BY <1>6, <2>1, <2>2 DEF NextHeader
  <2>4. header = [sec |-> r.sec, frac |-> r.frac, incl |-> Len(r.data), orig |-> r.orig]
    BY <2>1 DEF NextHeader
  <2>5. r \in RawPackets /\ n = Len(r.data)
    BY <2>3, <2>4, SourceIsCapture, RecordsEncode
  <2>6. EndOf(Source, k+1) = EndOf(Source, k) + PCAP_PKT_HDR_SIZE + n
    BY <2>3, <2>5, SourceIsCapture, Ends
  <2>7. EndOf(Source, k) \in Nat
    BY <2>2, <2>3
  <2>8. CASE pc' = "raised"
    <3>1. EndOf(Source, k) < Len(input) /\ Len(input) < EndOf(Source, k+1)
      BY <1>3, <1>4, <1>5, <1>6, <2>1, <2>2, <2>6, <2>7, <2>8
    <3>2. got' = got
      BY <1>5, <2>8
    <3>3. FirstRecords'
      BY <1>1, <1>2, <2>1, <3>2 DEF FirstRecords
    <3> QED
      BY <1>2, <1>1, <2>3, <2>8, <3>1, <3>2, <3>3 DEF ReaderInPlace
  <2>9. CASE pc' = "packet"
    <3>1. got' = Append(got, new) /\ Left(n) = n /\ pos + n <= Len(input)
      BY <1>4, <1>5, <2>9
    <3>2. Bytes(n) = r.data
      BY <1>12, <2>1, <2>3, <2>5, <3>1, SourceIsCapture, ReadsItsData DEF InFile
    <3>3. new = r
      BY <2>4, <2>5, <3>2 DEF new, RawPackets
    <3>4. Len(got') = k+1 /\ got'[k+1] = r /\ \A j \in 1..k : got'[j] = got[j]
      <4> HIDE DEF r
      <4> QED
        BY <1>6, <3>1, <3>3
    <3>5. FirstRecords'
      <4>1. \A j \in 1..(k+1) : j = k+1 \/ j \in 1..k
        BY <1>6
      <4> QED
        BY <1>1, <1>2, <2>1, <2>3, <3>4, <4>1 DEF FirstRecords
    <3>6. pos' = EndOf(Source, k+1)
      BY <1>1, <2>1, <2>6, <3>1
    <3> QED
      BY <1>1, <1>2, <2>9, <3>4, <3>5, <3>6 DEF ReaderInPlace
  <2> QED
    BY <1>5, <2>8, <2>9
<1> QED
  BY <1>2, <1>9, <1>10, <1>11, <1>12

\* ... writing the packet ...
LEMMA WritePacketInv ==
  ASSUME Inv, WritePacket
  PROVE  Inv'
<1> USE DEF Inv
<1>1. /\ pc = "packet" /\ pc' = "header"
      /\ output' = output \o EncodeRecord(TRUE, RawPacket, Len(RawPacket.data))
      /\ kept' = Append(kept, RawPacket)
      /\ UNCHANGED <<capture, run, input, pos, lowFirst, header, got, before>>
  BY DEF WritePacket
<1>2. Source' = Source
  BY <1>1 DEF Source
<1>3. RawPacket \in RawPackets
  <2>1. got \in Seq(RawPackets) /\ got # <<>>
    BY <1>1 DEF Types
  <2> QED
    BY <2>1 DEF RawPacket
<1>4. kept \in Seq(RawPackets)
  BY DEF Types
<1>5. Types'
  BY <1>1, <1>3, <1>4 DEF Types
<1>6. InFile'
  BY <1>1, <1>2 DEF InFile
<1>7. OutputIsFile'
  <2>1. output = Encode(Written(kept))
    BY <1>1 DEF OutputIsFile
  <2>2. output' = Encode(Written(kept'))
    BY <1>1, <1>3, <1>4, <2>1, WrittenGrows
  <2> QED
    BY <1>1, <2>2 DEF OutputIsFile
<1>8. ASSUME Source.extra = 0 PROVE ReaderInPlace'
  <2>1. FirstRecords /\ pos = EndOf(Source, Len(got))
    BY <1>1, <1>8 DEF ReaderInPlace
  <2>2. FirstRecords'
    BY <1>1, <1>2, <2>1 DEF FirstRecords
  <2> QED
    BY <1>1, <1>2, <2>1, <2>2 DEF ReaderInPlace
<1> QED
  BY <1>2, <1>5, <1>6, <1>7, <1>8

\* ... or leaving it out.
LEMMA SkipPacketInv ==
  ASSUME Inv, SkipPacket
  PROVE  Inv'
<1> USE DEF Inv
<1>1. /\ pc = "packet" /\ pc' = "header"
      /\ UNCHANGED <<capture, run, input, pos, lowFirst, header, got, output, kept, before>>
  BY DEF SkipPacket
<1>2. Source' = Source
  BY <1>1 DEF Source
<1>3. Types'
  BY <1>1 DEF Types
<1>4. InFile'
  BY <1>1, <1>2 DEF InFile
<1>5. OutputIsFile'
  BY <1>1 DEF OutputIsFile
<1>6. ASSUME Source.extra = 0 PROVE ReaderInPlace'
  <2>1. FirstRecords /\ pos = EndOf(Source, Len(got))
    BY <1>1, <1>6 DEF ReaderInPlace
  <2>2. FirstRecords'
    BY <1>1, <1>2, <2>1 DEF FirstRecords
  <2> QED
    BY <1>1, <1>2, <2>1, <2>2 DEF ReaderInPlace
<1> QED
  BY <1>2, <1>3, <1>4, <1>5, <1>6

\* The second run begins on a file of what the first one kept.
LEMMA AgainInv ==
  ASSUME Inv, Again
  PROVE  Inv'
<1> USE DEF Inv
<1>1. /\ Ended /\ run = 1 /\ output # <<>>
      /\ run' = 2 /\ input' = output /\ pos' = 0
      /\ lowFirst' = TRUE /\ header' = NoHeader /\ pc' = "open"
      /\ before' = kept
      /\ got' = <<>> /\ output' = <<>> /\ kept' = <<>>
      /\ capture' = capture
  BY DEF Again
<1>2. Source' = Written(kept)
  BY <1>1 DEF Source
<1>3. kept \in Seq(RawPackets)
  BY DEF Types
<1>4. Types'
  <2>1. 0 \in Words
    BY DEF Words, Octets
  <2>2. <<>> \in Seq(RawPackets)
    OBVIOUS
  <2> QED
    BY <1>1, <1>3, <2>1, <2>2 DEF Types, NoHeader
<1>5. input' = Encode(Written(kept))
  BY <1>1 DEF Ended, OutputIsFile
<1>6. InFile'
  <2>1. Encode(Written(kept)) \in Seq(Octets)
    BY <1>3, WrittenIsCapture, InputHolds
  <2>2. Len(Encode(Written(kept))) \in Nat
    BY <2>1
  <2> QED
    BY <1>1, <1>2, <1>5, <2>2 DEF InFile
<1>7. OutputIsFile'
  BY <1>1 DEF OutputIsFile
<1>8. ReaderInPlace'
  BY <1>1 DEF ReaderInPlace
<1> QED
  BY <1>4, <1>6, <1>7, <1>8

\* What the reader and the writer have in hand is always a part of the file.
THEOREM FileInvariant == Spec => []Inv
<1>1. Inv /\ [Next]_vars => Inv'
  <2> SUFFICES ASSUME Inv, [Next]_vars PROVE Inv'
    OBVIOUS
  <2>1. CASE OpenInput
    BY <2>1, OpenInputInv
  <2>2. CASE CreateOutput
    BY <2>2, CreateOutputInv
  <2>3. CASE ReadHeader
    BY <2>3, ReadHeaderInv
  <2>4. CASE ReadData
    BY <2>4, ReadDataInv
  <2>5. CASE WritePacket
    BY <2>5, WritePacketInv
  <2>6. CASE SkipPacket
    BY <2>6, SkipPacketInv
  <2>7. CASE Again
    BY <2>7, AgainInv
  <2>8. CASE Finished \/ UNCHANGED vars
    <3>1. UNCHANGED vars
      BY <2>8 DEF Finished
    <3> QED
      BY <3>1 DEF vars, Inv, Types, InFile, OutputIsFile, ReaderInPlace,
                  FirstRecords, NextHeader, Source
  <2> QED
    BY <2>1, <2>2, <2>3, <2>4, <2>5, <2>6, <2>7, <2>8 DEF Next
<1> QED
  BY <1>1, InitInv, PTL DEF Spec

-----------------------------------------------------------------------------
(* Theorems *)

(***************************************************************************)
(* Of every readable capture with right lengths, however long its records  *)
(* are and wherever it breaks off, the reader returns the whole records    *)
(* and no other, and ends with an error exactly if something is missing.   *)
(***************************************************************************)
THEOREM ReadsEveryCapture == Spec => []ReadsWholeRecords
<1>1. Inv => ReadsWholeRecords
  <2> DEFINE n == Len(capture.records)
             g == Len(got)
             ends  == [k \in 0..n |-> EndOf(capture, k)]
             whole == {k \in DOMAIN ends : ends[k] <= Len(input)}
  <2>1. SUFFICES ASSUME Inv, run = 1, Ended, capture.extra = 0
                 PROVE  /\ got = IF Readable
                                 THEN SubSeq(capture.records, 1, Cardinality(whole) - 1)
                                 ELSE <<>>
                        /\ (pc = "end") <=> (Readable /\ \E k \in whole : ends[k] = Len(input))
    BY DEF ReadsWholeRecords
  <2>2. Source = capture /\ ReaderInPlace
    BY <2>1 DEF Source, Inv
  <2>3. IsCapture(capture)
    BY <2>1, <2>2, SourceIsCapture DEF Inv
  <2>4. /\ n \in Nat /\ Len(input) \in Nat /\ PCAP_PKT_HDR_SIZE \in Nat \ {0}
        /\ \A k \in 0..n : EndOf(capture, k) \in Nat
        /\ EndOf(capture, 0) = PCAP_GLOBAL_HDR_SIZE
    BY <2>1, <2>2, <2>3, InputBytes, Ends DEF Inv, PCAP_PKT_HDR_SIZE
  <2>5. got \in Seq(RawPackets) /\ capture.records \in Seq(RawPackets) /\ g \in Nat
    BY <2>1, <2>3 DEF Inv, Types, IsCapture
  <2>6. whole = {k \in 0..n : EndOf(capture, k) <= Len(input)}
    OBVIOUS
  <2>e. \A k \in 0..n : ends[k] = EndOf(capture, k)
    OBVIOUS
  <2>7. \A j, k \in 0..n : j < k => EndOf(capture, j) < EndOf(capture, k)
    <3>1. SUFFICES ASSUME NEW j \in 0..n, NEW k \in 0..n, j < k
                   PROVE  EndOf(capture, j) < EndOf(capture, k)
      OBVIOUS
    <3>2. EndOf(capture, j) + PCAP_PKT_HDR_SIZE <= EndOf(capture, k)
      BY <2>3, <3>1, EndsGrow
    <3> QED
      BY <2>4, <3>2
  <2>8. Readable <=> Known(Source.magic)
    BY <2>2 DEF Readable, Known
  <2>9. (pc = "end") <=> ~(pc = "raised")
    BY <2>1 DEF Ended
  <2> HIDE DEF whole, ends
  <2>10. ASSUME Known(Source.magic), g \in 0..n, \A k \in 1..g : got[k] = capture.records[k],
                EndOf(capture, g) <= Len(input),
                g < n => Len(input) < EndOf(capture, g+1)
         PROVE  /\ got = SubSeq(capture.records, 1, Cardinality(whole) - 1)
                /\ whole = 0..g
    <3>1. whole = 0..g
      <4>1. ASSUME NEW k \in 0..g PROVE k \in 0..n /\ EndOf(capture, k) <= Len(input)
        BY <2>4, <2>5, <2>7, <2>10
      <4>2. ASSUME NEW k \in 0..n, ~(k \in 0..g) PROVE ~(EndOf(capture, k) <= Len(input))
        <5>1. g < n /\ g+1 \in 0..n /\ (k = g+1 \/ g+1 < k)
          BY <2>4, <2>5, <2>10, <4>2
        <5> QED
          BY <2>4, <2>7, <2>10, <5>1
      <4> QED
        BY <2>6, <4>1, <4>2
    <3>2. Cardinality(whole) = g + 1
      BY <2>5, <3>1, FS_Interval
    <3>3. got = SubSeq(capture.records, 1, g)
      BY <2>5, <2>10
    <3> QED
      BY <2>5, <3>1, <3>2, <3>3
  <2>11. CASE pc = "end"
    <3>1. FirstRecords /\ Len(input) = EndOf(capture, g)
      BY <2>2, <2>11 DEF ReaderInPlace
    <3>2. /\ Known(Source.magic) /\ g \in 0..n
          /\ \A k \in 1..g : got[k] = capture.records[k]
      BY <2>2, <2>4, <2>5, <3>1 DEF FirstRecords
    <3>3. EndOf(capture, g) <= Len(input) /\ (g < n => Len(input) < EndOf(capture, g+1))
      <4>1. g < n => g+1 \in 0..n /\ g < g+1
        BY <2>4, <2>5
      <4> QED
        BY <2>4, <2>7, <3>1, <3>2, <4>1
    <3>4. got = SubSeq(capture.records, 1, Cardinality(whole) - 1) /\ whole = 0..g
      BY <2>10, <3>2, <3>3
    <3>5. g \in whole /\ ends[g] = Len(input)
      <4>1. g \in 0..g
        BY <2>5
      <4> QED
        BY <2>e, <3>1, <3>2, <3>4, <4>1
    <3> QED
      BY <2>8, <2>11, <3>2, <3>4, <3>5
  <2>12. CASE pc = "raised"
    <3>1. CASE got = <<>> /\ Len(input) < PCAP_GLOBAL_HDR_SIZE
      <4>1. whole = {}
        <5>1. ASSUME NEW k \in 0..n PROVE PCAP_GLOBAL_HDR_SIZE <= EndOf(capture, k)
          <6>1. 0 \in 0..n /\ (k = 0 \/ 0 < k)
            BY <2>4
          <6> QED
            BY <2>4, <2>7, <6>1
        <5> QED
          BY <2>4, <2>6, <3>1, <5>1
      <4>2. Cardinality(whole) - 1 = -1
        BY <4>1, FS_EmptySet
      <4>3. SubSeq(capture.records, 1, -1) = <<>>
        BY <2>5
      <4> QED
        BY <2>12, <3>1, <4>1, <4>2, <4>3
    <3>2. CASE got = <<>> /\ ~Known(Source.magic)
      BY <2>8, <2>12, <3>2
    <3>3. CASE /\ FirstRecords
               /\ g < n
               /\ EndOf(capture, g) < Len(input)
               /\ Len(input) < EndOf(capture, g+1)
      <4>1. /\ Known(Source.magic) /\ g \in 0..n
            /\ \A k \in 1..g : got[k] = capture.records[k]
        BY <2>2, <2>4, <2>5, <3>3 DEF FirstRecords
      <4>2. EndOf(capture, g) <= Len(input)
        BY <2>4, <3>3, <4>1
      <4>3. got = SubSeq(capture.records, 1, Cardinality(whole) - 1) /\ whole = 0..g
        BY <2>10, <3>3, <4>1, <4>2
      <4>4. ASSUME NEW k \in whole PROVE ends[k] # Len(input)
        <5>1. k \in 0..n /\ (k = g \/ k < g) /\ ends[k] = EndOf(capture, k)
          <6>1. k \in 0..g
            BY <4>3, <4>4
          <6>2. k \in 0..n /\ (k = g \/ k < g)
            BY <2>4, <2>5, <4>1, <6>1
          <6> QED
            BY <2>e, <6>2
        <5> QED
          BY <2>4, <2>7, <3>3, <4>1, <5>1
      <4> QED
        BY <2>8, <2>12, <4>1, <4>3, <4>4
    <3> QED
      BY <2>2, <2>12, <3>1, <3>2, <3>3 DEF ReaderInPlace
  <2> QED
    BY <2>9, <2>11, <2>12 DEF whole, ends
<1> QED
  BY <1>1, FileInvariant, PTL

(***************************************************************************)
(* The second run reads back what the first one wrote, packet for packet,  *)
(* and comes to the end of the file.                                       *)
(***************************************************************************)
THEOREM ReadsBackWhatItWrote == Spec => []WritesWhatItCanRead
<1>1. Inv => WritesWhatItCanRead
  <2> DEFINE g == Len(got)
             n == Len(before)
             c == Written(before)
  <2>1. SUFFICES ASSUME Inv, run = 2
                 PROVE  /\ pc # "raised"
                        /\ got = SubSeq(before, 1, g)
                        /\ pc = "end" => got = before
    BY DEF WritesWhatItCanRead
  <2>2. /\ Source = c /\ c.records = before /\ c.extra = 0 /\ c.cut = 0
        /\ c.magic = MICRO_LOW
    BY <2>1 DEF Source, Written
  <2>3. ReaderInPlace /\ Types /\ InFile /\ IsCapture(c)
    BY <2>1, <2>2, SourceIsCapture DEF Inv
  <2>4. /\ got \in Seq(RawPackets) /\ before \in Seq(RawPackets)
        /\ g \in Nat /\ n \in Nat
    BY <2>3 DEF Types
  <2>5. /\ \A k \in 0..n : EndOf(c, k) \in Nat
        /\ EndOf(c, 0) = PCAP_GLOBAL_HDR_SIZE
        /\ PCAP_PKT_HDR_SIZE \in Nat \ {0} /\ PCAP_GLOBAL_HDR_SIZE \in Nat
    BY <2>2, <2>3, Ends DEF PCAP_PKT_HDR_SIZE, PCAP_GLOBAL_HDR_SIZE
  <2>6. Len(input) = EndOf(c, n)
    <3>1. input = Whole(c)
      BY <2>2, <2>3, InputHolds DEF InFile
    <3> QED
      BY <2>2, <2>3, <3>1, Layout
  <2>7. \A j, k \in 0..n : j < k => EndOf(c, j) < EndOf(c, k)
    <3>1. SUFFICES ASSUME NEW j \in 0..n, NEW k \in 0..n, j < k
                   PROVE  EndOf(c, j) < EndOf(c, k)
      OBVIOUS
    <3>2. EndOf(c, j) + PCAP_PKT_HDR_SIZE <= EndOf(c, k)
      BY <2>2, <2>3, <3>1, EndsGrow
    <3> QED
      BY <2>5, <3>2
  <2> HIDE DEF c
  <2>8. pc # "raised"
    <3>1. SUFFICES ASSUME pc = "raised" PROVE FALSE
      OBVIOUS
    <3>2. Known(Source.magic)
      BY <2>2 DEF Known
    <3>3. CASE Len(input) < PCAP_GLOBAL_HDR_SIZE
      <4>1. 0 \in 0..n /\ n \in 0..n /\ (n = 0 \/ 0 < n)
        BY <2>4
      <4> QED
        BY <2>5, <2>6, <2>7, <3>3, <4>1
    <3>4. CASE /\ FirstRecords /\ g < n
               /\ EndOf(c, g) < Len(input) /\ Len(input) < EndOf(c, g+1)
      <4>1. g+1 \in 0..n /\ n \in 0..n /\ (g+1 = n \/ g+1 < n)
        BY <2>4, <3>4
      <4> QED
        BY <2>5, <2>6, <2>7, <3>4, <4>1
    <3> QED
      BY <2>2, <2>3, <3>1, <3>2, <3>3, <3>4 DEF ReaderInPlace
  <2>9. got = <<>> \/ FirstRecords
    BY <2>3, <2>8 DEF ReaderInPlace, Types
  <2>10. g <= n /\ \A k \in 1..g : got[k] = before[k]
    <3>1. CASE got = <<>>
      BY <2>4, <3>1
    <3>2. CASE FirstRecords
      BY <2>2, <3>2 DEF FirstRecords
    <3> QED
      BY <2>9, <3>1, <3>2
  <2>11. got = SubSeq(before, 1, g)
    BY <2>4, <2>10
  <2>12. ASSUME pc = "end" PROVE got = before
    <3>1. Len(input) = EndOf(c, g)
      BY <2>2, <2>3, <2>12 DEF ReaderInPlace
    <3>2. g \in 0..n /\ n \in 0..n /\ (g = n \/ g < n)
      BY <2>4, <2>10
    <3>3. g = n
      <4>1. EndOf(c, g) = EndOf(c, n) /\ EndOf(c, g) \in Nat
        BY <2>5, <2>6, <3>1, <3>2
      <4>2. ~(EndOf(c, g) < EndOf(c, n))
        BY <4>1
      <4> QED
        BY <2>7, <3>2, <4>2
    <3> QED
      BY <2>4, <2>10, <3>3
  <2> QED
    BY <2>8, <2>11, <2>12
<1> QED
  BY <1>1, FileInvariant, PTL
=============================================================================
