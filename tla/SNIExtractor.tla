----------------------------- MODULE SNIExtractor ---------------------------
(***************************************************************************)
(* Finding the host name in a TLS Client Hello (SNIExtractor in            *)
(* sni_extractor.py): an offset walks over the payload, past one header or *)
(* variable field per step, on the word of lengths read from the payload.  *)
(*                                                                         *)
(* Offsets count from 0, as in the code; the sequence payload from 1.  The *)
(* decoding of the name is left out: it is returned as bytes.              *)
(***************************************************************************)
EXTENDS Integers, Sequences

TLS_CONTENT_TYPE_HANDSHAKE      == 22
TLS_HANDSHAKE_TYPE_CLIENT_HELLO == 1
TLS_EXTENSION_SNI               == 0
TLS_SNI_TYPE_HOSTNAME           == 0

VARIABLES
  payload,  \* the argument
  pc,       \* what comes next at the offset, or "done"
  offset,   \* the local variable offset
  extEnd,   \* ext_end
  listEnd,  \* list_end
  name,     \* what extract returns: a sequence of bytes, or None
  seen      \* history: where the reads of the last step can have ended

vars == <<payload, pc, offset, extEnd, listEnd, name, seen>>

Bytes == {b \in Nat : b < 256}

None == <<-1>>

\* Mutant: the tests are off by one.
ShortMutant(n) == Len(payload) + 1 < offset + n

\* The tests "len(payload) < offset + n".
Short(n) == Len(payload) < offset + n

\* payload[o] and struct.unpack_from(">H", payload, o).
Byte(o)  == IF o < Len(payload) THEN payload[o + 1] ELSE 0
U16At(o) == 256 * Byte(o) + Byte(o + 1)
U24At(o) == 256 * U16At(o) + Byte(o + 2)

\* payload[o : o + n]; a slice ends where the payload ends.
Slice(o, n) ==
  SubSeq(payload, o + 1, IF o + n <= Len(payload) THEN o + n ELSE Len(payload))

Start ==
  /\ pc = "record"
  /\ offset = 0 /\ extEnd = 0 /\ listEnd = 0
  /\ name = None
  /\ seen = 0

\* Any bytes may arrive.
Init == payload \in Seq(Bytes) /\ Start

Return(result) ==
  /\ pc' = "done"
  /\ name' = result
  /\ UNCHANGED <<payload, offset, extEnd, listEnd>>

\* Go to the field "there", n bytes further.
MoveOn(n, there) ==
  /\ pc' = there
  /\ offset' = offset + n
  /\ UNCHANGED <<payload, name>>

\* A field of n bytes: if it is there, go past it and the data of which it
\* gives the length, otherwise return None.
Field(here, n, size, there) ==
  /\ pc = here
  /\ \/ Short(n) /\ Return(None) /\ UNCHANGED seen
     \/ /\ ~Short(n)
        /\ seen' = offset + n
        /\ MoveOn(n + size, there) /\ UNCHANGED <<extEnd, listEnd>>

\* A field that is there, but is not that of a whole Client Hello.
Refuse(here, n) ==
  /\ pc = here
  /\ ~Short(n) /\ seen' = offset + n
  /\ Return(None)

-----------------------------------------------------------------------------
(* extract: up to the extensions *)

\* A handshake record that is there as a whole.
WholeRecord ==
  Byte(0) = TLS_CONTENT_TYPE_HANDSHAKE /\ ~Short(5 + U16At(3))

\* A Client Hello that is there as a whole.
WholeHello ==
  /\ Byte(offset) = TLS_HANDSHAKE_TYPE_CLIENT_HELLO
  /\ ~Short(4 + U24At(offset + 1))

RecordHeader ==
  \/ (Short(5) \/ WholeRecord) /\ Field("record", 5, 0, "handshake")
  \/ ~WholeRecord /\ Refuse("record", 5)

HandshakeHeader ==
  \/ (Short(4) \/ WholeHello) /\ Field("handshake", 4, 0, "fixed")
  \/ ~WholeHello /\ Refuse("handshake", 4)

VersionAndRandom   == Field("fixed", 34, 0, "session")
SessionId          == Field("session", 1, Byte(offset), "ciphers")

\* Mutant: the length of the cipher suites is taken for a number of suites.
CipherSuitesMutant == Field("ciphers", 2, 2 * U16At(offset), "compression")

CipherSuites       == Field("ciphers", 2, U16At(offset), "compression")
CompressionMethods == Field("compression", 1, Byte(offset), "extensions")

ExtensionsLength ==
  /\ pc = "extensions"
  /\ \/ Short(2) /\ Return(None) /\ UNCHANGED seen
     \/ /\ ~Short(2)
        /\ extEnd' = offset + 2 + U16At(offset)
        /\ seen' = offset + 2
        /\ MoveOn(2, "extension") /\ UNCHANGED listEnd

-----------------------------------------------------------------------------
(* extract: the loop over the extensions *)

\* Mutant: the loop trusts the declared length of the extensions.
MoreExtensionsMutant == offset + 4 <= extEnd

\* The condition of the loop.
MoreExtensions == offset + 4 <= extEnd /\ ~Short(4)

\* Mutant: the step past an extension forgets its header, and may be none.
OtherExtensionMutant ==
  /\ pc = "extension" /\ MoreExtensions
  /\ U16At(offset) # TLS_EXTENSION_SNI
  /\ seen' = offset + 4
  /\ MoveOn(U16At(offset + 2), "extension") /\ UNCHANGED <<extEnd, listEnd>>

OtherExtension ==
  /\ pc = "extension" /\ MoreExtensions
  /\ U16At(offset) # TLS_EXTENSION_SNI
  /\ seen' = offset + 4
  /\ MoveOn(4 + U16At(offset + 2), "extension") /\ UNCHANGED <<extEnd, listEnd>>

\* The length of the extension is passed to _parse_sni_extension, which makes
\* no use of it.
SniExtension ==
  /\ pc = "extension" /\ MoreExtensions
  /\ U16At(offset) = TLS_EXTENSION_SNI
  /\ seen' = offset + 4
  /\ MoveOn(4, "list") /\ UNCHANGED <<extEnd, listEnd>>

NoMoreExtensions ==
  /\ pc = "extension" /\ ~MoreExtensions
  /\ Return(None) /\ UNCHANGED seen

-----------------------------------------------------------------------------
(* _parse_sni_extension *)

ListLength ==
  /\ pc = "list"
  /\ \/ Short(2) /\ Return(None) /\ UNCHANGED seen
     \/ /\ ~Short(2)
        /\ listEnd' = offset + 2 + U16At(offset)
        /\ seen' = offset + 2
        /\ MoveOn(2, "entry") /\ UNCHANGED extEnd

MoreEntries == offset + 3 <= listEnd /\ ~Short(3)

OtherEntry ==
  /\ pc = "entry" /\ MoreEntries
  /\ Byte(offset) # TLS_SNI_TYPE_HOSTNAME
  /\ seen' = offset + 3
  /\ MoveOn(3 + U16At(offset + 1), "entry") /\ UNCHANGED <<extEnd, listEnd>>

\* Mutant: the slice is left to end where the payload ends.
HostNameMutant ==
  /\ pc = "entry" /\ MoreEntries
  /\ Byte(offset) = TLS_SNI_TYPE_HOSTNAME
  /\ seen' = offset + 3
  /\ Return(Slice(offset + 3, U16At(offset + 1)))

HostName ==
  /\ pc = "entry" /\ MoreEntries
  /\ Byte(offset) = TLS_SNI_TYPE_HOSTNAME
  /\ LET size == U16At(offset + 1)
     IN  \/ Short(3 + size) /\ seen' = offset + 3 /\ Return(None)
         \/ /\ ~Short(3 + size)
            /\ seen' = offset + 3 + size
            /\ Return(Slice(offset + 3, size))

NoMoreEntries ==
  /\ pc = "entry" /\ ~MoreEntries
  /\ Return(None) /\ UNCHANGED seen

-----------------------------------------------------------------------------

Next ==
  \/ RecordHeader \/ HandshakeHeader \/ VersionAndRandom
  \/ SessionId \/ CipherSuites \/ CompressionMethods
  \/ ExtensionsLength \/ OtherExtension \/ SniExtension \/ NoMoreExtensions
  \/ ListLength \/ OtherEntry \/ HostName \/ NoMoreEntries

Spec == Init /\ [][Next]_vars /\ WF_vars(Next)

-----------------------------------------------------------------------------
(* Properties *)

TypeOK ==
  /\ payload \in Seq(Bytes)
  /\ pc \in {"record", "handshake", "fixed", "session", "ciphers", "compression",
             "extensions", "extension", "list", "entry", "done"}
  /\ offset \in Nat /\ extEnd \in Nat /\ listEnd \in Nat /\ seen \in Nat
  /\ name = None \/ name \in Seq(Bytes)

(***************************************************************************)
(* No byte is read beyond the payload, where Python would raise IndexError *)
(* or struct.error and end the thread: every field is tested for before it *)
(* is read, whatever the lengths in the payload say.                       *)
(***************************************************************************)
NoReadPastEnd == seen <= Len(payload)

(***************************************************************************)
(* The offset only moves forward, and stands still only in the step that   *)
(* returns: no length in a payload keeps the extractor in its loops.       *)
(***************************************************************************)
MovesForward == [][offset' > offset \/ pc' = "done"]_vars

=============================================================================
