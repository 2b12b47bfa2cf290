----------------------------- MODULE ClientHello ----------------------------
(***************************************************************************)
(* Client Hello messages as their layout is drawn in sni_extractor.py and  *)
(* create_tls_client_hello makes them, built from parts of any length and  *)
(* with one fault each, so that the name in a message is known without     *)
(* reading its bytes.  A message is a record with the fields               *)
(*   session, ciphers, compression   lengths of these parts                *)
(*   exts       the extensions: a sequence of [type, data], the data of a  *)
(*              server name extension being a sequence of [type, name]     *)
(*   fault, by  what is wrong with it, and by how much                     *)
(*   trail      how many bytes follow it in the same payload               *)
(***************************************************************************)
EXTENDS SNIExtractor, SequencesExt

(***************************************************************************)
(* The faults, other than "none":                                          *)
(*   "record", "message"  the type of the record, or message, is another   *)
(*   "name", "extensions", "handshake"                                     *)
(*                        the length given for the last name, all          *)
(*                        extensions, or the handshake message is too much *)
(*   "short"              the message stops early, and its length says so  *)
(*   "cut"                the end of the record is missing                 *)
(***************************************************************************)
Fault(h, f) == IF h.fault = f THEN h.by ELSE 0

Zeros(n) == [k \in 1..n |-> 0]
U8(n)    == <<n>>
U16(n)   == <<n \div 256, n % 256>>
U24(n)   == <<0>> \o U16(n)

Without(s, n) == SubSeq(s, 1, Len(s) - n)

IsSni(ext) == ext.type = TLS_EXTENSION_SNI

\* What fits into fields of one byte and of two.
U16Max    == 65535
U8Values  == 0..255
U16Values == 0..U16Max

IsEntry(e) == e.type \in U8Values /\ e.name \in Seq(U8Values)

IsExtension(ext) ==
  /\ ext.type \in U16Values
  /\ IF IsSni(ext)
     THEN ext.data \in Seq(Range(ext.data)) /\ \A e \in Range(ext.data) : IsEntry(e)
     ELSE ext.data \in Seq(U8Values)

\* A message of which the fields fit, but for the fault.
IsHello(h) ==
  /\ h.session \in U8Values /\ h.ciphers \in U16Values /\ h.compression \in U8Values
  /\ h.by \in Nat /\ h.trail \in Nat /\ (h.fault # "none" => h.by > 0)
  /\ TLS_CONTENT_TYPE_HANDSHAKE + Fault(h, "record") \in U8Values
  /\ h.exts \in Seq(Range(h.exts)) /\ \A ext \in Range(h.exts) : IsExtension(ext)

\* One name of a server name list.
EncodeEntry(h, entries, k) ==
  LET size == Len(entries[k].name) + (IF k = Len(entries) THEN Fault(h, "name") ELSE 0)
  IN  U8(entries[k].type) \o U16(size) \o entries[k].name

EncodeExtension(h, ext) ==
  LET list == FlattenSeq([k \in DOMAIN ext.data |-> EncodeEntry(h, ext.data, k)])
      data == IF IsSni(ext) THEN U16(Len(list)) \o list ELSE ext.data
  IN  U16(ext.type) \o U16(Len(data)) \o data

EncodeBody(h) ==
  LET exts == FlattenSeq([k \in DOMAIN h.exts |-> EncodeExtension(h, h.exts[k])])
  IN  Zeros(34)
        \o U8(h.session) \o Zeros(h.session)
        \o U16(h.ciphers) \o Zeros(h.ciphers)
        \o U8(h.compression) \o Zeros(h.compression)
        \o U16(Len(exts) + Fault(h, "extensions")) \o exts

\* The TCP payload that carries the message.
Encode(h) ==
  LET body    == EncodeBody(h)
      short   == Fault(h, "short")
      length  == IF short < Len(body) THEN Len(body) - short ELSE 0
      header  == U8(TLS_HANDSHAKE_TYPE_CLIENT_HELLO + Fault(h, "message"))
                   \o U24(length + Fault(h, "handshake"))
      message == Without(header \o body, short)
      record  == U8(TLS_CONTENT_TYPE_HANDSHAKE + Fault(h, "record")) \o <<3, 1>>
                   \o U16(Len(message)) \o message
  IN  Without(record, Fault(h, "cut")) \o Zeros(h.trail)

\* The host name of a message: that of the first entry of type host_name in
\* the first server name extension.
ServerName(h) ==
  LET lists == {k \in DOMAIN h.exts : IsSni(h.exts[k])}
      list  == h.exts[Min(lists)].data
      hosts == {k \in DOMAIN list : list[k].type = TLS_SNI_TYPE_HOSTNAME}
  IN  IF \/ h.fault \in {"record", "message"}
         \/ lists = {}
         \/ hosts = {}
      THEN None ELSE list[Min(hosts)].name

=============================================================================
