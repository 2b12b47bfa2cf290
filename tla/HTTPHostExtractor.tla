-------------------------- MODULE HTTPHostExtractor -------------------------
(***************************************************************************)
(* Finding the host name in an HTTP request (HTTPHostExtractor in          *)
(* sni_extractor.py).  The two kinds of words that the code looks for as a *)
(* whole are single symbols of the payload, beyond the values of bytes.    *)
(***************************************************************************)
EXTENDS Integers, Sequences, FiniteSetsExt

METHOD == 256  \* a word of HTTP_METHODS
HOST   == 257  \* "host: ", in whatever case

CR    == 13
LF    == 10
COLON == 58
White == 9..13 \cup 28..32

NoHost == <<>>

\* bytes.decode("ascii", errors="replace")
Decode(bytes) == [k \in DOMAIN bytes |-> IF bytes[k] < 128 THEN bytes[k] ELSE 65533]

\* str.strip
Strip(text) ==
  LET solid == {k \in DOMAIN text : text[k] \notin White}
  IN  IF solid = {} THEN <<>> ELSE SubSeq(text, Min(solid), Max(solid))

\* Where the line ends: before a CR LF anywhere, or else a LF, or at the end.
LineEnd(payload, start) ==
  LET lfs   == {i \in start..Len(payload) : payload[i] = LF}
      crlfs == {i \in start..(Len(payload) - 1) : payload[i] = CR /\ i + 1 \in lfs}
  IN  IF crlfs # {} THEN Min(crlfs) - 1
      ELSE IF lfs # {} THEN Min(lfs) - 1 ELSE Len(payload)

\* Mutant: the blanks behind the value are kept (no strip).
HttpHostMutant(payload) ==
  LET hosts == {i \in DOMAIN payload : payload[i] = HOST}
      start == Min(hosts) + 1
      value == Decode(SubSeq(payload, start, LineEnd(payload, start)))
      colon == {k \in DOMAIN value : value[k] = COLON}
  IN  IF payload = <<>> \/ Head(payload) # METHOD \/ hosts = {}
      THEN NoHost
      ELSE IF colon = {} THEN value ELSE SubSeq(value, 1, Min(colon) - 1)

\* What follows the first "host: " of a request, wherever that stands, up to
\* a colon or the end of the line.  None and "" are the same to the callers.
HttpHost(payload) ==
  LET hosts == {i \in DOMAIN payload : payload[i] = HOST}
      start == Min(hosts) + 1
      value == Strip(Decode(SubSeq(payload, start, LineEnd(payload, start))))
      colon == {k \in DOMAIN value : value[k] = COLON}
  IN  IF payload = <<>> \/ Head(payload) # METHOD \/ hosts = {}
      THEN NoHost
      ELSE IF colon = {} THEN value ELSE SubSeq(value, 1, Min(colon) - 1)

=============================================================================
