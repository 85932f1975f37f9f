---------------------------- MODULE FrameParser -----------------------------
(***************************************************************************)
(* HuaceM7xxDriver::ProcessMessages: frames of five message classes are    *)
(* found in a byte stream that arrives in pieces of any length, with noise *)
(* between them, frames that fail their check, and bytes in the middle of  *)
(* a frame that look like the start of another.                            *)
(*                                                                         *)
(* A stream is a sequence of tokens.  "A", "$", ">", "<" and "[" stand for *)
(* the first bytes of the classes' identifiers, "r" and "n" for CR and LF, *)
(* "0" and "1" for everything else.  Identifiers are scaled down and keep  *)
(* their order: RESPONSE's is longer than PORT's, PORT's longer than the   *)
(* others.  A checksum (CRC32 or the XOR of the line) is one parity token, *)
(* so that a frame's check depends on where the frame is taken to start.   *)
(* The parser sees the stream through the linear Buffer, a part at a time. *)
(***************************************************************************)
EXTENDS LinearBuffer, FiniteSets, SequencesExt, FiniteSetsExt

CONSTANTS
  Streams,  (* the streams the device may send                             *)
  BufSize   (* capacity of the linear Buffer                               *)

Tokens == {"A", "$", ">", "<", "[", "r", "n", "0", "1"}

ASSUME ParserAssumption == BufSize \in Nat /\ \A s \in Streams : s \in Seq(Tokens)

VARIABLES
  stream,     (* everything the device sends in this behaviour             *)
  buf,        (* the Buffer of the port                                    *)
  rd, wr,     (* history: tokens dropped or delivered, tokens received     *)
  pc,         (* "prepare": PrepareData...; "scan": the loop               *)
  delivered,  (* history: <<class, position, bytes>> of each frame handed  *)
              (* to the callbacks, in order                                *)
  tapped      (* history: all that the callbacks of the port were given    *)

vars == <<stream, buf, rd, wr, pc, delivered, tapped>>

(* supported_msg_class is a map: the loop visits the classes in this order. *)
Classes == <<"GMF", "NMEA", "RESPONSE", "OUTCONFIG", "PORT">>

Identifiers(c) ==
  CASE c = "GMF" -> {<<"A">>}
    [] c = "NMEA" -> {<<"$">>}
    [] c = "RESPONSE" -> {<<">", "1", "1", "1", "1">>}
    [] c = "OUTCONFIG" -> {<<"<">>}
    [] c = "PORT" -> {<<"[", "0">>, <<"[", "1">>}

IdentifierSize(c) ==
  CASE c = "RESPONSE" -> 5
    [] c = "PORT" -> 2
    [] OTHER -> 1

-----------------------------------------------------------------------------
(* What the parser decides about what is next in a buffer b. *)

Token(b, k) == b.data[b.rp + k]
Has(b, n) == GetLeftDataSize(b) >= n

BodyLen(b) == IF Token(b, 3) = "0" THEN 0 ELSE 1
Binary(c) == c = "GMF"

(* The header, or the line that says what message it is, is complete. *)
HeaderComplete(c, b) == IF Binary(c) THEN Has(b, 3) ELSE PeekLine(b) # << >>

(* One of supported_msgs has this MsgID or name. *)
Supported(c, b) == c \in {"GMF", "NMEA"} => Token(b, 2) = "1"

FrameSize(c, b) == IF Binary(c) THEN 3 + BodyLen(b) + 1 ELSE Len(PeekLine(b))

(* What the callbacks are given. *)
Frame(c, b) == IF Binary(c) THEN Peek(b, FrameSize(c, b)) ELSE PeekLine(b)

(* DATATRUNCATE of the message's own parse function. *)
Incomplete(c, b) ==
  HeaderComplete(c, b) => Binary(c) /\ Supported(c, b) /\ ~Has(b, FrameSize(c, b))

(* What the check covers: a binary frame from its first byte, a line from   *)
(* behind its first token.  A PORT line has no check.                       *)
Checked(c, frame) == IF Binary(c) THEN 1 .. Len(frame) - 1 ELSE 2 .. Len(frame) - 3
CheckAt(c, frame) == IF Binary(c) THEN Len(frame) ELSE Len(frame) - 2
Parity(frame, span) ==
  IF Cardinality({k \in span : frame[k] \in {"1", "$"}}) % 2 = 0 THEN "0" ELSE "1"
Passes(c, b) ==
  LET frame == Frame(c, b)
  IN  c # "PORT" => frame[CheckAt(c, frame)] = Parity(frame, Checked(c, frame))

(* Slip: a prefix shorter than the identifier does not match. *)
MatchShortAsNone(c, b) ==
  IF Peek(b, IdentifierSize(c)) \in Identifiers(c) THEN "exact"
  ELSE IF Held(b) = << >> THEN "truncated" ELSE "none"

(* IsMessageClassIdentifierMatch. *)
Match(c, b) ==
  LET prefix == Peek(b, IdentifierSize(c))
  IN  IF Len(prefix) < IdentifierSize(c) THEN "truncated"
      ELSE IF prefix \in Identifiers(c) THEN "exact"
      ELSE "none"

(* The classes the loop stops at. *)
Stops(b) == {k \in DOMAIN Classes : Match(Classes[k], b) # "none"}
ClassAt(b) == Classes[Min(Stops(b))]

(* PARSE_RESULT_DATATRUNCATE: more data is needed before anything can be   *)
(* said about what is next.                                                *)
Truncated(b) ==
  /\ Stops(b) # {}
  /\ LET c == ClassAt(b)
     IN  Match(c, b) = "exact" => Incomplete(c, b)

(* PARSE_RESULT_PARSEDONE. *)
FrameNext(b) ==
  /\ Stops(b) # {} /\ ~Truncated(b)
  /\ LET c == ClassAt(b)
     IN  Supported(c, b) /\ Passes(c, b)

-----------------------------------------------------------------------------
Init ==
  /\ stream \in Streams
  /\ buf = NewBuffer(BufSize, "0")
  /\ rd = 0 /\ wr = 0
  /\ pc = "prepare"
  /\ delivered = << >> /\ tapped = << >>

(* PrepareData...: n more bytes, as many as arrived and fit, possibly none, *)
(* and the callbacks of the port.                                           *)
Prepare(n) ==
  /\ pc = "prepare"
  /\ wr + n <= Len(stream) /\ n <= Room(buf)
  /\ buf' = Refill(buf, SubSeq(stream, wr + 1, wr + n))
  /\ wr' = wr + n
  /\ tapped' = tapped \o Fresh(buf', n)
  /\ pc' = "scan"
  /\ UNCHANGED <<stream, rd, delivered>>

(* The loop ends; what is left is kept for the next call. *)
KeepTail ==
  /\ pc = "scan"
  /\ Truncated(buf)
  /\ pc' = "prepare"
  /\ UNCHANGED <<stream, buf, rd, wr, delivered, tapped>>

Drop(n) == buf' = UpdateReadPointer(buf, n) /\ rd' = rd + n

(* Slip: a frame that fails its check is dropped as a whole. *)
DropFrame ==
  /\ pc = "scan"
  /\ ~Truncated(buf) /\ ~FrameNext(buf)
  /\ Drop(IF Stops(buf) # {} /\ Supported(ClassAt(buf), buf)
          THEN FrameSize(ClassAt(buf), buf) ELSE 1)
  /\ UNCHANGED <<stream, wr, pc, delivered, tapped>>

(* Slip: after a failed check the same position is tried again. *)
DropUnmatched ==
  /\ pc = "scan"
  /\ ~Truncated(buf) /\ ~FrameNext(buf)
  /\ Drop(IF Stops(buf) = {} THEN 1 ELSE 0)
  /\ UNCHANGED <<stream, wr, pc, delivered, tapped>>

(* No class matches (PARSE_RESULT_UNFINDHEADER), the message is not        *)
(* supported (CONTENTERROR) or fails its check (UNPASSCHECK): one byte is  *)
(* dropped and the scan goes on behind it.                                 *)
DropByte ==
  /\ pc = "scan"
  /\ ~Truncated(buf) /\ ~FrameNext(buf)
  /\ Drop(1)
  /\ UNCHANGED <<stream, wr, pc, delivered, tapped>>

(* The callbacks run and the frame is dropped. *)
Deliver ==
  /\ pc = "scan"
  /\ FrameNext(buf)
  /\ LET c == ClassAt(buf)
     IN  /\ delivered' = Append(delivered, <<c, rd, Frame(c, buf)>>)
         /\ Drop(FrameSize(c, buf))
  /\ UNCHANGED <<stream, wr, pc, tapped>>

Scan == KeepTail \/ DropByte \/ Deliver
Next == Scan \/ \E n \in 0 .. Len(stream) - wr : Prepare(n)

Spec == Init /\ [][Next]_vars

(* The loop runs on; nothing is assumed about the device. *)
FairSpec == Spec /\ WF_vars(Scan)

-----------------------------------------------------------------------------
(* The Buffer's pointers are in order and within its container, which      *)
(* keeps its size.                                                         *)
TypeOK ==
  /\ stream \in Streams
  /\ buf.rp \in 0 .. buf.wp /\ buf.wp \in 0 .. BufSize /\ DOMAIN buf.data = 1 .. BufSize
  /\ rd \in 0 .. wr /\ wr \in 0 .. Len(stream)
  /\ pc \in {"prepare", "scan"}
  /\ \A k \in DOMAIN delivered : delivered[k][1] \in Range(Classes) /\ delivered[k][2] < rd

(* The Buffer is a window on the stream: however the tail was moved and    *)
(* new bytes appended, it holds exactly the bytes that were received and   *)
(* neither dropped nor delivered.                                          *)
BufferIsWindow == Held(buf) = SubSeq(stream, rd + 1, wr)

(* The callbacks of the port see the stream itself: each byte once and in  *)
(* order, whatever the parser makes of it.                                 *)
TapIsStream == tapped = SubSeq(stream, 1, wr)

(* A Buffer that holds stream s from position p to its end. *)
From(s, p) == [data |-> s, rp |-> p, wp |-> Len(s)]

(* The reference: what the loop finds in each stream when all of it is     *)
(* there from the start, by recursion on the position.                     *)
Frames ==
  [s \in Streams |->
    LET from[p \in 0 .. Len(s)] ==
          LET b == From(s, p)
          IN  IF Truncated(b) THEN << >>
              ELSE IF FrameNext(b)
                   THEN << <<ClassAt(b), p, Frame(ClassAt(b), b)>> >>
                          \o from[p + FrameSize(ClassAt(b), b)]
              ELSE from[p + 1]
    IN  from[0]]

(* How the stream was cut into reads does not matter: what was delivered,  *)
(* and the bytes of it, is a prefix of what one read of everything would   *)
(* have delivered, and all of it once everything arrived and the loop has  *)
(* stopped.                                                                *)
PiecesDoNotMatter ==
  /\ IsPrefix(delivered, Frames[stream])
  /\ pc = "prepare" /\ wr = Len(stream) => delivered = Frames[stream]

(* A frame that is intact where it starts, whatever came before it. *)
Intact(c, b) ==
  Match(c, b) = "exact" /\ ~Incomplete(c, b) /\ Supported(c, b) /\ Passes(c, b)

(* Where each stream has a frame that is intact. *)
IntactAt ==
  [s \in Streams |-> {p \in 0 .. Len(s) - 1 : \E c \in Range(Classes) : Intact(c, From(s, p))}]

(* Noise, failed frames and false headers never cost an intact frame: the  *)
(* scan goes past its start only by delivering it, or by delivering a      *)
(* frame it lies inside.                                                   *)
NoIntactFrameSkipped ==
  \A p \in IntactAt[stream] : p < rd =>
    \E k \in DOMAIN delivered :
      delivered[k][2] <= p /\ p < delivered[k][2] + Len(delivered[k][3])

(* ProcessMessages returns: every turn of the loop drops something or ends *)
(* it, and "No byte can be drop." is never logged.                         *)
ScanEnds == (pc = "scan") ~> (pc = "prepare")
=============================================================================
