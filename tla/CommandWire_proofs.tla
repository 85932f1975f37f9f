------------------------- MODULE CommandWire_proofs -------------------------
(***************************************************************************)
(* The wire, for any callers and any requests: the invariant of the mutex  *)
(* and of what it guards; that every step of the detailed specification is *)
(* a step of CommandChannel or changes nothing in it; that the receiver,   *)
(* who reads the line wherever it stands, obeys what returned Ok; and that *)
(* it reads of each line the values that were asked for.                   *)
(***************************************************************************)
EXTENDS CommandWire, TLAPS, SequenceTheorems, WellFoundedInduction

USE WireAssumption

(* What is on the wire: pieces, sets of words.  (The provers do not know   *)
(* that a literal is in STRING.)                                           *)
Words ==
  STRING \cup {Unspecified, ">", "CRLF", "*", "~", "D3", "RTCM", "GGA_1", "BESTPB_1",
               "OUTMSG", "OFFMSG", "CONFIGCOM", Unknown}
         \cup Ports \cup NMEANames \cup GmfNames \cup Groups \cup Periods \cup Baudrates
         \cup Parities \cup DataBits \cup StopBits
AllPieces == SUBSET Words
AllCommands == CommandsOf(Words)

-----------------------------------------------------------------------------
(* The line of a command is a sequence of pieces. *)
LEMMA ParamIsText == \A v \in Words : Param(v) \in Seq(AllPieces)
<1>1. \A v \in Words : Piece(v) \in AllPieces
  BY DEF Piece, AllPieces
<1>. QED
  BY <1>1 DEF Param

LEMMA Regroup ==
  ASSUME NEW s \in Seq(AllPieces), NEW t \in Seq(AllPieces), NEW u \in Seq(AllPieces)
  PROVE  s \o t \o u = s \o (t \o u)
BY ConcatAssociative

LEMMA CheckIsPiece ==
  ASSUME NEW cmd \in Seq(AllPieces), cmd # <<>>
  PROVE  CalculateXOR(Tail(cmd)) \in AllPieces
<1>1. Tail(cmd) \in Seq(AllPieces)
  BY HeadTailProperties
<1>2. \A i \in 1 .. Len(Tail(cmd)) : Tail(cmd)[i] \in AllPieces
  BY <1>1, ElementOfSeq
<1>3. Odd(Tail(cmd)) \subseteq Words
  BY <1>2 DEF Odd, AllPieces
<1>. QED
  BY <1>3 DEF CalculateXOR, AllPieces, Words

LEMMA CheckedIsText ==
  ASSUME NEW cmd \in Seq(AllPieces), cmd # <<>>
  PROVE  AppendCheckXOR(cmd) \in Seq(AllPieces)
<1>1. LINE_END \in AllPieces
  BY DEF LINE_END, Piece, AllPieces, Words
<1>2. <<CalculateXOR(Tail(cmd)), LINE_END>> \in Seq(AllPieces)
  BY <1>1, CheckIsPiece
<1>. QED
  BY <1>2, ConcatProperties DEF AppendCheckXOR

LEMMA CommandIsText ==
  ASSUME NEW c \in AllCommands
  PROVE  GetCmdString(c) \in Seq(AllPieces)
<1>1. \A s, t, u \in Seq(AllPieces) : s \o t \in Seq(AllPieces) /\ s \o t \o u \in Seq(AllPieces)
  BY ConcatProperties
<1>2. <<>> \in Seq(AllPieces)
  BY EmptySeq
<1>. DEFINE parameters == CASE c.name = "OUTMSG" -> OutmsgText(c)
                            [] c.name = "OFFMSG" -> OffmsgText(c)
                            [] c.name = "CONFIGCOM" -> ConfigComText(c)
<1>3. parameters \in Seq(AllPieces)
  <2>1. CASE c.name = "OUTMSG"
    <3>1. c.port \in Words /\ c.msg_name \in Words /\ c.period \in Words
      BY <2>1 DEF AllCommands, CommandsOf
    <3>2. OutmsgText(c) \in Seq(AllPieces)
      BY <1>1, <3>1, ParamIsText DEF OutmsgText
    <3>. QED
      BY <2>1, <3>2
  <2>2. CASE c.name = "OFFMSG"
    <3>1. c.port \in Words /\ c.msg_name \in Words
      BY <2>2 DEF AllCommands, CommandsOf
    <3>2. OffmsgText(c) \in Seq(AllPieces)
      BY <1>1, <3>1, ParamIsText DEF OffmsgText
    <3>. QED
      BY <2>2, <3>2
  <2>3. CASE c.name = "CONFIGCOM"
    <3>1. /\ c.port \in Words /\ c.baudrate \in Words /\ c.parity \in Words
          /\ c.data_bits \in Words /\ c.stop_bits \in Words
      BY <2>3 DEF AllCommands, CommandsOf
    <3>2. /\ Param(c.parity) \in Seq(AllPieces)
          /\ Param(c.parity) \o Param(c.data_bits) \o Param(c.stop_bits) \in Seq(AllPieces)
          /\ Param(c.port) \in Seq(AllPieces) /\ Param(c.baudrate) \in Seq(AllPieces)
      BY <1>1, <3>1, ParamIsText
    <3>3. ConfigComText(c) \in Seq(AllPieces)
      BY <1>1, <1>2, <3>2 DEF ConfigComText
    <3>. QED
      BY <2>3, <3>3
  <2>. QED
    BY <2>1, <2>2, <2>3 DEF AllCommands, CommandsOf
<1>4. c.name \in Words
  BY DEF AllCommands, CommandsOf, Words
<1>. DEFINE cmd == <<HEADER, Piece(c.name)>> \o parameters
<1>5. <<HEADER, Piece(c.name)>> \in Seq(AllPieces)
  <2>1. HEADER \in AllPieces /\ Piece(c.name) \in AllPieces
    BY <1>4 DEF HEADER, Piece, AllPieces, Words
  <2>. QED
    BY <2>1
<1>6. cmd \in Seq(AllPieces) /\ cmd # <<>>
  <2>1. cmd \in Seq(AllPieces) /\ Len(cmd) = 2 + Len(parameters)
    <3>1. PICK a : a = <<HEADER, Piece(c.name)>>
      OBVIOUS
    <3>2. PICK b : b = parameters
      OBVIOUS
    <3>3. a \in Seq(AllPieces) /\ b \in Seq(AllPieces) /\ Len(a) = 2
      BY <1>3, <1>5, <3>1, <3>2
    <3>4. a \o b \in Seq(AllPieces) /\ Len(a \o b) = Len(a) + Len(b)
      BY ONLY <3>3, ConcatProperties
    <3>. QED
      BY <3>1, <3>2, <3>3, <3>4
  <2>2. Len(parameters) \in Nat
    BY <1>3, LenProperties
  <2>3. Len(cmd) # 0
    BY <2>1, <2>2
  <2>. QED
    BY <2>1, <2>3, EmptySeq
<1>7. AppendCheckXOR(cmd) \in Seq(AllPieces)
  BY <1>6, CheckedIsText
<1>. QED
  BY <1>2, <1>7 DEF GetCmdString

LEMMA TextIsText ==
  ASSUME NEW q \in Requests
  PROVE  TextOf(q) \in Seq(AllPieces)
<1>1. <<>> \in Seq(AllPieces)
  BY EmptySeq
<1>2. q \in AllRequests
  OBVIOUS
<1>3. ASSUME NEW cmd \in Seq(AllPieces), NEW msg
      PROVE  IfSupported(msg, cmd) \in Seq(AllPieces)
  BY <1>1 DEF IfSupported
<1>4. \A m \in DOMAIN SlaveAnt : SlaveAnt[m] \in Words
  BY DEF SlaveAnt, Words
<1>0. STRING \subseteq Words /\ Unspecified \in Words
  BY DEF Words
<1>5. CASE q.op = "RequestMessage"
  <2>1. q.msg \in Words /\ q.period \in Words
    BY <1>0, <1>2, <1>5 DEF AllRequests
  <2>2. Outmsg(Unspecified, q.msg, q.period) \in AllCommands
    BY <1>0, <2>1 DEF Outmsg, AllCommands, CommandsOf
  <2>. QED
    BY <1>3, <1>5, <2>2, CommandIsText DEF TextOf, RequestMessage, GetRequestMessageCmd
<1>6. CASE q.op = "CancelMessage"
  <2>1. q.msg \in Words
    BY <1>0, <1>2, <1>6 DEF AllRequests
  <2>2. Offmsg(Unspecified, q.msg) \in AllCommands
    BY <1>0, <2>1 DEF Offmsg, AllCommands, CommandsOf
  <2>. QED
    BY <1>3, <1>6, <2>2, CommandIsText DEF TextOf, CancelMessage, GetCancelMessageCmd
<1>7. CASE q.op = "RequestSlaveAntMessage"
  <2>1. q.msg \in Words /\ q.period \in Words
    BY <1>0, <1>2, <1>7 DEF AllRequests
  <2>2. q.msg \in DOMAIN SlaveAnt => Outmsg(Unspecified, SlaveAnt[q.msg], q.period) \in AllCommands
    BY <1>0, <1>4, <2>1 DEF Outmsg, AllCommands, CommandsOf
  <2>3. GetRequestSlaveAntMessageCmd(q.msg, q.period) \in Seq(AllPieces)
    BY <1>1, <2>2, CommandIsText DEF GetRequestSlaveAntMessageCmd
  <2>. QED
    BY <1>3, <1>7, <2>3 DEF TextOf, RequestSlaveAntMessage
<1>8. CASE q.op = "CancelSlaveAntMessage"
  <2>1. q.msg \in Words
    BY <1>0, <1>2, <1>8 DEF AllRequests
  <2>2. q.msg \in DOMAIN SlaveAnt => Offmsg(Unspecified, SlaveAnt[q.msg]) \in AllCommands
    BY <1>0, <1>4, <2>1 DEF Offmsg, AllCommands, CommandsOf
  <2>3. GetCancelSlaveAntMessageCmd(q.msg) \in Seq(AllPieces)
    BY <1>1, <2>2, CommandIsText DEF GetCancelSlaveAntMessageCmd
  <2>. QED
    BY <1>3, <1>8, <2>3 DEF TextOf, CancelSlaveAntMessage
<1>9. CASE q.op = "ExecuteCommand"
  <2>1. q.cmd \in AllCommands
    BY <1>0, <1>2, <1>9 DEF AllRequests, AllCommands, CommandsOf
  <2>. QED
    BY <1>9, <2>1, CommandIsText DEF TextOf, ExecuteCommand
<1>10. CASE q.op = "SendMessage"
  <2>1. Rtcm \in Seq(AllPieces)
    <3>1. Piece("D3") \in AllPieces /\ Piece("RTCM") \in AllPieces
      BY DEF Piece, AllPieces, Words
    <3>. QED
      BY <3>1 DEF Rtcm
  <2>. QED
    BY <1>10, <2>1 DEF TextOf
<1>. QED
  BY <1>2, <1>5, <1>6, <1>7, <1>8, <1>9, <1>10 DEF AllRequests

LEMMA TextsAreTexts == Texts \subseteq Seq(AllPieces)
BY TextIsText, EmptySeq DEF Texts

-----------------------------------------------------------------------------
Lines == line \in Seq(AllPieces) /\ before \in Seq(AllPieces)

Inv == TypeOK /\ Lines

(* What TypeOK says of one caller, and of the holder. *)
LEMMA CallerTypes ==
  ASSUME TypeOK, NEW c \in Callers
  PROVE  /\ calls[c] \in Nat /\ pc[c] \in {"idle", "waiting", "writing"}
         /\ text[c] \in Texts /\ text[c] \in Seq(AllPieces) /\ Len(text[c]) \in Nat
         /\ taken[c] \in Nat /\ taken[c] <= Len(text[c])
         /\ pc[c] = "writing" => holder = c /\ line = before \o SubSeq(text[c], 1, taken[c])
         /\ pc[c] # "writing" => holder # c /\ taken[c] = 0
<1>1. calls[c] \in Nat /\ pc[c] \in {"idle", "waiting", "writing"} /\ text[c] \in Texts
  BY DEF TypeOK
<1>2. text[c] \in Seq(AllPieces) /\ Len(text[c]) \in Nat
  BY <1>1, TextsAreTexts, LenProperties
<1>3. taken[c] \in Nat /\ taken[c] <= Len(text[c])
  BY DEF TypeOK
<1>4. IF holder = c THEN pc[c] = "writing" ELSE pc[c] # "writing" /\ taken[c] = 0
  BY DEF TypeOK
<1>5. pc[c] = "writing" => holder = c /\ line = before \o SubSeq(text[c], 1, taken[c])
  BY <1>4 DEF TypeOK
<1>. QED
  BY <1>1, <1>2, <1>3, <1>4, <1>5

LEMMA InitInv == Init => Inv
<1>. SUFFICES ASSUME Init PROVE Inv
  OBVIOUS
<1>1. line = <<>> /\ before = <<>> /\ read = 0 /\ Len(<<>>) = 0
  BY DEF Init
<1>2. Lines
  BY <1>1, EmptySeq DEF Lines
<1>3. \A c \in Callers : text[c] = <<>> /\ pc[c] = "idle" /\ taken[c] = 0 /\ holder # c
  BY DEF Init
<1>4. pc \in [Callers -> {"idle", "waiting", "writing"}] /\ text \in [Callers -> Texts]
  BY DEF Init, Texts
<1>5. taken \in [Callers -> Nat] /\ \A c \in Callers : taken[c] <= Len(text[c])
  BY <1>1, <1>3 DEF Init
<1>6. read \in 0 .. Len(line)
  BY <1>1
<1>7. holder = NoCaller /\ calls \in [Callers -> Nat]
  BY DEF Init
<1>8. TypeOK
  BY <1>3, <1>4, <1>5, <1>6, <1>7 DEF TypeOK
<1>. QED
  BY <1>2, <1>8 DEF Inv

(* A line that grows is still as long as what the receiver has read. *)
LEMMA GrowsAfterRead ==
  ASSUME Inv, NEW more \in Seq(AllPieces), line' = line \o more, read' = read
  PROVE  line' \in Seq(AllPieces) /\ read' \in 0 .. Len(line')
<1>1. read \in Nat /\ read <= Len(line) /\ Len(line) \in Nat
  BY LenProperties DEF Inv, TypeOK, Lines
<1>2. line' \in Seq(AllPieces) /\ Len(line') = Len(line) + Len(more)
  BY ConcatProperties DEF Inv, Lines
<1>3. Len(more) \in Nat
  BY LenProperties
<1>. QED
  BY <1>1, <1>2, <1>3

LEMMA CallKeeps ==
  ASSUME Inv, NEW c \in Callers, NEW q \in Requests, Call(c, q)
  PROVE  Inv'
<1>. DEFINE t == TextOf(q)
<1>1. /\ pc[c] = "idle" /\ calls[c] > 0
      /\ calls' = [calls EXCEPT ![c] = @ - 1] /\ text' = [text EXCEPT ![c] = t]
      /\ pc' = [pc EXCEPT ![c] = IF t = <<>> THEN "idle" ELSE "waiting"]
      /\ UNCHANGED <<taken, holder, before, line, read>>
  BY DEF Call, receiver
<1>2. t \in Texts /\ t \in Seq(AllPieces) /\ Len(t) \in Nat
  BY TextIsText, LenProperties DEF Texts
<1>3. holder # c /\ taken[c] = 0 /\ calls[c] - 1 \in Nat
  BY <1>1, CallerTypes DEF Inv
<1>4. calls' \in [Callers -> Nat] /\ text' \in [Callers -> Texts]
  BY <1>1, <1>2, <1>3 DEF Inv, TypeOK
<1>5. /\ pc' \in [Callers -> {"idle", "waiting", "writing"}]
      /\ pc'[c] \in {"idle", "waiting"} /\ (pc'[c] = "idle" => t = <<>>) /\ (t = <<>> => pc'[c] = "idle")
      /\ text'[c] = t
      /\ \A d \in Callers \ {c} : pc'[d] = pc[d] /\ text'[d] = text[d]
  BY <1>1 DEF Inv, TypeOK
<1>6. \A d \in Callers : text'[d] = <<>> <=> pc'[d] = "idle"
  BY <1>5 DEF Inv, TypeOK
<1>7. taken' \in [Callers -> Nat] /\ \A d \in Callers : taken'[d] <= Len(text'[d])
  BY <1>1, <1>2, <1>3, <1>5 DEF Inv, TypeOK
<1>8. \A d \in Callers : IF holder' = d THEN pc'[d] = "writing" ELSE pc'[d] # "writing" /\ taken'[d] = 0
  BY <1>1, <1>3, <1>5 DEF Inv, TypeOK
<1>9. line' = IF holder' = NoCaller THEN line' ELSE before' \o SubSeq(text'[holder'], 1, taken'[holder'])
  BY <1>1, <1>3, <1>5 DEF Inv, TypeOK
<1>10. TypeOK'
  BY <1>1, <1>4, <1>5, <1>6, <1>7, <1>8, <1>9 DEF Inv, TypeOK
<1>. QED
  BY <1>1, <1>10 DEF Inv, Lines

LEMMA LockKeeps ==
  ASSUME Inv, NEW c \in Callers, Lock(c)
  PROVE  Inv'
<1>1. /\ pc[c] = "waiting" /\ holder = NoCaller /\ holder' = c /\ before' = line
      /\ pc' = [pc EXCEPT ![c] = "writing"]
      /\ UNCHANGED <<calls, text, taken, line, read>>
  BY DEF Lock, receiver
<1>2. taken[c] = 0
  BY <1>1, CallerTypes DEF Inv
<1>3. /\ pc' \in [Callers -> {"idle", "waiting", "writing"}] /\ pc'[c] = "writing"
      /\ \A d \in Callers \ {c} : pc'[d] = pc[d]
  BY <1>1 DEF Inv, TypeOK
<1>4. \A d \in Callers : text'[d] = <<>> <=> pc'[d] = "idle"
  BY <1>1, <1>3 DEF Inv, TypeOK
<1>5. \A d \in Callers : IF holder' = d THEN pc'[d] = "writing" ELSE pc'[d] # "writing" /\ taken'[d] = 0
  BY <1>1, <1>3 DEF Inv, TypeOK
<1>6. line' = before' \o SubSeq(text'[c], 1, taken'[c])
  <2>1. SubSeq(text[c], 1, 0) = <<>>
    BY SubSeqEmpty
  <2>2. line \o <<>> = line
    BY ConcatEmptySeq DEF Inv, Lines
  <2>. QED
    BY <1>1, <1>2, <2>1, <2>2
<1>7. TypeOK'
  BY <1>1, <1>3, <1>4, <1>5, <1>6 DEF Inv, TypeOK
<1>. QED
  BY <1>1, <1>7 DEF Inv, Lines

LEMMA TakeKeeps ==
  ASSUME Inv, NEW c \in Callers, Take(c)
  PROVE  Inv'
<1>1. /\ pc[c] = "writing" /\ taken[c] < Len(text[c])
      /\ line' = Append(line, text[c][taken[c] + 1])
      /\ taken' = [taken EXCEPT ![c] = @ + 1]
      /\ UNCHANGED <<calls, pc, text, holder, before, read>>
  BY DEF Take, receiver
<1>. DEFINE k == taken[c] + 1
            piece == text[c][k]
<1>2. /\ text[c] \in Seq(AllPieces) /\ k \in 1 .. Len(text[c])
      /\ holder = c /\ line = before \o SubSeq(text[c], 1, taken[c])
  BY <1>1, CallerTypes, SMTT(30) DEF Inv
<1>3. piece \in AllPieces
  BY <1>2, ElementOfSeq
<1>4. line' = line \o <<piece>> /\ <<piece>> \in Seq(AllPieces)
  BY <1>1, <1>3, AppendIsConcat DEF Inv, Lines
<1>5. line' \in Seq(AllPieces) /\ read' \in 0 .. Len(line')
  BY <1>1, <1>4, GrowsAfterRead
<1>6. line' = before \o SubSeq(text[c], 1, k)
  <2>1. SubSeq(text[c], 1, k) = SubSeq(text[c], 1, taken[c]) \o <<piece>>
    <3>1. \A n \in 1 .. Len(text[c]) :
             SubSeq(text[c], 1, n) = SubSeq(text[c], 1, n - 1) \o <<text[c][n]>>
      <4>. SUFFICES ASSUME NEW n \in 1 .. Len(text[c])
                    PROVE  SubSeq(text[c], 1, n) = SubSeq(text[c], 1, n - 1) \o <<text[c][n]>>
        OBVIOUS
      <4>1. 1 \in 1 .. Len(text[c])
        BY <1>2, LenProperties
      <4>2. n \in 1 .. Len(text[c])
        OBVIOUS
      <4>. QED
        BY <1>2, <4>1, <4>2, SubSeqRecursiveSecond
    <3>2. k - 1 = taken[c]
      BY <1>1, CallerTypes DEF Inv
    <3>. QED
      BY <1>2, <3>1, <3>2
  <2>2. SubSeq(text[c], 1, taken[c]) \in Seq(AllPieces)
    <3>1. taken[c] \in Int /\ \A i \in 1 .. taken[c] : text[c][i] \in AllPieces
      BY <1>1, <1>2, CallerTypes, ElementOfSeq DEF Inv
    <3>. QED
      BY <3>1, SubSeqProperties
  <2>3. (before \o SubSeq(text[c], 1, taken[c])) \o <<piece>>
          = before \o (SubSeq(text[c], 1, taken[c]) \o <<piece>>)
    <3>1. PICK s \in Seq(AllPieces), t \in Seq(AllPieces) : s = before /\ t = SubSeq(text[c], 1, taken[c])
      BY <2>2 DEF Inv, Lines
    <3>2. PICK u \in Seq(AllPieces) : u = <<piece>>
      BY <1>4
    <3>3. (s \o t) \o u = s \o (t \o u)
      BY ONLY s \in Seq(AllPieces), t \in Seq(AllPieces), u \in Seq(AllPieces), Regroup, SMTT(60)
    <3>. QED
      BY <3>1, <3>2, <3>3
  <2>. QED
    BY <1>2, <1>4, <2>1, <2>3 DEF Inv, Lines
<1>7. taken'[c] = k /\ \A d \in Callers \ {c} : taken'[d] = taken[d]
  <2>1. taken' = [taken EXCEPT ![c] = k]
    BY <1>1
  <2>. QED
    BY <2>1 DEF Inv, TypeOK
<1>8. taken' \in [Callers -> Nat] /\ \A d \in Callers : taken'[d] <= Len(text'[d])
  <2>1. taken' \in [Callers -> Nat]
    BY <1>1 DEF Inv, TypeOK
  <2>2. k <= Len(text[c])
    BY <1>2
  <2>. QED
    BY <1>1, <1>7, <2>1, <2>2 DEF Inv, TypeOK
<1>9. \A d \in Callers : IF holder' = d THEN pc'[d] = "writing" ELSE pc'[d] # "writing" /\ taken'[d] = 0
  BY <1>1, <1>2, <1>7 DEF Inv, TypeOK
<1>10. line' = IF holder' = NoCaller THEN line' ELSE before' \o SubSeq(text'[holder'], 1, taken'[holder'])
  BY <1>1, <1>2, <1>6, <1>7
<1>11. TypeOK'
  BY <1>1, <1>5, <1>8, <1>9, <1>10 DEF Inv, TypeOK
<1>. QED
  BY <1>1, <1>5, <1>11 DEF Inv, Lines

(* A call that gives the mutex back, with more on the wire or as much. *)
LEMMA ReturnKeeps ==
  ASSUME Inv, NEW c \in Callers, NEW ok \in BOOLEAN, pc[c] = "writing", Return(c, ok),
         NEW more \in Seq(AllPieces), line' = line \o more
  PROVE  Inv'
<1>1. /\ holder' = NoCaller
      /\ pc' = [pc EXCEPT ![c] = "idle"]
      /\ text' = [text EXCEPT ![c] = <<>>]
      /\ taken' = [taken EXCEPT ![c] = 0]
      /\ UNCHANGED <<calls, before, read>>
  BY DEF Return, receiver
<1>2. holder = c
  BY CallerTypes DEF Inv
<1>3. line' \in Seq(AllPieces) /\ read' \in 0 .. Len(line')
  BY <1>1, GrowsAfterRead
<1>4. /\ pc'[c] = "idle" /\ text'[c] = <<>> /\ taken'[c] = 0
      /\ \A d \in Callers \ {c} : pc'[d] = pc[d] /\ text'[d] = text[d] /\ taken'[d] = taken[d]
  BY <1>1 DEF Inv, TypeOK
<1>5. /\ pc' \in [Callers -> {"idle", "waiting", "writing"}]
      /\ text' \in [Callers -> Texts] /\ taken' \in [Callers -> Nat]
  <2>1. <<>> \in Texts
    BY DEF Texts
  <2>. QED
    BY <1>1, <2>1 DEF Inv, TypeOK
<1>6. \A d \in Callers : text'[d] = <<>> <=> pc'[d] = "idle"
  BY <1>4, ZenonT(40) DEF Inv, TypeOK
<1>7. \A d \in Callers : taken'[d] <= Len(text'[d])
  <2>1. taken'[c] <= Len(text'[c])
    <3>1. Len(<<>>) = 0
      OBVIOUS
    <3>. QED
      BY <1>4, <3>1
  <2>2. \A d \in Callers \ {c} : taken'[d] <= Len(text'[d])
    BY <1>4 DEF Inv, TypeOK
  <2>. QED
    BY <2>1, <2>2
<1>8. \A d \in Callers : IF holder' = d THEN pc'[d] = "writing" ELSE pc'[d] # "writing" /\ taken'[d] = 0
  BY <1>1, <1>2, <1>4 DEF Inv, TypeOK
<1>9. TypeOK'
  BY <1>1, <1>3, <1>5, <1>6, <1>7, <1>8 DEF Inv, TypeOK
<1>. QED
  BY <1>1, <1>3, <1>9 DEF Inv, Lines

LEMMA WriteKeeps ==
  ASSUME Inv, NEW c \in Callers, Write(c)
  PROVE  Inv'
<1>1. <<>> \in Seq(AllPieces) /\ <<Torn>> \in Seq(AllPieces)
  <2>1. Torn \in AllPieces
    BY DEF Torn, Piece, AllPieces, Words
  <2>. QED
    BY <2>1, EmptySeq
<1>2. CASE Written(c)
  <2>1. line' = line \o <<>>
    BY <1>2, ConcatEmptySeq DEF Written, Inv, Lines
  <2>. QED
    BY <1>1, <1>2, <2>1, ReturnKeeps DEF Written
<1>3. CASE CutOff(c)
  <2>1. PICK tail \in {<<>>, <<Torn>>} : line' = line \o tail
    BY <1>3 DEF CutOff
  <2>2. tail \in Seq(AllPieces)
    BY <1>1
  <2>. QED
    BY <1>3, <2>1, <2>2, ReturnKeeps DEF CutOff
<1>. QED
  BY <1>2, <1>3, TakeKeeps DEF Write

LEMMA ReceiveKeeps ==
  ASSUME Inv, Receive
  PROVE  Inv'
<1>1. PICK e \in read + 1 .. Len(line) : read' = e
  BY DEF Receive
<1>2. UNCHANGED <<calls, pc, text, taken, holder, before, line>>
  BY DEF Receive, caller
<1>3. read' \in 0 .. Len(line')
  BY <1>1, <1>2, LenProperties DEF Inv, TypeOK, Lines
<1>. QED
  BY <1>2, <1>3 DEF Inv, TypeOK, Lines

LEMMA StepInv == Inv /\ [Next]_vars => Inv'
<1>. SUFFICES ASSUME Inv, [Next]_vars PROVE Inv'
  OBVIOUS
<1>1. CASE UNCHANGED vars
  BY <1>1 DEF vars, caller, receiver, Inv, TypeOK, Lines
<1>. QED
  BY <1>1, CallKeeps, LockKeeps, WriteKeeps, ReceiveKeeps DEF Next

(* The mutex is held by the one that writes, and behind what was there     *)
(* when it got it, there is what write() took of its text.                 *)
THEOREM TypeCorrect == Spec => []TypeOK
<1>1. Inv => TypeOK
  BY DEF Inv
<1>. QED
  BY InitInv, StepInv, <1>1, PTL DEF Spec

-----------------------------------------------------------------------------
(* What CommandChannel sees of the line. *)
Seen == IF holder = NoCaller THEN line ELSE before

LEMMA InitImplements == Init => Abstract!Init
BY DEF Init, Abstract!Init

LEMMA CallImplements ==
  ASSUME Inv, NEW c \in Callers, NEW q \in Requests, Call(c, q)
  PROVE  [Abstract!Next]_(Abstract!vars)
<1>. DEFINE t == TextOf(q)
<1>1. /\ pc[c] = "idle" /\ text' = [text EXCEPT ![c] = t]
      /\ UNCHANGED <<holder, before, line, sent>>
  BY DEF Call
<1>2. text[c] = <<>> /\ t \in Texts
  BY <1>1 DEF Inv, TypeOK, Texts
<1>3. CASE t = <<>>
  <2>1. text' = text
    BY <1>1, <1>2, <1>3 DEF Inv, TypeOK
  <2>. QED
    BY <1>1, <2>1 DEF Abstract!vars
<1>4. CASE t # <<>>
  <2>1. Abstract!Ask(c)
    BY <1>1, <1>2, <1>4 DEF Abstract!Ask
  <2>. QED
    BY <2>1 DEF Abstract!Next
<1>. QED
  BY <1>3, <1>4

(* Getting the mutex, a part of the text taken, and the receiver's reading *)
(* are nothing to the callers.                                             *)
LEMMA StuttersImplement ==
  ASSUME Inv, Receive \/ UNCHANGED vars \/ (\E c \in Callers : Lock(c) \/ Take(c))
  PROVE  UNCHANGED Abstract!vars
<1>1. CASE Receive \/ UNCHANGED vars
  BY <1>1 DEF Receive, vars, caller, Abstract!vars
<1>2. ASSUME NEW c \in Callers, Lock(c)
      PROVE  UNCHANGED Abstract!vars
  <2>1. holder = NoCaller /\ holder' = c /\ before' = line /\ UNCHANGED <<text, sent>>
    BY <1>2 DEF Lock
  <2>. QED
    BY <2>1 DEF Abstract!vars
<1>3. ASSUME NEW c \in Callers, Take(c)
      PROVE  UNCHANGED Abstract!vars
  <2>1. pc[c] = "writing" /\ UNCHANGED <<text, holder, before, sent>>
    BY <1>3 DEF Take
  <2>2. holder = c
    BY <2>1, CallerTypes DEF Inv
  <2>. QED
    BY <2>1, <2>2 DEF Abstract!vars
<1>. QED
  BY <1>1, <1>2, <1>3

LEMMA WrittenImplements ==
  ASSUME Inv, NEW c \in Callers, Written(c)
  PROVE  Abstract!ReturnOk(c)
<1>1. /\ pc[c] = "writing" /\ taken[c] = Len(text[c]) /\ line' = line /\ holder' = NoCaller
      /\ text' = [text EXCEPT ![c] = <<>>]
      /\ sent' = Append(sent, [text |-> text[c], ok |-> TRUE])
  BY DEF Written, Return
<1>2. holder = c /\ line = before \o SubSeq(text[c], 1, taken[c]) /\ text[c] # <<>>
  BY <1>1, CallerTypes DEF Inv, TypeOK
<1>3. SubSeq(text[c], 1, taken[c]) = text[c]
  BY <1>1, CallerTypes, SubSeqFull DEF Inv
<1>4. Seen = before /\ Seen' = before \o text[c]
  BY <1>1, <1>2, <1>3 DEF Seen
<1>. QED
  BY <1>1, <1>2, <1>4 DEF Abstract!ReturnOk, Abstract!Answer, Seen

LEMMA CutOffImplements ==
  ASSUME Inv, NEW c \in Callers, CutOff(c)
  PROVE  Abstract!ReturnErr(c)
<1>1. /\ pc[c] = "writing" /\ taken[c] < Len(text[c]) /\ holder' = NoCaller
      /\ text' = [text EXCEPT ![c] = <<>>]
      /\ sent' = Append(sent, [text |-> text[c], ok |-> FALSE])
  BY DEF CutOff, Return
<1>2. PICK tail \in {<<>>, <<Torn>>} : line' = line \o tail
  BY DEF CutOff
<1>3. holder = c /\ line = before \o SubSeq(text[c], 1, taken[c]) /\ text[c] # <<>>
  BY <1>1, CallerTypes DEF Inv, TypeOK
<1>4. taken[c] \in 0 .. Len(text[c]) - 1
  BY <1>1, CallerTypes DEF Inv
<1>5. Seen = before /\ Seen' = before \o SubSeq(text[c], 1, taken[c]) \o tail
  BY <1>1, <1>2, <1>3 DEF Seen
<1>. QED
  BY <1>1, <1>3, <1>4, <1>5 DEF Abstract!ReturnErr, Abstract!Answer, Seen

LEMMA StepImplements == Inv /\ [Next]_vars => [Abstract!Next]_(Abstract!vars)
<1>. SUFFICES ASSUME Inv, [Next]_vars PROVE [Abstract!Next]_(Abstract!vars)
  OBVIOUS
<1>1. CASE Receive \/ UNCHANGED vars \/ (\E c \in Callers : Lock(c) \/ Take(c))
  BY <1>1, StuttersImplement
<1>2. ASSUME NEW c \in Callers, NEW q \in Requests, Call(c, q)
      PROVE  [Abstract!Next]_(Abstract!vars)
  BY <1>2, CallImplements
<1>3. ASSUME NEW c \in Callers, Written(c) \/ CutOff(c)
      PROVE  Abstract!Next
  BY <1>3, WrittenImplements, CutOffImplements DEF Abstract!Next
<1>. QED
  BY <1>1, <1>2, <1>3 DEF Next, Write

(* However many threads send at once, and wherever write() stops, their    *)
(* texts go out one after the other: a call that returns Ok has put out    *)
(* its whole text, one that returns Err a beginning of it.                 *)
THEOREM ImplementsChannel == Spec => Channel
<1>1. Spec => []Inv
  BY InitInv, StepInv, PTL DEF Spec
<1>. QED
  BY <1>1, InitImplements, StepImplements, PTL DEF Spec, Channel, Abstract!Spec

-----------------------------------------------------------------------------
(* The texts, piece by piece: a command has one HEADER, at its start, one  *)
(* LINE_END, at its end, and passes; a correction has neither.             *)
Plain == {Piece(w) : w \in Words \ {">", "CRLF"}}

IsLine(t) ==
  /\ Len(t) >= 4 /\ t[1] = HEADER /\ t[Len(t)] = LINE_END
  /\ \A i \in 2 .. Len(t) - 1 : t[i] # HEADER /\ t[i] # LINE_END
  /\ Passes(t)

LEMMA PlainIsPlain ==
  /\ Plain \subseteq AllPieces /\ \A p \in Plain : p # HEADER /\ p # LINE_END
  /\ HEADER # LINE_END /\ HEADER \in AllPieces /\ LINE_END \in AllPieces
<1>1. ASSUME NEW w \in Words \ {">", "CRLF"}
      PROVE  Piece(w) \in AllPieces /\ Piece(w) # HEADER /\ Piece(w) # LINE_END
  <2>1. w \in Piece(w) /\ w \notin HEADER /\ w \notin LINE_END
    BY DEF Piece, HEADER, LINE_END
  <2>2. Piece(w) \in AllPieces
    BY DEF Piece, AllPieces
  <2>. QED
    BY <2>1, <2>2
<1>2. ">" \in HEADER /\ ">" \notin LINE_END
  BY DEF HEADER, LINE_END, Piece
<1>3. HEADER \in AllPieces /\ LINE_END \in AllPieces
  BY DEF HEADER, LINE_END, Piece, AllPieces, Words
<1>. QED
  BY <1>1, <1>2, <1>3 DEF Plain

(* With the check and the line end behind it, what starts with the only    *)
(* HEADER in it is a line that passes.                                     *)
LEMMA CheckedIsLine ==
  ASSUME NEW cmd \in Seq(AllPieces), Len(cmd) >= 2, cmd[1] = HEADER,
         \A i \in 2 .. Len(cmd) : cmd[i] \in Plain
  PROVE  IsLine(AppendCheckXOR(cmd))
<1>. DEFINE t == AppendCheckXOR(cmd)
            x == CalculateXOR(Tail(cmd))
<1>1. cmd # <<>> /\ Len(cmd) \in Nat
  <2>1. Len(<<>>) = 0
    OBVIOUS
  <2>. QED
    BY <2>1, LenProperties
<1>2. x \in AllPieces /\ x # HEADER /\ x # LINE_END
  <2>1. "*" \in x /\ "*" \notin HEADER /\ "*" \notin LINE_END
    BY DEF CalculateXOR, HEADER, LINE_END, Piece
  <2>2. x \in AllPieces
    BY <1>1, CheckIsPiece
  <2>. QED
    BY <2>1, <2>2
<1>3. PICK check \in AllPieces : check = x
  BY <1>2
<1>4. /\ t \in Seq(AllPieces) /\ Len(t) = Len(cmd) + 2
      /\ \A i \in 1 .. Len(cmd) : t[i] = cmd[i]
      /\ t[Len(cmd) + 1] = check /\ t[Len(cmd) + 2] = LINE_END
  <2>1. t = cmd \o <<check, LINE_END>> /\ <<check, LINE_END>> \in Seq(AllPieces)
        /\ Len(<<check, LINE_END>>) = 2
    BY <1>3, PlainIsPlain DEF AppendCheckXOR
  <2>. HIDE DEF t
  <2>. QED
    BY <1>1, <2>1, ConcatProperties
<1>. HIDE DEF t, x
<1>5. \A i \in 2 .. Len(t) - 1 : t[i] # HEADER /\ t[i] # LINE_END
  <2>. SUFFICES ASSUME NEW i \in 2 .. Len(t) - 1 PROVE t[i] # HEADER /\ t[i] # LINE_END
    OBVIOUS
  <2>1. i \in 2 .. Len(cmd) \/ i = Len(cmd) + 1
    BY <1>1, <1>4
  <2>. QED
    BY <1>1, <1>2, <1>3, <1>4, <2>1, PlainIsPlain
<1>6. SubSeq(t, 2, Len(t) - 2) = Tail(cmd)
  <2>1. Len(t) - 2 = Len(cmd)
    BY <1>1, <1>4
  <2>2. SubSeq(t, 2, Len(cmd)) \in Seq(AllPieces) /\ Len(SubSeq(t, 2, Len(cmd))) = Len(cmd) - 1
        /\ \A i \in 1 .. Len(cmd) - 1 : SubSeq(t, 2, Len(cmd))[i] = cmd[i + 1]
    BY <1>1, <1>4
  <2>3. Tail(cmd) \in Seq(AllPieces) /\ Len(Tail(cmd)) = Len(cmd) - 1
        /\ \A i \in 1 .. Len(cmd) - 1 : Tail(cmd)[i] = cmd[i + 1]
    BY <1>1
  <2>4. \A s, u \in Seq(AllPieces) :
           Len(s) = Len(u) /\ (\A i \in 1 .. Len(s) : s[i] = u[i]) => s = u
    BY SeqEqual
  <2>. QED
    BY <2>1, <2>2, <2>3, <2>4
<1>7. Passes(t)
  <2>1. Len(t) - 1 = Len(cmd) + 1 /\ Len(t) >= 4 /\ t[1] = HEADER /\ t[Len(t)] = LINE_END
    BY <1>1, <1>4
  <2>. QED
    BY <1>3, <1>4, <1>6, <2>1 DEF Passes, x
<1>8. IsLine(t)
  BY <1>1, <1>4, <1>5, <1>7 DEF IsLine
<1>. QED
  BY <1>8 DEF t

(* The parameters of a valid command. *)
LEMMA ParamIsPlain == \A v \in Words \ {">", "CRLF"} : Param(v) \in Seq(Plain)
<1>1. \A v \in Words \ {">", "CRLF"} : Piece(v) \in Plain
  BY DEF Plain
<1>. QED
  BY <1>1 DEF Param

(* Every parameter that is checked, and one that is left out, is a word of *)
(* its own.                                                                *)
LEMMA ValidIsPlain ==
  ASSUME NEW c \in AllCommands, Valid(c)
  PROVE  /\ c.name = "OUTMSG" => OutmsgText(c) \in Seq(Plain)
         /\ c.name = "OFFMSG" => OffmsgText(c) \in Seq(Plain)
         /\ c.name = "CONFIGCOM" => ConfigComText(c) \in Seq(Plain)
<1>. DEFINE Good == Words \ {">", "CRLF"}
<1>1. /\ \A v \in Good : Param(v) \in Seq(Plain)
      /\ \A s, t, u \in Seq(Plain) : s \o t \in Seq(Plain) /\ s \o t \o u \in Seq(Plain)
      /\ <<>> \in Seq(Plain)
  BY ParamIsPlain, ConcatProperties
<1>2. ASSUME NEW v \in Words,
             v \in Ports \cup NMEANames \cup GmfNames \cup Groups \cup Periods \cup Baudrates
                     \cup Parities \cup DataBits \cup StopBits \cup {Unspecified}
      PROVE  v \in Good
  BY <1>2 DEF Ports, NMEANames, GmfNames, Groups, Periods, Baudrates, Parities, DataBits,
     StopBits, Unspecified
<1>. HIDE DEF Good
<1>3. ASSUME c.name = "OUTMSG"
      PROVE  OutmsgText(c) \in Seq(Plain)
  <2>1. c.port \in Words /\ c.msg_name \in Words /\ c.period \in Words
    BY <1>3 DEF AllCommands, CommandsOf
  <2>2. OutmsgValid(c)
    BY <1>3 DEF Valid
  <2>3. c.port \in Good /\ c.msg_name \in Good /\ c.period \in Good
    BY <1>2, <2>1, <2>2 DEF OutmsgValid, IsValidMessageName, IsValidPeriod, IsValidPort, Specified
  <2>. QED
    BY <1>1, <2>3 DEF OutmsgText
<1>4. ASSUME c.name = "OFFMSG"
      PROVE  OffmsgText(c) \in Seq(Plain)
  <2>1. c.port \in Words /\ c.msg_name \in Words
    BY <1>4 DEF AllCommands, CommandsOf
  <2>2. OffmsgValid(c)
    BY <1>4 DEF Valid
  <2>3. c.port \in Good /\ c.msg_name \in Good
    BY <1>2, <2>1, <2>2 DEF OffmsgValid, IsValidMessageName, IsValidPort, Specified
  <2>. QED
    BY <1>1, <2>3 DEF OffmsgText
<1>5. ASSUME c.name = "CONFIGCOM"
      PROVE  ConfigComText(c) \in Seq(Plain)
  <2>1. /\ c.port \in Words /\ c.baudrate \in Words /\ c.parity \in Words
        /\ c.data_bits \in Words /\ c.stop_bits \in Words
    BY <1>5 DEF AllCommands, CommandsOf
  <2>2. ConfigComValid(c)
    BY <1>5 DEF Valid
  <2>3. c.port \in Good /\ c.baudrate \in Good
    BY <1>2, <2>1, <2>2 DEF ConfigComValid, IsValidBaudrate, IsValidPort, Specified
  <2>4. /\ Specified(c.parity) => c.parity \in Good
        /\ Specified(c.parity) /\ Specified(c.data_bits) => c.data_bits \in Good /\ c.stop_bits \in Good
    BY <1>2, <2>1, <2>2
       DEF ConfigComValid, IsValidComParity, IsValidDataBits, IsValidStopBits, Specified
  <2>5. (IF c.parity = Unspecified THEN <<>>
         ELSE IF c.data_bits = Unspecified THEN Param(c.parity)
         ELSE Param(c.parity) \o Param(c.data_bits) \o Param(c.stop_bits)) \in Seq(Plain)
    BY <1>1, <2>4 DEF Specified
  <2>. QED
    BY <1>1, <2>3, <2>5 DEF ConfigComText
<1>. QED
  BY <1>3, <1>4, <1>5

LEMMA CommandIsLine ==
  ASSUME NEW c \in AllCommands
  PROVE  GetCmdString(c) = <<>> \/ IsLine(GetCmdString(c))
<1>. SUFFICES ASSUME Valid(c) PROVE IsLine(GetCmdString(c))
  BY DEF GetCmdString
<1>. DEFINE parameters == CASE c.name = "OUTMSG" -> OutmsgText(c)
                            [] c.name = "OFFMSG" -> OffmsgText(c)
                            [] c.name = "CONFIGCOM" -> ConfigComText(c)
            cmd == <<HEADER, Piece(c.name)>> \o parameters
<1>1. c.name \in {"OUTMSG", "OFFMSG", "CONFIGCOM"}
  BY DEF AllCommands, CommandsOf
<1>2. parameters \in Seq(Plain)
  BY <1>1, ValidIsPlain
<1>3. PICK ps \in Seq(Plain) : ps = parameters
  BY <1>2
<1>4. PICK name \in Plain : name = Piece(c.name)
  BY <1>1 DEF Plain, Words
<1>. HIDE DEF parameters
<1>5. ps \in Seq(AllPieces) /\ Len(ps) \in Nat /\ \A i \in 1 .. Len(ps) : ps[i] \in Plain
  <2>1. \A i \in 1 .. Len(ps) : ps[i] \in Plain
    BY ElementOfSeq
  <2>. QED
    BY <2>1, PlainIsPlain
<1>6. /\ cmd \in Seq(AllPieces) /\ Len(cmd) = 2 + Len(ps) /\ cmd[1] = HEADER
      /\ \A i \in 2 .. Len(cmd) : cmd[i] \in Plain
  <2>1. <<HEADER, name>> \in Seq(AllPieces) /\ Len(<<HEADER, name>>) = 2
    BY PlainIsPlain
  <2>2. cmd = <<HEADER, name>> \o ps
    BY <1>3, <1>4
  <2>. HIDE DEF cmd
  <2>3. /\ cmd \in Seq(AllPieces) /\ Len(cmd) = 2 + Len(ps)
        /\ \A i \in 1 .. 2 + Len(ps) : cmd[i] = IF i <= 2 THEN <<HEADER, name>>[i] ELSE ps[i - 2]
    BY <1>5, <2>1, <2>2, ConcatProperties
  <2>4. cmd[1] = HEADER /\ cmd[2] = name
    BY <1>5, <2>3
  <2>5. \A i \in 3 .. Len(cmd) : cmd[i] \in Plain
    BY <1>5, <2>3
  <2>. QED
    BY <1>5, <2>3, <2>4, <2>5
<1>7. GetCmdString(c) = AppendCheckXOR(cmd)
  BY DEF GetCmdString, parameters
<1>. HIDE DEF cmd
<1>8. Len(cmd) >= 2
  BY <1>5, <1>6
<1>. QED
  BY <1>6, <1>7, <1>8, CheckedIsLine

(* A request is a correction, or it is put into one line. *)
LEMMA TextIsLine ==
  ASSUME NEW q \in Requests
  PROVE  TextOf(q) = <<>> \/ TextOf(q) = Rtcm \/ IsLine(TextOf(q))
<1>. DEFINE Fine(t) == t = <<>> \/ IsLine(t)
<1>1. q \in AllRequests
  OBVIOUS
<1>2. /\ STRING \subseteq Words /\ Unspecified \in Words
      /\ \A m \in DOMAIN SlaveAnt : SlaveAnt[m] \in Words
  BY DEF Words, SlaveAnt
<1>3. \A msg \in Words : Fine(GetCmdString(Offmsg(Unspecified, msg)))
  <2>1. \A msg \in Words : Offmsg(Unspecified, msg) \in AllCommands
    BY <1>2 DEF Offmsg, AllCommands, CommandsOf
  <2>. QED
    BY <2>1, CommandIsLine
<1>4. \A msg, period \in Words : Fine(GetCmdString(Outmsg(Unspecified, msg, period)))
  <2>1. \A msg, period \in Words : Outmsg(Unspecified, msg, period) \in AllCommands
    BY <1>2 DEF Outmsg, AllCommands, CommandsOf
  <2>. QED
    BY <2>1, CommandIsLine
<1>5. \A cmd \in AllCommands : Fine(GetCmdString(cmd))
  BY CommandIsLine
<1>. HIDE DEF Fine
<1>6. Fine(<<>>) /\ \A msg, t : Fine(t) => Fine(IfSupported(msg, t))
  BY DEF Fine, IfSupported
<1>7. CASE q.op = "RequestMessage"
  <2>1. q.msg \in Words /\ q.period \in Words
    BY <1>1, <1>2, <1>7 DEF AllRequests
  <2>2. Fine(TextOf(q))
    BY <1>4, <1>6, <1>7, <2>1 DEF TextOf, RequestMessage, GetRequestMessageCmd
  <2>. QED
    BY <2>2 DEF Fine
<1>8. CASE q.op = "CancelMessage"
  <2>1. q.msg \in Words
    BY <1>1, <1>2, <1>8 DEF AllRequests
  <2>2. Fine(TextOf(q))
    BY <1>3, <1>6, <1>8, <2>1 DEF TextOf, CancelMessage, GetCancelMessageCmd
  <2>. QED
    BY <2>2 DEF Fine
<1>9. CASE q.op = "RequestSlaveAntMessage"
  <2>1. q.period \in Words
    BY <1>1, <1>2, <1>9 DEF AllRequests
  <2>2. Fine(GetRequestSlaveAntMessageCmd(q.msg, q.period))
    BY <1>2, <1>4, <1>6, <2>1 DEF GetRequestSlaveAntMessageCmd
  <2>3. Fine(TextOf(q))
    BY <1>6, <1>9, <2>2 DEF TextOf, RequestSlaveAntMessage
  <2>. QED
    BY <2>3 DEF Fine
<1>10. CASE q.op = "CancelSlaveAntMessage"
  <2>1. Fine(GetCancelSlaveAntMessageCmd(q.msg))
    BY <1>2, <1>3, <1>6 DEF GetCancelSlaveAntMessageCmd
  <2>2. Fine(TextOf(q))
    BY <1>6, <1>10, <2>1 DEF TextOf, CancelSlaveAntMessage
  <2>. QED
    BY <2>2 DEF Fine
<1>11. CASE q.op = "ExecuteCommand"
  <2>1. q.cmd \in AllCommands
    BY <1>1, <1>2, <1>11 DEF AllRequests, AllCommands, CommandsOf
  <2>2. Fine(TextOf(q))
    BY <1>5, <1>11, <2>1 DEF TextOf, ExecuteCommand
  <2>. QED
    BY <2>2 DEF Fine
<1>12. CASE q.op = "SendMessage"
  BY <1>12 DEF TextOf
<1>. QED
  BY <1>1, <1>7, <1>8, <1>9, <1>10, <1>11, <1>12 DEF AllRequests

(* The texts that are written, with how the call ended. *)
Sendable == {t \in Seq(AllPieces) : t = Rtcm \/ IsLine(t)}
Records == [text : Sendable, ok : BOOLEAN]

LEMMA OfSendable ==
  ASSUME NEW t \in Sendable
  PROVE  /\ t \in Seq(AllPieces) /\ Len(t) \in Nat /\ Len(t) >= 2
         /\ t = Rtcm => Len(t) = 2
         /\ t # Rtcm => IsLine(t)
         /\ \A i \in 1 .. Len(t) : t[i] = LINE_END => t # Rtcm /\ i = Len(t)
         /\ \A i \in 1 .. Len(t) : t[i] = HEADER => t # Rtcm /\ i = 1
<1>1. t \in Seq(AllPieces) /\ Len(t) \in Nat
  BY LenProperties DEF Sendable
<1>2. CASE t = Rtcm
  <2>1. Len(t) = 2 /\ t[1] = Piece("D3") /\ t[2] = Piece("RTCM")
    BY <1>2 DEF Rtcm
  <2>2. /\ Piece("D3") # HEADER /\ Piece("D3") # LINE_END
        /\ Piece("RTCM") # HEADER /\ Piece("RTCM") # LINE_END
    <3>1. /\ "D3" \in Piece("D3") /\ "D3" \notin HEADER /\ "D3" \notin LINE_END
          /\ "RTCM" \in Piece("RTCM") /\ "RTCM" \notin HEADER /\ "RTCM" \notin LINE_END
      BY DEF Piece, HEADER, LINE_END
    <3>. QED
      BY <3>1
  <2>. QED
    BY <1>1, <1>2, <2>1, <2>2
<1>3. CASE t # Rtcm
  <2>1. IsLine(t)
    BY <1>3 DEF Sendable
  <2>. QED
    BY <1>1, <1>3, <2>1, PlainIsPlain DEF IsLine
<1>. QED
  BY <1>2, <1>3

-----------------------------------------------------------------------------
(* The line in segments, one of each call: at[n] is where the n-th ends.   *)
(* One that ended with Ok is the text, another has no line end in it.      *)
Segment(told, ln, at, n) ==
  /\ at[n - 1] <= at[n]
  /\ told[n].ok => /\ at[n] = at[n - 1] + Len(told[n].text)
                   /\ \A i \in 1 .. Len(told[n].text) : ln[at[n - 1] + i] = told[n].text[i]
  /\ ~told[n].ok => \A i \in at[n - 1] + 1 .. at[n] : ln[i] # LINE_END

Split(told, ln, at) ==
  /\ told \in Seq(Records) /\ at \in [0 .. Len(told) -> Nat] /\ at[0] = 0
  /\ \A n \in 1 .. Len(told) : Segment(told, ln, at, n)

CommandsIn(told) == {n \in 1 .. Len(told) : told[n].ok /\ told[n].text # Rtcm}

LEMMA LeastExists ==
  ASSUME NEW T, T \subseteq Nat, T # {}
  PROVE  \E x \in T : \A y \in T : x <= y
<1>1. PICK x \in T : \A y \in T : <<y, x>> \notin OpToRel(<, Nat)
  BY NatLessThanWellFounded, WFMin
<1>2. \A y \in T : ~(y < x)
  BY <1>1 DEF OpToRel
<1>. QED
  BY <1>2

(* A segment behind another one ends behind it. *)
LEMMA EndsInOrder ==
  ASSUME NEW told, NEW ln, NEW at, Split(told, ln, at), NEW m \in 0 .. Len(told)
  PROVE  \A n \in m .. Len(told) : at[m] <= at[n]
<1>0. Len(told) \in Nat /\ at \in [0 .. Len(told) -> Nat]
  BY LenProperties DEF Split
<1>. DEFINE Before == {n \in m .. Len(told) : ~(at[m] <= at[n])}
<1>1. SUFFICES ASSUME Before # {} PROVE FALSE
  OBVIOUS
<1>2. Before \subseteq Nat
  BY <1>0
<1>. HIDE DEF Before
<1>3. PICK n \in Before : \A y \in Before : n <= y
  BY <1>1, <1>2, LeastExists
<1>. USE DEF Before
<1>4. n # m
  BY <1>0, <1>3
<1>5. n - 1 \in m .. Len(told) /\ n \in 1 .. Len(told) /\ n - 1 \notin Before
  BY <1>0, <1>3, <1>4
<1>6. at[n - 1] <= at[n]
  BY <1>5 DEF Split, Segment
<1>7. at[m] \in Nat /\ at[n - 1] \in Nat /\ at[n] \in Nat
  BY <1>0, <1>5
<1>. QED
  BY <1>3, <1>5, <1>6, <1>7

(* Every piece up to the end of the last segment is in one of them. *)
LEMMA InSegment ==
  ASSUME NEW told, NEW ln, NEW at, Split(told, ln, at), NEW k \in 0 .. Len(told),
         NEW i \in at[k] + 1 .. at[Len(told)]
  PROVE  \E n \in k + 1 .. Len(told) : i \in at[n - 1] + 1 .. at[n]
<1>0. Len(told) \in Nat /\ at \in [0 .. Len(told) -> Nat]
  BY LenProperties DEF Split
<1>. DEFINE Reached == {n \in k .. Len(told) : i <= at[n]}
<1>1. at[k] \in Nat /\ at[Len(told)] \in Nat
  BY <1>0
<1>2. Reached \subseteq Nat /\ Len(told) \in Reached
  BY <1>0, <1>1
<1>3. PICK n \in Reached : \A y \in Reached : n <= y
  <2>. HIDE DEF Reached
  <2>. QED
    BY <1>2, LeastExists
<1>4. n # k
  BY <1>1, <1>3
<1>5. n \in k + 1 .. Len(told) /\ n - 1 \in k .. Len(told) /\ n - 1 \notin Reached
  BY <1>0, <1>3, <1>4
<1>6. at[n] \in Nat /\ at[n - 1] \in Nat
  BY <1>0, <1>5
<1>. QED
  BY <1>1, <1>3, <1>5, <1>6

(* A line end is the end of a command that returned Ok, and there is one.  *)
LEMMA LineEndIs ==
  ASSUME NEW told, NEW ln, NEW at, Split(told, ln, at), NEW n \in 1 .. Len(told)
  PROVE  /\ \A i \in at[n - 1] + 1 .. at[n] :
              ln[i] = LINE_END => n \in CommandsIn(told) /\ i = at[n]
         /\ n \in CommandsIn(told) =>
              /\ at[n] = at[n - 1] + Len(told[n].text) /\ ln[at[n]] = LINE_END
              /\ at[n - 1] < at[n] /\ ln[at[n - 1] + 1] = HEADER
<1>0. /\ Len(told) \in Nat /\ at \in [0 .. Len(told) -> Nat] /\ told[n] \in Records
      /\ Segment(told, ln, at, n)
  BY LenProperties, ElementOfSeq DEF Split
<1>1. PICK t \in Sendable : t = told[n].text
  BY <1>0 DEF Records
<1>2. PICK a \in Nat, b \in Nat : a = at[n - 1] /\ b = at[n]
  BY <1>0
<1>3. /\ told[n].ok => b = a + Len(t) /\ \A i \in 1 .. Len(t) : ln[a + i] = t[i]
      /\ ~told[n].ok => \A i \in a + 1 .. b : ln[i] # LINE_END
  BY <1>0, <1>1, <1>2 DEF Segment
<1>4. ASSUME NEW i \in a + 1 .. b, ln[i] = LINE_END
      PROVE  n \in CommandsIn(told) /\ i = b
  <2>1. told[n].ok
    BY <1>0, <1>3, <1>4
  <2>2. PICK l \in Nat : l = Len(t)
    BY OfSendable
  <2>3. b = a + l /\ \A j \in 1 .. l : ln[a + j] = t[j]
    BY <1>3, <2>1, <2>2
  <2>4. PICK j \in 1 .. l : i = a + j
    <3>1. i - a \in 1 .. l /\ i = a + (i - a)
      BY <1>2, <2>2, <2>3, SMTT(30)
    <3>. QED
      BY <3>1
  <2>5. t[j] = LINE_END
    BY <1>4, <2>3, <2>4
  <2>6. t # Rtcm /\ j = l
    BY <2>2, <2>4, <2>5, OfSendable
  <2>. QED
    BY <1>1, <2>1, <2>3, <2>4, <2>6 DEF CommandsIn
<1>5. ASSUME n \in CommandsIn(told)
      PROVE  b = a + Len(t) /\ ln[b] = LINE_END /\ a < b /\ ln[a + 1] = HEADER
  <2>1. b = a + Len(t) /\ (\A i \in 1 .. Len(t) : ln[a + i] = t[i]) /\ t # Rtcm
    BY <1>1, <1>3, <1>5 DEF CommandsIn
  <2>2. Len(t) \in Nat /\ Len(t) >= 4 /\ t[1] = HEADER /\ t[Len(t)] = LINE_END
    BY <2>1, OfSendable DEF IsLine
  <2>3. 1 \in 1 .. Len(t) /\ Len(t) \in 1 .. Len(t)
    BY <2>2
  <2>. QED
    BY <1>2, <2>1, <2>2, <2>3, SMTT(30)
<1>. QED
  BY <1>1, <1>2, <1>4, <1>5

(* The first line end behind a segment ends the first command behind it,   *)
(* and that command is what the receiver reads, from its HEADER.           *)
LEMMA NextLineIs ==
  ASSUME NEW told, NEW ln \in Seq(AllPieces), NEW at, Split(told, ln, at),
         NEW k \in 0 .. Len(told), at[Len(told)] <= Len(ln),
         NEW e \in at[k] + 1 .. at[Len(told)], ln[e] = LINE_END,
         \A i \in at[k] + 1 .. e - 1 : ln[i] # LINE_END
  PROVE  \E m \in k + 1 .. Len(told) :
           /\ m \in CommandsIn(told) /\ e = at[m]
           /\ \A n \in k + 1 .. m - 1 : n \notin CommandsIn(told)
           /\ \A start \in at[k] + 1 .. e :
                ln[start] = HEADER /\ (\A i \in start + 1 .. e : ln[i] # HEADER)
                => start = at[m - 1] + 1 /\ SubSeq(ln, start, e) = told[m].text
<1>0. Len(told) \in Nat /\ at \in [0 .. Len(told) -> Nat] /\ Len(ln) \in Nat
  BY LenProperties DEF Split
<1>1. PICK m \in k + 1 .. Len(told) : e \in at[m - 1] + 1 .. at[m]
  BY InSegment
<1>2. m \in 1 .. Len(told) /\ m - 1 \in k .. Len(told) /\ told[m] \in Records
      /\ m \in 0 .. Len(told) /\ m - 1 \in 0 .. Len(told)
  <2>1. m \in 1 .. Len(told)
    BY <1>0
  <2>2. told[m] \in Records
    BY <2>1, ElementOfSeq DEF Split
  <2>. QED
    BY <1>0, <2>1, <2>2
<1>3. m \in CommandsIn(told) /\ e = at[m]
  BY <1>1, <1>2, LineEndIs
<1>4. ASSUME NEW n \in k + 1 .. m - 1, n \in CommandsIn(told)
      PROVE  FALSE
  <2>1. /\ n \in 1 .. Len(told) /\ n - 1 \in k .. Len(told) /\ n - 1 \in 0 .. Len(told)
        /\ n \in 0 .. Len(told) /\ m - 1 \in n .. Len(told)
    BY <1>0, <1>2
  <2>2. ln[at[n]] = LINE_END /\ at[n - 1] < at[n]
    BY <1>4, <2>1, LineEndIs
  <2>3. at[k] <= at[n - 1] /\ at[n] <= at[m - 1]
    BY <2>1, EndsInOrder
  <2>4. at[k] \in Nat /\ at[n - 1] \in Nat /\ at[n] \in Nat /\ at[m - 1] \in Nat
    BY <1>0, <1>2, <2>1
  <2>5. at[n] \in at[k] + 1 .. e - 1
    BY <1>0, <1>1, <1>3, <2>2, <2>3, <2>4, SMTT(30)
  <2>. QED
    BY <2>2, <2>5
<1>5. PICK t \in Sendable : t = told[m].text
  BY <1>2 DEF Records
<1>6. PICK a \in Nat, l \in Nat, z \in Nat : a = at[m - 1] /\ l = Len(t) /\ z = Len(ln)
  BY <1>0, <1>2, OfSendable
<1>7. /\ e = a + l /\ l >= 4 /\ ln[a + 1] = HEADER /\ t \in Seq(AllPieces)
      /\ \A j \in 1 .. l : ln[a + j] = t[j] /\ (t[j] = HEADER => j = 1)
  <2>1. e = a + l /\ ln[a + 1] = HEADER
    <3>1. at[m] = at[m - 1] + Len(told[m].text) /\ ln[at[m - 1] + 1] = HEADER
      BY <1>2, <1>3, LineEndIs
    <3>. QED
      BY <1>3, <1>5, <1>6, <3>1
  <2>2. \A j \in 1 .. l : ln[a + j] = t[j]
    BY <1>2, <1>3, <1>5, <1>6, SMTT(30) DEF Split, Segment, CommandsIn
  <2>3. l >= 4
    BY <1>3, <1>5, <1>6, OfSendable DEF CommandsIn, IsLine
  <2>. QED
    BY <1>6, <2>1, <2>2, <2>3, OfSendable
<1>8. at[k] \in Nat /\ at[k] <= a /\ e <= z
  <2>1. at[k] <= at[m - 1]
    BY <1>2, EndsInOrder
  <2>. QED
    BY <1>0, <1>6, <2>1, SMTT(30)
<1>9. ASSUME NEW start \in at[k] + 1 .. e, ln[start] = HEADER,
             \A i \in start + 1 .. e : ln[i] # HEADER
      PROVE  start = a + 1 /\ SubSeq(ln, start, e) = t
  <2>1. ~(start < a + 1)
    <3>. SUFFICES ASSUME start < a + 1 PROVE FALSE
      OBVIOUS
    <3>1. a + 1 \in start + 1 .. e
      BY <1>7, <1>8
    <3>. QED
      BY <1>7, <1>9, <3>1
  <2>2. ~(start > a + 1)
    <3>. SUFFICES ASSUME start > a + 1 PROVE FALSE
      OBVIOUS
    <3>1. PICK j \in 2 .. l : start = a + j
      <4>1. start - a \in 2 .. l /\ start = a + (start - a)
        BY <1>7, <1>8
      <4>. QED
        BY <4>1
    <3>. QED
      <4>1. j \in 1 .. l /\ j # 1
        BY <1>6
      <4>. QED
        BY <1>7, <1>9, <3>1, <4>1
  <2>3. start = a + 1
    BY <1>8, <2>1, <2>2
  <2>4. /\ SubSeq(ln, a + 1, a + l) \in Seq(AllPieces) /\ Len(SubSeq(ln, a + 1, a + l)) = l
        /\ \A j \in 1 .. l : SubSeq(ln, a + 1, a + l)[j] = ln[a + j]
    <3>1. PICK p \in 1 .. z, q \in 1 .. z : p = a + 1 /\ q = a + l
      BY <1>6, <1>7, <1>8, SMTT(30)
    <3>2. q - p + 1 = l
      <4>1. p \in Int /\ q \in Int /\ p = a + 1 /\ q = a + l
        BY <1>6, <3>1
      <4>. QED
        BY <4>1
    <3>3. p \in Int /\ q \in Int /\ \A i \in p .. q : ln[i] \in AllPieces
      BY <1>6, <3>1, ElementOfSeq, SMTT(30)
    <3>4. /\ SubSeq(ln, p, q) \in Seq(AllPieces)
          /\ Len(SubSeq(ln, p, q)) = IF p <= q THEN q - p + 1 ELSE 0
          /\ \A j \in 1 .. q - p + 1 : SubSeq(ln, p, q)[j] = ln[p + j - 1]
      BY <3>3, SubSeqProperties
    <3>5. \A j \in 1 .. l : p + j - 1 = a + j
      BY <1>6, <3>1, SMTT(30)
    <3>6. p <= q
      BY <1>6, <1>7, <3>1, SMTT(30)
    <3>7. /\ SubSeq(ln, p, q) \in Seq(AllPieces) /\ Len(SubSeq(ln, p, q)) = l
          /\ \A j \in 1 .. l : SubSeq(ln, p, q)[j] = ln[a + j]
      BY <3>2, <3>4, <3>5, <3>6
    <3>. QED
      BY <3>1, <3>7
  <2>5. SubSeq(ln, a + 1, a + l) = t
    <3>1. \A s, u \in Seq(AllPieces) :
             Len(s) = Len(u) /\ (\A j \in 1 .. Len(s) : s[j] = u[j]) => s = u
      BY SeqEqual
    <3>2. PICK s \in Seq(AllPieces) : s = SubSeq(ln, a + 1, a + l)
      BY <2>4
    <3>3. Len(s) = Len(t) /\ \A j \in 1 .. Len(s) : s[j] = t[j]
      BY <1>6, <1>7, <2>4, <3>2
    <3>. QED
      BY <1>7, <3>1, <3>2, <3>3
  <2>. QED
    BY <1>7, <2>3, <2>5
<1>. QED
  BY <1>3, <1>4, <1>5, <1>6, <1>9

-----------------------------------------------------------------------------
(* What BehindRubbish says, of any list of calls. *)
Behind(told, n) ==
  \E m \in 1 .. n - 1 : ~told[m].ok /\ \A i \in m + 1 .. n - 1 : told[i].text = Rtcm

(* What is read behind a segment is clean when all is corrections. *)
LEMMA CorrectionsAreClean ==
  ASSUME NEW told, NEW ln, NEW at, Split(told, ln, at),
         NEW k \in 0 .. Len(told), NEW m \in k .. Len(told),
         \A n \in k + 1 .. m : told[n].ok /\ told[n].text = Rtcm
  PROVE  /\ at[m] = at[k] + 2 * (m - k)
         /\ \A i \in at[k] + 1 .. at[m] : ln[i] = Rtcm[IF (i - at[k]) % 2 = 1 THEN 1 ELSE 2]
<1>0. Len(told) \in Nat /\ at \in [0 .. Len(told) -> Nat]
  BY LenProperties DEF Split
<1>1. ASSUME NEW n \in k + 1 .. m
      PROVE  /\ at[n] = at[n - 1] + 2
             /\ ln[at[n - 1] + 1] = Rtcm[1] /\ ln[at[n - 1] + 2] = Rtcm[2]
  <2>1. n \in 1 .. Len(told) /\ Segment(told, ln, at, n)
    BY <1>0 DEF Split
  <2>2. Len(Rtcm) = 2 /\ 1 \in 1 .. 2 /\ 2 \in 1 .. 2
    BY DEF Rtcm
  <2>3. told[n].ok /\ told[n].text = Rtcm
    OBVIOUS
  <2>4. at[n] = at[n - 1] + Len(Rtcm) /\ \A i \in 1 .. Len(Rtcm) : ln[at[n - 1] + i] = Rtcm[i]
    BY <2>1, <2>3 DEF Segment
  <2>. HIDE DEF Segment
  <2>. QED
    BY <2>2, <2>4
<1>2. \A n \in k .. m : at[n] = at[k] + 2 * (n - k)
  <2>. DEFINE Off == {n \in k .. m : at[n] # at[k] + 2 * (n - k)}
  <2>1. SUFFICES ASSUME Off # {} PROVE FALSE
    OBVIOUS
  <2>2. PICK n \in Off : \A y \in Off : n <= y
    <3>1. Off \subseteq Nat
      BY <1>0
    <3>. HIDE DEF Off
    <3>. QED
      BY <2>1, <3>1, LeastExists
  <2>3. n # k /\ at[k] \in Nat
    BY <1>0, <2>2
  <2>4. n \in k + 1 .. m /\ n - 1 \in k .. m /\ n - 1 \notin Off
    BY <1>0, <2>2, <2>3
  <2>5. at[n - 1] = at[k] + 2 * (n - 1 - k)
    BY <2>4
  <2>6. at[n] = at[k] + 2 * (n - 1 - k) + 2
    BY <1>1, <2>4, <2>5
  <2>7. at[n] = at[k] + 2 * (n - k)
    BY <1>0, <2>2, <2>3, <2>6
  <2>. QED
    BY <2>2, <2>7
<1>3. ASSUME NEW i \in at[k] + 1 .. at[m]
      PROVE  ln[i] = Rtcm[IF (i - at[k]) % 2 = 1 THEN 1 ELSE 2]
  <2>1. m \in 0 .. Len(told) /\ at[k] \in Nat /\ at[m] \in Nat /\ at[Len(told)] \in Nat
        /\ at[m] <= at[Len(told)]
    <3>1. m \in 0 .. Len(told)
      BY <1>0
    <3>2. at[m] <= at[Len(told)]
      BY <1>0, <3>1, EndsInOrder
    <3>. QED
      BY <1>0, <3>1, <3>2
  <2>2. i \in at[k] + 1 .. at[Len(told)]
    BY <2>1
  <2>3. PICK n \in k + 1 .. Len(told) : i \in at[n - 1] + 1 .. at[n]
    BY <2>2, InSegment
  <2>4. n \in k + 1 .. m
    <3>. SUFFICES ASSUME n > m PROVE FALSE
      BY <1>0
    <3>1. n - 1 \in m .. Len(told) /\ at[n - 1] \in Nat
      BY <1>0, SMTT(30)
    <3>2. at[m] <= at[n - 1]
      BY <2>1, <3>1, EndsInOrder
    <3>. QED
      BY <2>1, <2>3, <3>1, <3>2
  <2>5. n - 1 \in k .. m
    BY <1>0, <2>4
  <2>6. PICK d \in Nat : d = n - 1 - k
    BY <2>5
  <2>7. at[n - 1] = at[k] + 2 * d
    BY <1>2, <2>5, <2>6
  <2>8. at[n] = at[n - 1] + 2 /\ ln[at[n - 1] + 1] = Rtcm[1] /\ ln[at[n - 1] + 2] = Rtcm[2]
    BY <1>1, <2>4
  <2>9. CASE i = at[n - 1] + 1
    <3>1. i - at[k] = 2 * d + 1
      BY <2>1, <2>7, <2>9, SMTT(30)
    <3>2. (2 * d + 1) % 2 = 1
      OBVIOUS
    <3>. QED
      BY <2>8, <2>9, <3>1, <3>2
  <2>10. CASE i = at[n - 1] + 2
    <3>1. i - at[k] = 2 * d + 2
      BY <2>1, <2>7, <2>10, SMTT(30)
    <3>2. (2 * d + 2) % 2 = 0
      OBVIOUS
    <3>. QED
      BY <2>8, <2>10, <3>1, <3>2
  <2>11. PICK a \in Nat : a = at[n - 1]
    BY <2>1, <2>7
  <2>12. i = a + 1 \/ i = a + 2
    <3>1. i \in a + 1 .. a + 2
      BY <2>3, <2>8, <2>11
    <3>. QED
      BY ONLY <3>1, a \in Nat
  <2>. QED
    BY <2>9, <2>10, <2>11, <2>12
<1>4. at[m] = at[k] + 2 * (m - k)
  BY <1>2
<1>. QED
  BY <1>3, <1>4

(* A command that the receiver did not read on its own is behind rubbish:  *)
(* of the calls since it read last, one was cut off.                       *)
LEMMA UncleanIsBehind ==
  ASSUME NEW told, told \in Seq(Records), NEW k \in 0 .. Len(told), NEW m \in k + 1 .. Len(told),
         \A n \in k + 1 .. m - 1 : n \notin CommandsIn(told),
         ~\A n \in k + 1 .. m - 1 : told[n].ok /\ told[n].text = Rtcm
  PROVE  Behind(told, m)
<1>0. Len(told) \in Nat
  BY LenProperties
<1>. DEFINE Distances == {d \in Nat : m - 1 - d \in k + 1 .. m - 1 /\ ~told[m - 1 - d].ok}
<1>1. \A n \in k + 1 .. m - 1 : told[n].ok => told[n].text = Rtcm
  BY <1>0 DEF CommandsIn
<1>2. PICK p \in k + 1 .. m - 1 : ~told[p].ok
  BY <1>1
<1>3. m - 1 - p \in Distances
  <2>1. m - 1 - (m - 1 - p) = p /\ m - 1 - p \in Nat
    BY <1>0
  <2>. QED
    BY <1>2, <2>1
<1>4. PICK d \in Distances : \A y \in Distances : d <= y
  <2>1. Distances \subseteq Nat
    OBVIOUS
  <2>. HIDE DEF Distances
  <2>. QED
    BY <1>3, <2>1, LeastExists
<1>5. PICK r \in k + 1 .. m - 1 : r = m - 1 - d /\ ~told[r].ok
  BY <1>4
<1>6. ASSUME NEW i \in r + 1 .. m - 1
      PROVE  told[i].text = Rtcm
  <2>1. i \in k + 1 .. m - 1 /\ m - 1 - i \in Nat /\ m - 1 - (m - 1 - i) = i /\ m - 1 - i < d
    BY <1>0, <1>4, <1>5
  <2>2. PICK y \in Nat : y = m - 1 - i
    BY <2>1
  <2>3. y \notin Distances /\ m - 1 - y = i
    <3>1. y < d /\ d \in Nat /\ m - 1 - y = i
      BY <1>4, <2>1, <2>2
    <3>. HIDE DEF Distances
    <3>. QED
      BY <1>4, <3>1
  <2>4. told[i].ok
    BY <2>1, <2>3
  <2>. QED
    BY <1>1, <2>1, <2>4
<1>7. r \in 1 .. m - 1
  BY <1>0
<1>. QED
  BY <1>5, <1>6, <1>7 DEF Behind

(* What the receiver, which has read "rd" pieces, has obeyed: the commands *)
(* of the calls in "call", among the first k; of those, it has obeyed each *)
(* command that returned Ok or met it behind rubbish.                      *)
Heard(told, at, k, call, rd, ex) ==
  /\ k \in 0 .. Len(told) /\ rd = at[k]
  /\ call \in [1 .. Len(ex) -> CommandsIn(told)]
  /\ \A i, j \in 1 .. Len(ex) : i < j => call[i] < call[j]
  /\ \A i \in 1 .. Len(ex) : call[i] <= k /\ ex[i] = told[call[i]].text
  /\ \A n \in CommandsIn(told) : n <= k => Behind(told, n) \/ \E i \in 1 .. Len(ex) : call[i] = n

(* More on the line leaves the segments as they are. *)
LEMMA SplitStays ==
  ASSUME NEW told, NEW ln, NEW ln2, NEW at, Split(told, ln, at),
         \A i \in 1 .. at[Len(told)] : ln2[i] = ln[i]
  PROVE  Split(told, ln2, at)
<1>0. Len(told) \in Nat /\ at \in [0 .. Len(told) -> Nat]
  BY LenProperties DEF Split
<1>1. ASSUME NEW n \in 1 .. Len(told)
      PROVE  Segment(told, ln2, at, n)
  <2>1. n - 1 \in 0 .. Len(told) /\ n \in 0 .. Len(told) /\ Len(told) \in n .. Len(told)
    BY <1>0
  <2>2. PICK a \in Nat, b \in Nat, z \in Nat : a = at[n - 1] /\ b = at[n] /\ z = at[Len(told)]
    BY <1>0, <2>1
  <2>3. a <= b /\ b <= z
    <3>1. Segment(told, ln, at, n) /\ at[n] <= at[Len(told)]
      BY <2>1, EndsInOrder DEF Split
    <3>. QED
      BY <2>2, <3>1 DEF Segment
  <2>4. \A i \in a + 1 .. b : ln2[i] = ln[i]
    BY <2>2, <2>3
  <2>5. told[n].ok => /\ b = a + Len(told[n].text)
                      /\ \A i \in 1 .. Len(told[n].text) : ln2[a + i] = told[n].text[i]
    <3>. SUFFICES ASSUME told[n].ok
                  PROVE  /\ b = a + Len(told[n].text)
                         /\ \A i \in 1 .. Len(told[n].text) : ln2[a + i] = told[n].text[i]
      OBVIOUS
    <3>1. /\ b = a + Len(told[n].text)
          /\ \A i \in 1 .. Len(told[n].text) : ln[a + i] = told[n].text[i]
      BY <2>2 DEF Split, Segment
    <3>2. PICK l \in Nat : l = Len(told[n].text)
      <4>1. told[n] \in Records
        BY ElementOfSeq DEF Split
      <4>2. told[n].text \in Sendable
        BY <4>1 DEF Records
      <4>. QED
        BY <4>2, OfSendable
    <3>3. \A i \in 1 .. l : a + i \in a + 1 .. b
      BY <3>1, <3>2
    <3>. QED
      BY <2>4, <3>1, <3>2, <3>3
  <2>6. ~told[n].ok => \A i \in a + 1 .. b : ln2[i] # LINE_END
    BY <2>2, <2>4 DEF Split, Segment
  <2>. QED
    BY <2>2, <2>3, <2>5, <2>6 DEF Segment
<1>. QED
  BY <1>1 DEF Split

(* One more segment. *)
LEMMA SplitGrows ==
  ASSUME NEW told, NEW ln, NEW at, Split(told, ln, at), NEW r \in Records, NEW z \in Nat,
         at[Len(told)] <= z,
         r.ok => /\ z = at[Len(told)] + Len(r.text)
                 /\ \A i \in 1 .. Len(r.text) : ln[at[Len(told)] + i] = r.text[i],
         ~r.ok => \A i \in at[Len(told)] + 1 .. z : ln[i] # LINE_END,
         NEW at2, at2 = [n \in 0 .. Len(told) + 1 |-> IF n <= Len(told) THEN at[n] ELSE z]
  PROVE  Split(Append(told, r), ln, at2)
<1>0. Len(told) \in Nat /\ at \in [0 .. Len(told) -> Nat] /\ told \in Seq(Records)
  BY LenProperties DEF Split
<1>1. PICK l \in Nat : l = Len(told)
  BY <1>0
<1>2. PICK more \in Seq(Records) : more = Append(told, r)
  <2>1. Append(told, r) \in Seq(Records)
    BY <1>0, AppendProperties
  <2>. QED
    BY <2>1
<1>3. Len(more) = l + 1 /\ more[l + 1] = r /\ \A n \in 1 .. l : more[n] = told[n]
  BY <1>0, <1>1, <1>2
<1>4. /\ at2 \in [0 .. Len(more) -> Nat] /\ at2[0] = 0 /\ at2[l + 1] = z /\ at2[l] = at[l]
      /\ \A n \in 0 .. l : at2[n] = at[n]
  <2>1. \A n \in 0 .. l : n <= l /\ n \in 0 .. l + 1
    BY <1>1
  <2>2. at[0] = 0 /\ 0 \in 0 .. l /\ l \in 0 .. l /\ l + 1 \in 0 .. l + 1 /\ ~(l + 1 <= l)
    BY <1>1 DEF Split
  <2>3. at2 = [n \in 0 .. l + 1 |-> IF n <= l THEN at[n] ELSE z]
    BY <1>1
  <2>4. \A n \in 0 .. l + 1 : n <= l => n \in 0 .. l
    BY <1>1
  <2>5. at \in [0 .. l -> Nat] /\ z \in Nat
    BY <1>0, <1>1
  <2>6. /\ at2 \in [0 .. l + 1 -> Nat] /\ at2[0] = 0 /\ at2[l + 1] = z /\ at2[l] = at[l]
        /\ \A n \in 0 .. l : at2[n] = at[n]
    BY <2>1, <2>2, <2>3, <2>4, <2>5
  <2>. QED
    BY <1>3, <2>6, ZenonT(40)
<1>5. ASSUME NEW n \in 1 .. l
      PROVE  Segment(more, ln, at2, n)
  <2>1. n \in 0 .. l /\ n - 1 \in 0 .. l
    BY <1>1
  <2>2. Segment(told, ln, at, n) /\ more[n] = told[n] /\ at2[n] = at[n] /\ at2[n - 1] = at[n - 1]
    BY <1>1, <1>3, <1>4, <2>1 DEF Split
  <2>. QED
    BY <2>2, ZenonT(40) DEF Segment
<1>6. Segment(more, ln, at2, l + 1)
  <2>1. l + 1 - 1 = l
    BY <1>1
  <2>. QED
    BY <1>1, <1>3, <1>4, <2>1 DEF Segment
<1>7. \A n \in 1 .. Len(more) : n \in 1 .. l \/ n = l + 1
  BY <1>1, <1>3
<1>. QED
  BY <1>2, <1>4, <1>5, <1>6, <1>7 DEF Split

LEMMA HeardStays ==
  ASSUME NEW told \in Seq(Records), NEW at, NEW k, NEW call, NEW rd, NEW ex, Len(ex) \in Nat,
         Heard(told, at, k, call, rd, ex), NEW r \in Records, NEW at2,
         \A n \in 0 .. Len(told) : at2[n] = at[n]
  PROVE  Heard(Append(told, r), at2, k, call, rd, ex)
<1>1. PICK l \in Nat : l = Len(told)
  BY LenProperties
<1>2. PICK more \in Seq(Records) : more = Append(told, r)
  <2>1. Append(told, r) \in Seq(Records)
    BY AppendProperties
  <2>. QED
    BY <2>1
<1>3. Len(more) = l + 1 /\ \A n \in 1 .. l : more[n] = told[n]
  BY <1>1, <1>2
<1>4. /\ \A n \in CommandsIn(told) : n \in CommandsIn(more) /\ more[n] = told[n]
      /\ \A n \in CommandsIn(more) : n <= l => n \in CommandsIn(told)
  BY <1>1, <1>3 DEF CommandsIn
<1>5. ASSUME NEW n \in 1 .. l, Behind(told, n)
      PROVE  Behind(more, n)
  <2>1. PICK m \in 1 .. n - 1 : ~told[m].ok /\ \A i \in m + 1 .. n - 1 : told[i].text = Rtcm
    BY <1>5 DEF Behind
  <2>2. m \in 1 .. l /\ \A i \in m + 1 .. n - 1 : i \in 1 .. l
    BY <1>1
  <2>. QED
    BY <1>3, <2>1, <2>2 DEF Behind
<1>6. k \in 0 .. l /\ k \in 0 .. l + 1 /\ rd = at2[k]
  BY <1>1 DEF Heard
<1>7. call \in [1 .. Len(ex) -> CommandsIn(more)]
  BY <1>4 DEF Heard
<1>8. \A i \in 1 .. Len(ex) : call[i] <= k /\ ex[i] = more[call[i]].text
  BY <1>4 DEF Heard
<1>9. \A n \in CommandsIn(more) : n <= k => Behind(more, n) \/ \E i \in 1 .. Len(ex) : call[i] = n
  <2>. SUFFICES ASSUME NEW n \in CommandsIn(more), n <= k
                PROVE  Behind(more, n) \/ \E i \in 1 .. Len(ex) : call[i] = n
    OBVIOUS
  <2>1. n \in CommandsIn(told) /\ n \in 1 .. l
    BY <1>1, <1>3, <1>4, <1>6 DEF CommandsIn
  <2>. QED
    BY <1>5, <2>1 DEF Heard
<1>. QED
  BY <1>2, <1>3, <1>6, <1>7, <1>8, <1>9 DEF Heard

(* The next command is obeyed, or it is behind rubbish and is not. *)
LEMMA HeardObeys ==
  ASSUME NEW told \in Seq(Records), NEW at, NEW k, NEW call, NEW rd, NEW ex \in Seq(Seq(AllPieces)),
         Heard(told, at, k, call, rd, ex), NEW m \in CommandsIn(told), k < m,
         \A n \in k + 1 .. m - 1 : n \notin CommandsIn(told)
  PROVE  \E call2 \in [1 .. Len(ex) + 1 -> CommandsIn(told)] :
           Heard(told, at, m, call2, at[m], Append(ex, told[m].text))
<1>1. PICK l \in Nat, z \in Nat : l = Len(told) /\ z = Len(ex)
  BY LenProperties
<1>2. m \in 1 .. l /\ k \in 0 .. l /\ told[m].text \in Seq(AllPieces)
  <2>1. m \in 1 .. l /\ told[m] \in Records
    BY <1>1, ElementOfSeq DEF CommandsIn
  <2>. QED
    BY <1>1, <2>1 DEF Heard, Records, Sendable
<1>3. PICK more \in Seq(Seq(AllPieces)) : more = Append(ex, told[m].text)
  <2>1. Append(ex, told[m].text) \in Seq(Seq(AllPieces))
    BY <1>2, AppendProperties
  <2>. QED
    BY <2>1
<1>4. Len(more) = z + 1 /\ more[z + 1] = told[m].text /\ \A i \in 1 .. z : more[i] = ex[i]
  BY <1>1, <1>2, <1>3, AppendProperties
<1>. DEFINE call2 == [i \in 1 .. z + 1 |-> IF i <= z THEN call[i] ELSE m]
<1>5. /\ call2 \in [1 .. z + 1 -> CommandsIn(told)] /\ call2[z + 1] = m
      /\ \A i \in 1 .. z : call2[i] = call[i]
  <2>1. call \in [1 .. z -> CommandsIn(told)]
    BY <1>1 DEF Heard
  <2>2. \A i \in 1 .. z + 1 : i <= z => i \in 1 .. z
    BY <1>1
  <2>. QED
    BY <1>1, <2>1, <2>2
<1>. HIDE DEF call2
<1>6. \A i \in 1 .. z : call[i] \in 1 .. l /\ call[i] <= k /\ ex[i] = told[call[i]].text
  BY <1>1 DEF Heard, CommandsIn
<1>7. \A i, j \in 1 .. z + 1 : i < j => call2[i] < call2[j]
  <2>. SUFFICES ASSUME NEW i \in 1 .. z + 1, NEW j \in 1 .. z + 1, i < j
                PROVE  call2[i] < call2[j]
    OBVIOUS
  <2>1. i \in 1 .. z
    BY <1>1
  <2>2. CASE j \in 1 .. z
    BY <1>1, <1>5, <2>1, <2>2 DEF Heard
  <2>3. CASE j = z + 1
    <3>1. call[i] \in Nat /\ k \in Nat /\ m \in Nat /\ call[i] <= k /\ k < m
      BY <1>2, <1>6, <2>1
    <3>. QED
      BY <1>5, <2>1, <2>3, <3>1
  <2>. QED
    BY <1>1, <2>2, <2>3
<1>8. \A i \in 1 .. z + 1 : call2[i] <= m /\ more[i] = told[call2[i]].text
  <2>1. ASSUME NEW i \in 1 .. z
        PROVE  call2[i] <= m /\ more[i] = told[call2[i]].text
    <3>1. call[i] \in Nat /\ k \in Nat /\ m \in Nat /\ call[i] <= k /\ k < m
      BY <1>2, <1>6
    <3>2. call[i] <= m
      BY <3>1
    <3>3. call2[i] = call[i] /\ more[i] = ex[i] /\ ex[i] = told[call[i]].text
      BY <1>4, <1>5, <1>6
    <3>. QED
      BY <3>2, <3>3
  <2>2. call2[z + 1] <= m /\ more[z + 1] = told[call2[z + 1]].text
    BY <1>2, <1>4, <1>5
  <2>3. \A i \in 1 .. z + 1 : i \in 1 .. z \/ i = z + 1
    BY <1>1
  <2>. QED
    BY <2>1, <2>2, <2>3
<1>9. \A n \in CommandsIn(told) : n <= m => Behind(told, n) \/ \E i \in 1 .. z + 1 : call2[i] = n
  <2>. SUFFICES ASSUME NEW n \in CommandsIn(told), n <= m
                PROVE  Behind(told, n) \/ \E i \in 1 .. z + 1 : call2[i] = n
    OBVIOUS
  <2>1. n \in Nat /\ (n <= k \/ n = m \/ n \in k + 1 .. m - 1)
    BY <1>1, <1>2 DEF CommandsIn
  <2>2. CASE n <= k
    <3>1. Behind(told, n) \/ \E i \in 1 .. z : call[i] = n
      BY <1>1, <2>2 DEF Heard
    <3>2. 1 .. z \subseteq 1 .. z + 1
      BY <1>1
    <3>. QED
      BY <1>5, <3>1, <3>2
  <2>3. CASE n = m
    <3>1. z + 1 \in 1 .. z + 1
      BY <1>1
    <3>. QED
      BY <1>5, <2>3, <3>1
  <2>. QED
    BY <2>1, <2>2, <2>3
<1>10. Heard(told, at, m, call2, at[m], more)
  <2>1. m \in 0 .. Len(told)
    BY <1>1, <1>2
  <2>. QED
    BY <1>4, <1>5, <1>7, <1>8, <1>9, <2>1 DEF Heard
<1>. QED
  BY <1>1, <1>3, <1>5, <1>10

LEMMA HeardMisses ==
  ASSUME NEW told \in Seq(Records), NEW at, NEW k, NEW call, NEW rd, NEW ex,
         Heard(told, at, k, call, rd, ex), NEW m \in CommandsIn(told), k < m, Len(ex) \in Nat,
         \A n \in k + 1 .. m - 1 : n \notin CommandsIn(told), Behind(told, m)
  PROVE  Heard(told, at, m, call, at[m], ex)
<1>1. PICK l \in Nat : l = Len(told)
  BY LenProperties
<1>2. m \in 1 .. l /\ k \in 0 .. l /\ m \in 0 .. l
  BY <1>1 DEF CommandsIn, Heard
<1>3. \A i \in 1 .. Len(ex) : call[i] <= m /\ ex[i] = told[call[i]].text
  <2>. SUFFICES ASSUME NEW i \in 1 .. Len(ex) PROVE call[i] <= m /\ ex[i] = told[call[i]].text
    OBVIOUS
  <2>1. call[i] <= k /\ call[i] \in 1 .. l /\ ex[i] = told[call[i]].text
    BY <1>1 DEF Heard, CommandsIn
  <2>. QED
    BY <1>2, <2>1
<1>4. \A n \in CommandsIn(told) : n <= m => Behind(told, n) \/ \E i \in 1 .. Len(ex) : call[i] = n
  <2>. SUFFICES ASSUME NEW n \in CommandsIn(told), n <= m
                PROVE  Behind(told, n) \/ \E i \in 1 .. Len(ex) : call[i] = n
    OBVIOUS
  <2>1. n \in Nat /\ (n <= k \/ n = m \/ n \in k + 1 .. m - 1)
    BY <1>1, <1>2 DEF CommandsIn
  <2>. QED
    BY <2>1 DEF Heard
<1>. QED
  BY <1>1, <1>2, <1>3, <1>4 DEF Heard

-----------------------------------------------------------------------------
(* A call whose text is out as a whole counts from then on: the receiver   *)
(* may read the line before the call returns.                              *)
Whole == holder # NoCaller /\ taken[holder] = Len(text[holder])
Told == IF Whole THEN Append(sent, [text |-> text[holder], ok |-> TRUE]) ELSE sent
Base == IF holder = NoCaller \/ Whole THEN line ELSE before

Followed ==
  /\ sent \in Seq(Records) /\ executed \in Seq(Seq(AllPieces))
  /\ \E at, k, call :
       Split(Told, line, at) /\ at[Len(Told)] = Len(Base) /\ Heard(Told, at, k, call, read, executed)

LEMMA InitFollowed == Init => Followed
<1>. SUFFICES ASSUME Init PROVE Followed
  OBVIOUS
<1>1. holder = NoCaller /\ sent = <<>> /\ line = <<>> /\ read = 0 /\ executed = <<>>
  BY DEF Init
<1>2. Told = <<>> /\ Base = <<>> /\ Len(<<>>) = 0
  BY <1>1 DEF Told, Base, Whole
<1>. DEFINE at == [n \in 0 .. 0 |-> 0]
            call == [n \in 1 .. 0 |-> 0]
<1>3. at[0] = 0 /\ at \in [0 .. 0 -> Nat]
  OBVIOUS
<1>4. Split(Told, line, at)
  <2>1. <<>> \in Seq(Records) /\ 1 .. 0 = {}
    BY EmptySeq
  <2>. QED
    BY <1>2, <1>3, <2>1 DEF Split
<1>5. Heard(Told, at, 0, call, read, executed)
  <2>1. 1 .. 0 = {} /\ CommandsIn(<<>>) = {} /\ 0 \in 0 .. 0
    BY <1>2 DEF CommandsIn
  <2>2. call \in [1 .. 0 -> {}]
    BY <2>1
  <2>. QED
    BY <1>1, <1>2, <1>3, <2>1, <2>2 DEF Heard
<1>6. at[Len(Told)] = Len(Base)
  BY <1>2, <1>3
<1>7. sent \in Seq(Records) /\ executed \in Seq(Seq(AllPieces))
  BY <1>1, EmptySeq
<1>. QED
  BY <1>4, <1>5, <1>6, <1>7 DEF Followed

(* What changes no segment changes nothing. *)
LEMMA FollowedStays ==
  ASSUME Followed, Told' = Told, Len(Base)' = Len(Base), sent' \in Seq(Records),
         \A i \in 1 .. Len(Base) : line'[i] = line[i], read' = read, executed' = executed
  PROVE  Followed'
<1>1. PICK at, k, call : Split(Told, line, at) /\ at[Len(Told)] = Len(Base)
                         /\ Heard(Told, at, k, call, read, executed)
  BY DEF Followed
<1>2. Split(Told, line', at)
  BY <1>1, SplitStays
<1>3. Split(Told', line', at) /\ at[Len(Told')] = Len(Base')
      /\ Heard(Told', at, k, call, read', executed')
  BY <1>1, <1>2
<1>4. executed' \in Seq(Seq(AllPieces))
  BY DEF Followed
<1>. QED
  BY <1>3, <1>4 DEF Followed

(* A call is told, with what it put out. *)
LEMMA FollowedGrows ==
  ASSUME Followed, NEW r \in Records, Told' = Append(Told, r), sent' \in Seq(Records),
         NEW z \in Nat, z = Len(Base'), Len(Base) <= z,
         \A i \in 1 .. Len(Base) : line'[i] = line[i],
         r.ok => /\ z = Len(Base) + Len(r.text)
                 /\ \A i \in 1 .. Len(r.text) : line'[Len(Base) + i] = r.text[i],
         ~r.ok => \A i \in Len(Base) + 1 .. z : line'[i] # LINE_END,
         read' = read, executed' = executed
  PROVE  Followed'
<1>1. PICK at, k, call : Split(Told, line, at) /\ at[Len(Told)] = Len(Base)
                         /\ Heard(Told, at, k, call, read, executed)
  BY DEF Followed
<1>2. Split(Told, line', at)
  BY <1>1, SplitStays
<1>3. PICK at2 : at2 = [n \in 0 .. Len(Told) + 1 |-> IF n <= Len(Told) THEN at[n] ELSE z]
  OBVIOUS
<1>4. Split(Append(Told, r), line', at2)
  <2>1. /\ at[Len(Told)] <= z
        /\ r.ok => /\ z = at[Len(Told)] + Len(r.text)
                   /\ \A i \in 1 .. Len(r.text) : line'[at[Len(Told)] + i] = r.text[i]
        /\ ~r.ok => \A i \in at[Len(Told)] + 1 .. z : line'[i] # LINE_END
    BY <1>1
  <2>. QED
    BY <1>2, <1>3, <2>1, SplitGrows
<1>5. Told \in Seq(Records) /\ Len(Told) \in Nat /\ Len(executed) \in Nat
  BY <1>1, LenProperties DEF Split, Followed
<1>6. Heard(Append(Told, r), at2, k, call, read, executed)
  <2>1. \A n \in 0 .. Len(Told) : at2[n] = at[n]
    BY <1>3, <1>5
  <2>. QED
    BY <1>1, <1>5, <2>1, HeardStays
<1>7. at2[Len(Append(Told, r))] = z
  <2>1. Len(Append(Told, r)) = Len(Told) + 1
    BY <1>5, AppendProperties
  <2>. QED
    BY <1>3, <1>5, <2>1
<1>8. executed' \in Seq(Seq(AllPieces))
  BY DEF Followed
<1>9. Split(Told', line', at2) /\ at2[Len(Told')] = Len(Base')
      /\ Heard(Told', at2, k, call, read', executed')
  BY <1>4, <1>6, <1>7
<1>. QED
  BY <1>8, <1>9 DEF Followed

(* What a caller sends, and the part of it that is on the line. *)
LEMMA SendingIs ==
  ASSUME Inv, NEW c \in Callers, pc[c] # "idle"
  PROVE  /\ text[c] \in Sendable /\ Len(text[c]) \in Nat /\ Len(text[c]) >= 2
         /\ taken[c] \in 0 .. Len(text[c]) /\ c # NoCaller
         /\ pc[c] = "waiting" => taken[c] = 0 /\ holder # c
         /\ pc[c] = "writing" =>
              /\ holder = c /\ Len(before) \in Nat /\ Len(line) = Len(before) + taken[c]
              /\ \A i \in 1 .. Len(before) : line[i] = before[i]
              /\ \A i \in 1 .. taken[c] : line[Len(before) + i] = text[c][i]
<1>1. text[c] \in Texts /\ text[c] # <<>>
  BY CallerTypes DEF Inv, TypeOK
<1>2. text[c] \in Sendable
  BY <1>1, TextIsText, TextIsLine DEF Texts, Sendable
<1>3. Len(text[c]) \in Nat /\ Len(text[c]) >= 2 /\ taken[c] \in 0 .. Len(text[c])
  BY <1>2, OfSendable, CallerTypes DEF Inv
<1>4. ASSUME pc[c] = "writing"
      PROVE  /\ holder = c /\ Len(before) \in Nat /\ Len(line) = Len(before) + taken[c]
             /\ \A i \in 1 .. Len(before) : line[i] = before[i]
             /\ \A i \in 1 .. taken[c] : line[Len(before) + i] = text[c][i]
  <2>1. holder = c /\ line = before \o SubSeq(text[c], 1, taken[c]) /\ before \in Seq(AllPieces)
    BY <1>4, CallerTypes DEF Inv, Lines
  <2>2. PICK t \in Nat : t = taken[c]
    BY <1>3
  <2>3. t \in Int /\ 1 \in Int /\ \A i \in 1 .. t : text[c][i] \in AllPieces
    BY <1>2, <1>3, <2>2, OfSendable, ElementOfSeq
  <2>4. /\ SubSeq(text[c], 1, t) \in Seq(AllPieces)
        /\ Len(SubSeq(text[c], 1, t)) = IF 1 <= t THEN t - 1 + 1 ELSE 0
        /\ \A i \in 1 .. t - 1 + 1 : SubSeq(text[c], 1, t)[i] = text[c][1 + i - 1]
    BY <2>3, SubSeqProperties
  <2>5. PICK part \in Seq(AllPieces) : part = SubSeq(text[c], 1, t)
    BY <2>4
  <2>6. Len(part) = t /\ \A i \in 1 .. t : part[i] = text[c][i]
    BY <2>2, <2>4, <2>5
  <2>7. PICK b \in Nat : b = Len(before)
    BY <2>1, LenProperties
  <2>8. Len(line) = b + t /\ \A i \in 1 .. b + t : line[i] = IF i <= b THEN before[i] ELSE part[i - b]
    BY <2>1, <2>2, <2>5, <2>6, <2>7, ConcatProperties, SMTT(30)
  <2>9. \A i \in 1 .. b : line[i] = before[i]
    BY <2>8
  <2>10. ASSUME NEW i \in 1 .. t PROVE line[b + i] = text[c][i]
    <3>1. b + i \in 1 .. b + t /\ ~(b + i <= b) /\ b + i - b = i
      OBVIOUS
    <3>. QED
      BY <2>6, <2>8, <3>1
  <2>. QED
    BY <2>1, <2>2, <2>7, <2>8, <2>9, <2>10
<1>5. pc[c] = "waiting" => taken[c] = 0 /\ holder # c
  BY CallerTypes DEF Inv
<1>6. c # NoCaller
  OBVIOUS
<1>. QED
  BY <1>2, <1>3, <1>4, <1>5, <1>6

LEMMA CallFollowed ==
  ASSUME Inv, Followed, NEW c \in Callers, NEW q \in Requests, Call(c, q)
  PROVE  Followed'
<1>1. /\ pc[c] = "idle" /\ text' = [text EXCEPT ![c] = TextOf(q)]
      /\ UNCHANGED <<taken, holder, before, sent, line, read, executed>>
  BY DEF Call, receiver
<1>2. holder # c /\ holder \in Callers \cup {NoCaller} /\ text \in [Callers -> Texts]
  BY <1>1, CallerTypes DEF Inv, TypeOK
<1>3. holder # NoCaller => text'[holder] = text[holder]
  BY <1>1, <1>2
<1>4. Whole' <=> Whole
  BY <1>1, <1>3 DEF Whole
<1>5. Told' = Told /\ Base' = Base
  <2>1. Whole => holder # NoCaller
    BY DEF Whole
  <2>2. Base' = Base
    BY <1>1, <1>4 DEF Base
  <2>3. CASE Whole
    <3>1. Whole' /\ holder' = holder /\ text'[holder] = text[holder] /\ sent' = sent
      BY <1>1, <1>3, <1>4, <2>1, <2>3
    <3>2. Told' = Append(sent', [text |-> text'[holder'], ok |-> TRUE])
      BY <3>1 DEF Told
    <3>3. Told = Append(sent, [text |-> text[holder], ok |-> TRUE])
      BY <2>3 DEF Told
    <3>. QED
      BY <2>2, <3>1, <3>2, <3>3
  <2>4. CASE ~Whole
    BY <1>1, <1>4, <2>2, <2>4 DEF Told
  <2>. QED
    BY <2>3, <2>4
<1>6. sent' \in Seq(Records) /\ \A i \in 1 .. Len(Base) : line'[i] = line[i]
  BY <1>1 DEF Followed
<1>. QED
  BY <1>1, <1>5, <1>6, FollowedStays

LEMMA LockFollowed ==
  ASSUME Inv, Followed, NEW c \in Callers, Lock(c)
  PROVE  Followed'
<1>1. /\ pc[c] = "waiting" /\ holder = NoCaller /\ holder' = c /\ before' = line
      /\ UNCHANGED <<text, taken, sent, line, read, executed>>
  BY DEF Lock, receiver
<1>2. taken[c] = 0 /\ Len(text[c]) >= 2 /\ c # NoCaller
  BY <1>1, SendingIs
<1>3. ~Whole /\ ~Whole'
  BY <1>1, <1>2 DEF Whole
<1>4. Told' = Told /\ Base' = Base
  BY <1>1, <1>2, <1>3 DEF Told, Base
<1>5. sent' \in Seq(Records) /\ \A i \in 1 .. Len(Base) : line'[i] = line[i]
  BY <1>1 DEF Followed
<1>. QED
  BY <1>1, <1>4, <1>5, FollowedStays

(* With its last piece the text is out as a whole. *)
LEMMA TakeFollowed ==
  ASSUME Inv, Followed, NEW c \in Callers, Take(c)
  PROVE  Followed'
<1>1. /\ pc[c] = "writing" /\ taken[c] < Len(text[c])
      /\ line' = Append(line, text[c][taken[c] + 1])
      /\ taken' = [taken EXCEPT ![c] = @ + 1]
      /\ UNCHANGED <<text, holder, before, sent, read, executed>>
  BY DEF Take, receiver
<1>2. /\ text[c] \in Sendable /\ Len(text[c]) \in Nat /\ taken[c] \in 0 .. Len(text[c])
      /\ c # NoCaller /\ holder = c /\ Len(before) \in Nat /\ Len(line) = Len(before) + taken[c]
      /\ \A i \in 1 .. Len(before) : line[i] = before[i]
      /\ \A i \in 1 .. taken[c] : line[Len(before) + i] = text[c][i]
  BY <1>1, SendingIs
<1>3. PICK b \in Nat, t \in Nat, l \in Nat : b = Len(before) /\ t = taken[c] /\ l = Len(text[c])
  BY <1>2
<1>4. taken'[c] = t + 1
  BY <1>1, <1>3 DEF Inv, TypeOK
<1>5. /\ Len(line') = b + t + 1 /\ \A i \in 1 .. b + t : line'[i] = line[i]
      /\ line'[b + t + 1] = text[c][t + 1]
  <2>1. t + 1 \in 1 .. l
    BY <1>1, <1>3
  <2>2. PICK piece \in AllPieces : piece = text[c][t + 1]
    BY <1>2, <1>3, <2>1, OfSendable, ElementOfSeq
  <2>3. line \in Seq(AllPieces) /\ Len(line) = b + t /\ line' = Append(line, piece)
    BY <1>1, <1>2, <1>3, <2>2 DEF Inv, Lines
  <2>4. /\ Len(Append(line, piece)) = Len(line) + 1 /\ Append(line, piece)[Len(line) + 1] = piece
        /\ \A i \in 1 .. Len(line) : Append(line, piece)[i] = line[i]
    BY <2>3, AppendProperties
  <2>. QED
    BY <2>2, <2>3, <2>4
<1>6. ~Whole /\ Told = sent /\ Base = before /\ Len(Base) = b
  BY <1>1, <1>2, <1>3 DEF Whole, Told, Base
<1>7. \A i \in 1 .. Len(Base) : line'[i] = line[i]
  BY <1>5, <1>6
<1>8. sent' \in Seq(Records)
  BY <1>1 DEF Followed
<1>9. CASE t + 1 < l
  <2>1. ~Whole'
    BY <1>1, <1>2, <1>3, <1>4, <1>9 DEF Whole
  <2>2. Told' = Told /\ Base' = Base
    BY <1>1, <1>2, <1>6, <2>1 DEF Told, Base
  <2>. QED
    BY <1>1, <1>7, <1>8, <2>2, FollowedStays
<1>10. CASE t + 1 = l
  <2>1. Whole'
    BY <1>1, <1>2, <1>3, <1>4, <1>10 DEF Whole
  <2>. DEFINE r == [text |-> text[c], ok |-> TRUE]
  <2>2. Told' = Append(Told, r) /\ Base' = line'
    BY <1>1, <1>2, <1>6, <2>1 DEF Told, Base
  <2>3. r \in Records /\ r.ok /\ r.text = text[c]
    BY <1>2 DEF Records
  <2>4. b + l = Len(Base') /\ Len(Base) <= b + l /\ b + l = Len(Base) + Len(r.text)
    <3>1. Len(Base') = b + t + 1 /\ Len(Base) = b /\ Len(r.text) = l
      BY <1>3, <1>5, <1>6, <2>2, <2>3
    <3>. HIDE DEF r
    <3>. QED
      BY <1>10, <3>1
  <2>5. \A i \in 1 .. Len(r.text) : line'[Len(Base) + i] = r.text[i]
    <3>. SUFFICES ASSUME NEW i \in 1 .. l PROVE line'[b + i] = text[c][i]
      BY <1>3, <1>6, <2>3
    <3>1. CASE i = t + 1
      BY <1>5, <3>1
    <3>2. CASE i \in 1 .. t
      <4>1. b + i \in 1 .. b + t
        BY <3>2
      <4>. QED
        BY <1>2, <1>3, <1>5, <3>2, <4>1
    <3>. QED
      BY <1>10, <3>1, <3>2
  <2>6. b + l \in Nat
    OBVIOUS
  <2>. HIDE DEF r
  <2>. QED
    BY <1>1, <1>7, <1>8, <2>2, <2>3, <2>4, <2>5, <2>6, FollowedGrows
<1>. QED
  BY <1>1, <1>3, <1>9, <1>10

LEMMA WrittenFollowed ==
  ASSUME Inv, Followed, NEW c \in Callers, Written(c)
  PROVE  Followed'
<1>1. /\ pc[c] = "writing" /\ taken[c] = Len(text[c]) /\ holder' = NoCaller
      /\ sent' = Append(sent, [text |-> text[c], ok |-> TRUE])
      /\ UNCHANGED <<line, read, executed>>
  BY DEF Written, Return, receiver
<1>2. holder = c /\ c # NoCaller /\ text[c] \in Sendable
  BY <1>1, SendingIs
<1>3. Whole /\ ~Whole'
  BY <1>1, <1>2 DEF Whole
<1>4. Told' = Told /\ Base' = Base
  BY <1>1, <1>2, <1>3 DEF Told, Base
<1>5. sent' \in Seq(Records)
  <2>1. [text |-> text[c], ok |-> TRUE] \in Records /\ sent \in Seq(Records)
    BY <1>2 DEF Records, Followed
  <2>. QED
    BY <1>1, <2>1, AppendProperties
<1>6. \A i \in 1 .. Len(Base) : line'[i] = line[i]
  BY <1>1
<1>. QED
  BY <1>1, <1>4, <1>5, <1>6, FollowedStays

(* A part of a text has no line end. *)
LEMMA CutOffFollowed ==
  ASSUME Inv, Followed, NEW c \in Callers, CutOff(c)
  PROVE  Followed'
<1>1. /\ pc[c] = "writing" /\ taken[c] < Len(text[c]) /\ holder' = NoCaller
      /\ sent' = Append(sent, [text |-> text[c], ok |-> FALSE])
      /\ UNCHANGED <<read, executed>>
  BY DEF CutOff, Return, receiver
<1>2. PICK tail \in {<<>>, <<Torn>>} : line' = line \o tail
  BY DEF CutOff
<1>3. /\ text[c] \in Sendable /\ Len(text[c]) \in Nat /\ taken[c] \in 0 .. Len(text[c])
      /\ c # NoCaller /\ holder = c /\ Len(before) \in Nat /\ Len(line) = Len(before) + taken[c]
      /\ \A i \in 1 .. taken[c] : line[Len(before) + i] = text[c][i]
  BY <1>1, SendingIs
<1>4. PICK b \in Nat, t \in Nat, l \in Nat : b = Len(before) /\ t = taken[c] /\ l = Len(text[c])
  BY <1>3
<1>5. tail \in Seq(AllPieces) /\ \A i \in 1 .. Len(tail) : tail[i] # LINE_END
  <2>1. Torn \in AllPieces /\ Torn # LINE_END
    <3>1. "~" \in Torn /\ "~" \notin LINE_END
      BY DEF Torn, LINE_END, Piece
    <3>2. Torn \in AllPieces
      BY DEF Torn, Piece, AllPieces, Words
    <3>. QED
      BY <3>1, <3>2
  <2>2. CASE tail = <<>>
    BY <2>2
  <2>3. CASE tail = <<Torn>>
    BY <2>1, <2>3
  <2>. QED
    BY <2>2, <2>3
<1>6. PICK m \in Nat : m = Len(tail)
  BY <1>5, LenProperties
<1>7. Len(line') = b + t + m /\ \A i \in 1 .. b + t + m :
         line'[i] = IF i <= b + t THEN line[i] ELSE tail[i - (b + t)]
  <2>1. line \in Seq(AllPieces) /\ Len(line) = b + t
    BY <1>3, <1>4 DEF Inv, Lines
  <2>. QED
    <3>1. /\ Len(line \o tail) = Len(line) + Len(tail)
          /\ \A i \in 1 .. Len(line) + Len(tail) :
               (line \o tail)[i] = IF i <= Len(line) THEN line[i] ELSE tail[i - Len(line)]
      <4>1. line \in Seq(AllPieces) /\ tail \in Seq(AllPieces)
        BY <1>5, <2>1
      <4>. QED
        BY ONLY <4>1, ConcatProperties
    <3>. QED
      BY <1>2, <1>6, <2>1, <3>1
<1>8. ~Whole /\ ~Whole' /\ Told = sent /\ Base = before /\ Len(Base) = b
  BY <1>1, <1>3, <1>4 DEF Whole, Told, Base
<1>. DEFINE r == [text |-> text[c], ok |-> FALSE]
<1>9. Told' = Append(Told, r) /\ Base' = line'
  BY <1>1, <1>8 DEF Told, Base
<1>10. r \in Records /\ ~r.ok
  BY <1>3 DEF Records
<1>11. sent' \in Seq(Records)
  BY <1>1, <1>10, AppendProperties DEF Followed
<1>12. \A i \in 1 .. Len(Base) : line'[i] = line[i]
  BY <1>7, <1>8
<1>13. \A i \in Len(Base) + 1 .. b + t + m : line'[i] # LINE_END
  <2>. SUFFICES ASSUME NEW i \in b + 1 .. b + t + m PROVE line'[i] # LINE_END
    BY <1>8
  <2>1. CASE i <= b + t
    <3>1. PICK j \in 1 .. t : i = b + j
      <4>1. i - b \in 1 .. t /\ i = b + (i - b)
        BY <2>1
      <4>. QED
        BY <4>1
    <3>2. line'[i] = line[i]
      <4>1. i \in 1 .. b + t + m
        BY <2>1
      <4>. QED
        BY <1>7, <2>1, <4>1
    <3>3. line[i] = text[c][j]
      BY <1>3, <1>4, <3>1
    <3>4. j \in 1 .. l /\ j # l
      BY <1>1, <1>4, SMTT(30)
    <3>. QED
      BY <1>3, <1>4, <3>2, <3>3, <3>4, OfSendable
  <2>2. CASE ~(i <= b + t)
    <3>1. i - (b + t) \in 1 .. m /\ i \in 1 .. b + t + m
      BY <2>2
    <3>. QED
      BY <1>5, <1>6, <1>7, <2>2, <3>1
  <2>. QED
    BY <2>1, <2>2
<1>14. b + t + m \in Nat /\ b + t + m = Len(Base') /\ Len(Base) <= b + t + m
  BY <1>7, <1>8, <1>9
<1>. HIDE DEF r
<1>. QED
  BY <1>1, <1>9, <1>10, <1>11, <1>12, <1>13, <1>14, FollowedGrows

(* Behind the calls told there is no line end yet. *)
LEMMA OpenTail ==
  ASSUME Inv, NEW i \in Len(Base) + 1 .. Len(line)
  PROVE  line[i] # LINE_END /\ holder # NoCaller
<1>1. Base # line
  <2>1. Len(line) \in Nat
    BY LenProperties DEF Inv, Lines
  <2>. QED
    BY <2>1
<1>2. PICK c \in Callers : c = holder /\ pc[c] = "writing" /\ taken[c] # Len(text[c]) /\ Base = before
  BY <1>1 DEF Base, Whole, Inv, TypeOK
<1>3. /\ text[c] \in Sendable /\ Len(text[c]) \in Nat /\ taken[c] \in 0 .. Len(text[c])
      /\ c # NoCaller /\ Len(before) \in Nat /\ Len(line) = Len(before) + taken[c]
      /\ \A j \in 1 .. taken[c] : line[Len(before) + j] = text[c][j]
  BY <1>2, SendingIs
<1>4. PICK b \in Nat, t \in Nat, l \in Nat : b = Len(before) /\ t = taken[c] /\ l = Len(text[c])
  BY <1>3
<1>5. PICK j \in 1 .. t : i = b + j
  <2>1. i - b \in 1 .. t /\ i = b + (i - b)
    BY <1>2, <1>3, <1>4
  <2>. QED
    BY <2>1
<1>6. line[i] = text[c][j]
  BY <1>3, <1>4, <1>5
<1>7. j \in 1 .. l /\ j # l
  <2>1. t < l
    BY <1>2, <1>3, <1>4
  <2>. QED
    BY <2>1
<1>. QED
  BY <1>2, <1>3, <1>4, <1>6, <1>7, OfSendable

LEMMA BaseIs ==
  ASSUME Inv
  PROVE  Len(Base) \in Nat /\ Len(Base) <= Len(line) /\ Len(line) \in Nat
<1>1. Len(line) \in Nat /\ Len(before) \in Nat
  BY LenProperties DEF Inv, Lines
<1>2. CASE Base = line
  BY <1>1, <1>2
<1>3. CASE Base # line
  <2>1. PICK c \in Callers : c = holder /\ pc[c] = "writing" /\ Base = before
    BY <1>3 DEF Base, Whole, Inv, TypeOK
  <2>2. taken[c] \in 0 .. Len(text[c]) /\ Len(line) = Len(before) + taken[c] /\ Len(text[c]) \in Nat
    BY <2>1, SendingIs
  <2>. QED
    BY <1>1, <2>1, <2>2
<1>. QED
  BY <1>2, <1>3

(* The receiver reads the next command: it obeys it, or it met it behind   *)
(* rubbish.                                                                *)
LEMMA ReceiveFollowed ==
  ASSUME Inv, Followed, Receive
  PROVE  Followed'
<1>1. PICK at, k, call : Split(Told, line, at) /\ at[Len(Told)] = Len(Base)
                         /\ Heard(Told, at, k, call, read, executed)
  BY DEF Followed
<1>2. PICK e, start :
        /\ e \in read + 1 .. Len(line) /\ start \in read + 1 .. e
        /\ EndOfLine(e) /\ read' = e
        /\ line[start] = HEADER /\ \A i \in start + 1 .. e : line[i] # HEADER
        /\ LET last == SubSeq(line, start, e)
           IN  executed' \in (IF Passes(last) THEN {Append(executed, last)} ELSE {executed})
                             \cup (IF Clean(start) THEN {} ELSE {executed})
        /\ UNCHANGED <<caller, line>>
  BY DEF Receive
<1>3. /\ Told \in Seq(Records) /\ line \in Seq(AllPieces) /\ Len(Told) \in Nat
      /\ at \in [0 .. Len(Told) -> Nat] /\ k \in 0 .. Len(Told) /\ read = at[k] /\ read \in Nat
      /\ executed \in Seq(Seq(AllPieces)) /\ Len(executed) \in Nat
  BY <1>1, LenProperties DEF Split, Heard, Inv, TypeOK, Lines, Followed
<1>4. Told' = Told /\ Base' = Base /\ sent' = sent /\ line' = line
  BY <1>2 DEF Told, Base, Whole, caller
<1>5. e \in at[k] + 1 .. at[Len(Told)]
  <2>1. ~(e \in Len(Base) + 1 .. Len(line))
    BY <1>2, OpenTail DEF EndOfLine
  <2>2. Len(Base) \in Nat /\ Len(line) \in Nat
    BY BaseIs
  <2>. QED
    BY <1>1, <1>2, <1>3, <2>1, <2>2
<1>6. PICK m \in k + 1 .. Len(Told) :
        /\ m \in CommandsIn(Told) /\ e = at[m]
        /\ \A n \in k + 1 .. m - 1 : n \notin CommandsIn(Told)
        /\ start = at[m - 1] + 1 /\ SubSeq(line, start, e) = Told[m].text
  <2>1. line[e] = LINE_END /\ (\A i \in at[k] + 1 .. e - 1 : line[i] # LINE_END)
        /\ start \in at[k] + 1 .. e /\ at[Len(Told)] <= Len(line)
    BY <1>1, <1>2, <1>3, BaseIs DEF EndOfLine
  <2>2. \E m \in k + 1 .. Len(Told) :
           /\ m \in CommandsIn(Told) /\ e = at[m]
           /\ \A n \in k + 1 .. m - 1 : n \notin CommandsIn(Told)
           /\ \A st \in at[k] + 1 .. e :
                line[st] = HEADER /\ (\A i \in st + 1 .. e : line[i] # HEADER)
                => st = at[m - 1] + 1 /\ SubSeq(line, st, e) = Told[m].text
    <3>1. /\ line \in Seq(AllPieces) /\ Split(Told, line, at) /\ k \in 0 .. Len(Told)
          /\ at[Len(Told)] <= Len(line) /\ e \in at[k] + 1 .. at[Len(Told)] /\ line[e] = LINE_END
          /\ \A i \in at[k] + 1 .. e - 1 : line[i] # LINE_END
      BY <1>1, <1>3, <1>5, <2>1
    <3>. QED
      BY ONLY <3>1, NextLineIs
  <2>. QED
    BY <1>2, <2>1, <2>2
<1>7. Passes(Told[m].text)
  <2>1. Told[m] \in Records /\ Told[m].text # Rtcm
    BY <1>3, <1>6, ElementOfSeq DEF CommandsIn
  <2>2. Told[m].text \in Sendable
    BY <2>1 DEF Records
  <2>. QED
    BY <2>1, <2>2, OfSendable DEF IsLine
<1>8. k < m /\ m - 1 \in k .. Len(Told)
  BY <1>3, <1>6
<1>9. CASE executed' = Append(executed, Told[m].text)
  <2>1. PICK call2 \in [1 .. Len(executed) + 1 -> CommandsIn(Told)] :
          Heard(Told, at, m, call2, at[m], executed')
    BY <1>1, <1>3, <1>6, <1>8, <1>9, HeardObeys
  <2>2. executed' \in Seq(Seq(AllPieces))
    <3>1. Told[m] \in Records
      BY <1>3, <1>6, ElementOfSeq DEF CommandsIn
    <3>2. Told[m].text \in Seq(AllPieces)
      BY <3>1 DEF Records, Sendable
    <3>. QED
      BY <1>3, <1>9, <3>2, AppendProperties
  <2>3. Split(Told', line', at) /\ at[Len(Told')] = Len(Base') /\ Heard(Told', at, m, call2, read', executed')
    BY <1>1, <1>2, <1>4, <1>6, <2>1
  <2>4. sent' \in Seq(Records)
    BY <1>4 DEF Followed
  <2>. QED
    BY <2>2, <2>3, <2>4 DEF Followed
<1>10. CASE executed' = executed /\ ~Clean(start)
  <2>1. ~\A n \in k + 1 .. m - 1 : Told[n].ok /\ Told[n].text = Rtcm
    <3>. SUFFICES ASSUME \A n \in k + 1 .. m - 1 : Told[n].ok /\ Told[n].text = Rtcm
                  PROVE  Clean(start)
      BY <1>10
    <3>1. PICK p \in k .. Len(Told) : p = m - 1
      BY <1>8
    <3>2. /\ at[p] = at[k] + 2 * (p - k)
          /\ \A i \in at[k] + 1 .. at[p] : line[i] = Rtcm[IF (i - at[k]) % 2 = 1 THEN 1 ELSE 2]
      <4>1. /\ Split(Told, line, at) /\ k \in 0 .. Len(Told) /\ p \in k .. Len(Told)
            /\ \A n \in k + 1 .. p : Told[n].ok /\ Told[n].text = Rtcm
        BY <1>1, <1>3, <3>1
      <4>. QED
        BY ONLY <4>1, CorrectionsAreClean, SMTT(30)
    <3>3. PICK d \in Nat, x \in Nat : d = p - k /\ x = at[k] /\ at[p] = x + 2 * d
      <4>1. p - k \in Nat /\ at[k] \in Nat
        BY <1>3
      <4>. QED
        BY <3>2, <4>1
    <3>4. start - read = 2 * d + 1 /\ start - 1 = at[p]
      <4>1. start = at[p] + 1 /\ read = x
        BY <1>3, <1>6, <3>1, <3>3
      <4>2. PICK y \in Nat : y = at[p] /\ y = x + 2 * d
        BY <3>3
      <4>3. start = y + 1 /\ start - read = y + 1 - x
        BY <4>1, <4>2
      <4>4. y + 1 - x = 2 * d + 1 /\ y + 1 - 1 = y
        BY <4>2
      <4>. QED
        BY <4>2, <4>3, <4>4
    <3>5. (2 * d + 1) % 2 = 1
      OBVIOUS
    <3>6. \A i \in read + 1 .. start - 1 : line[i] = Rtcm[IF (i - read) % 2 = 1 THEN 1 ELSE 2]
      BY <1>3, <3>2, <3>4
    <3>. QED
      BY <3>4, <3>5, <3>6 DEF Clean
  <2>2. Behind(Told, m)
    BY <1>3, <1>6, <2>1, UncleanIsBehind
  <2>3. Heard(Told, at, m, call, at[m], executed)
    BY <1>1, <1>3, <1>6, <1>8, <2>2, HeardMisses
  <2>4. Split(Told', line', at) /\ at[Len(Told')] = Len(Base') /\ Heard(Told', at, m, call, read', executed')
    BY <1>1, <1>2, <1>4, <1>6, <1>10, <2>3
  <2>5. sent' \in Seq(Records) /\ executed' \in Seq(Seq(AllPieces))
    BY <1>4, <1>10 DEF Followed
  <2>. QED
    BY <2>4, <2>5 DEF Followed
<1>. QED
  BY <1>2, <1>6, <1>7, <1>9, <1>10

LEMMA StepFollowed == Inv /\ Followed /\ [Next]_vars => Followed'
<1>. SUFFICES ASSUME Inv, Followed, [Next]_vars PROVE Followed'
  OBVIOUS
<1>1. CASE UNCHANGED vars
  <2>1. Told' = Told /\ Base' = Base /\ UNCHANGED <<sent, line, read, executed>>
    BY <1>1 DEF vars, caller, receiver, Told, Base, Whole
  <2>. QED
    BY <2>1 DEF Followed
<1>. QED
  BY <1>1, CallFollowed, LockFollowed, TakeFollowed, WrittenFollowed, CutOffFollowed, ReceiveFollowed
     DEF Next, Write

(* The receiver obeys the commands that returned Ok, once and in order,    *)
(* and no other, and misses at most the ones behind a text cut off:        *)
(* whatever the callers ask for and however they take turns, wherever      *)
(* write() stops, and also when the line is read before the call returns.  *)
THEOREM OkIsObeyed == Spec => []OkIsExecuted
<1>1. Inv /\ Followed => OkIsExecuted
  <2>. SUFFICES ASSUME Inv, Followed, holder = NoCaller, ~LineUnread
                PROVE  \E call \in [DOMAIN executed -> OkCommands] :
                         /\ \A i, j \in DOMAIN executed : i < j => call[i] < call[j]
                         /\ \A i \in DOMAIN executed : executed[i] = sent[call[i]].text
                         /\ \A n \in OkCommands :
                              BehindRubbish(n) \/ \E i \in DOMAIN executed : call[i] = n
    BY DEF OkIsExecuted
  <2>1. Told = sent /\ Base = line
    BY DEF Told, Base, Whole
  <2>2. PICK at, k, call : Split(sent, line, at) /\ at[Len(sent)] = Len(line)
                           /\ Heard(sent, at, k, call, read, executed)
    BY <2>1 DEF Followed
  <2>3. /\ sent \in Seq(Records) /\ Len(sent) \in Nat /\ at \in [0 .. Len(sent) -> Nat]
        /\ k \in 0 .. Len(sent) /\ read = at[k] /\ read \in Nat
        /\ DOMAIN executed = 1 .. Len(executed) /\ DOMAIN sent = 1 .. Len(sent)
    BY <2>2, LenProperties DEF Split, Heard, Inv, TypeOK, Followed
  <2>4. CommandsIn(sent) = OkCommands /\ \A n : BehindRubbish(n) <=> Behind(sent, n)
    BY <2>3 DEF CommandsIn, OkCommands, BehindRubbish, Behind
  <2>5. \A n \in CommandsIn(sent) : n <= k
    <3>. DEFINE Waiting == {n \in CommandsIn(sent) : ~(n <= k)}
    <3>1. SUFFICES ASSUME Waiting # {} PROVE FALSE
      OBVIOUS
    <3>2. PICK m \in Waiting : \A y \in Waiting : m <= y
      <4>1. Waiting \subseteq Nat
        BY <2>3 DEF CommandsIn
      <4>. HIDE DEF Waiting
      <4>. QED
        BY <3>1, <4>1, LeastExists
    <3>3. /\ m \in 1 .. Len(sent) /\ m \in 0 .. Len(sent) /\ m - 1 \in k .. Len(sent)
          /\ m - 1 \in 0 .. Len(sent) /\ m \in CommandsIn(sent) /\ Len(sent) \in m .. Len(sent)
      BY <2>3, <3>2 DEF CommandsIn
    <3>4. at[m - 1] < at[m] /\ line[at[m]] = LINE_END /\ line[at[m - 1] + 1] = HEADER
      BY <2>2, <3>3, LineEndIs
    <3>5. read <= at[m - 1] /\ at[m] <= Len(line)
      <4>1. at[k] <= at[m - 1] /\ at[m] <= at[Len(sent)]
        BY <2>2, <2>3, <3>3, EndsInOrder
      <4>. QED
        BY <2>2, <2>3, <4>1
    <3>6. at[m - 1] \in Nat /\ at[m] \in Nat /\ Len(line) \in Nat
      BY <2>2, <2>3, <3>3, SMTT(30)
    <3>7. ASSUME NEW i \in read + 1 .. at[m] - 1, line[i] = LINE_END
          PROVE  FALSE
      <4>1. i \in at[k] + 1 .. at[Len(sent)]
        BY <2>2, <2>3, <3>5, <3>6
      <4>2. PICK n \in k + 1 .. Len(sent) : i \in at[n - 1] + 1 .. at[n]
        BY <2>2, <2>3, <4>1, InSegment
      <4>3. n \in 1 .. Len(sent) /\ n \in 0 .. Len(sent)
        BY <2>3
      <4>4. n \in CommandsIn(sent) /\ i = at[n]
        BY <2>2, <3>7, <4>2, <4>3, LineEndIs
      <4>5. n \in Waiting
        BY <2>3, <4>2, <4>4
      <4>6. n \in m .. Len(sent)
        BY <2>3, <3>2, <3>3, <4>3, <4>5
      <4>7. at[m] <= at[n]
        BY <2>2, <3>3, <4>6, EndsInOrder
      <4>. QED
        BY <3>6, <3>7, <4>4, <4>7
    <3>8. LineUnread
      <4>1. at[m] \in read + 1 .. Len(line) /\ at[m - 1] + 1 \in read + 1 .. at[m]
        BY <2>3, <3>4, <3>5, <3>6
      <4>2. EndOfLine(at[m])
        BY <3>4, <3>7, <4>1 DEF EndOfLine
      <4>. QED
        BY <3>4, <4>1, <4>2 DEF LineUnread
    <3>. QED
      BY <3>8
  <2>6. /\ call \in [DOMAIN executed -> OkCommands]
        /\ \A i, j \in DOMAIN executed : i < j => call[i] < call[j]
        /\ \A i \in DOMAIN executed : executed[i] = sent[call[i]].text
    BY <2>2, <2>3, <2>4 DEF Heard
  <2>7. \A n \in OkCommands : BehindRubbish(n) \/ \E i \in DOMAIN executed : call[i] = n
    BY <2>2, <2>3, <2>4, <2>5 DEF Heard
  <2>. QED
    BY <2>6, <2>7
<1>2. Init => Inv /\ Followed
  BY InitInv, InitFollowed
<1>3. Inv /\ Followed /\ [Next]_vars => Inv' /\ Followed'
  BY StepInv, StepFollowed
<1>. QED
  BY <1>1, <1>2, <1>3, PTL DEF Spec

-----------------------------------------------------------------------------
(* How the receiver reads a line back: "pieces" hold the words of          *)
(* "values".                                                               *)
Holds(pieces, values) ==
  /\ pieces \in Seq(AllPieces) /\ values \in Seq(Words) /\ Len(pieces) = Len(values)
  /\ \A i \in 1 .. Len(values) : pieces[i] = Piece(values[i])

At(values, n) == IF n <= Len(values) THEN values[n] ELSE Unspecified

LEMMA WordIs == \A w : Word(Piece(w)) = w
  BY DEF Word, Piece

LEMMA HoldsOne ==
  ASSUME NEW v \in Words
  PROVE  /\ v # Unspecified => Holds(Param(v), <<v>>)
         /\ v = Unspecified => Holds(Param(v), <<>>)
<1>1. CASE v = Unspecified
  <2>1. Param(v) = <<>> /\ Len(<<>>) = 0
    BY <1>1 DEF Param
  <2>. QED
    BY <1>1, <2>1, EmptySeq DEF Holds
<1>2. CASE v # Unspecified
  <2>1. PICK p \in AllPieces : p = Piece(v)
    BY DEF Piece, AllPieces
  <2>2. Param(v) = <<p>>
    BY <1>2, <2>1 DEF Param
  <2>3. <<p>> \in Seq(AllPieces) /\ <<v>> \in Seq(Words) /\ Len(<<p>>) = 1 /\ Len(<<v>>) = 1
        /\ <<p>>[1] = p /\ <<v>>[1] = v
    OBVIOUS
  <2>. QED
    BY <1>2, <2>1, <2>2, <2>3 DEF Holds
<1>. QED
  BY <1>1, <1>2

LEMMA HoldsBoth ==
  ASSUME NEW s, NEW t, NEW v, NEW w, Holds(s, v), Holds(t, w)
  PROVE  Holds(s \o t, v \o w)
<1>1. PICK m \in Nat, n \in Nat : m = Len(v) /\ n = Len(w)
  BY LenProperties DEF Holds
<1>2. /\ s \in Seq(AllPieces) /\ t \in Seq(AllPieces) /\ v \in Seq(Words) /\ w \in Seq(Words)
      /\ Len(s) = m /\ Len(t) = n
      /\ \A i \in 1 .. m : s[i] = Piece(v[i])
      /\ \A i \in 1 .. n : t[i] = Piece(w[i])
  BY <1>1 DEF Holds
<1>3. /\ s \o t \in Seq(AllPieces) /\ Len(s \o t) = m + n
      /\ \A i \in 1 .. m + n : (s \o t)[i] = IF i <= m THEN s[i] ELSE t[i - m]
  <2>1. /\ s \o t \in Seq(AllPieces) /\ Len(s \o t) = Len(s) + Len(t)
        /\ \A i \in 1 .. Len(s) + Len(t) :
             (s \o t)[i] = IF i <= Len(s) THEN s[i] ELSE t[i - Len(s)]
    BY <1>2, ConcatProperties
  <2>. QED
    BY <1>2, <2>1
<1>4. /\ v \o w \in Seq(Words) /\ Len(v \o w) = m + n
      /\ \A i \in 1 .. m + n : (v \o w)[i] = IF i <= m THEN v[i] ELSE w[i - m]
  <2>1. /\ v \o w \in Seq(Words) /\ Len(v \o w) = Len(v) + Len(w)
        /\ \A i \in 1 .. Len(v) + Len(w) :
             (v \o w)[i] = IF i <= Len(v) THEN v[i] ELSE w[i - Len(v)]
    BY <1>2, ConcatProperties
  <2>. QED
    BY <1>1, <2>1
<1>5. ASSUME NEW i \in 1 .. m + n
      PROVE  (s \o t)[i] = Piece((v \o w)[i])
  <2>1. CASE i <= m
    BY <1>2, <1>3, <1>4, <2>1
  <2>2. CASE ~(i <= m)
    <3>1. i - m \in 1 .. n
      BY <2>2
    <3>. QED
      BY <1>2, <1>3, <1>4, <2>2, <3>1
  <2>. QED
    BY <2>1, <2>2
<1>. QED
  BY <1>3, <1>4, <1>5 DEF Holds

LEMMA FrontIs ==
  ASSUME NEW v \in Words, NEW values \in Seq(Words), NEW m \in Nat, m = Len(values)
  PROVE  /\ <<v>> \o values \in Seq(Words) /\ Len(<<v>> \o values) = m + 1
         /\ (<<v>> \o values)[1] = v
         /\ \A i \in 1 .. m : (<<v>> \o values)[i + 1] = values[i]
<1>1. <<v>> \in Seq(Words) /\ Len(<<v>>) = 1 /\ <<v>>[1] = v
  OBVIOUS
<1>2. PICK s \in Seq(Words) : s = <<v>>
  BY ONLY <1>1
<1>3. Len(s) = 1 /\ s[1] = v
  BY <1>1, <1>2
<1>4. /\ s \o values \in Seq(Words) /\ Len(s \o values) = Len(s) + Len(values)
      /\ \A i \in 1 .. Len(s) + Len(values) :
           (s \o values)[i] = IF i <= Len(s) THEN s[i] ELSE values[i - Len(s)]
  BY ONLY s \in Seq(Words), values \in Seq(Words), ConcatProperties
<1>5. PICK u \in Seq(Words) : u = s \o values
  BY <1>4
<1>6. Len(u) = 1 + m /\ \A i \in 1 .. 1 + m : u[i] = IF i <= 1 THEN v ELSE values[i - 1]
  BY <1>3, <1>4, <1>5
<1>7. 1 \in 1 .. 1 + m /\ \A i \in 1 .. m : i + 1 \in 1 .. 1 + m /\ ~(i + 1 <= 1) /\ i + 1 - 1 = i
  OBVIOUS
<1>8. Len(u) = m + 1 /\ u[1] = v /\ \A i \in 1 .. m : u[i + 1] = values[i]
  BY <1>6, <1>7
<1>. QED
  BY <1>2, <1>5, <1>8

(* One value more, in front; none where nothing follows. *)
LEMMA OneMore ==
  ASSUME NEW v \in Words, NEW rest, NEW values, Holds(rest, values),
         v = Unspecified => values = <<>>
  PROVE  \E w : /\ Holds(Param(v) \o rest, w) /\ (v = Unspecified => w = <<>>)
                /\ w # <<>> => w[1] = v
                /\ At(w, 1) = v /\ \A n \in 1 .. 4 : At(w, n + 1) = At(values, n)
<1>1. PICK m \in Nat : m = Len(values)
  BY LenProperties DEF Holds
<1>2. rest \in Seq(AllPieces) /\ values \in Seq(Words) /\ Len(rest) = m
  BY <1>1 DEF Holds
<1>3. CASE v = Unspecified
  <2>1. values = <<>> /\ Len(values) = 0
    BY <1>3
  <2>2. Param(v) \o rest = rest
    BY <1>2, <1>3, ConcatEmptySeq DEF Param
  <2>3. \A n \in 1 .. 5 : At(values, n) = Unspecified
    BY <2>1 DEF At
  <2>4. 1 \in 1 .. 5 /\ \A n \in 1 .. 4 : n \in 1 .. 5 /\ n + 1 \in 1 .. 5
    OBVIOUS
  <2>. QED
    BY <1>3, <2>1, <2>2, <2>3, <2>4
<1>4. CASE v # Unspecified
  <2>1. PICK w : w = <<v>> \o values
    OBVIOUS
  <2>2. Holds(Param(v) \o rest, w)
    BY <1>4, <2>1, HoldsOne, HoldsBoth
  <2>3. Len(w) = m + 1 /\ w[1] = v /\ \A i \in 1 .. m : w[i + 1] = values[i]
    BY <1>1, <1>2, <2>1, FrontIs
  <2>4. At(w, 1) = v
    BY <2>3 DEF At
  <2>5. ASSUME NEW n \in 1 .. 4
        PROVE  At(w, n + 1) = At(values, n)
    <3>1. n + 1 <= m + 1 <=> n <= m
      OBVIOUS
    <3>2. n <= m => n \in 1 .. m
      OBVIOUS
    <3>. QED
      BY <1>1, <2>3, <3>1, <3>2 DEF At
  <2>. QED
    BY <1>4, <2>2, <2>3, <2>4, <2>5
<1>. QED
  BY <1>3, <1>4

(* The parameters of a line, the port first if it is given. *)
LEMMA PositionsAre ==
  ASSUME NEW port \in Ports \cup {Unspecified}, NEW values, NEW rest, Holds(rest, values),
         values # <<>> => values[1] \notin Ports, NEW name,
         NEW t, Len(t) = Len(Param(port) \o rest) + 4, t[2] = Piece(name),
         \A i \in 1 .. Len(Param(port) \o rest) : t[i + 2] = (Param(port) \o rest)[i]
  PROVE  /\ Word(t[2]) = name /\ PortOf(t) = port
         /\ \A n \in 1 .. 4 : Nth(t, n) = At(values, n)
<1>1. PICK m \in Nat : m = Len(values)
  BY LenProperties DEF Holds
<1>2. /\ rest \in Seq(AllPieces) /\ values \in Seq(Words) /\ Len(rest) = m
      /\ \A i \in 1 .. m : rest[i] = Piece(values[i])
  BY <1>1 DEF Holds
<1>3. Word(t[2]) = name
  BY WordIs
<1>4. Unspecified \notin Ports
  BY DEF Unspecified, Ports
<1>5. m > 0 => values[1] \notin Ports
  BY <1>1
<1>6. CASE port = Unspecified
  <2>1. Param(port) \o rest = rest
    BY <1>2, <1>6, ConcatEmptySeq DEF Param
  <2>2. Len(t) = m + 4 /\ \A i \in 1 .. m : t[i + 2] = Piece(values[i])
    BY <1>2, <2>1
  <2>3. PortOf(t) = Unspecified
    <3>1. CASE m = 0
      <4>1. ~(Len(t) > 4)
        <5>1. PICK l \in Nat : l = m + 4
          OBVIOUS
        <5>2. ~(l > 4)
          BY <3>1, <5>1
        <5>3. Len(t) = l
          BY <2>2, <5>1
        <5>. QED
          BY <5>2, <5>3
      <4>. QED
        BY <4>1 DEF PortOf
    <3>2. CASE m > 0
      <4>1. 1 \in 1 .. m /\ 1 + 2 = 3
        BY <3>2
      <4>2. t[3] = Piece(values[1])
        BY <2>2, <4>1
      <4>. QED
        BY <1>5, <3>2, <4>2, WordIs DEF PortOf
    <3>. QED
      BY <3>1, <3>2
  <2>4. ASSUME NEW n \in 1 .. 4
        PROVE  Nth(t, n) = At(values, n)
    <3>1. Nth(t, n) = IF n + 2 <= Len(t) - 2 THEN Word(t[n + 2]) ELSE Unspecified
      BY <2>3 DEF Nth, Specified
    <3>2. CASE n <= m
      <4>1. n \in 1 .. m /\ n + 2 <= Len(t) - 2
        BY <2>2, <3>2
      <4>. QED
        BY <1>1, <2>2, <3>1, <3>2, <4>1, WordIs DEF At
    <3>3. CASE ~(n <= m)
      <4>1. ~(n + 2 <= Len(t) - 2)
        BY <2>2, <3>3
      <4>. QED
        BY <1>1, <3>1, <3>3, <4>1 DEF At
    <3>. QED
      BY <3>2, <3>3
  <2>. QED
    BY <1>3, <1>6, <2>3, <2>4
<1>7. CASE port \in Ports
  <2>1. port \in Words /\ port # Unspecified
    BY <1>4, <1>7 DEF Words
  <2>2. Holds(Param(port), <<port>>)
    BY <2>1, HoldsOne
  <2>3. Holds(Param(port) \o rest, <<port>> \o values)
    BY <2>2, HoldsBoth
  <2>4. /\ Len(<<port>> \o values) = m + 1 /\ (<<port>> \o values)[1] = port
        /\ \A i \in 1 .. m : (<<port>> \o values)[i + 1] = values[i]
    BY <1>1, <1>2, <2>1, FrontIs
  <2>5. /\ Len(t) = m + 5 /\ t[3] = Piece(port)
        /\ \A i \in 1 .. m : t[i + 3] = Piece(values[i])
    <3>1. Len(Param(port) \o rest) = m + 1
          /\ \A i \in 1 .. m + 1 : (Param(port) \o rest)[i] = Piece((<<port>> \o values)[i])
      BY <2>3, <2>4 DEF Holds
    <3>2. 1 \in 1 .. m + 1 /\ \A i \in 1 .. m : i + 1 \in 1 .. m + 1 /\ i + 1 + 2 = i + 3
      OBVIOUS
    <3>3. Len(t) = m + 5 /\ \A i \in 1 .. m + 1 : t[i + 2] = Piece((<<port>> \o values)[i])
      <4>1. PICK u : u = Param(port) \o rest
        OBVIOUS
      <4>2. Len(u) = m + 1 /\ Len(t) = Len(u) + 4 /\ \A i \in 1 .. Len(u) : t[i + 2] = u[i]
        BY <3>1, <4>1
      <4>3. Len(t) = m + 5 /\ \A i \in 1 .. m + 1 : t[i + 2] = u[i]
        BY <4>2
      <4>. QED
        BY <3>1, <4>1, <4>3
    <3>4. t[1 + 2] = Piece(port)
      BY <2>4, <3>2, <3>3
    <3>5. \A i \in 1 .. m : t[i + 1 + 2] = Piece(values[i])
      BY <2>4, <3>2, <3>3
    <3>. QED
      BY <3>2, <3>3, <3>4, <3>5
  <2>6. PortOf(t) = port
    BY <1>7, <2>5, WordIs DEF PortOf
  <2>7. ASSUME NEW n \in 1 .. 4
        PROVE  Nth(t, n) = At(values, n)
    <3>1. Nth(t, n) = IF n + 3 <= Len(t) - 2 THEN Word(t[n + 3]) ELSE Unspecified
      BY <2>1, <2>6 DEF Nth, Specified
    <3>2. CASE n <= m
      <4>1. n \in 1 .. m /\ n + 3 <= Len(t) - 2
        BY <2>5, <3>2
      <4>. QED
        BY <1>1, <2>5, <3>1, <3>2, <4>1, WordIs DEF At
    <3>3. CASE ~(n <= m)
      <4>1. ~(n + 3 <= Len(t) - 2)
        BY <2>5, <3>3
      <4>. QED
        BY <1>1, <3>1, <3>3, <4>1 DEF At
    <3>. QED
      BY <3>2, <3>3
  <2>. QED
    BY <1>3, <2>6, <2>7
<1>. QED
  BY <1>6, <1>7

LEMMA LineIsRead ==
  ASSUME NEW port \in Ports \cup {Unspecified}, NEW values, NEW rest, Holds(rest, values),
         values # <<>> => values[1] \notin Ports, NEW name \in Words, NEW t,
         t = AppendCheckXOR(<<HEADER, Piece(name)>> \o (Param(port) \o rest))
  PROVE  /\ Word(t[2]) = name /\ PortOf(t) = port
         /\ \A n \in 1 .. 4 : Nth(t, n) = At(values, n)
<1>1. PICK u : u = Param(port) \o rest
  OBVIOUS
<1>2. u \in Seq(AllPieces)
  <2>1. port \in Words
    BY DEF Words
  <2>2. Param(port) \in Seq(AllPieces) /\ rest \in Seq(AllPieces)
    BY <2>1, ParamIsText DEF Holds
  <2>. QED
    BY <1>1, <2>2, ConcatProperties
<1>3. PICK m \in Nat : m = Len(u)
  BY <1>2, LenProperties
<1>4. PICK a : a = <<HEADER, Piece(name)>>
  OBVIOUS
<1>5. a \in Seq(AllPieces) /\ Len(a) = 2 /\ a[2] = Piece(name)
  <2>1. HEADER \in AllPieces /\ Piece(name) \in AllPieces
    BY DEF HEADER, Piece, AllPieces, Words
  <2>. QED
    BY <1>4, <2>1
<1>6. PICK cmd : cmd = a \o u
  OBVIOUS
<1>7. /\ cmd \in Seq(AllPieces) /\ Len(cmd) = m + 2 /\ cmd[2] = Piece(name)
      /\ \A i \in 1 .. m : cmd[i + 2] = u[i]
  <2>1. /\ cmd \in Seq(AllPieces) /\ Len(cmd) = Len(a) + Len(u)
        /\ \A i \in 1 .. Len(a) + Len(u) : cmd[i] = IF i <= Len(a) THEN a[i] ELSE u[i - Len(a)]
    <3>1. a \in Seq(AllPieces) /\ u \in Seq(AllPieces) /\ cmd = a \o u
      BY <1>2, <1>5, <1>6
    <3>. QED
      BY ONLY <3>1, ConcatProperties
  <2>2. /\ cmd \in Seq(AllPieces) /\ Len(cmd) = 2 + m
        /\ \A i \in 1 .. 2 + m : cmd[i] = IF i <= 2 THEN a[i] ELSE u[i - 2]
    BY <1>3, <1>5, <2>1
  <2>3. 2 \in 1 .. 2 + m /\ \A i \in 1 .. m : i + 2 \in 1 .. 2 + m /\ ~(i + 2 <= 2) /\ i + 2 - 2 = i
    OBVIOUS
  <2>. QED
    BY <1>5, <2>2, <2>3
<1>8. PICK check \in AllPieces : check = CalculateXOR(Tail(cmd))
  <2>1. cmd # <<>>
    <3>1. Len(<<>>) = 0
      OBVIOUS
    <3>. QED
      BY <1>7, <3>1
  <2>. QED
    BY <1>7, <2>1, CheckIsPiece
<1>9. PICK end \in AllPieces : end = LINE_END
  BY DEF LINE_END, Piece, AllPieces, Words
<1>10. t = cmd \o <<check, end>>
  BY <1>1, <1>4, <1>6, <1>8, <1>9 DEF AppendCheckXOR
<1>11. Len(t) = m + 4 /\ \A i \in 1 .. m + 2 : t[i] = cmd[i]
  <2>1. PICK b \in Seq(AllPieces) : b = <<check, end>> /\ Len(b) = 2
    <3>1. <<check, end>> \in Seq(AllPieces) /\ Len(<<check, end>>) = 2
      OBVIOUS
    <3>. QED
      BY ONLY <3>1
  <2>2. /\ Len(t) = Len(cmd) + Len(b)
        /\ \A i \in 1 .. Len(cmd) + Len(b) :
             t[i] = IF i <= Len(cmd) THEN cmd[i] ELSE b[i - Len(cmd)]
    <3>1. cmd \in Seq(AllPieces) /\ b \in Seq(AllPieces) /\ t = cmd \o b
      BY <1>7, <1>10, <2>1
    <3>. QED
      BY ONLY <3>1, ConcatProperties
  <2>3. /\ Len(t) = m + 2 + 2
        /\ \A i \in 1 .. m + 2 + 2 : t[i] = IF i <= m + 2 THEN cmd[i] ELSE b[i - (m + 2)]
    BY <1>7, <2>1, <2>2
  <2>4. m + 2 + 2 = m + 4 /\ \A i \in 1 .. m + 2 : i \in 1 .. m + 4 /\ i <= m + 2
    OBVIOUS
  <2>. QED
    BY <2>3, <2>4
<1>12. /\ Len(t) = Len(u) + 4 /\ t[2] = Piece(name)
       /\ \A i \in 1 .. Len(u) : t[i + 2] = u[i]
  <2>1. 2 \in 1 .. m + 2 /\ \A i \in 1 .. m : i + 2 \in 1 .. m + 2
    OBVIOUS
  <2>. QED
    BY <1>3, <1>7, <1>11, <2>1
<1>13. /\ Len(t) = Len(Param(port) \o rest) + 4 /\ t[2] = Piece(name)
       /\ \A i \in 1 .. Len(Param(port) \o rest) : t[i + 2] = (Param(port) \o rest)[i]
  BY <1>1, <1>12
<1>. QED
  BY ONLY <1>13, PositionsAre, Holds(rest, values), port \in Ports \cup {Unspecified},
          values # <<>> => values[1] \notin Ports

LEMMA NoneHeld == Holds(<<>>, <<>>) /\ \A n \in 1 .. 4 : At(<<>>, n) = Unspecified
<1>1. Len(<<>>) = 0 /\ <<>> \in Seq(AllPieces) /\ <<>> \in Seq(Words)
  BY EmptySeq
<1>. QED
  BY <1>1 DEF Holds, At

LEMMA LastOne ==
  ASSUME NEW v \in Words
  PROVE  \E w : /\ Holds(Param(v) \o <<>>, w) /\ (v = Unspecified => w = <<>>)
                /\ w # <<>> => w[1] = v
                /\ At(w, 1) = v /\ \A n \in 1 .. 4 : At(w, n + 1) = Unspecified
<1>1. PICK none : none = <<>>
  OBVIOUS
<1>2. Holds(none, none) /\ (v = Unspecified => none = <<>>)
      /\ \A n \in 1 .. 4 : At(none, n) = Unspecified
  BY <1>1, NoneHeld
<1>3. PICK w : /\ Holds(Param(v) \o none, w) /\ (v = Unspecified => w = <<>>)
               /\ w # <<>> => w[1] = v
               /\ At(w, 1) = v /\ \A n \in 1 .. 4 : At(w, n + 1) = At(none, n)
  BY ONLY <1>2, v \in Words, OneMore
<1>. QED
  BY <1>1, <1>2, <1>3

(* The command of a name is made of the values of its own. *)
LEMMA CommandsAre ==
  ASSUME NEW c \in Commands
  PROVE  /\ c.name = "OUTMSG" =>
              \E p \in OrElse(Ports), m \in OrElse(NMEANames \cup GmfNames \cup Groups),
                 x \in OrElse(Periods) : c = Outmsg(p, m, x)
         /\ c.name = "OFFMSG" =>
              \E p \in OrElse(Ports), m \in OrElse(NMEANames \cup GmfNames \cup Groups) :
                c = Offmsg(p, m)
         /\ c.name = "CONFIGCOM" =>
              \E p \in OrElse(Ports), b \in OrElse(Baudrates), x \in OrElse(Parities),
                 d \in OrElse(DataBits), s \in OrElse(StopBits) : c = ConfigCom(p, b, x, d, s)
         /\ c.name \in {"OUTMSG", "OFFMSG", "CONFIGCOM"}
<1>1. \A p, m, x, b, d, s : /\ Outmsg(p, m, x).name = "OUTMSG" /\ Offmsg(p, m).name = "OFFMSG"
                             /\ ConfigCom(p, b, x, d, s).name = "CONFIGCOM"
  BY DEF Outmsg, Offmsg, ConfigCom
<1>2. CASE \E p \in OrElse(Ports), m \in OrElse(NMEANames \cup GmfNames \cup Groups),
              x \in OrElse(Periods) : c = Outmsg(p, m, x)
  <2>1. c.name = "OUTMSG"
    BY ONLY <1>1, <1>2
  <2>. QED
    BY <1>2, <2>1
<1>3. CASE \E p \in OrElse(Ports), m \in OrElse(NMEANames \cup GmfNames \cup Groups) :
             c = Offmsg(p, m)
  <2>1. c.name = "OFFMSG"
    BY ONLY <1>1, <1>3
  <2>. QED
    BY <1>3, <2>1
<1>4. CASE \E p \in OrElse(Ports), b \in OrElse(Baudrates), x \in OrElse(Parities),
              d \in OrElse(DataBits), s \in OrElse(StopBits) : c = ConfigCom(p, b, x, d, s)
  <2>1. c.name = "CONFIGCOM"
    BY ONLY <1>1, <1>4
  <2>. QED
    BY <1>4, <2>1
<1>5. \/ \E p \in OrElse(Ports), m \in OrElse(NMEANames \cup GmfNames \cup Groups),
             x \in OrElse(Periods) : c = Outmsg(p, m, x)
      \/ \E p \in OrElse(Ports), m \in OrElse(NMEANames \cup GmfNames \cup Groups) :
             c = Offmsg(p, m)
      \/ \E p \in OrElse(Ports), b \in OrElse(Baudrates), x \in OrElse(Parities),
             d \in OrElse(DataBits), s \in OrElse(StopBits) : c = ConfigCom(p, b, x, d, s)
  BY DEF Commands
<1>. QED
  BY <1>2, <1>3, <1>4, <1>5

(* The line of each command is the line of its port and of its values.     *)
LEMMA OffmsgIsRead ==
  ASSUME NEW c \in Commands, c.name = "OFFMSG", Valid(c)
  PROVE  Reading(GetCmdString(c)) = AsSent(c)
<1>1. PICK p \in OrElse(Ports), m \in OrElse(NMEANames \cup GmfNames \cup Groups) : c = Offmsg(p, m)
  BY CommandsAre
<1>2. /\ c.port = p /\ c.msg_name = m
      /\ p \in Ports \cup {Unspecified} /\ m \in NMEANames \cup GmfNames \cup Groups \cup {Unspecified}
  BY <1>1 DEF Valid, OffmsgValid, IsValidMessageName, IsValidPort, Specified, Offmsg
<1>3. m \in Words /\ m \notin Ports
  BY <1>2 DEF Words, NMEANames, GmfNames, Groups, Ports, Unspecified
<1>4. PICK w : /\ Holds(Param(m) \o <<>>, w) /\ At(w, 1) = m /\ (w # <<>> => w[1] \notin Ports)
  BY <1>3, LastOne
<1>5. PICK t : t = GetCmdString(c)
  OBVIOUS
<1>6. /\ p \in Ports \cup {Unspecified} /\ "OFFMSG" \in Words
      /\ t = AppendCheckXOR(<<HEADER, Piece("OFFMSG")>> \o (Param(p) \o (Param(m) \o <<>>)))
  <2>1. Param(m) \o <<>> = Param(m)
    BY <1>3, ParamIsText, ConcatEmptySeq
  <2>. QED
    BY <1>2, <1>5, <2>1 DEF Words, GetCmdString, OffmsgText
<1>7. /\ Word(t[2]) = "OFFMSG" /\ PortOf(t) = p
      /\ \A n \in 1 .. 4 : Nth(t, n) = At(w, n)
  BY ONLY <1>4, <1>6, LineIsRead
<1>8. Reading(t) = Offmsg(p, m)
  BY <1>4, <1>7 DEF Reading
<1>. QED
  BY <1>1, <1>5, <1>8 DEF AsSent, Offmsg

LEMMA OutmsgIsRead ==
  ASSUME NEW c \in Commands, c.name = "OUTMSG", Valid(c)
  PROVE  Reading(GetCmdString(c)) = AsSent(c)
<1>1. PICK p \in OrElse(Ports), m \in OrElse(NMEANames \cup GmfNames \cup Groups),
           x \in OrElse(Periods) : c = Outmsg(p, m, x)
  BY CommandsAre
<1>2. /\ c.port = p /\ c.msg_name = m /\ c.period = x
      /\ p \in Ports \cup {Unspecified} /\ m \in NMEANames \cup GmfNames \cup Groups /\ x \in Periods
  BY <1>1 DEF Valid, OutmsgValid, IsValidMessageName, IsValidPeriod, IsValidPort, Specified, Outmsg
<1>3. p \in Words /\ m \in Words /\ x \in Words /\ m # Unspecified /\ m \notin Ports
  BY <1>2 DEF Words, NMEANames, GmfNames, Groups, Ports, Unspecified
<1>4. PICK u : Holds(Param(x) \o <<>>, u) /\ At(u, 1) = x
  BY <1>3, LastOne
<1>5. PICK w : /\ Holds(Param(m) \o (Param(x) \o <<>>), w) /\ (w # <<>> => w[1] \notin Ports)
               /\ At(w, 1) = m /\ At(w, 2) = x
  <2>1. PICK w : /\ Holds(Param(m) \o (Param(x) \o <<>>), w) /\ (w # <<>> => w[1] = m)
                 /\ At(w, 1) = m /\ \A n \in 1 .. 4 : At(w, n + 1) = At(u, n)
    BY <1>3, <1>4, OneMore
  <2>2. At(w, 1 + 1) = x
    BY <1>4, <2>1
  <2>. QED
    BY <1>3, <2>1, <2>2
<1>6. PICK t : t = GetCmdString(c)
  OBVIOUS
<1>7. /\ p \in Ports \cup {Unspecified} /\ "OUTMSG" \in Words
      /\ t = AppendCheckXOR(<<HEADER, Piece("OUTMSG")>> \o (Param(p) \o (Param(m) \o (Param(x) \o <<>>))))
  <2>1. Param(p) \o Param(m) \o Param(x) = Param(p) \o (Param(m) \o Param(x))
    BY <1>3, ParamIsText, Regroup
  <2>2. Param(x) \o <<>> = Param(x)
    BY <1>3, ParamIsText, ConcatEmptySeq
  <2>. QED
    BY <1>2, <1>6, <2>1, <2>2 DEF Words, GetCmdString, OutmsgText
<1>8. /\ Word(t[2]) = "OUTMSG" /\ PortOf(t) = p
      /\ \A n \in 1 .. 4 : Nth(t, n) = At(w, n)
  BY ONLY <1>5, <1>7, LineIsRead
<1>9. Reading(t) = Outmsg(p, m, x)
  BY <1>5, <1>8 DEF Reading
<1>. QED
  BY <1>1, <1>6, <1>9 DEF AsSent, Outmsg

LEMMA ConfigComIsRead ==
  ASSUME NEW c \in Commands, c.name = "CONFIGCOM", Valid(c)
  PROVE  Reading(GetCmdString(c)) = AsSent(c)
<1>1. PICK p \in OrElse(Ports), b \in OrElse(Baudrates), x \in OrElse(Parities),
           data \in OrElse(DataBits), stop \in OrElse(StopBits) : c = ConfigCom(p, b, x, data, stop)
  BY CommandsAre
<1>2. c.port = p /\ c.baudrate = b /\ c.parity = x /\ c.data_bits = data /\ c.stop_bits = stop
  BY <1>1 DEF ConfigCom
<1>3. PICK d : d = IF x = Unspecified THEN Unspecified ELSE data
  OBVIOUS
<1>4. PICK s : s = IF d = Unspecified THEN Unspecified ELSE stop
  OBVIOUS
<1>5. /\ p \in Ports \cup {Unspecified} /\ b \in Baudrates /\ x \in Parities \cup {Unspecified}
      /\ d \in DataBits \cup {Unspecified} /\ s \in StopBits \cup {Unspecified}
  <2>1. ConfigComValid(c)
    BY DEF Valid
  <2>. QED
    BY <1>2, <1>3, <1>4, <2>1
    DEF ConfigComValid, IsValidBaudrate, IsValidPort, IsValidComParity, IsValidDataBits,
        IsValidStopBits, Specified
<1>6. /\ p \in Words /\ b \in Words /\ x \in Words /\ d \in Words /\ s \in Words
      /\ b # Unspecified /\ b \notin Ports
  BY <1>5 DEF Words, Baudrates, Ports, Unspecified
<1>7. PICK ws : Holds(Param(s) \o <<>>, ws) /\ At(ws, 1) = s /\ (s = Unspecified => ws = <<>>)
  BY <1>6, LastOne
<1>8. PICK wd : /\ Holds(Param(d) \o (Param(s) \o <<>>), wd) /\ (d = Unspecified => wd = <<>>)
                /\ At(wd, 1) = d /\ \A n \in 1 .. 4 : At(wd, n + 1) = At(ws, n)
  <2>1. d = Unspecified => ws = <<>>
    BY <1>4, <1>7
  <2>. QED
    BY <1>6, <1>7, <2>1, OneMore
<1>9. PICK wx : /\ Holds(Param(x) \o (Param(d) \o (Param(s) \o <<>>)), wx)
                /\ At(wx, 1) = x /\ \A n \in 1 .. 4 : At(wx, n + 1) = At(wd, n)
  <2>1. x = Unspecified => wd = <<>>
    BY <1>3, <1>8
  <2>. QED
    BY <1>6, <1>8, <2>1, OneMore
<1>10. PICK w : /\ Holds(Param(b) \o (Param(x) \o (Param(d) \o (Param(s) \o <<>>))), w)
                /\ (w # <<>> => w[1] = b)
                /\ At(w, 1) = b /\ \A n \in 1 .. 4 : At(w, n + 1) = At(wx, n)
  BY <1>6, <1>9, OneMore
<1>11. At(w, 2) = x /\ At(w, 3) = d /\ At(w, 4) = s
  <2>1. At(w, 1 + 1) = x
    BY <1>9, <1>10
  <2>2. At(w, 2 + 1) = At(wx, 1 + 1) /\ At(wx, 1 + 1) = d
    BY <1>8, <1>9, <1>10
  <2>3. At(w, 3 + 1) = At(wx, 2 + 1) /\ At(wx, 2 + 1) = At(wd, 1 + 1) /\ At(wd, 1 + 1) = s
    BY <1>7, <1>8, <1>9, <1>10
  <2>. QED
    BY <2>1, <2>2, <2>3
<1>12. ConfigComText(c) = Param(p) \o (Param(b) \o (Param(x) \o (Param(d) \o (Param(s) \o <<>>))))
  <2>1. PICK tp \in Seq(AllPieces), tb \in Seq(AllPieces), tx \in Seq(AllPieces),
             td \in Seq(AllPieces), ts \in Seq(AllPieces) :
          /\ tp = Param(p) /\ tb = Param(b) /\ tx = Param(x) /\ td = Param(d) /\ ts = Param(s)
    BY <1>6, ParamIsText
  <2>2. ConfigComText(c) = tp \o tb \o (tx \o (td \o (ts \o <<>>)))
    <3>1. /\ ts \o <<>> = ts /\ <<>> \o <<>> = <<>> /\ tx \o <<>> = tx
      <4>1. <<>> \in Seq(AllPieces)
        BY EmptySeq
      <4>. QED
        BY <2>1, <4>1, ConcatEmptySeq
    <3>2. tx \o td \o ts = tx \o (td \o ts)
      BY ONLY tx \in Seq(AllPieces), td \in Seq(AllPieces), ts \in Seq(AllPieces), Regroup, SMTT(60)
    <3>3. CASE x = Unspecified
      <4>1. tx = <<>> /\ td = <<>> /\ ts = <<>>
        BY <1>3, <1>4, <2>1, <3>3 DEF Param
      <4>. QED
        BY <1>2, <2>1, <3>1, <3>3, <4>1 DEF ConfigComText
    <3>4. CASE x # Unspecified /\ d = Unspecified
      <4>1. td = <<>> /\ ts = <<>> /\ data = Unspecified
        BY <1>3, <1>4, <2>1, <3>4 DEF Param
      <4>. QED
        BY <1>2, <2>1, <3>1, <3>4, <4>1 DEF ConfigComText
    <3>5. CASE x # Unspecified /\ d # Unspecified
      <4>1. d = data /\ s = stop
        BY <1>3, <1>4, <3>5
      <4>. QED
        BY <1>2, <2>1, <3>1, <3>2, <3>5, <4>1 DEF ConfigComText
    <3>. QED
      BY <3>3, <3>4, <3>5
  <2>3. PICK u \in Seq(AllPieces) : u = tx \o (td \o (ts \o <<>>))
    BY <1>9, <2>1 DEF Holds
  <2>4. tp \o tb \o u = tp \o (tb \o u)
    BY ONLY tp \in Seq(AllPieces), tb \in Seq(AllPieces), u \in Seq(AllPieces), Regroup, SMTT(60)
  <2>. QED
    BY <2>1, <2>2, <2>3, <2>4
<1>13. PICK rest : rest = Param(b) \o (Param(x) \o (Param(d) \o (Param(s) \o <<>>)))
  OBVIOUS
<1>14. PICK t : t = GetCmdString(c)
  OBVIOUS
<1>15. /\ p \in Ports \cup {Unspecified} /\ "CONFIGCOM" \in Words /\ Holds(rest, w)
       /\ (w # <<>> => w[1] \notin Ports)
       /\ t = AppendCheckXOR(<<HEADER, Piece("CONFIGCOM")>> \o (Param(p) \o rest))
  <2>1. t = AppendCheckXOR(<<HEADER, Piece("CONFIGCOM")>> \o ConfigComText(c))
    BY <1>14 DEF GetCmdString
  <2>. QED
    BY <1>5, <1>6, <1>10, <1>12, <1>13, <2>1 DEF Words
<1>16. /\ Word(t[2]) = "CONFIGCOM" /\ PortOf(t) = p
       /\ \A n \in 1 .. 4 : Nth(t, n) = At(w, n)
  BY ONLY <1>15, LineIsRead
<1>17. Reading(t) = ConfigCom(p, b, x, d, s)
  BY <1>10, <1>11, <1>16 DEF Reading
<1>18. AsSent(c) = ConfigCom(p, b, x, d, s)
  <2>1. c.name # "CONFIGCOM" <=> FALSE
    OBVIOUS
  <2>. QED
    BY <1>2, <1>3, <1>4, <2>1 DEF AsSent, Specified
<1>. QED
  BY <1>14, <1>17, <1>18

(* Of every command that ends in Ok, whatever of its settings are given,   *)
(* the receiver reads the values back that the line carries.               *)
THEOREM LinesReadBack == Spec => []LineReadsBack
<1>1. Misread = {}
  <2>. SUFFICES ASSUME NEW c \in Commands, GetCmdString(c) # <<>>
                PROVE  Passes(GetCmdString(c)) /\ Reading(GetCmdString(c)) = AsSent(c)
    BY DEF Misread
  <2>1. Valid(c)
    BY DEF GetCmdString
  <2>2. c \in AllCommands
    BY CommandsAre DEF OrElse, Words, AllCommands, CommandsOf, Outmsg, Offmsg, ConfigCom
  <2>3. Passes(GetCmdString(c))
    BY <2>2, CommandIsLine DEF IsLine
  <2>4. Reading(GetCmdString(c)) = AsSent(c)
    BY <2>1, CommandsAre, OutmsgIsRead, OffmsgIsRead, ConfigComIsRead
  <2>. QED
    BY <2>3, <2>4
<1>2. LineReadsBack
  BY <1>1 DEF LineReadsBack
<1>. QED
  BY <1>2, PTL
=============================================================================
