---------------------------- MODULE CommandWire ----------------------------
(***************************************************************************)
(* Commands and corrections on their way to the receiver.  Any thread may  *)
(* call the driver: it composes the line on its own and writes it under    *)
(* write_mutex, by one write() that may take only a part.  The executor of *)
(* the node sends requests and RTCM corrections, the shutdown OFFMSG.      *)
(* CommandChannel is what the callers rely on.                             *)
(***************************************************************************)
EXTENDS CommandLine

CONSTANTS
  Callers, NoCaller,
  Supported,   (* the messages registered with the driver                  *)
  Requests,    (* what may be asked for                                    *)
  MaxCalls     (* of each caller                                           *)

CommandsOf(words) ==
  [name : {"OUTMSG"}, port : words, msg_name : words, period : words] \cup
  [name : {"OFFMSG"}, port : words, msg_name : words] \cup
  [name : {"CONFIGCOM"}, port : words, baudrate : words, parity : words,
   data_bits : words, stop_bits : words]

AllRequests ==
  [op : {"RequestMessage", "RequestSlaveAntMessage"}, msg : STRING, period : STRING] \cup
  [op : {"CancelMessage", "CancelSlaveAntMessage"}, msg : STRING] \cup
  [op : {"ExecuteCommand"}, cmd : CommandsOf(STRING)] \cup
  [op : {"SendMessage"}]

ASSUME WireAssumption ==
  /\ NoCaller \notin Callers /\ MaxCalls \in [Callers -> Nat]
  /\ Requests \subseteq AllRequests

VARIABLES
  calls,     (* of each caller: the calls it may still make                *)
  pc, text,  (* where it is, and what it sends                             *)
  taken,     (* the pieces of it that write() took                         *)
  holder,    (* of write_mutex                                             *)
  line,      (* everything that was put out                                *)
  read,      (* the pieces of it the receiver has read                     *)
  before,    (* history: line when the holder got the mutex                *)
  sent,      (* history: the calls that wrote, with their results          *)
  executed   (* history: the lines the receiver obeyed                     *)

caller == <<calls, pc, text, taken, holder, before, sent>>
receiver == <<read, executed>>
vars == <<caller, line, receiver>>

-----------------------------------------------------------------------------
(* The text of a request, <<>> when it ends with Err before it is sent. *)

GetRequestMessageCmd(msg, period) == GetCmdString(Outmsg(Unspecified, msg, period))

GetCancelMessageCmd(msg) == GetCmdString(Offmsg(Unspecified, msg))

(* The names with "_1".  None of them is a valid one, so that both of the  *)
(* next end with Err, as they do for the messages that have no such name.  *)
SlaveAnt == [GGA |-> "GGA_1", BESTPB |-> "BESTPB_1"]

GetRequestSlaveAntMessageCmd(msg, period) ==
  IF msg \in DOMAIN SlaveAnt THEN GetCmdString(Outmsg(Unspecified, SlaveAnt[msg], period)) ELSE <<>>

GetCancelSlaveAntMessageCmd(msg) ==
  IF msg \in DOMAIN SlaveAnt THEN GetCmdString(Offmsg(Unspecified, SlaveAnt[msg])) ELSE <<>>

IfSupported(msg, cmd) == IF msg \in Supported THEN cmd ELSE <<>>

RequestMessage(msg, period) == IfSupported(msg, GetRequestMessageCmd(msg, period))
CancelMessage(msg) == IfSupported(msg, GetCancelMessageCmd(msg))
RequestSlaveAntMessage(msg, period) == IfSupported(msg, GetRequestSlaveAntMessageCmd(msg, period))
CancelSlaveAntMessage(msg) == IfSupported(msg, GetCancelSlaveAntMessageCmd(msg))
ExecuteCommand(cmd) == GetCmdString(cmd)

(* A correction: a preamble with the length, and the rest. *)
Rtcm == <<Piece("D3"), Piece("RTCM")>>

TextOf(q) ==
  CASE q.op = "RequestMessage" -> RequestMessage(q.msg, q.period)
    [] q.op = "CancelMessage" -> CancelMessage(q.msg)
    [] q.op = "RequestSlaveAntMessage" -> RequestSlaveAntMessage(q.msg, q.period)
    [] q.op = "CancelSlaveAntMessage" -> CancelSlaveAntMessage(q.msg)
    [] q.op = "ExecuteCommand" -> ExecuteCommand(q.cmd)
    [] q.op = "SendMessage" -> Rtcm

-----------------------------------------------------------------------------
Init ==
  /\ calls = MaxCalls
  /\ pc = [c \in Callers |-> "idle"]
  /\ text = [c \in Callers |-> <<>>]
  /\ taken = [c \in Callers |-> 0]
  /\ holder = NoCaller
  /\ line = <<>> /\ read = 0
  /\ before = <<>> /\ sent = <<>> /\ executed = <<>>

(* The line is composed by the caller, without the mutex. *)
Call(c, q) ==
  /\ pc[c] = "idle" /\ calls[c] > 0
  /\ calls' = [calls EXCEPT ![c] = @ - 1]
  /\ text' = [text EXCEPT ![c] = TextOf(q)]
  /\ pc' = [pc EXCEPT ![c] = IF TextOf(q) = <<>> THEN "idle" ELSE "waiting"]
  /\ UNCHANGED <<taken, holder, before, sent, line, receiver>>

(* Slip: SendMessage without the mutex. *)
LockAlways(c) ==
  /\ pc[c] = "waiting"
  /\ holder' = c /\ before' = line
  /\ pc' = [pc EXCEPT ![c] = "writing"]
  /\ UNCHANGED <<calls, text, taken, sent, line, receiver>>

Lock(c) ==
  /\ pc[c] = "waiting" /\ holder = NoCaller
  /\ holder' = c /\ before' = line
  /\ pc' = [pc EXCEPT ![c] = "writing"]
  /\ UNCHANGED <<calls, text, taken, sent, line, receiver>>

(* write() takes what the output queue of the device has room for. *)
Take(c) ==
  /\ pc[c] = "writing" /\ taken[c] < Len(text[c])
  /\ line' = Append(line, text[c][taken[c] + 1])
  /\ taken' = [taken EXCEPT ![c] = @ + 1]
  /\ UNCHANGED <<calls, pc, text, holder, before, sent, receiver>>

(* Slip: an early return keeps the mutex. *)
ReturnUnlessErr(c, ok) ==
  /\ holder' = IF ok THEN NoCaller ELSE holder
  /\ pc' = [pc EXCEPT ![c] = "idle"]
  /\ text' = [text EXCEPT ![c] = <<>>]
  /\ taken' = [taken EXCEPT ![c] = 0]
  /\ sent' = Append(sent, [text |-> text[c], ok |-> ok])
  /\ UNCHANGED <<calls, before, receiver>>

Return(c, ok) ==
  /\ holder' = NoCaller
  /\ pc' = [pc EXCEPT ![c] = "idle"]
  /\ text' = [text EXCEPT ![c] = <<>>]
  /\ taken' = [taken EXCEPT ![c] = 0]
  /\ sent' = Append(sent, [text |-> text[c], ok |-> ok])
  /\ UNCHANGED <<calls, before, receiver>>

Written(c) ==
  /\ pc[c] = "writing" /\ taken[c] = Len(text[c])
  /\ Return(c, TRUE)
  /\ UNCHANGED line

(* A part of a piece. *)
Torn == Piece("~")

(* write() fails, or is interrupted and returns less than the length. *)
CutOff(c) ==
  /\ pc[c] = "writing" /\ taken[c] < Len(text[c])
  /\ \E tail \in {<<>>, <<Torn>>} : line' = line \o tail
  /\ Return(c, FALSE)

Write(c) == Take(c) \/ Written(c) \/ CutOff(c)

-----------------------------------------------------------------------------
(* The receiver, external: it reads up to the end of a line.  Corrections  *)
(* it takes out, and it starts a line over at a '>'.  Behind rubbish it    *)
(* may find the line or not.                                               *)

EndOfLine(e) ==
  /\ e \in read + 1 .. Len(line) /\ line[e] = LINE_END
  /\ \A i \in read + 1 .. e - 1 : line[i] # LINE_END

Clean(start) ==
  /\ (start - read) % 2 = 1
  /\ \A i \in read + 1 .. start - 1 : line[i] = Rtcm[IF (i - read) % 2 = 1 THEN 1 ELSE 2]

Receive ==
  \E e \in read + 1 .. Len(line) :
    /\ EndOfLine(e)
    /\ read' = e
    /\ \E start \in read + 1 .. e :
         /\ line[start] = HEADER /\ \A i \in start + 1 .. e : line[i] # HEADER
         /\ LET last == SubSeq(line, start, e)
            IN  executed' \in (IF Passes(last) THEN {Append(executed, last)} ELSE {executed})
                              \cup (IF Clean(start) THEN {} ELSE {executed})
    /\ UNCHANGED <<caller, line>>

Next ==
  \/ \E c \in Callers, q \in Requests : Call(c, q)
  \/ \E c \in Callers : Lock(c) \/ Write(c)
  \/ Receive

Spec == Init /\ [][Next]_vars

(* The device sends what it has, so that write() goes on; a thread that    *)
(* waits for the mutex gets it when it is released again and again.        *)
FairSpec == Spec /\ WF_vars(Receive) /\ \A c \in Callers : WF_vars(Write(c)) /\ SF_vars(Lock(c))

-----------------------------------------------------------------------------
Texts == {TextOf(q) : q \in Requests} \cup {<<>>}

(* The mutex is held by exactly the one that writes, and behind what was   *)
(* there when it got it, there is what write() took of its text.           *)
TypeOK ==
  /\ calls \in [Callers -> Nat]
  /\ pc \in [Callers -> {"idle", "waiting", "writing"}]
  /\ text \in [Callers -> Texts]
  /\ \A c \in Callers : text[c] = <<>> <=> pc[c] = "idle"
  /\ taken \in [Callers -> Nat] /\ \A c \in Callers : taken[c] <= Len(text[c])
  /\ \A c \in Callers : IF holder = c THEN pc[c] = "writing" ELSE pc[c] # "writing" /\ taken[c] = 0
  /\ holder \in Callers \cup {NoCaller}
  /\ line = IF holder = NoCaller THEN line ELSE before \o SubSeq(text[holder], 1, taken[holder])
  /\ read \in 0 .. Len(line)

(* Whatever the callers do at once, and wherever write() stops, texts go   *)
(* out one after the other: Ok means whole, and Err a beginning of it.     *)
Abstract == INSTANCE CommandChannel
  WITH asked <- text, line <- IF holder = NoCaller THEN line ELSE before
Channel == Abstract!Spec

(* What the settings are when those behind an unspecified one are unspecified. *)
AsSent(c) ==
  IF c.name # "CONFIGCOM" THEN c
  ELSE LET data == IF Specified(c.parity) THEN c.data_bits ELSE Unspecified
       IN  ConfigCom(c.port, c.baudrate, c.parity, data,
                     IF Specified(data) THEN c.stop_bits ELSE Unspecified)

OrElse(values) == values \cup {Unspecified, Unknown}

Commands ==
  {Outmsg(p, m, t) : p \in OrElse(Ports), m \in OrElse(NMEANames \cup GmfNames \cup Groups), t \in OrElse(Periods)} \cup
  {Offmsg(p, m) : p \in OrElse(Ports), m \in OrElse(NMEANames \cup GmfNames \cup Groups)} \cup
  {ConfigCom(p, b, x, d, s) : p \in OrElse(Ports), b \in OrElse(Baudrates), x \in OrElse(Parities),
                              d \in OrElse(DataBits), s \in OrElse(StopBits)}

Misread ==
  {c \in Commands :
     LET cmd == GetCmdString(c) IN cmd # <<>> /\ ~(Passes(cmd) /\ Reading(cmd) = AsSent(c))}

(* The receiver reads of each line what was asked for: the check covers    *)
(* the text the reader takes it over, and no parameter that is left out    *)
(* lets another one take its place.  (Nothing in it changes: it is looked  *)
(* at before the first call.)                                              *)
LineReadsBack == calls = MaxCalls => Misread = {}

(* The n-th call put a command behind a text that was cut off. *)
BehindRubbish(n) ==
  \E m \in 1 .. n - 1 : ~sent[m].ok /\ \A i \in m + 1 .. n - 1 : sent[i].text = Rtcm

OkCommands == {n \in DOMAIN sent : sent[n].ok /\ sent[n].text # Rtcm}

(* There is a line that the receiver has not read. *)
LineUnread ==
  \E e \in read + 1 .. Len(line) : EndOfLine(e) /\ \E start \in read + 1 .. e : line[start] = HEADER

(* The receiver obeys the commands that returned Ok, once and in order,    *)
(* and no other; of them it may miss only one that came behind a text that *)
(* was cut off.                                                            *)
OkIsExecuted ==
  holder = NoCaller /\ ~LineUnread =>
    \E call \in [DOMAIN executed -> OkCommands] :
      /\ \A i, j \in DOMAIN executed : i < j => call[i] < call[j]
      /\ \A i \in DOMAIN executed : executed[i] = sent[call[i]].text
      /\ \A n \in OkCommands : BehindRubbish(n) \/ \E i \in DOMAIN executed : call[i] = n

(* Every call returns, however many wait for the mutex. *)
CallsReturn == \A c \in Callers : (pc[c] # "idle") ~> (pc[c] = "idle")
=============================================================================
