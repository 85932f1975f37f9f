---------------------------- MODULE CommandLine ----------------------------
(***************************************************************************)
(* The lines by which the driver commands the receiver:                    *)
(*    >OUTMSG[,port],message,period*check                                  *)
(*    >OFFMSG[,port][,message]*check                                       *)
(*    >CONFIGCOM[,port],baud[,parity[,data bits[,stop bits]]]*check        *)
(* A text is a sequence of pieces and a piece the set of the words in it,  *)
(* so that the XOR over bytes becomes the symmetric difference of sets: it *)
(* has the same blind spots (the order, and what occurs twice).            *)
(***************************************************************************)
EXTENDS Sequences, FiniteSets, Integers

(* What no parameter given means: OUTMSG_PORT_SELF, "", OUTMSG_PERIOD_MAX, *)
(* COM_PARITY_MAX, 0.                                                      *)
Unspecified == "unspecified"

Ports == {"COM1", "COM2", "COM3"}
NMEANames == {"GGA"}
GmfNames == {"BESTPB"}
Groups == {"DGRB"}
Periods ==
  {"ONSCHEDULE", "ONCHANGED", "ONNEW", "ONCE", "ONMARK", "0.05", "0.1", "0.2", "0.5",
   "1", "2", "5", "10", "15", "20", "30", "60", "120"}
Baudrates == {"9600", "19200", "115200", "460800", "921600", "1500000", "3000000"}
Parities == {"NONE", "ODD", "EVEN"}
DataBits == {"5", "6", "7", "8"}
StopBits == {"1", "2"}

(* Another value than the ones the code knows. *)
Unknown == "unknown"

Outmsg(port, msg_name, period) ==
  [name |-> "OUTMSG", port |-> port, msg_name |-> msg_name, period |-> period]
Offmsg(port, msg_name) ==
  [name |-> "OFFMSG", port |-> port, msg_name |-> msg_name]
ConfigCom(port, baudrate, parity, data_bits, stop_bits) ==
  [name |-> "CONFIGCOM", port |-> port, baudrate |-> baudrate, parity |-> parity,
   data_bits |-> data_bits, stop_bits |-> stop_bits]

-----------------------------------------------------------------------------
Piece(word) == {word}
HEADER == Piece(">")
LINE_END == Piece("CRLF")

Odd(text) ==
  LET words == UNION {text[i] : i \in 1 .. Len(text)}
  IN  {w \in words : Cardinality({i \in 1 .. Len(text) : w \in text[i]}) % 2 = 1}

(* The check of a text between '>' and '*'. *)
CalculateXOR(text) == {"*"} \cup Odd(text)

(* Slip: the XOR starts at the '>'. *)
AppendCheckOfAll(cmd) == cmd \o <<CalculateXOR(cmd), LINE_END>>

AppendCheckXOR(cmd) == cmd \o <<CalculateXOR(Tail(cmd)), LINE_END>>

(* A parameter is left out when it is unspecified. *)
Param(value) == IF value = Unspecified THEN <<>> ELSE <<Piece(value)>>

Specified(value) == value # Unspecified

(* A message group can be asked for as a message can. *)
IsValidMessageName(name) == name \in NMEANames \cup GmfNames \cup Groups

IsValidPort(port) == Specified(port) => port \in Ports
IsValidPeriod(period) == period \in Periods
IsValidBaudrate(baudrate) == baudrate \in Baudrates
IsValidComParity(parity) == parity \in Parities
IsValidDataBits(data_bits) == data_bits \in DataBits
IsValidStopBits(stop_bits) == stop_bits \in StopBits

OutmsgValid(c) ==
  IsValidMessageName(c.msg_name) /\ IsValidPeriod(c.period) /\ IsValidPort(c.port)

OutmsgText(c) == Param(c.port) \o Param(c.msg_name) \o Param(c.period)

OffmsgValid(c) ==
  /\ IsValidPort(c.port)
  /\ Specified(c.msg_name) => IsValidMessageName(c.msg_name)

OffmsgText(c) == Param(c.port) \o Param(c.msg_name)

(* A setting behind one that is unspecified is neither checked nor sent. *)
ConfigComValid(c) ==
  /\ IsValidBaudrate(c.baudrate) /\ IsValidPort(c.port)
  /\ Specified(c.parity) =>
       /\ IsValidComParity(c.parity)
       /\ Specified(c.data_bits) =>
            /\ IsValidDataBits(c.data_bits)
            /\ Specified(c.stop_bits) => IsValidStopBits(c.stop_bits)

(* Slip: each setting is sent when it is specified. *)
EachSetting(c) ==
  Param(c.port) \o Param(c.baudrate) \o Param(c.parity) \o Param(c.data_bits) \o Param(c.stop_bits)

ConfigComText(c) ==
  Param(c.port) \o Param(c.baudrate) \o
  (IF c.parity = Unspecified THEN <<>>
   ELSE IF c.data_bits = Unspecified THEN Param(c.parity)
   ELSE Param(c.parity) \o Param(c.data_bits) \o Param(c.stop_bits))

Valid(c) ==
  CASE c.name = "OUTMSG" -> OutmsgValid(c)
    [] c.name = "OFFMSG" -> OffmsgValid(c)
    [] c.name = "CONFIGCOM" -> ConfigComValid(c)

(* The line of a command, <<>> for Err. *)
GetCmdString(c) ==
  IF ~Valid(c) THEN <<>>
  ELSE AppendCheckXOR(<<HEADER, Piece(c.name)>> \o
         CASE c.name = "OUTMSG" -> OutmsgText(c)
           [] c.name = "OFFMSG" -> OffmsgText(c)
           [] c.name = "CONFIGCOM" -> ConfigComText(c))

-----------------------------------------------------------------------------
(* How the receiver reads a line: from '>' to '*' under the check, as the  *)
(* driver reads the receiver's own lines, and then by position.            *)

Passes(line) ==
  /\ Len(line) >= 4 /\ line[1] = HEADER /\ line[Len(line)] = LINE_END
  /\ line[Len(line) - 1] = CalculateXOR(SubSeq(line, 2, Len(line) - 2))

Word(piece) == CHOOSE w \in piece : TRUE

(* The parameters of a line behind the port. *)
PortOf(line) ==
  IF Len(line) > 4 /\ Word(line[3]) \in Ports THEN Word(line[3]) ELSE Unspecified

Nth(line, n) ==
  LET at == n + (IF Specified(PortOf(line)) THEN 3 ELSE 2)
  IN  IF at <= Len(line) - 2 THEN Word(line[at]) ELSE Unspecified

Reading(line) ==
  CASE Word(line[2]) = "OUTMSG" -> Outmsg(PortOf(line), Nth(line, 1), Nth(line, 2))
    [] Word(line[2]) = "OFFMSG" -> Offmsg(PortOf(line), Nth(line, 1))
    [] Word(line[2]) = "CONFIGCOM" ->
         ConfigCom(PortOf(line), Nth(line, 1), Nth(line, 2), Nth(line, 3), Nth(line, 4))
=============================================================================
