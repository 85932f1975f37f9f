--------------------------- MODULE MCFrameParser ----------------------------
(* Streams of two pieces, each an intact frame, a frame that fails its     *)
(* check, a frame nobody supports, a false header or noise, and streams of *)
(* two intact frames, a line and a binary one, with one of the others      *)
(* between them.                                                           *)
EXTENDS FrameParser

Gmf == <<"A", "1", "0", "1">>
GmfHoldingHeader == <<"A", "1", "1", "$", "1">>
GmfWrongLength == <<"A", "1", "1">>
GmfUnsupported == <<"A", "0">>
Gga == <<"$", "1", "0", "1", "r", "n">>
GgaFailed == <<"$", "1", "0", "0", "r", "n">>
NmeaUnsupported == <<"$", "0", "r", "n">>
FalseNmea == <<"$", "1">>
Response == <<">", "1", "1", "1", "1", "0", "r", "n">>
OutConfig == <<"<", "1", "1", "r", "n">>
PortLine == <<"[", "1", "r", "n">>

Intacts == {Gmf, GmfHoldingHeader, Gga, Response, OutConfig, PortLine}
Others == {GmfWrongLength, GmfUnsupported, GgaFailed, NmeaUnsupported, FalseNmea, <<"0">>, <<"r">>}
Pieces == Intacts \cup Others

MCStreams ==
  {a \o b : a, b \in Pieces}
  \cup {a \o b \o c : a \in {Gga, GmfHoldingHeader}, b \in Others, c \in {Gmf, Response}}
=============================================================================
