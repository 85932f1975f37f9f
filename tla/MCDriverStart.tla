--------------------------- MODULE MCDriverStart ---------------------------
(* Two nodes; rates of which the host knows one that ConfigCom does not.   *)
EXTENDS DriverStart

MCRates == <<115200, 230400, 460800, 9600>>
MCHostRates == {115200, 230400, 460800, 9600, 1500000}
MCComRates == {115200, 460800, 9600}
=============================================================================
