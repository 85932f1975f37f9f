---------------------------- MODULE MCSerialPort ----------------------------
(* The three threads of a serial port on small buffers; the .cfg files     *)
(* SerialPort*.cfg say which.                                              *)
EXTENDS SerialPort
=============================================================================
