--------------------------- MODULE MCCommandWire ---------------------------
(* The node's start, its shutdown, a correction, and what is refused. *)
EXTENDS CommandWire, TLC

CONSTANTS Executor, Shutdown

MCMaxCalls == Executor :> 2 @@ Shutdown :> 1

MCRequests ==
  {[op |-> "RequestMessage", msg |-> "GGA", period |-> "1"],
   [op |-> "RequestSlaveAntMessage", msg |-> "GGA", period |-> "1"],
   [op |-> "CancelMessage", msg |-> "BESTPB"],
   [op |-> "CancelSlaveAntMessage", msg |-> "BESTPB"],
   [op |-> "ExecuteCommand", cmd |-> Offmsg(Unspecified, Unspecified)],
   [op |-> "SendMessage"]}
=============================================================================
