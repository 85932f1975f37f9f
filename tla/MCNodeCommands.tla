--------------------------- MODULE MCNodeCommands ---------------------------
(* GGA and BESTP, two periods the receiver accepts. *)
EXTENDS NodeCommands

MCTopics == {"gga", "bestp"}
MCPeriods == {"0.1", "5"}
=============================================================================
