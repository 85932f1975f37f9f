CONSTANTS
  Executor = Executor
  Shutdown = Shutdown
  Callers = {Executor, Shutdown}
  NoCaller = NoCaller
  Supported = {"GGA", "BESTPB", "RESPONSE"}
  Requests <- MCRequests
  MaxCalls <- MCMaxCalls
SPECIFICATION FairSpec
INVARIANTS TypeOK LineReadsBack OkIsExecuted
PROPERTIES Channel CallsReturn
CHECK_DEADLOCK FALSE
