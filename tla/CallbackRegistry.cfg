CONSTANTS
  Node = Node
  NoClient = NoClient
  Plugin = Plugin
  Clients = {Node, Plugin}
  Names = {"response", "tap"}
  Classes = {"RESPONSE"}
  Ids = {1, 2}
  Asked <- MCAsked
  Given <- MCGiven
  MaxFrames = 1
SPECIFICATION FairSpec
INVARIANTS OkMeansRegistered EveryCallbackRuns BpBeforeAp
PROPERTY RoundEnds
CHECK_DEADLOCK FALSE
