SPECIFICATION ServingSpec
CONSTANTS
  r = r
  s = s
  NoTid = NoTid
  NoWord = NoWord
  Threads <- TwoThreads
  Api <- NoCalls
  CallbackApi = {}
  Discipline = {}
  MaxClients = 2
  PolCap = 2
  SplitFlagStores = FALSE
  SendMayBlock = FALSE
  Getters <- GetterOnly
  CallbackGets = FALSE
  Count = 1
  Ports <- OnePort
  ConnectFaults = {}
  Care <- Cares
PROPERTIES
  GetEnds
