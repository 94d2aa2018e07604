SPECIFICATION SdSpec
CONSTANTS
  r = r
  s = s
  NoTid = NoTid
  NoWord = NoWord
  Threads <- TwoThreads
  Api <- RunnerAndGetter
  CallbackApi <- CallbackStopsAndDestroys
  Discipline = {}
  MaxClients = 2
  PolCap = 2
  SplitFlagStores = FALSE
  SendMayBlock = FALSE
  Getters <- TwoThreads
  CallbackGets = TRUE
  Count = 2
  Ports <- TwoPorts
  ConnectFaults = {}
  Care <- Cares
INVARIANTS
  SdTypeOK
  PairsConnected
  NotBlockedOnDestroyed
  WrapperGone
  PolledStayOpen
PROPERTIES
  OwnStayInside
  GetEndsOrStrays
  StopIsNotUndone
