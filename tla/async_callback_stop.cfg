SPECIFICATION StartedSpec
CONSTANTS
  o = o
  s = s
  w1 = w1
  NoTid = NoTid
  NoWord = NoWord
  Callers <- TwoCallers
  Workers <- OneWorker
  Threads <- Threads_2_1
  Api <- OwnerDestroys
  CallbackApi <- CallbackStopsAndDestroys
  MaxClients = 2
  PolCap = 2
  SplitFlagStores = FALSE
  SendMayBlock = FALSE
  SemaMayFail = FALSE
INVARIANTS
  SocketsOpenInAccept
PROPERTIES
  CallbackStopEnds
