SPECIFICATION Spec
CONSTANTS
  o = o
  s = s
  w1 = w1
  NoTid = NoTid
  NoWord = NoWord
  Callers <- OneCaller
  Workers <- OneWorker
  Threads <- Threads_1_1
  Api <- OwnerOnly
  CallbackApi = {}
  MaxClients = 1
  PolCap = 1
  SplitFlagStores = TRUE
  SendMayBlock = FALSE
  SemaMayFail = TRUE
INVARIANTS
  SocketsOpenInAccept
  NoUseAfterFree
PROPERTIES
  StopReturnsStopped
