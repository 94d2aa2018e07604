SPECIFICATION FairSpec
CONSTANTS
  o = o
  s = s
  w1 = w1
  NoTid = NoTid
  NoWord = NoWord
  Callers <- OneCaller
  Workers <- OneWorker
  Threads <- Threads_1_1
  Api <- OwnerOnly
  CallbackApi = {}
  MaxClients = 2
  PolCap = 2
  SplitFlagStores = FALSE
  SendMayBlock = FALSE
  SemaMayFail = FALSE
INVARIANTS
  TypeOK
  NoThreadFault
  SocketsOpenInAccept
  NoUseAfterFree
  SingleOwnerInv
PROPERTIES
  StopReturnsStopped
  ImplementsContract
  ImplementsFairContract
  StopReturns
  ClientsServed
