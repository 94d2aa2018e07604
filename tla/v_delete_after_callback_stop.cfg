SPECIFICATION Spec
CONSTANTS
  o = o
  s = s
  w1 = w1
  NoTid = NoTid
  NoWord = NoWord
  Callers <- OneCaller
  Workers <- OneWorker
  Threads <- Threads_1_1
  Api <- OwnerCreatesStartsDeletes
  CallbackApi <- CallbackStops
  MaxClients = 1
  PolCap = 1
  SplitFlagStores = FALSE
  SendMayBlock = FALSE
  SemaMayFail = FALSE
INVARIANTS
  NoUseAfterFree
