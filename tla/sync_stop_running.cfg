SPECIFICATION FairSpec
CONSTANTS
  r = r
  s = s
  NoTid = NoTid
  NoWord = NoWord
  Threads <- TwoThreads
  Api <- RunnerAndStopper
  CallbackApi <- CallbackStopsAndDestroys
  Discipline <- Disciplines
  MaxClients = 1
  PolCap = 2
  SplitFlagStores = FALSE
  SendMayBlock = FALSE
PROPERTIES
  StopReturnsStopped
  StopReturns
  StartReturns
  ImplementsContract
