SPECIFICATION FairSpec
CONSTANTS
  w = w
  v = v
  i = i
  Waiters <- TwoWaiters
  Interrupters <- OneInterrupter
  Kinds <- CallKinds
  PolCap = 3
  MayTimeOut = TRUE
INVARIANTS
  StopReported
PROPERTIES
  InterruptWakes
