SPECIFICATION FairSpec
CONSTANTS
  ReceiveSizes = {3, 5}
  SendSizes = {2, 3, 5, 10}
  IntMax = 3
  Messages = 3
  BufCap = 2
  MaxIters = 2
  Failed = Failed
  SenderModes = {TRUE, FALSE}
  ReceiverBlocks = TRUE
INVARIANTS
  TypeOK
  NothingLost
  SentIsPassed
PROPERTIES
  ImplementsStream
  SendEnds
