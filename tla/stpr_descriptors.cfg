SPECIFICATION DSpec
CONSTANTS
  a = a
  b = b
  NoSock = NoSock
  Objects <- TwoObjects
  Fds <- FourFds
  Api = {}
CONSTRAINT FewStruck
SYMMETRY ObjectSymmetry
INVARIANTS
  DTypeOK
  OnePairHolder
  InterruptReachesPol
