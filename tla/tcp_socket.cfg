SPECIFICATION Spec
CONSTANTS
  a = a
  b = b
  NoSock = NoSock
  Objects <- TwoObjects
  Fds <- ThreeFds
  Api <- AllCalls
SYMMETRY ObjectSymmetry
INVARIANTS
  TypeOK
  OneHolder
  FlagIsMode
