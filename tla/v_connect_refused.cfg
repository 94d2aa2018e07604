SPECIFICATION Spec
CONSTANTS
  a = a
  b = b
  NoSock = NoSock
  Objects <- OneObject
  Fds <- TwoFds
  Api <- ConnectOnly
PROPERTIES
  ConnectReports
