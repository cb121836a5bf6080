SPECIFICATION Spec
CONSTANTS
  TcpIn = 2
  UdpIn = 1
  Fds = {2, 8, 7}
  PkgLen = 2
  MaxUnits = 7
  MaxReq = 3
INVARIANTS
  OneUser
  OwnAnswers
  NoneLost
CHECK_DEADLOCK FALSE
