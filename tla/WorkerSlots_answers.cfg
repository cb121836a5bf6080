SPECIFICATION Spec
CONSTANTS
  TcpIn = 2
  UdpIn = 1
  Fds = {6, 9}
  PkgLen = 2
  MaxUnits = 5
  MaxReq = 3
INVARIANTS
  EchoedToItsClient
CHECK_DEADLOCK FALSE
