SPECIFICATION Spec
CONSTANTS
  c1 = c1
  c2 = c2
  Conns = {c1, c2}
  MaxSend <- FourAndThree
  PkgLen = 2
  ReplyLen = 2
  BufMax = 5
  Room = 1
  Outcomes <- OneIsHealthy
INVARIANTS
  TypeOK
  NoStaleEvent
  RepliesInOrder
  PendingIsArmed
PROPERTIES
  HealthyStaysOpen
CHECK_DEADLOCK FALSE
