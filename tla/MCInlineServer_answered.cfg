SPECIFICATION Spec
CONSTANTS
  c1 = c1
  c2 = c2
  Conns = {c1, c2}
  MaxSend <- ThreeAndOne
  PkgLen = 1
  ReplyLen = 3
  BufMax = 9
  Room = 1
  Outcomes <- OneIsAnswered
PROPERTIES
  PendingIsSent
  FinIsNoticed
CHECK_DEADLOCK FALSE
