SPECIFICATION Spec
CONSTANTS
  MaxRsp = 5
  Size = 2
  Room = 2
  MayReload = FALSE
INVARIANTS
  TypeOK
  MemorySafe
  WholeAndInOrder
PROPERTIES
  StreamSpec
  SentUnlessForgotten
CHECK_DEADLOCK FALSE
