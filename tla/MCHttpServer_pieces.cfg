SPECIFICATION HttpSpec
CONSTANTS
  HeaderWrap = 26
  BodyWrap = 50
  ParamMax = 3
  Reserve = 4
  Align = 2
  Bodies = {0, 3}
  Texts = {2, 5}
  MaxCalls = 2
  Arrivals = {1, 2, 9}
  Streams <- MCStreams
INVARIANTS
  AsMeant
  ReplyFits
  TakenUnlessTogether
CHECK_DEADLOCK FALSE
