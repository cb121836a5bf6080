SPECIFICATION Spec
CONSTANTS
  MaxPush = 5
  MayReload = FALSE
INVARIANTS
  TypeOK
  MemorySafe
PROPERTIES
  StreamSpec
  PublishedIsTaken
CHECK_DEADLOCK FALSE
