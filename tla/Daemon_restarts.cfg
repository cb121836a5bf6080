SPECIFICATION Spec
CONSTANTS
  NumProc = 3
  Modes = {"console", "debug", "daemon"}
INVARIANTS OneServer MasterEncloses
PROPERTIES Restarted ToldEnd
CHECK_DEADLOCK FALSE
