SPECIFICATION Spec
CONSTANTS
  Configs <- MCConfigs
  Num <- MCNum
  Faults <- Fault
INVARIANTS TypeOK ObjectOutlivesThreads ReadyBeforeListening CallbacksNest UsesAreSafe NothingLeft
PROPERTIES StartAndStopEnd
