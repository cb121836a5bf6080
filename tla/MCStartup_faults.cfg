SPECIFICATION Spec
CONSTANTS
  MaxSections = 2
  MaxItems = 3
  PortMax = 3
  PathMax = 260
  Envs <- AllEnvs
INVARIANTS TypeOK AsWritten NothingLeft CodeIsLoaded CrashesOnlyAlone
CHECK_DEADLOCK FALSE
