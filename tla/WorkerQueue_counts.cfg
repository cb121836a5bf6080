SPECIFICATION Spec
CONSTANTS
  MaxPush = 3
  MayReload = FALSE
INVARIANT ProcessedWasPushed
CHECK_DEADLOCK FALSE
