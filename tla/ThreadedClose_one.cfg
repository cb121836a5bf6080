SPECIFICATION Spec
CONSTANTS
  MaxReq = 2
  SplitFlags = TRUE
INVARIANTS
  DeletedLastUnlessOvertaken
PROPERTIES
  GivenUpIsDeleted
CHECK_DEADLOCK FALSE
