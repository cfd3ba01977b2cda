SPECIFICATION FairSpec
CONSTANTS
  ApiLocked = TRUE
  Responds = FALSE
  None = None
PROPERTIES
  CallsReturn
CHECK_DEADLOCK FALSE
