SPECIFICATION FairSpec
CONSTANTS
  ApiLocked = FALSE
  Responds = TRUE
  None = None
INVARIANTS
  TypeOK
  MutexCountsSections
  SoftLockNeverRefuses
  FramesNotMixed
PROPERTIES
  CallsReturn
