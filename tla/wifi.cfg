SPECIFICATION FairSpec
CONSTANTS
  MaxRetry = 10
INVARIANTS
  TypeOK
  OneRequestAtATime
  IdleMeansGivenUp
  WaitsForDriverOnly
PROPERTIES
  GivesUpAfterAllRetries
  OutageEnds
CHECK_DEADLOCK FALSE
