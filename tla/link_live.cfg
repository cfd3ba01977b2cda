SPECIFICATION FairSpec
CONSTANTS
  c1 = c1
  c2 = c2
  h1 = h1
  h2 = h2
  None = None
  CmdQueries = {c1}
  HbQueries = {h1}
  Queries = {c1, h1}
  MaxIdLst = 2
  IdSpan = 2
  CmdTimeout = 1
  HbTimeout = 1
  HbInterval = 2
  RxBurst = 1
  LineCap = 1
  EventIds = {0}
  Stall = FALSE
INVARIANTS
  OnlyOwnAnswerMatches
  AtMostOneHeartbeat
  ConnectedFollowsHeartbeats
PROPERTIES
  PromiseKeptFairly
  DeadPeerDetected
