SPECIFICATION Spec
CONSTANTS
  c1 = c1
  c2 = c2
  h1 = h1
  h2 = h2
  None = None
  CmdQueries = {c1, c2}
  HbQueries = {h1}
  Queries = {c1, c2, h1}
  MaxIdLst = 2
  IdSpan = 1
  CmdTimeout = 2
  HbTimeout = 1
  HbInterval = 2
  RxBurst = 1
  LineCap = 1
  EventIds = {0}
  Stall = TRUE
SYMMETRY Symmetry
INVARIANTS
  TypeOK
  LiveBelowCount
  OneListenerPerQuery
PROPERTIES
  PromiseKept
