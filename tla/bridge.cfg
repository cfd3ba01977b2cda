SPECIFICATION FairSpec
CONSTANTS
  c1 = c1
  c2 = c2
  h1 = h1
  Cmds = {c1, c2}
  Heartbeats = {h1}
  Queries = {c1, c2, h1}
  Capacity = 2
  ApiLocked = FALSE
  Payloads <- MCPayloads
INVARIANTS
  TypeOK
  ConfiguredInTime
  OneReport
  BoardReported
  NamedCommandRuns
PROPERTIES
  CommandReported
