SPECIFICATION Spec
CONSTANTS
  c1 = c1
  c2 = c2
  h1 = h1
  Cmds = {c1, c2}
  Heartbeats = {h1}
  Queries = {c1, c2, h1}
  Capacity = 2
  ApiLocked = TRUE
  Payloads <- MCPrefixes
INVARIANTS
  OnlyNamesRun
CHECK_DEADLOCK FALSE
