SPECIFICATION Spec
CONSTANTS
  Base = 4
  CksumBytes = {0, 1}
  Frames <- MCFrames
  SendbufLen = 9
  MaxBlocks = 3
  MaxPayload = 5
  ParserTimeout = 2
  LineCap = 4
  Runs = {1, 7, 10}
  Noise = {1}
  MaxFaults = 2
INVARIANTS
  TypeOK
  NothingLost
PROPERTIES
  ChannelKept
CHECK_DEADLOCK FALSE
