CONSTANTS
  m1 = m1
  m2 = m2
  Messages = {m1, m2}
  Size <- MCSize
  ChunkSizes = {1, 2}
  Strays <- NoStrays
  MaxPayload = 4
  HeaderSize = 1
  MaxTotal = 2
  IdSpace = 4
  MaxStreams = 2
  Timeout = 2
  MaxWire = 2
  MaxReconnects = 1
  MaxNow = 2
SPECIFICATION Spec
CHECK_DEADLOCK FALSE
INVARIANT CompleteFrames
