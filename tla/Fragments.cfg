CONSTANTS
  m1 = m1
  m2 = m2
  Messages = {m1, m2}
  Size <- MCSize
  ChunkSizes = {0, 1, 2, 4}
  Strays <- MCStrays
  MaxPayload = 4
  HeaderSize = 1
  MaxTotal = 3
  IdSpace = 4
  MaxStreams = 2
  Timeout = 1
  MaxWire = 1
  MaxReconnects = 1
  MaxNow = 1
SPECIFICATION Spec
INVARIANTS TypeOK Intact NoSilentLoss BuffersBounded NeverBroken
CHECK_DEADLOCK FALSE
