CONSTANTS
  r1 = r1
  r2 = r2
  ping = ping
  stop = stop
  event = event
  other = other
  empty = empty
  bad = bad
  Envelopes = {r1, r2, ping, stop}
  Kind <- MCKind
  MaxReplies = 2
  Capacity = 1
  Oversized <- NoneOversized
  Links = {"stream", "message"}
  MaxFrames = 4
  Failure = Failure
  None = None
SPECIFICATION FairSpec
PROPERTIES RepliesLeave PingAnswered ShutdownEnds
