CONSTANTS
  r1 = r1
  r2 = r2
  ping = ping
  stop = stop
  event = event
  other = other
  empty = empty
  bad = bad
  Envelopes = {r1, ping}
  Kind <- MCKind
  MaxReplies = 1
  Capacity = 1
  Oversized <- NoneOversized
  Links = {"stream"}
  MaxFrames = 2
  Failure = Failure
  None = None
SPECIFICATION Spec
INVARIANT RecvUndisturbed
