CONSTANTS
  r1 = r1
  r2 = r2
  ping = ping
  stop = stop
  event = event
  other = other
  empty = empty
  bad = bad
  Envelopes = {r1, r2, ping, stop, event, other, empty, bad}
  Kind <- MCKind
  MaxReplies = 3
  Capacity = 2
  Oversized <- FirstOversized
  Links = {"stream", "legacyStream", "message"}
  MaxFrames = 3
  Failure = Failure
  None = None
SPECIFICATION Spec
INVARIANTS TypeOK ReplyAccounting NoSilentFrameLoss
PROPERTY ImplementsReplyService
