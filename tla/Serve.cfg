CONSTANTS
  ping = ping
  stop = stop
  event = event
  other = other
  Traffic = {ping, stop, event}
  Kind <- MCKind
  MaxRequests = 2
  Timeout = 2
  None = None
SPECIFICATION FairSpec
INVARIANTS TypeOK ShutdownOnce AckedIffHandled DeadlineKept
PROPERTIES DisconnectEnds DeadlineEnds
