CONSTANTS
  ping = ping
  stop = stop
  event = event
  other = other
  Traffic = {stop, other}
  Kind <- MCKind
  MaxRequests = 1
  Timeout = 2
  None = None
SPECIFICATION FairSpec
PROPERTY ShutdownObeyed
