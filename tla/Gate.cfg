CONSTANTS
  phone = phone
  screen = screen
  ai = ai
  small = small
  large = large
  Callers <- MCCallers
  ConfirmCallers <- DeviceMayConfirm
  Params = {small, large}
  Ttl = 2
  MaxNow = 2
  MaxRequests = 2
  Results = {"okPair", "raises"}
  MaxCalls = 3
SPECIFICATION CallersSpec
INVARIANTS TypeOK CallersTypeOK ReturnsOwnRequest ConfirmedMeansExecuted ExecutedAtMostOnce ExecutedAsRequested PendingIsRecent
PROPERTY IdsNeverReused
CHECK_DEADLOCK FALSE
SYMMETRY ParamsSymmetry
