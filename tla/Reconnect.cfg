CONSTANTS
  small = small
  text = text
  noise = noise
  huge = huge
  Data <- MCData
  Size <- MCSize
  ZipSize <- MCZipSize
  Master = master
  Device = device
  Secrets = {master, device}
  Unset = unset
  MaxPayload = 4
  Threshold = 3
  Apis = {"run_with"}
  AppMessages <- MCMessages
  MaxSent = 1
  MaxConnections = 3
SPECIFICATION Spec
INVARIANT ReRegisters
CHECK_DEADLOCK FALSE
