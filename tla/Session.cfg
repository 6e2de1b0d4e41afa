CONSTANTS
  small = small
  text = text
  noise = noise
  huge = huge
  Data <- MCData
  Size <- MCSize
  ZipSize <- MCZipSize
  Master = master
  Device = device
  Secrets = {master, device}
  Unset = unset
  MaxPayload = 4
  Threshold = 3
  Apis = {"run_with", "run_ws"}
  AppMessages <- MCMessages
  MaxSent = 2
  MaxConnections = 3
SPECIFICATION Spec
INVARIANTS TypeOK ArrivesAsSent NoFrameRefused OnlyUnderOneKey DeviceStaysDevice
CHECK_DEADLOCK FALSE
