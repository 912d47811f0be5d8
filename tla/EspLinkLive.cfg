SPECIFICATION FairSpec
CONSTANTS
  s1 = s1
  s2 = s2
  s3 = s3
  None = None
  Ids = {1}
  Sockets <- TwoSockets
  Modes = {"Inventory"}
  DefaultMode = "Inventory"
  Ops = {"start", "stop", "getPower", "setPower", "setRegion", "getModuleInfo", "setIsActive"}
  NetCap = 1
  UartCap = 1
  WireCap = 3
  MaxCalls = 2
  MaxFaults = 1
PROPERTIES EveryCallEnds RunawayStopped SilentSwept HelloRegisters SlotsImplemented
CHECK_DEADLOCK FALSE
