SPECIFICATION Spec
CONSTANTS
  s1 = s1
  s2 = s2
  s3 = s3
  None = None
  Ids = {0, 1}
  Sockets <- ThreeSockets
  Modes = {"Inventory", "Scan"}
  DefaultMode = "Inventory"
  Ops = {"start", "setPower", "setIsActive", "setMode"}
  NetCap = 2
  UartCap = 1
  WireCap = 3
  MaxCalls = 3
  MaxFaults = 1
SYMMETRY SocketSymmetry
INVARIANTS
  TypeOK
  RegistryConsistent
  SlotOwned
  AnswersExpected
PROPERTIES
  ClientKept
  ActiveWhileStarting
CHECK_DEADLOCK FALSE
