SPECIFICATION Spec
CONSTANTS
  s1 = s1
  s2 = s2
  s3 = s3
  None = None
  Ids = {1}
  Sockets <- TwoSockets
  Modes = {"Inventory"}
  DefaultMode = "Inventory"
  Ops = {"start", "stop", "getPower", "setIsActive"}
  NetCap = 2
  UartCap = 1
  WireCap = 3
  MaxCalls = 3
  MaxFaults = 1
SYMMETRY SocketSymmetry
INVARIANTS AnswerMatchesRequest
CHECK_DEADLOCK FALSE
