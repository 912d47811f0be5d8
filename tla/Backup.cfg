SPECIFICATION FairSpec
CONSTANTS
  p1 = p1
  p2 = p2
  p3 = p3
  None = None
  Versions <- Three
  Of <- TwoProducts
  MaxRequests = 3
  MaxEdits = 1
  MaxFaults = 1
INVARIANTS TypeOK BackupComplete
PROPERTIES RestoreExact WipedAfterImport EveryRequestEnds
CHECK_DEADLOCK FALSE
