SPECIFICATION Spec
CONSTANTS
  None = None
  Epcs = {e1}
  Users = {u1}
  Buyers <- OneBuyer
  Handlers = {h1, h2}
  Does <- Creators
  Updates <- NoUpdates
  Photos = {FALSE}
  CheckedSales = TRUE
  MaxItems = 1
  MaxQty = 1
  MaxProducts = 2
  MaxInvoices = 1
  MaxFiles = 0
  MaxCalls = 3
  MaxFaults = 0
INVARIANT
  ExclusiveTags
CHECK_DEADLOCK FALSE
