SPECIFICATION Spec
CONSTANTS
  None = None
  Epcs = {e1}
  Users = {u1}
  Buyers <- OneBuyer
  Handlers = {"clerk", "till"}
  Does <- ClerkAndTill
  Updates <- ShopUpdates
  Photos = {FALSE}
  CheckedSales = TRUE
  MaxItems = 2
  MaxQty = 1
  MaxProducts = 2
  MaxInvoices = 1
  MaxFiles = 0
  MaxCalls = 5
  MaxFaults = 0
INVARIANTS ExclusiveTags
CHECK_DEADLOCK FALSE
