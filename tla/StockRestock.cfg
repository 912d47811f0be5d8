SPECIFICATION Spec
CONSTANTS
  None = None
  Epcs = {e1}
  Users = {u1}
  Buyers <- OneBuyer
  Handlers = {h1}
  Does <- StockKeeper
  Updates <- Restock
  Photos = {FALSE}
  CheckedSales = TRUE
  MaxItems = 1
  MaxQty = 2
  MaxProducts = 2
  MaxInvoices = 1
  MaxFiles = 0
  MaxCalls = 3
  MaxFaults = 0
PROPERTY
  RestockApplied
CHECK_DEADLOCK FALSE
