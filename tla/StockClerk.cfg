SPECIFICATION Spec
CONSTANTS
  None = None
  Epcs = {e1, e2}
  Users = {u1}
  Buyers <- TwoBuyers
  Handlers = {"clerk", "till"}
  Does <- ClerkAndTill
  Updates <- ShopUpdates
  Photos = {TRUE, FALSE}
  CheckedSales = TRUE
  MaxItems = 1
  MaxQty = 2
  MaxProducts = 2
  MaxInvoices = 2
  MaxFiles = 2
  MaxCalls = 5
  MaxFaults = 1
INVARIANTS
  TypeOK
  ExclusiveTags
  CustomersDistinct
  PhotosMatchDisk
  ItemsReferToProducts
  LostOnlyInOverlap
CHECK_DEADLOCK FALSE
