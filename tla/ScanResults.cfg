SPECIFICATION Spec
CONSTANTS
  None = None
  e1 = e1
  e2 = e2
  p1 = p1
  p2 = p2
  Ids = {i1}
  Conns = {c1, c2}
  Epcs = {e1, e2}
  IdOf <- SameDigits
  Products = {p1, p2}
  RSSIs = {near, far}
  StockRows <- Shop
  Slots = {s1, s2}
  MaxFrames = 3
  MaxEvents = 3
  MaxTicks = 1
INVARIANTS
  TypeOK
  ListsFitModes
  NoProductTwice
  ClearedIsGone
  ShownIsListed
  OfferedTagWasFree
SYMMETRY Symmetric
CHECK_DEADLOCK FALSE
