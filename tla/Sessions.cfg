SPECIFICATION Spec
CONSTANTS
  None = None
  Browsers = {b1, b2}
  Owner = owner
  Emails = {owner, other}
  Ids = {1, 2, 3}
  Jtis = {1, 2, 3, 4}
  Grants <- Lists
  AccessLifetime = 1
  RefreshLifetime = 2
  Slots = {s1, s2, s3}
  MaxCalls = 4
  MaxTicks = 2
  MaxFaults = 1
INVARIANTS
  TypeOK
  EmailsUnique
  OnlyOwnerIsSuper
  GrantedRolesWereHeld
  ExchangedOnce
  CookieIsLive
SYMMETRY Symmetric
CHECK_DEADLOCK FALSE
