SPECIFICATION Spec
CONSTANTS
  None = None
  Callers <- MCCallers
  Browsers <- MCBrowsers
  Listed <- MCListed
  TabanQuotes <- MCTabanQuotes
  BrsQuotes <- MCBrsQuotes
  CacheDuration = 1
  MaxEvents = 4
  Rids = {1, 2, 3, 4}
  Limit = 2
  Hundred = 10
  Scale = 10
  Slip = 1
  Queries <- MCPagesQueries
  FirstTables <- MCFirstTables
  NewRows <- MCNewRows
INVARIANT PagesDisjoint
CHECK_DEADLOCK FALSE
