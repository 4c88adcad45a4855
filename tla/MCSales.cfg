SPECIFICATION SalesSpec
CONSTANTS
  NoOne = NoOne
  NoKey = NoKey
  Handler = {h1, h2}
  p1 = p1
  p2 = p2
  o1 = o1
  o2 = o2
  t1 = t1
  Product = {p1, p2}
  SalesOrder = {o1, o2}
  Key <- MCKey
  TenantOf <- MCTenantOf
  OpeningRows <- MCOpeningRows
  SaleCarts <- MCSaleCarts
INVARIANTS
  StockNonNegative
  OnlyCompletedShips
PROPERTIES
  EveryRequestEnds
  ImplementsOrderBook
CHECK_DEADLOCK FALSE
