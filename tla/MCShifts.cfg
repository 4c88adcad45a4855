SPECIFICATION ShiftsSpec
CONSTANTS
  NoOne = NoOne
  NoKey = NoKey
  t1 = t1
  t2 = t2
  h1 = h1
  p1 = p1
  p2 = p2
  o1 = o1
  o2 = o2
  b1 = b1
  b2 = b2
  b3 = b3
  r1 = r1
  r2 = r2
  r3 = r3
  guest = guest
  foreign = foreign
  Product = {p1, p2, foreign}
  Key <- MCKey
  TenantOf <- MCTenantOf
  OpeningRows <- MCOpeningRows
  Handler = {h1, h2, h3, guest}
  SalesOrder = {o1, o2}
  SalesReturn = {r1, r2, r3}
  PurchaseOrder = {b1, b2, b3}
  MaxLines = 2
  MaxAdjusted = 1
  SaleCarts <- MCSaleCarts
  ReturnPicks <- MCReturnPicks
  PurchaseCarts <- MCPurchaseCarts
  QuantityChanges <- EitherWay
  PatchedStocks = {1}
SYMMETRY Symmetric
INVARIANTS
  StoreTypeOK
  StockNonNegative
  LedgerAccountsForStock
  IdleHoldsNothing
  ReturnsAreOfCompleted
  ReturnedMatchesRows
  BooksBalance
  OnlyReceivedArrives
  ReceivedArrivesAll
  AverageCostWithinPrices
PROPERTY
  TenantIsolation
CHECK_DEADLOCK FALSE
