SPECIFICATION StoreSpec
CONSTANTS
  NoOne = NoOne
  NoKey = NoKey
  t1 = t1
  p1 = p1
  p2 = p2
  Product = {p1, p2}
  Key <- MCKey
  TenantOf <- OneTenant
  OpeningRows <- MCOpeningRows
  Handler = {h1, h2}
  SalesOrder = {o1}
  SalesReturn = {r1, r2}
  PurchaseOrder = {}
  MaxLines = 2
  MaxAdjusted = 0
  SaleCarts <- OneSale
  ReturnPicks <- SomeReturns
  PurchaseCarts <- Nothing
  QuantityChanges <- Nothing
  PatchedStocks <- Nothing
INVARIANT
  NotOverReturned
CHECK_DEADLOCK FALSE
