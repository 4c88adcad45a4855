SPECIFICATION PurchaseSpec
CONSTANTS
  NoOne = NoOne
  NoKey = NoKey
  Handler = {h1, h2}
  p1 = p1
  p2 = p2
  foreign = foreign
  b1 = b1
  b2 = b2
  t1 = t1
  t2 = t2
  Product = {p1, p2, foreign}
  PurchaseOrder = {b1, b2}
  Key <- MCKey
  TenantOf <- MCTenantOf
  OpeningRows <- MCOpeningRows
  PurchaseCarts <- MCPurchaseCarts
PROPERTY
  CostIsWeightedAverage
CHECK_DEADLOCK FALSE
