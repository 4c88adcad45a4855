SPECIFICATION MCSpec
CONSTANTS
  NoTenant = NoTenant
  t1 = t1
  t2 = t2
  u1 = u1
  u2 = u2
  u3 = u3
  c1 = c1
  p1 = p1
  p2 = p2
  o1 = o1
  o2 = o2
  o3 = o3
  Tenant = {t1, t2}
  User = {u1, u2, u3}
  Category = {c1}
  Supplier = {}
  Product = {p1, p2}
  Order = {o1, o2, o3}
  OwnerOf <- MCOwnerOf
  Seller <- MCSeller
  Opening <- MCOpening
  Viewer <- MCViewer
  Baskets <- MCBaskets
  Shelves <- MCShelves
  ReorderLevel = 1
  Counts = {0, 2}
  MaxDay = 3
  MonthStart <- MCMonthStart
INVARIANTS
  FiguresWereTrue
  MonthCoversToday
  UnknownIsRemoved
  FiguresAreOfViewer
CHECK_DEADLOCK FALSE
