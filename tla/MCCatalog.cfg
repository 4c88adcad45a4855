SPECIFICATION CatalogSpec
CONSTANTS
  NoOne = NoOne
  NoTenant = NoTenant
  Nothing = Nothing
  Handler = {h1, h2}
  t1 = t1
  t2 = t2
  Caller <- MCCaller
  Tenant = {t1, t2}
  Category = {c1, c2}
  Supplier = {}
  Product = {p1}
  Name = {n1}
  Sku = {k1, k2}
  Batches <- MCBatches
SYMMETRY Symmetric
INVARIANTS
  CatalogTypeOK
  CarriedRefsAreOwn
  LogFollowsWrite
PROPERTIES
  CatalogIsolation
  ImplementsSoftRows
  RemovalIsAtomic
CHECK_DEADLOCK FALSE
