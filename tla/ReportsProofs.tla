--------------------------- MODULE ReportsProofs ---------------------------
(***************************************************************************)
(* What the pages show, for any stores, viewers, orders and calendar: the  *)
(* four invariants of Reports.  They follow from one invariant of the page *)
(* that is being read: what it has still to ask, and of every figure it    *)
(* was asked for or has read, how its rows may have changed since.         *)
(***************************************************************************)
EXTENDS Reports, Sums

-----------------------------------------------------------------------------
(***************************************************************************)
(* What a query finds, row by row.                                         *)
(***************************************************************************)
StatusOf(k) == IF k \in Order THEN book[k].status ELSE "NONE"

\* The row k is one that the store of v has not removed.
Mine(v, k) ==
  life[k] = "live" /\ (v.tenantId # NoTenant => owner[k] = v.tenantId)

\* A filter that is added is one more condition.
LEMMA OneMore ==
  ASSUME NEW row, NEW where, NEW field, field \notin DOMAIN where, NEW value
  PROVE  /\ DOMAIN AddFilter(where, field, value) = DOMAIN where \cup {field}
         /\ Matches(row, AddFilter(where, field, value)) <=>
              Matches(row, where) /\ row[field] = value
BY DEF AddFilter, Matches

\* What the extension adds to a read of a model it knows, unless the query
\* says it already.
LEMMA ClientFinds ==
  ASSUME NEW v, NEW model \in TENANT_SOFT_DELETE_MODELS, NEW where,
         DOMAIN where \cap {"deletedAt", "tenantId"} = {}
  PROVE  \A k : k \in Client(v, model, where) <=>
           k \in Table(model) /\ Mine(v, k) /\ Matches(Columns(k), where)
<1> DEFINE kept == AddFilter(where, "deletedAt", "null")
           all == AddFilter(kept, "tenantId", v.tenantId)
<1>1. /\ DOMAIN kept = DOMAIN where \cup {"deletedAt"}
      /\ \A k : Matches(Columns(k), kept) <=>
           Matches(Columns(k), where) /\ Columns(k).deletedAt = "null"
  BY OneMore
<1>2. \A k : Matches(Columns(k), all) <=>
        Matches(Columns(k), kept) /\ Columns(k).tenantId = v.tenantId
  <2>1. "tenantId" \notin DOMAIN kept
    BY <1>1
  <2> HIDE DEF kept
  <2> QED BY <2>1, OneMore
<1>3. Rewrite("findMany", model, where, v.tenantId)
        = IF v.tenantId # NoTenant THEN all ELSE kept
  <2>1. ApplySoftDelete(model, where) = kept
    BY DEF ApplySoftDelete, SoftDeleteModels
  <2>2. ApplyTenantFilter(model, kept, v.tenantId)
          = IF v.tenantId # NoTenant THEN all ELSE kept
    BY DEF ApplyTenantFilter, TenantModels
  <2> HIDE DEF kept, all
  <2>3. Rewrite("findMany", model, where, v.tenantId)
          = ApplyTenantFilter(model, ApplySoftDelete(model, where), v.tenantId)
    BY DEF Rewrite, Reads, Writes, Deletions
  <2> QED BY <2>1, <2>2, <2>3
<1>4. \A k : /\ Columns(k).tenantId = owner[k]
             /\ Columns(k).deletedAt = IF life[k] = "live" THEN "null" ELSE "set"
  BY DEF Columns
<1> HIDE DEF kept, all
<1>5. ASSUME NEW k
      PROVE  k \in Client(v, model, where) <=>
               k \in Table(model) /\ Mine(v, k) /\ Matches(Columns(k), where)
  <2>1. k \in Client(v, model, where) <=>
          /\ k \in Table(model) /\ life[k] # "none"
          /\ Matches(Columns(k), Rewrite("findMany", model, where, v.tenantId))
    BY DEF Client, Found
  <2> QED BY <1>1, <1>2, <1>3, <1>4, <2>1 DEF Mine
<1> QED BY <1>5

\* The reads of the services: all rows, the sales of one user, and those of
\* one status.
LEMMA ClientRows ==
  ASSUME NEW v, NEW model \in TENANT_SOFT_DELETE_MODELS
  PROVE  /\ \A k : k \in Client(v, model, << >>) <=> k \in Table(model) /\ Mine(v, k)
         /\ \A k, id : k \in Client(v, model, [userId |-> id]) <=>
              /\ k \in Table(model) /\ Mine(v, k)
              /\ id = IF k \in Order THEN Seller[k] ELSE k
         /\ \A k, s : k \in Client(v, model, [status |-> s]) <=>
              k \in Table(model) /\ Mine(v, k) /\ s = StatusOf(k)
<1>1. \A k : Matches(Columns(k), << >>)
  BY DEF Matches
<1>2. \A k, id : Matches(Columns(k), [userId |-> id]) <=>
        id = IF k \in Order THEN Seller[k] ELSE k
  BY DEF Matches, Columns
<1>3. \A k, s : Matches(Columns(k), [status |-> s]) <=> s = StatusOf(k)
  BY DEF Matches, Columns, StatusOf
<1>4. DOMAIN << >> \cap {"deletedAt", "tenantId"} = {}
  OBVIOUS
<1>5. \A id : DOMAIN [userId |-> id] \cap {"deletedAt", "tenantId"} = {}
  OBVIOUS
<1>6. \A s : DOMAIN [status |-> s] \cap {"deletedAt", "tenantId"} = {}
  OBVIOUS
<1>7. \A k : k \in Client(v, model, << >>) <=> k \in Table(model) /\ Mine(v, k)
  BY <1>1, <1>4, ClientFinds
<1>8. \A id : \A k : k \in Client(v, model, [userId |-> id]) <=>
        /\ k \in Table(model) /\ Mine(v, k)
        /\ Matches(Columns(k), [userId |-> id])
  <2> TAKE id
  <2> DEFINE where == [userId |-> id]
  <2>1. DOMAIN where \cap {"deletedAt", "tenantId"} = {}
    OBVIOUS
  <2> HIDE DEF where
  <2>2. \A k : k \in Client(v, model, where) <=>
          k \in Table(model) /\ Mine(v, k) /\ Matches(Columns(k), where)
    BY <2>1, ClientFinds
  <2> QED BY <2>2 DEF where
<1>9. \A s : \A k : k \in Client(v, model, [status |-> s]) <=>
        /\ k \in Table(model) /\ Mine(v, k)
        /\ Matches(Columns(k), [status |-> s])
  <2> TAKE s
  <2> DEFINE where == [status |-> s]
  <2>1. DOMAIN where \cap {"deletedAt", "tenantId"} = {}
    OBVIOUS
  <2> HIDE DEF where
  <2>2. \A k : k \in Client(v, model, where) <=>
          k \in Table(model) /\ Mine(v, k) /\ Matches(Columns(k), where)
    BY <2>1, ClientFinds
  <2> QED BY <2>2 DEF where
<1> QED BY <1>2, <1>3, <1>7, <1>8, <1>9

\* The queries that go to the database as they are written.
LEMMA RawRows ==
  /\ \A model, k : k \in Found(model, [deletedAt |-> "null"]) <=>
       k \in Table(model) /\ life[k] = "live"
  /\ \A model, k : k \in Found(model, << >>) <=> k \in Table(model) /\ life[k] # "none"
  /\ \A v, model, k : k \in Found(model, Own(v)) <=>
       k \in Table(model) /\ life[k] = "live" /\ owner[k] = v.tenantId
  /\ \A v, k :
       k \in Found("SalesOrder", [userId |-> v.id, tenantId |-> v.tenantId,
                                  deletedAt |-> "null"]) <=>
         /\ k \in Order /\ life[k] = "live" /\ owner[k] = v.tenantId
         /\ Seller[k] = v.id
  /\ \A v, k : k \in Found("TenantUser", [id |-> v.id, tenantId |-> v.tenantId,
                                  deletedAt |-> "null"]) <=>
       k \in User /\ life[k] = "live" /\ owner[k] = v.tenantId /\ k = v.id
  /\ \A v, k : k \in Client(v, "OrderItem", [status |-> "COMPLETED"]) <=>
       k \in Order /\ life[k] # "none" /\ StatusOf(k) = "COMPLETED"
<1>1. \A k : Matches(Columns(k), [deletedAt |-> "null"]) <=> life[k] = "live"
  BY DEF Matches, Columns
<1>2. \A k : Matches(Columns(k), << >>)
  BY DEF Matches
<1>3. \A v, k : Matches(Columns(k), Own(v)) <=>
        life[k] = "live" /\ owner[k] = v.tenantId
  BY DEF Matches, Columns, Own
<1>4. \A v, k :
        Matches(Columns(k), [userId |-> v.id, tenantId |-> v.tenantId,
                             deletedAt |-> "null"]) <=>
          /\ life[k] = "live" /\ owner[k] = v.tenantId
          /\ v.id = IF k \in Order THEN Seller[k] ELSE k
  BY DEF Matches, Columns
<1>6. \A v, k :
        Matches(Columns(k), [id |-> v.id, tenantId |-> v.tenantId,
                             deletedAt |-> "null"]) <=>
          life[k] = "live" /\ owner[k] = v.tenantId /\ k = v.id
  BY DEF Matches, Columns
<1>7. \A v : Rewrite("findMany", "OrderItem", [status |-> "COMPLETED"], v.tenantId)
               = [status |-> "COMPLETED"]
  <2>1. \A where : ApplySoftDelete("OrderItem", where) = where
    BY DEF ApplySoftDelete, SoftDeleteModels, TENANT_SOFT_DELETE_MODELS,
           SOFT_DELETE_ONLY_MODELS
  <2>2. \A where, t : ApplyTenantFilter("OrderItem", where, t) = where
    BY DEF ApplyTenantFilter, TenantModels, TENANT_SOFT_DELETE_MODELS,
           TENANT_ONLY_MODELS
  <2>3. \A where, t :
          Rewrite("findMany", "OrderItem", where, t)
            = ApplyTenantFilter("OrderItem", ApplySoftDelete("OrderItem", where), t)
    BY DEF Rewrite, Reads, Writes, Deletions
  <2> QED BY <2>1, <2>2, <2>3
<1>8. \A k : Matches(Columns(k), [status |-> "COMPLETED"]) <=>
               StatusOf(k) = "COMPLETED"
  BY DEF Matches, Columns, StatusOf
<1>9. Table("SalesOrder") = Order /\ Table("OrderItem") = Order /\ Table("TenantUser") = User
  BY DEF Table
<1>10. \A model, where, k : k \in Found(model, where) <=>
         k \in Table(model) /\ life[k] # "none" /\ Matches(Columns(k), where)
  BY DEF Found
<1>11. \A model, k : k \in Found(model, [deletedAt |-> "null"]) <=>
         k \in Table(model) /\ life[k] = "live"
  BY <1>1, <1>10
<1>12. \A model, k : k \in Found(model, << >>) <=>
         k \in Table(model) /\ life[k] # "none"
  BY <1>2, <1>10
<1>13. \A v, model, k : k \in Found(model, Own(v)) <=>
         k \in Table(model) /\ life[k] = "live" /\ owner[k] = v.tenantId
  BY <1>3, <1>10
<1>14. \A v, k :
         k \in Found("SalesOrder", [userId |-> v.id, tenantId |-> v.tenantId,
                                    deletedAt |-> "null"]) <=>
           /\ k \in Order /\ life[k] = "live" /\ owner[k] = v.tenantId
           /\ Seller[k] = v.id
  <2> TAKE v, k
  <2> DEFINE where == [userId |-> v.id, tenantId |-> v.tenantId,
                       deletedAt |-> "null"]
  <2>1. Matches(Columns(k), where) <=>
          /\ life[k] = "live" /\ owner[k] = v.tenantId
          /\ v.id = IF k \in Order THEN Seller[k] ELSE k
    BY <1>4
  <2> HIDE DEF where
  <2>2. k \in Found("SalesOrder", where) <=>
          /\ k \in Order /\ life[k] = "live" /\ owner[k] = v.tenantId
          /\ Seller[k] = v.id
    BY <1>9, <1>10, <2>1
  <2> QED BY <2>2 DEF where
<1>15. \A v, k : k \in Found("TenantUser", [id |-> v.id, tenantId |-> v.tenantId,
                                  deletedAt |-> "null"]) <=>
         k \in User /\ life[k] = "live" /\ owner[k] = v.tenantId /\ k = v.id
  BY <1>6, <1>9, <1>10
<1>16. \A v, k : k \in Client(v, "OrderItem", [status |-> "COMPLETED"]) <=>
         k \in Order /\ life[k] # "none" /\ StatusOf(k) = "COMPLETED"
  BY <1>7, <1>8, <1>9, <1>10 DEF Client
<1> QED BY <1>11, <1>12, <1>13, <1>14, <1>15, <1>16

-----------------------------------------------------------------------------
(***************************************************************************)
(* The figures.  Swinging figures are those whose rows may come and go;    *)
(* the others lose a row only when it is removed, and those in Kept never. *)
(***************************************************************************)
Platform == {"tenants", "total", "everyUser", "everyProduct", "everyOrder"}

Calendar == {"today", "month"}

SoldOn == {"soldToday", "soldThisMonth"}

OwnSalesOnly == {"soldToday", "soldThisMonth", "ownCompleted"}

Swinging == {"inStock", "lowStock", "named"}

Kept == {"sold", "everyOrder"}

\* Figures that the extension scopes, and those whose query names the store.
Shared == {"products", "suppliers", "categories", "users", "orders", "allTotal",
           "ownOrders", "ownTotal", "today", "month", "completed"}

Strict == {"access", "trend", "ordered"} \cup OwnSalesOnly

Lastings == Platform \cup Shared \cup Strict \cup {"sold"}

Figures == Lastings \cup Swinging

TableOf(f) ==
  CASE f \in {"products", "everyProduct", "inStock", "lowStock", "named"} -> Product
    [] f = "suppliers" -> Supplier
    [] f = "categories" -> Category
    [] f \in {"users", "access", "everyUser"} -> User
    [] f \in {"tenants", "total"} -> Tenant
    [] OTHER -> Order

\* Whether row k, as it is, belongs into figure f for viewer v.
Listed(f, v, k, alive, whose, status) ==
  /\ k \in TableOf(f)
  /\ alive = "live" \/ (f \in Kept /\ alive # "none")
  /\ f \in Shared /\ v.tenantId # NoTenant => whose = v.tenantId
  /\ f \in Strict => whose = v.tenantId
  /\ f \in {"ownOrders", "ownTotal"} => Seller[k] = v.id
  /\ f \in OwnSalesOnly /\ v.role # "ADMIN" => Seller[k] = v.id
  /\ f \in {"completed", "sold", "ownCompleted"} => status = "COMPLETED"
  /\ f = "access" => k = v.id

\* And whether it is not too old.
Recent(f, since, day) ==
  /\ f \in {"today", "soldToday"} => day >= since.today
  /\ f \in {"month", "soldThisMonth"} => day >= since.month

\* The rows of a figure.
LEMMA FigureRows ==
  ASSUME NEW f \in Lastings, NEW r, NEW k
  PROVE  k \in Figure(f, r) <=>
           /\ Listed(f, r.viewer, k, life[k], owner[k], StatusOf(k))
           /\ Recent(f, r.since, created[k])
<1> DEFINE v == r.viewer
           mine == life[k] = "live" /\ (v.tenantId # NoTenant => owner[k] = v.tenantId)
           own == life[k] = "live" /\ owner[k] = v.tenantId
           ownSale == own /\ (v.role # "ADMIN" => Seller[k] = v.id)
<1>1. \A orders, day : k \in Since(orders, day) <=> k \in orders /\ created[k] >= day
  BY DEF Since
<1>2. /\ Table("Product") = Product /\ Table("Supplier") = Supplier
      /\ Table("Category") = Category /\ Table("TenantUser") = User
      /\ Table("SalesOrder") = Order /\ Table("Tenant") = Tenant
      /\ Table("OrderItem") = Order
  BY DEF Table
<1>3. /\ k \in Client(v, "Product", << >>) <=> k \in Product /\ mine
      /\ k \in Client(v, "Supplier", << >>) <=> k \in Supplier /\ mine
      /\ k \in Client(v, "Category", << >>) <=> k \in Category /\ mine
      /\ k \in Client(v, "TenantUser", << >>) <=> k \in User /\ mine
      /\ k \in Client(v, "SalesOrder", << >>) <=> k \in Order /\ mine
      /\ k \in Client(v, "SalesOrder", [userId |-> v.id]) <=>
           k \in Order /\ mine /\ Seller[k] = v.id
      /\ k \in Completed(v) <=> k \in Order /\ mine /\ StatusOf(k) = "COMPLETED"
  BY <1>2, ClientRows DEF Mine, Completed, TENANT_SOFT_DELETE_MODELS
<1>4. k \in OwnSales(v) <=> k \in Order /\ ownSale
  BY <1>2, RawRows DEF OwnSales
<1>5. /\ k \in Found("SalesOrder", Own(v)) <=> k \in Order /\ own
      /\ k \in Found("OrderItem", Own(v)) <=> k \in Order /\ own
      /\ k \in Found("TenantUser", [id |-> v.id, tenantId |-> v.tenantId,
                                  deletedAt |-> "null"]) <=>
           k \in User /\ own /\ k = v.id
      /\ k \in Client(v, "OrderItem", [status |-> "COMPLETED"]) <=>
           k \in Order /\ life[k] # "none" /\ StatusOf(k) = "COMPLETED"
      /\ k \in Found("Tenant", [deletedAt |-> "null"]) <=> k \in Tenant /\ life[k] = "live"
      /\ k \in Found("TenantUser", [deletedAt |-> "null"]) <=> k \in User /\ life[k] = "live"
      /\ k \in Found("Product", [deletedAt |-> "null"]) <=> k \in Product /\ life[k] = "live"
      /\ k \in Found("SalesOrder", << >>) <=> k \in Order /\ life[k] # "none"
  BY <1>2, RawRows
<1>6. /\ f = "products" => Figure(f, r) = Client(v, "Product", << >>)
      /\ f = "suppliers" => Figure(f, r) = Client(v, "Supplier", << >>)
      /\ f = "categories" => Figure(f, r) = Client(v, "Category", << >>)
      /\ f = "users" => Figure(f, r) = Client(v, "TenantUser", << >>)
      /\ f \in {"orders", "allTotal"} => Figure(f, r) = Client(v, "SalesOrder", << >>)
      /\ f \in {"ownOrders", "ownTotal"} =>
           Figure(f, r) = Client(v, "SalesOrder", [userId |-> v.id])
      /\ f = "today" =>
           Figure(f, r) = Since(Client(v, "SalesOrder", << >>), r.since.today)
      /\ f = "month" =>
           Figure(f, r) = Since(Client(v, "SalesOrder", << >>), r.since.month)
      /\ f = "completed" => Figure(f, r) = Completed(v)
  BY DEF Figure
<1>7. /\ f = "access" => Figure(f, r) = 
             Found("TenantUser", [id |-> v.id, tenantId |-> v.tenantId,
                                  deletedAt |-> "null"])
      /\ f = "sold" => Figure(f, r) = Client(v, "OrderItem", [status |-> "COMPLETED"])
      /\ f = "trend" => Figure(f, r) = Found("SalesOrder", Own(v))
      /\ f = "ordered" => Figure(f, r) = Found("OrderItem", Own(v))
      /\ f = "soldToday" => Figure(f, r) = Since(OwnSales(v), r.since.today)
      /\ f = "soldThisMonth" => Figure(f, r) = Since(OwnSales(v), r.since.month)
      /\ f = "ownCompleted" =>
           Figure(f, r) = {o \in OwnSales(v) : book[o].status = "COMPLETED"}
      /\ f \in {"tenants", "total"} =>
           Figure(f, r) = Found("Tenant", [deletedAt |-> "null"])
      /\ f = "everyUser" => Figure(f, r) = Found("TenantUser", [deletedAt |-> "null"])
      /\ f = "everyProduct" => Figure(f, r) = Found("Product", [deletedAt |-> "null"])
      /\ f = "everyOrder" => Figure(f, r) = Found("SalesOrder", << >>)
  BY DEF Figure
<1> HIDE DEF v
<1> USE DEF Listed, Recent, TableOf, Kept, Shared, Strict, OwnSalesOnly
<1>8. CASE f \in {"products", "suppliers", "categories", "users"}
  BY <1>3, <1>6, <1>8 DEF v
<1>9. CASE f \in {"orders", "allTotal", "ownOrders", "ownTotal"}
  BY <1>3, <1>6, <1>9 DEF v
<1>10. CASE f \in {"today", "month", "completed"}
  BY <1>1, <1>3, <1>6, <1>10 DEF v
<1>11. CASE f \in {"access", "sold", "trend", "ordered"}
  BY <1>5, <1>7, <1>11 DEF v
<1>12. CASE f \in {"soldToday", "soldThisMonth"}
  BY <1>1, <1>4, <1>7, <1>12 DEF v
<1>13. CASE f = "ownCompleted"
  <2>1. k \in Figure(f, r) <=> k \in Order /\ ownSale /\ StatusOf(k) = "COMPLETED"
    BY <1>4, <1>7, <1>13 DEF StatusOf
  <2> QED BY <1>13, <2>1 DEF v
<1>14. CASE f \in Platform
  BY <1>5, <1>7, <1>14 DEF v, Platform
<1> QED BY <1>8, <1>9, <1>10, <1>11, <1>12, <1>13, <1>14
        DEF Lastings, Platform

-----------------------------------------------------------------------------
(***************************************************************************)
(* The world.  Rows appear once and are removed once, and an order appears *)
(* with its row and keeps its items; what the shelves hold does not matter.*)
(***************************************************************************)
Item == [product : Product, quantity : Nat \ {0}]

BookRow == [status : {"NONE", "PENDING", "COMPLETED", "CANCELLED"},
            items  : Seq(Item)]

RowsOK ==
  /\ life \in [Row -> {"none", "live", "removed"}]
  /\ DOMAIN owner = Row
  /\ \A k \in Row : life[k] # "none" => owner[k] = OwnerOf[k]

\* An order is for products of its own store.
ItemsOK(o) ==
  \A i \in DOMAIN book[o].items :
    LET p == book[o].items[i].product IN
    p \in Product /\ life[p] # "none" /\ OwnerOf[p] = OwnerOf[o]

OrdersOK ==
  /\ book \in [Order -> BookRow]
  /\ created \in [Order -> Nat] /\ today \in Day
  /\ \A o \in Order : book[o] # NoOrder => life[o] # "none"
  /\ \A o \in Order : ItemsOK(o)

WorldInv == RowsOK /\ OrdersOK

\* What the step may do to row k.
RowMoves(k) ==
  /\ life[k] = "live" => life'[k] \in {"live", "removed"}
  /\ life[k] = "removed" => life'[k] = "removed"
  /\ life[k] # "none" => owner'[k] = owner[k]
  /\ k \in Order /\ life[k] # "none" =>
       /\ created'[k] = created[k]
       /\ book'[k].items = book[k].items
       /\ book[k].status = "COMPLETED" => book'[k].status = "COMPLETED"

-----------------------------------------------------------------------------
\* The steps of the tables of rows.
RowsStep(k) ==
  /\ life[k] = "live" => life'[k] \in {"live", "removed"}
  /\ life[k] = "removed" => life'[k] = "removed"
  /\ life[k] # "none" => owner'[k] = owner[k]

\* How the rows move when one is inserted,
LEMMA RowsInserted ==
  ASSUME RowsOK, NEW k \in Row, Rows!Insert(k, OwnerOf[k])
  PROVE  RowsOK' /\ \A x \in Row : RowsStep(x)
BY DEF RowsOK, RowsStep, Rows!Insert

\* when one is removed,
LEMMA RowsRemoved ==
  ASSUME RowsOK, NEW gone, NEW t, Rows!Remove(gone, t)
  PROVE  RowsOK' /\ \A x \in Row : RowsStep(x)
BY DEF RowsOK, RowsStep, Rows!Remove

\* and when nothing happens to them.
LEMMA RowsUnchanged ==
  ASSUME RowsOK, UNCHANGED <<life, owner>>
  PROVE  RowsOK' /\ \A x \in Row : RowsStep(x)
<1>1. life' = life /\ owner' = owner
  OBVIOUS
<1>2. RowsOK'
  BY <1>1 DEF RowsOK
<1>3. ASSUME NEW x \in Row PROVE RowsStep(x)
  <2>1. life[x] \in {"none", "live", "removed"}
    BY DEF RowsOK
  <2> QED BY <1>1, <2>1 DEF RowsStep
<1> QED BY <1>2, <1>3

\* What every step of the tables and the order book leaves of the orders.
LEMMA OrdersLast ==
  ASSUME WorldInv, RowsOK', \A k \in Row : RowsStep(k),
         UNCHANGED <<book, created>>, today' \in Day
  PROVE  OrdersOK' /\ \A k \in Row : RowMoves(k)
<1>1. /\ book' = book /\ created' = created
      /\ book \in [Order -> BookRow] /\ created \in [Order -> Nat]
      /\ \A o \in Order : book[o] # NoOrder => life[o] # "none"
      /\ \A o \in Order : ItemsOK(o)
  BY DEF WorldInv, OrdersOK
<1>2. \A k \in Row : life[k] # "none" => life'[k] # "none"
  BY DEF WorldInv, RowsOK, RowsStep
<1>3. Order \subseteq Row /\ Product \subseteq Row
  BY DEF Row
<1>4. ASSUME NEW o \in Order PROVE ItemsOK(o)'
  BY <1>1, <1>2, <1>3, <1>4 DEF ItemsOK
<1>5. ASSUME NEW k \in Row PROVE RowMoves(k)
  <2>1. RowsStep(k)
    OBVIOUS
  <2> QED BY <1>1, <2>1 DEF RowMoves, RowsStep
<1> QED BY <1>1, <1>2, <1>3, <1>4, <1>5 DEF OrdersOK

\* A step of the order book, seen from the orders: o is new or changes its
\* status, and the others stay as they are.
LEMMA OrderWritten ==
  ASSUME WorldInv, RowsOK', \A k \in Row : RowsStep(k), NEW o \in Order,
         NEW row \in BookRow, book' = [book EXCEPT ![o] = row],
         created' \in [Order -> Nat], UNCHANGED today,
         life'[o] # "none",
         \A x \in Order : x # o => created'[x] = created[x],
         life[o] # "none" =>
           /\ created'[o] = created[o] /\ row.items = book[o].items
           /\ book[o].status = "COMPLETED" => row.status = "COMPLETED",
         \A i \in DOMAIN row.items :
           LET p == row.items[i].product IN
           p \in Product /\ life'[p] # "none" /\ OwnerOf[p] = OwnerOf[o]
  PROVE  OrdersOK' /\ \A k \in Row : RowMoves(k)
<1>1. /\ book \in [Order -> BookRow] /\ today \in Day
      /\ \A x \in Order : book[x] # NoOrder => life[x] # "none"
      /\ \A x \in Order : ItemsOK(x)
  BY DEF WorldInv, OrdersOK
<1>2. \A k \in Row : life[k] # "none" => life'[k] # "none"
  BY DEF WorldInv, RowsOK, RowsStep
<1>3. Order \subseteq Row /\ Product \subseteq Row
  BY DEF Row
<1>4. /\ book' \in [Order -> BookRow] /\ book'[o] = row
      /\ \A x \in Order : x # o => book'[x] = book[x]
  BY <1>1
<1>5. ASSUME NEW x \in Order PROVE ItemsOK(x)'
  <2>1. CASE x = o
    BY <1>4, <2>1 DEF ItemsOK
  <2>2. CASE x # o
    <3>1. ItemsOK(x)
      BY <1>1
    <3> QED BY <1>2, <1>3, <1>4, <2>2, <3>1 DEF ItemsOK
  <2> QED BY <2>1, <2>2
<1>6. ASSUME NEW k \in Row PROVE RowMoves(k)
  <2>1. RowsStep(k)
    OBVIOUS
  <2> QED BY <1>4, <2>1 DEF RowMoves, RowsStep
<1> QED BY <1>1, <1>2, <1>3, <1>4, <1>5, <1>6 DEF OrdersOK

\* What a step of the world does, and keeps.
WorldMoves == WorldInv' /\ \A k \in Row : RowMoves(k)

\* An order that is entered,
LEMMA EnterMoves ==
  ASSUME WorldInv, NEW o \in Order, EnterOrder(o)
  PROVE  WorldMoves
<1>1. PICK items \in Baskets :
        /\ \A i \in DOMAIN items :
             /\ life[items[i].product] # "none"
             /\ OwnerOf[items[i].product] = OwnerOf[o]
        /\ Place(o, items) \/ Sell(o, items)
  BY DEF EnterOrder
<1>2. /\ Rows!Insert(o, OwnerOf[o]) /\ created' = [created EXCEPT ![o] = today]
      /\ UNCHANGED today /\ o \in Row
  BY DEF EnterOrder, Row
<1>3. RowsOK' /\ \A k \in Row : RowsStep(k)
  BY <1>2, RowsInserted DEF WorldInv
<1>4. items \in Seq(Item)
  BY ReportsAssumption DEF Item
<1>5. life[o] = "none" /\ life'[o] # "none"
  BY <1>2 DEF Rows!Insert, WorldInv, RowsOK
<1>6. created' \in [Order -> Nat] /\ \A x \in Order : x # o => created'[x] = created[x]
  BY <1>2 DEF WorldInv, OrdersOK, Day
<1>7. ASSUME NEW i \in DOMAIN items
      PROVE  LET p == items[i].product IN
             p \in Product /\ life'[p] # "none" /\ OwnerOf[p] = OwnerOf[o]
  <2>1. items[i] \in Item
    BY <1>4, ElementOfSeq, LenProperties
  <2>2. items[i].product \in Product /\ items[i].product \in Row
    BY <2>1 DEF Item, Row
  <2>3. \A k \in Row : life[k] # "none" => life'[k] # "none"
    BY <1>3 DEF WorldInv, RowsOK, RowsStep
  <2> QED BY <1>1, <2>2, <2>3
<1>8. ASSUME NEW s \in {"PENDING", "COMPLETED"},
             book' = [book EXCEPT ![o] = [status |-> s, items |-> items]]
      PROVE  WorldMoves
  <2> DEFINE row == [status |-> s, items |-> items]
  <2>1. row \in BookRow /\ row.status = s /\ row.items = items
    BY <1>4 DEF BookRow
  <2> HIDE DEF row
  <2>2. book' = [book EXCEPT ![o] = row]
    BY <1>8 DEF row
  <2>3. OrdersOK' /\ \A k \in Row : RowMoves(k)
    BY <1>2, <1>3, <1>5, <1>6, <1>7, <2>1, <2>2, OrderWritten
  <2> QED BY <1>3, <2>3 DEF WorldMoves, WorldInv
<1> QED BY <1>1, <1>8 DEF Place, Sell

\* one that is closed,
LEMMA CloseMoves ==
  ASSUME WorldInv, NEW o \in Order, CloseOrder(o)
  PROVE  WorldMoves
<1> DEFINE old == book[o]
<1>1. Complete(o) \/ Cancel(o)
  BY DEF CloseOrder
<1>2. UNCHANGED <<life, owner, created, today>>
  BY DEF CloseOrder
<1>3. RowsOK' /\ \A k \in Row : RowsStep(k)
  BY <1>2, RowsUnchanged DEF WorldInv
<1>4. /\ book \in [Order -> BookRow] /\ old \in BookRow /\ created \in [Order -> Nat]
      /\ old # NoOrder => life[o] # "none"
      /\ ItemsOK(o)
  BY DEF WorldInv, OrdersOK
<1>5. old # NoOrder
  BY <1>1 DEF Complete, Cancel, NoOrder
<1>6. ASSUME NEW s \in {"COMPLETED", "CANCELLED"},
             book' = [book EXCEPT ![o].status = s],
             s = "CANCELLED" => old.status = "PENDING"
      PROVE  WorldMoves
  <2> DEFINE row == [old EXCEPT !.status = s]
  <2>1. row \in BookRow /\ row.status = s /\ row.items = old.items
    BY <1>4 DEF BookRow
  <2>2. book' = [book EXCEPT ![o] = row]
    BY <1>6
  <2>3. old.status = "COMPLETED" => row.status = "COMPLETED"
    BY <1>6, <2>1
  <2>4. \A i \in DOMAIN row.items :
          LET p == row.items[i].product IN
          p \in Product /\ life'[p] # "none" /\ OwnerOf[p] = OwnerOf[o]
    BY <1>2, <1>4, <2>1 DEF ItemsOK
  <2> HIDE DEF row
  <2>5. OrdersOK' /\ \A k \in Row : RowMoves(k)
    BY <1>2, <1>3, <1>4, <1>5, <2>1, <2>2, <2>3, <2>4, OrderWritten
  <2> QED BY <1>3, <2>5 DEF WorldMoves, WorldInv
<1> QED BY <1>1, <1>6 DEF Complete, Cancel

\* and every other step of the world, in one lemma.
LEMMA WorldStepMoves == WorldInv /\ (WorldNext \/ UNCHANGED worldVars) => WorldMoves
<1> SUFFICES ASSUME WorldInv, WorldNext \/ UNCHANGED worldVars PROVE WorldMoves
  OBVIOUS
<1>1. ASSUME RowsOK', \A k \in Row : RowsStep(k), UNCHANGED <<book, created>>,
             today' \in Day
      PROVE  WorldMoves
  <2>1. OrdersOK' /\ \A k \in Row : RowMoves(k)
    BY <1>1, OrdersLast
  <2> QED BY <1>1, <2>1 DEF WorldMoves, WorldInv
<1>2. RowsOK /\ today \in Day
  BY DEF WorldInv, OrdersOK
<1>3. ASSUME NEW k \in Category \cup Supplier \cup Product \cup User,
             AddRow(k) \/ RemoveRow(k)
      PROVE  WorldMoves
  <2>1. k \in Row /\ UNCHANGED <<book, created, today>>
    BY <1>3 DEF AddRow, RemoveRow, Row, bookVars
  <2>2. RowsOK' /\ \A x \in Row : RowsStep(x)
    BY <1>2, <1>3, <2>1, RowsInserted, RowsRemoved DEF AddRow, RemoveRow
  <2> QED BY <1>1, <1>2, <2>1, <2>2
<1>4. ASSUME NEW t \in Tenant, RemoveStore(t) PROVE WorldMoves
  <2>1. UNCHANGED <<book, created, today>>
    BY <1>4 DEF RemoveStore, bookVars
  <2>2. RowsOK' /\ \A x \in Row : RowsStep(x)
    BY <1>2, <1>4, RowsRemoved DEF RemoveStore
  <2> QED BY <1>1, <1>2, <2>1, <2>2
<1>5. CASE Midnight
  <2>1. UNCHANGED <<book, created>> /\ UNCHANGED <<life, owner>>
    BY <1>5 DEF Midnight, bookVars
  <2>2. today' \in Day
    BY <1>2, <1>5, ReportsAssumption DEF Midnight, Day
  <2>3. RowsOK' /\ \A x \in Row : RowsStep(x)
    BY <1>2, <2>1, RowsUnchanged
  <2> QED BY <1>1, <2>1, <2>2, <2>3
<1>6. CASE UNCHANGED worldVars \/ \E p \in Product : Restock(p)
  <2>1. /\ UNCHANGED <<book, created>> /\ UNCHANGED <<life, owner>>
        /\ today' = today
    BY <1>6 DEF worldVars, bookVars, Restock
  <2>2. RowsOK' /\ \A x \in Row : RowsStep(x)
    BY <1>2, <2>1, RowsUnchanged
  <2> QED BY <1>1, <1>2, <2>1, <2>2
<1> QED BY <1>3, <1>4, <1>5, <1>6, EnterMoves, CloseMoves DEF WorldNext

\* The world begins calm.
LEMMA WorldInitInv == ReportsInit => WorldInv
<1> SUFFICES ASSUME ReportsInit PROVE WorldInv
  OBVIOUS
<1>1. /\ book = [o \in Order |-> NoOrder]
      /\ created = [o \in Order |-> 0] /\ today = 1
      /\ life = [k \in Row |-> IF k \in Opening THEN "live" ELSE "none"]
      /\ owner = [k \in Row |-> IF k \in Opening THEN OwnerOf[k] ELSE NoTenant]
  BY DEF ReportsInit, BookInit
<1>2. RowsOK
  BY <1>1 DEF RowsOK
<1>3. NoOrder \in BookRow /\ DOMAIN NoOrder.items = {}
  BY EmptySeq DEF NoOrder, BookRow
<1>4. OrdersOK
  <2>1. \A o \in Order : ItemsOK(o)
    BY <1>1, <1>3 DEF ItemsOK
  <2> QED BY <1>1, <1>3, <2>1, ReportsAssumption DEF OrdersOK, Day
<1> QED BY <1>2, <1>4 DEF WorldInv


-----------------------------------------------------------------------------
(***************************************************************************)
(* The pages.  No page asks for a figure twice; the assistant's summary    *)
(* asks for the month after the day, and its best sellers for the names    *)
(* after the orders; only the dashboard of crack-ai counts from the        *)
(* database's CURRENT_DATE, two figures in one statement.                  *)
(***************************************************************************)
Whole(S) == S \cap SoldOn # {} => SoldOn \subseteq S

AllOf(phases) == UNION {UNION phases[i] : i \in DOMAIN phases}

Neat(phases) ==
  /\ phases \in Seq(SUBSET SUBSET Figures)
  /\ \A i \in DOMAIN phases : \A S \in phases[i] : Whole(S)
  /\ \A i, j \in DOMAIN phases : \A S \in phases[i], T \in phases[j] :
       S \cap T = {} \/ (i = j /\ S = T)

Follows(phases, a, b) ==
  \A i \in DOMAIN phases : \A S \in phases[i] : b \in S =>
    \E j \in DOMAIN phases : j < i /\ \E T \in phases[j] : a \in T

\* Which figures a page may have.
Fits(page, F) ==
  /\ F \subseteq Figures
  /\ F \cap Calendar # {} => page \in {"getSummary", "aiDashboardSummary"}
  /\ F \cap SoldOn # {} => page = "toolDashboardSummary"
  /\ F \cap Platform # {} => page \in {"findAllTenants", "getPlatformStats"}

Good(page, phases) ==
  /\ Neat(phases)
  /\ Fits(page, AllOf(phases))
  /\ page # "getSummary" => Follows(phases, "today", "month")
  /\ Follows(phases, "ordered", "named")

\* A page without phases, one with one, and one after another.
LEMMA NoneNeat == Neat(<< >>) /\ AllOf(<< >>) = {}
<1>1. << >> \in Seq(SUBSET SUBSET Figures) /\ DOMAIN << >> = {}
  BY EmptySeq
<1> QED BY <1>1 DEF Neat, AllOf

\* Queries that run side by side are neat,
LEMMA PhaseNeat ==
  ASSUME NEW P \in SUBSET SUBSET Figures,
         \A S, T \in P : S \cap T = {} \/ S = T,
         \A S \in P : Whole(S)
  PROVE  Neat(<<P>>) /\ AllOf(<<P>>) = UNION P
<1>1. <<P>> \in Seq(SUBSET SUBSET Figures) /\ DOMAIN <<P>> = {1} /\ <<P>>[1] = P
  OBVIOUS
<1> QED BY <1>1 DEF Neat, AllOf

\* one query is,
LEMMA OneNeat ==
  ASSUME NEW f \in Figures \ SoldOn
  PROVE  Neat(One(f)) /\ AllOf(One(f)) = {f}
<1> DEFINE P == {{f}}
<1>1. /\ P \in SUBSET SUBSET Figures /\ UNION P = {f}
      /\ \A S, T \in P : S \cap T = {} \/ S = T
      /\ \A S \in P : Whole(S)
  BY DEF Whole
<1> HIDE DEF P
<1>2. Neat(<<P>>) /\ AllOf(<<P>>) = {f}
  BY <1>1, PhaseNeat
<1> QED BY <1>2 DEF P, One

\* and queries that run after neat ones.
LEMMA JoinNeat ==
  ASSUME NEW x, NEW y, Neat(x), Neat(y), AllOf(x) \cap AllOf(y) = {}
  PROVE  /\ Neat(x \o y) /\ AllOf(x \o y) = AllOf(x) \cup AllOf(y)
         /\ \A a, b : a \in AllOf(x) /\ b \notin AllOf(x) => Follows(x \o y, a, b)
         /\ \A a, b : Follows(x, a, b) /\ b \notin AllOf(y) => Follows(x \o y, a, b)
         /\ \A a, b : Follows(y, a, b) /\ b \notin AllOf(x) => Follows(x \o y, a, b)
<1> DEFINE z == x \o y
           m == Len(x)
           n == Len(y)
<1>1. x \in Seq(SUBSET SUBSET Figures) /\ y \in Seq(SUBSET SUBSET Figures)
  BY DEF Neat
<1>2. /\ m \in Nat /\ n \in Nat /\ DOMAIN x = 1..m /\ DOMAIN y = 1..n
      /\ z \in Seq(SUBSET SUBSET Figures) /\ DOMAIN z = 1..(m + n)
      /\ \A i \in 1..(m + n) : z[i] = IF i <= m THEN x[i] ELSE y[i - m]
  <2>1. z \in Seq(SUBSET SUBSET Figures) /\ Len(z) = m + n
        /\ \A i \in 1..(m + n) : z[i] = IF i <= m THEN x[i] ELSE y[i - m]
    BY <1>1, ConcatProperties
  <2> QED BY <1>1, <2>1, LenProperties
<1> HIDE DEF z, m, n
<1>3. /\ \A i \in 1..m : i \in 1..(m + n) /\ z[i] = x[i]
      /\ \A i \in 1..n : i + m \in 1..(m + n) /\ z[i + m] = y[i]
      /\ \A i \in 1..(m + n) : \/ i \in 1..m /\ z[i] = x[i]
                               \/ i - m \in 1..n /\ z[i] = y[i - m]
  BY <1>2
<1>4. \A f : /\ f \in AllOf(x) <=> \E i \in 1..m : \E S \in x[i] : f \in S
             /\ f \in AllOf(y) <=> \E i \in 1..n : \E S \in y[i] : f \in S
             /\ f \in AllOf(z) <=> \E i \in 1..(m + n) : \E S \in z[i] : f \in S
  BY <1>2 DEF AllOf
<1>5. AllOf(z) = AllOf(x) \cup AllOf(y)
  BY <1>3, <1>4
<1>6. Neat(z)
  <2>1. \A i \in 1..(m + n) : \A S \in z[i] : Whole(S)
    BY <1>2, <1>3 DEF Neat
  <2>2. ASSUME NEW i \in 1..(m + n), NEW j \in 1..(m + n),
               NEW S \in z[i], NEW T \in z[j]
        PROVE  S \cap T = {} \/ (i = j /\ S = T)
    <3>1. CASE i \in 1..m /\ z[i] = x[i] /\ j \in 1..m /\ z[j] = x[j]
      BY <1>2, <2>2, <3>1 DEF Neat
    <3>2. CASE i - m \in 1..n /\ z[i] = y[i - m] /\ j - m \in 1..n /\ z[j] = y[j - m]
      <4> DEFINE p == i - m
                 q == j - m
      <4>a. p \in DOMAIN y /\ q \in DOMAIN y /\ S \in y[p] /\ T \in y[q]
        BY <1>2, <2>2, <3>2
      <4> HIDE DEF p, q
      <4>b. S \cap T = {} \/ (p = q /\ S = T)
        BY <4>a DEF Neat
      <4>1. S \cap T = {} \/ (i - m = j - m /\ S = T)
        BY <4>b DEF p, q
      <4>2. i - m = j - m => i = j
        <5>1. m \in Int /\ i \in Int /\ j \in Int
          BY <1>2
        <5> QED BY <5>1
      <4> QED BY <4>1, <4>2
    <3>3. CASE i \in 1..m /\ z[i] = x[i] /\ j - m \in 1..n /\ z[j] = y[j - m]
      BY <1>4, <2>2, <3>3
    <3>4. CASE i - m \in 1..n /\ z[i] = y[i - m] /\ j \in 1..m /\ z[j] = x[j]
      BY <1>4, <2>2, <3>4
    <3> QED BY <1>3, <3>1, <3>2, <3>3, <3>4
  <2> QED BY <1>2, <2>1, <2>2 DEF Neat
<1>7. ASSUME NEW a, NEW b, a \in AllOf(x), b \notin AllOf(x)
      PROVE  Follows(z, a, b)
  <2> SUFFICES ASSUME NEW i \in 1..(m + n), NEW S \in z[i], b \in S
               PROVE  \E j \in 1..(m + n) : j < i /\ \E T \in z[j] : a \in T
    BY <1>2 DEF Follows
  <2>1. i - m \in 1..n
    BY <1>3, <1>4, <1>7
  <2>2. PICK j \in 1..m : \E T \in x[j] : a \in T
    BY <1>4, <1>7
  <2>3. j \in 1..(m + n) /\ z[j] = x[j]
    BY <1>3
  <2>4. j < i
    BY <1>2, <2>1
  <2> QED BY <2>2, <2>3, <2>4
<1>8. ASSUME NEW a, NEW b, Follows(x, a, b), b \notin AllOf(y)
      PROVE  Follows(z, a, b)
  <2> SUFFICES ASSUME NEW i \in 1..(m + n), NEW S \in z[i], b \in S
               PROVE  \E j \in 1..(m + n) : j < i /\ \E T \in z[j] : a \in T
    BY <1>2 DEF Follows
  <2>1. i \in 1..m /\ S \in x[i]
    BY <1>3, <1>4, <1>8
  <2>2. PICK j \in 1..m : j < i /\ \E T \in x[j] : a \in T
    BY <1>2, <1>8, <2>1 DEF Follows
  <2> QED BY <1>3, <2>2
<1>9. ASSUME NEW a, NEW b, Follows(y, a, b), b \notin AllOf(x)
      PROVE  Follows(z, a, b)
  <2> SUFFICES ASSUME NEW i \in 1..(m + n), NEW S \in z[i], b \in S
               PROVE  \E j \in 1..(m + n) : j < i /\ \E T \in z[j] : a \in T
    BY <1>2 DEF Follows
  <2>1. i - m \in 1..n /\ S \in y[i - m]
    BY <1>3, <1>4, <1>9
  <2>2. PICK j \in 1..n : j < i - m /\ \E T \in y[j] : a \in T
    BY <1>2, <1>9, <2>1 DEF Follows
  <2>3. j + m \in 1..(m + n) /\ z[j + m] = y[j]
    BY <1>3
  <2>4. j + m < i
    BY <1>2, <2>1, <2>2
  <2> QED BY <2>2, <2>3, <2>4
<1> QED BY <1>5, <1>6, <1>7, <1>8, <1>9 DEF z


-----------------------------------------------------------------------------
\* Figures that any page may have, with nothing to be asked before them.
Plain == Lastings \ (Calendar \cup SoldOn \cup Platform \cup {"access"})

Stocked == Plain \cup {"inStock", "lowStock"}

\* What holds of pages by their names.
GoodPages(P) == \A page \in DOMAIN P : Good(page, P[page])

\* Where nothing is asked that something must come before.
LEMMA NothingFollows ==
  ASSUME NEW x, NEW a, NEW b, b \notin AllOf(x) PROVE Follows(x, a, b)
BY DEF Follows, AllOf

\* A page of plain figures, checked for the user's access or not.
LEMMA PlainPage ==
  ASSUME NEW page, NEW x, Neat(x), AllOf(x) \subseteq Stocked \cup {"access"}
  PROVE  Good(page, x)
<1> DEFINE F == AllOf(x)
<1>1. "month" \notin F /\ "named" \notin F
  BY DEF Stocked, Plain, Calendar, Lastings, Platform, Shared, Strict, OwnSalesOnly
<1>2. Follows(x, "today", "month") /\ Follows(x, "ordered", "named")
  BY <1>1, NothingFollows
<1>3. Fits(page, F)
  BY DEF Stocked, Plain, Calendar, Platform, SoldOn, Fits, Figures, Swinging, Strict,
         Lastings
<1> QED BY <1>2, <1>3 DEF Good

\* A page of one query.
LEMMA OnePage ==
  ASSUME NEW page, NEW f \in Stocked
  PROVE  Good(page, One(f)) /\ Neat(One(f)) /\ "access" \notin AllOf(One(f))
<1>1. f \in Figures \ SoldOn /\ f # "access"
  BY DEF Stocked, Plain, Figures, Swinging, SoldOn
<1>2. Neat(One(f)) /\ AllOf(One(f)) = {f}
  BY <1>1, OneNeat
<1> QED BY <1>1, <1>2, PlainPage

\* The access check comes before neat queries.
LEMMA GuardedNeat ==
  ASSUME NEW x, Neat(x), "access" \notin AllOf(x)
  PROVE  /\ Neat(Guarded(x)) /\ AllOf(Guarded(x)) = {"access"} \cup AllOf(x)
         /\ \A a, b : Follows(x, a, b) /\ b # "access" => Follows(Guarded(x), a, b)
<1>1. Neat(One("access")) /\ AllOf(One("access")) = {"access"}
  BY OneNeat DEF Figures, Lastings, Strict, SoldOn
<1>2. AllOf(One("access")) \cap AllOf(x) = {}
  BY <1>1
<1> QED BY <1>1, <1>2, JoinNeat DEF Guarded

\* A page behind the access check.
LEMMA GuardedPage ==
  ASSUME NEW page, NEW x, Neat(x), AllOf(x) \subseteq Stocked
  PROVE  Good(page, Guarded(x))
<1>1. "access" \notin AllOf(x)
  BY DEF Stocked, Plain
<1>2. Neat(Guarded(x)) /\ AllOf(Guarded(x)) \subseteq Stocked \cup {"access"}
  BY <1>1, GuardedNeat
<1> QED BY <1>2, PlainPage

\* A page of one figure, behind the check of the user's access.
LEMMA GuardedOne == ASSUME NEW page, NEW f \in Stocked PROVE Good(page, Guarded(One(f)))
<1>1. f \in Figures \ SoldOn
  BY DEF Stocked, Plain, Figures, Swinging, SoldOn
<1>2. Neat(One(f)) /\ AllOf(One(f)) \subseteq Stocked
  BY <1>1, OneNeat
<1> QED BY <1>2, GuardedPage

\* A page that asks nothing.
LEMMA EmptyPage == ASSUME NEW page PROVE Good(page, << >>) /\ Good(page, Guarded(<< >>))
<1>1. Neat(<< >>) /\ AllOf(<< >>) \subseteq Stocked
  BY NoneNeat
<1>2. AllOf(<< >>) \subseteq Stocked \cup {"access"}
  BY <1>1
<1> QED BY <1>1, <1>2, PlainPage, GuardedPage

\* The dashboard's summary asks for everything side by side.
LEMMA SummaryGood == Good("getSummary", getSummary)
<1> DEFINE P == {{"products"}, {"inStock"}, {"suppliers"}, {"categories"},
                 {"today"}, {"month"}, {"orders"}, {"lowStock"}}
<1>1. /\ P \in SUBSET SUBSET Figures
      /\ \A S, T \in P : S \cap T = {} \/ S = T
      /\ \A S \in P : Whole(S)
  BY DEF Figures, Lastings, Shared, Swinging, Whole, SoldOn
<1>2. UNION P = {"products", "inStock", "suppliers", "categories", "today", "month",
                 "orders", "lowStock"}
  OBVIOUS
<1>3. getSummary = <<P>>
  BY DEF getSummary
<1> HIDE DEF P
<1>4. Neat(getSummary) /\ AllOf(getSummary) = UNION P
  BY <1>1, <1>3, PhaseNeat
<1>5. Fits("getSummary", AllOf(getSummary)) /\ "named" \notin AllOf(getSummary)
  BY <1>1, <1>2, <1>4 DEF Fits, SoldOn, Platform
<1>6. Follows(getSummary, "ordered", "named")
  BY <1>5, NothingFollows
<1> QED BY <1>4, <1>5, <1>6 DEF Good

\* The platform's pages ask for rows of all stores.
LEMMA PlatformGood == GoodPages(PlatformPages)
<1> DEFINE A == {{"tenants", "everyUser", "everyProduct", "everyOrder"}, {"total"}}
           B == {{"tenants"}, {"everyUser"}, {"everyProduct"}, {"everyOrder"}}
<1>1. ASSUME NEW page \in {"findAllTenants", "getPlatformStats"}, NEW P \in {A, B}
      PROVE  Good(page, <<P>>)
  <2>1. /\ P \in SUBSET SUBSET Figures
        /\ \A S, T \in P : S \cap T = {} \/ S = T
        /\ \A S \in P : Whole(S)
    BY <1>1 DEF Figures, Lastings, Platform, Whole, SoldOn
  <2>2. UNION P \subseteq Platform
    BY <1>1 DEF Platform
  <2> HIDE DEF A, B
  <2>3. Neat(<<P>>) /\ AllOf(<<P>>) = UNION P
    BY <2>1, PhaseNeat
  <2>4. AllOf(<<P>>) \subseteq Platform
    BY <2>2, <2>3
  <2>5. Fits(page, AllOf(<<P>>))
    BY <1>1, <2>4 DEF Fits, Figures, Lastings, Platform, Calendar, SoldOn
  <2>6. Follows(<<P>>, "today", "month") /\ Follows(<<P>>, "ordered", "named")
    <3>1. "month" \notin AllOf(<<P>>) /\ "named" \notin AllOf(<<P>>)
      BY <2>4 DEF Platform
    <3> QED BY <3>1, NothingFollows
  <2> QED BY <2>3, <2>5, <2>6 DEF Good
<1>2. findAllTenants = <<A>> /\ getPlatformStats = <<B>>
  BY DEF findAllTenants, getPlatformStats
<1> HIDE DEF A, B
<1>3. Good("findAllTenants", findAllTenants) /\ Good("getPlatformStats", getPlatformStats)
  BY <1>1, <1>2
<1> QED BY <1>3 DEF GoodPages, PlatformPages

\* The summary of crack-ai asks for the day's and the month's sales at once.
LEMMA ToolSummaryGood == Good("toolDashboardSummary", toolDashboardSummary)
<1> DEFINE A == {{"products", "inStock", "suppliers", "categories", "lowStock"}}
           B == {{"soldToday", "soldThisMonth"}}
           x == <<A>>
           y == <<B>>
           page == toolDashboardSummary
<1>1. /\ A \in SUBSET SUBSET Figures /\ B \in SUBSET SUBSET Figures
      /\ \A S, T \in A : S \cap T = {} \/ S = T
      /\ \A S, T \in B : S \cap T = {} \/ S = T
      /\ \A S \in A \cup B : Whole(S)
      /\ UNION A = {"products", "inStock", "suppliers", "categories", "lowStock"}
      /\ UNION B = {"soldToday", "soldThisMonth"}
  BY DEF Figures, Lastings, Shared, Strict, OwnSalesOnly, Swinging, Whole, SoldOn
<1>2. page = <<A, B>>
  BY DEF toolDashboardSummary
<1> HIDE DEF A, B
<1>3. /\ Neat(x) /\ AllOf(x) = UNION A
      /\ Neat(y) /\ AllOf(y) = UNION B
  BY <1>1, PhaseNeat
<1>4. page = x \o y
  <2> DEFINE R == SUBSET SUBSET Figures
  <2>1. /\ x \in Seq(R) /\ y \in Seq(R) /\ page \in Seq(R)
        /\ Len(x) = 1 /\ Len(y) = 1 /\ Len(page) = 2
        /\ x[1] = A /\ y[1] = B /\ page[1] = A /\ page[2] = B
    BY <1>1, <1>2
  <2> HIDE DEF x, y, page, R
  <2>2. /\ x \o y \in Seq(R) /\ Len(x \o y) = 2
        /\ (x \o y)[1] = A /\ (x \o y)[2] = B
    <3>1. /\ x \o y \in Seq(R) /\ Len(x \o y) = Len(x) + Len(y)
          /\ \A i \in 1..(Len(x) + Len(y)) :
               (x \o y)[i] = IF i <= Len(x) THEN x[i] ELSE y[i - Len(x)]
      BY <2>1, ConcatProperties
    <3> DEFINE c == x \o y
    <3> HIDE DEF c
    <3>2. /\ c \in Seq(R) /\ Len(c) = 2
          /\ \A i \in 1..2 : c[i] = IF i <= 1 THEN x[i] ELSE y[i - 1]
      BY <2>1, <3>1 DEF c
    <3>3. c[1] = A /\ c[2] = B
      BY <2>1, <3>2
    <3> QED BY <3>2, <3>3 DEF c
  <2> QED BY <2>1, <2>2, SeqEqual
<1> HIDE DEF x, y, page
<1>5. AllOf(x) \cap AllOf(y) = {}
  BY <1>1, <1>3
<1>6. Neat(page) /\ AllOf(page) = AllOf(x) \cup AllOf(y)
  BY <1>3, <1>4, <1>5, JoinNeat
<1>7. "month" \notin AllOf(page) /\ "named" \notin AllOf(page)
  BY <1>1, <1>3, <1>6
<1>8. Follows(page, "today", "month") /\ Follows(page, "ordered", "named")
  BY <1>7, NothingFollows
<1>9. Fits("toolDashboardSummary", AllOf(page))
  BY <1>1, <1>3, <1>6
     DEF Fits, Figures, Lastings, Shared, Strict, OwnSalesOnly, Swinging, Platform,
         Calendar
<1> QED BY <1>6, <1>8, <1>9 DEF Good, page

\* The assistant's summary asks for the month after the day.
LEMMA AiSummaryGood == Good("aiDashboardSummary", aiDashboardSummary)
<1> DEFINE x == One("products") \o One("lowStock")
           y == x \o One("today")
           z == y \o One("month")
<1>1. \A f \in {"products", "lowStock", "today", "month"} :
        Neat(One(f)) /\ AllOf(One(f)) = {f}
  BY OneNeat DEF Figures, Lastings, Shared, Swinging, SoldOn
<1>2. Neat(x) /\ AllOf(x) = {"products", "lowStock"}
  <2>1. AllOf(One("products")) \cap AllOf(One("lowStock")) = {}
    BY <1>1
  <2>2. Neat(x) /\ AllOf(x) = AllOf(One("products")) \cup AllOf(One("lowStock"))
    BY <1>1, <2>1, JoinNeat
  <2> QED BY <1>1, <2>2
<1> HIDE DEF x
<1>3. Neat(y) /\ AllOf(y) = {"products", "lowStock", "today"}
  <2>1. AllOf(x) \cap AllOf(One("today")) = {}
    BY <1>1, <1>2
  <2>2. Neat(y) /\ AllOf(y) = AllOf(x) \cup AllOf(One("today"))
    BY <1>1, <1>2, <2>1, JoinNeat
  <2> QED BY <1>1, <1>2, <2>2
<1> HIDE DEF y
<1>4. /\ Neat(z) /\ AllOf(z) = {"products", "lowStock", "today", "month"}
      /\ Follows(z, "today", "month")
  <2>1. AllOf(y) \cap AllOf(One("month")) = {}
    BY <1>1, <1>3
  <2>2. /\ Neat(z) /\ AllOf(z) = AllOf(y) \cup AllOf(One("month"))
        /\ \A a, b : a \in AllOf(y) /\ b \notin AllOf(y) => Follows(z, a, b)
    BY <1>1, <1>3, <2>1, JoinNeat
  <2> QED BY <1>1, <1>3, <2>2
<1>5. aiDashboardSummary = Guarded(z)
  BY DEF aiDashboardSummary, x, y
<1> HIDE DEF z
<1> DEFINE page == aiDashboardSummary
<1>6. /\ Neat(page) /\ Follows(page, "today", "month")
      /\ AllOf(page) = {"access", "products", "lowStock", "today", "month"}
  BY <1>4, <1>5, GuardedNeat
<1> HIDE DEF page
<1>7. Follows(page, "ordered", "named")
  BY <1>6, NothingFollows
<1>8. Fits("aiDashboardSummary", AllOf(page))
  BY <1>6 DEF Fits, Figures, Lastings, Shared, Strict, Swinging, SoldOn, Platform
<1> QED BY <1>6, <1>7, <1>8 DEF Good, page

\* The best sellers are named after their orders were found.
LEMMA TopProductsGood == Good("aiTopProducts", aiTopProducts)
<1> DEFINE z == One("ordered") \o One("named")
           page == aiTopProducts
<1>1. \A f \in {"ordered", "named"} : Neat(One(f)) /\ AllOf(One(f)) = {f}
  BY OneNeat DEF Figures, Lastings, Strict, Swinging, SoldOn
<1>2. AllOf(One("ordered")) \cap AllOf(One("named")) = {}
  BY <1>1
<1>3. /\ Neat(z) /\ AllOf(z) = AllOf(One("ordered")) \cup AllOf(One("named"))
      /\ \A a, b : a \in AllOf(One("ordered")) /\ b \notin AllOf(One("ordered")) =>
           Follows(z, a, b)
  BY <1>1, <1>2, JoinNeat
<1>4. AllOf(z) = {"ordered", "named"} /\ Follows(z, "ordered", "named")
  BY <1>1, <1>3
<1>5. page = Guarded(z)
  BY DEF aiTopProducts
<1> HIDE DEF z, page
<1>6. /\ Neat(page) /\ Follows(page, "ordered", "named")
      /\ AllOf(page) = {"access", "ordered", "named"}
  BY <1>3, <1>4, <1>5, GuardedNeat
<1>7. Follows(page, "today", "month")
  BY <1>6, NothingFollows
<1>8. Fits("aiTopProducts", AllOf(page))
  BY <1>6 DEF Fits, Figures, Lastings, Strict, Swinging, SoldOn, Platform, Calendar
<1> QED BY <1>6, <1>7, <1>8 DEF Good, page

\* The two queries of the sales report for the assistant, for staff and for
\* administrators.
LEMMA SalesReportGood == ASSUME NEW v PROVE Good("aiSalesReport", aiSalesReport(v))
<1> DEFINE A == {{"ownOrders"}, {"ownTotal"}}
           B == {{"orders"}, {"allTotal"}}
<1>1. ASSUME NEW P \in {A, B} PROVE Good("aiSalesReport", Guarded(<<P>>))
  <2>1. /\ P \in SUBSET SUBSET Figures
        /\ \A S, T \in P : S \cap T = {} \/ S = T
        /\ \A S \in P : Whole(S)
    <3> DEFINE four == {"ownOrders", "ownTotal", "orders", "allTotal"}
    <3>1. \A S \in P : \E f \in four : S = {f}
      BY <1>1
    <3>2. four \subseteq Figures /\ four \cap SoldOn = {}
      BY DEF Figures, Lastings, Shared, SoldOn
    <3> HIDE DEF four, A, B
    <3>3. \A S \in P : S \in SUBSET Figures
      BY <3>1, <3>2
    <3>4. \A S, T \in P : S \cap T = {} \/ S = T
      BY <3>1
    <3>5. \A S \in P : Whole(S)
      BY <3>1, <3>2 DEF Whole
    <3> QED BY <3>3, <3>4, <3>5
  <2>a. UNION P \subseteq Stocked
    <3>1. {"ownOrders", "ownTotal", "orders", "allTotal"} \subseteq Stocked
      BY DEF Stocked, Plain, Lastings, Shared, Calendar, SoldOn, Platform
    <3>2. UNION P \subseteq {"ownOrders", "ownTotal", "orders", "allTotal"}
      BY <1>1
    <3> QED BY <3>1, <3>2
  <2> HIDE DEF A, B
  <2>2. Neat(<<P>>) /\ AllOf(<<P>>) \subseteq Stocked
    BY <2>1, <2>a, PhaseNeat
  <2> DEFINE x == <<P>>
  <2> HIDE DEF x
  <2>3. Good("aiSalesReport", Guarded(x))
    BY <2>2, GuardedPage DEF x
  <2> QED BY <2>3 DEF x
<1>2. aiSalesReport(v) = Guarded(<<A>>) \/ aiSalesReport(v) = Guarded(<<B>>)
  BY DEF aiSalesReport
<1> HIDE DEF A, B
<1> QED BY <1>1, <1>2

\* Two good pages in one.
LEMMA MergeGood ==
  ASSUME NEW f, NEW g, GoodPages(f), GoodPages(g)
  PROVE  GoodPages(Merge(f, g)) /\ DOMAIN Merge(f, g) = DOMAIN f \cup DOMAIN g
BY DEF GoodPages, Merge

\* Every page that anyone may ask for.
LEMMA PagesGood ==
  ASSUME NEW v \in Viewer, NEW page \in DOMAIN Pages(v)
  PROVE  /\ Good(page, Pages(v)[page])
         /\ page \in {"findAllTenants", "getPlatformStats"} => v.role = "SUPER_ADMIN"
<1>1. {"products", "suppliers", "categories", "users", "orders", "trend", "sold",
       "completed", "ownCompleted", "lowStock"} \subseteq Stocked
  BY DEF Stocked, Plain, Lastings, Shared, Strict, OwnSalesOnly, Calendar, SoldOn,
         Platform
<1>2. /\ GoodPages(DashboardPages)
      /\ DOMAIN DashboardPages =
           {"getSummary", "getTopProducts", "getSalesTrend", "getInventoryValue"}
  <2>1. /\ Good("getTopProducts", One("sold")) /\ Good("getSalesTrend", One("trend"))
        /\ Good("getInventoryValue", One("products"))
    BY <1>1, OnePage
  <2> QED BY <2>1, SummaryGood DEF GoodPages, DashboardPages
<1>3. /\ GoodPages(ReportsPages)
      /\ DOMAIN ReportsPages = {"getSalesReport", "getInventoryReport", "getProfitLoss"}
  <2>1. /\ Good("getSalesReport", One("orders")) /\ Good("getProfitLoss", One("completed"))
        /\ Good("getInventoryReport", One("products"))
    BY <1>1, OnePage
  <2> QED BY <2>1 DEF GoodPages, ReportsPages
<1>4. /\ GoodPages(ExportsPages)
      /\ DOMAIN ExportsPages =
           {"exportSalesCsv", "exportInventoryCsv", "exportProfitLossCsv"}
  <2>1. /\ Good("exportSalesCsv", One("orders"))
        /\ Good("exportProfitLossCsv", One("completed"))
        /\ Good("exportInventoryCsv", One("products"))
    BY <1>1, OnePage
  <2> QED BY <2>1 DEF GoodPages, ExportsPages
<1>5. /\ GoodPages(AiPages(v))
      /\ DOMAIN AiPages(v) =
           {"aiDashboardSummary", "aiLowStockProducts", "aiTopProducts",
            "aiSearchProducts", "aiSalesReport", "aiProfitLoss", "aiCategories",
            "aiSuppliers", "aiUsers"}
  <2>1. /\ Good("aiLowStockProducts", aiLowStockProducts)
        /\ Good("aiSearchProducts", aiSearchProducts)
        /\ Good("aiCategories", aiCategories)
        /\ Good("aiSuppliers", aiSuppliers)
    BY <1>1, GuardedOne
       DEF aiLowStockProducts, aiSearchProducts, aiCategories, aiSuppliers
  <2>2. Good("aiProfitLoss", aiProfitLoss(v)) /\ Good("aiUsers", aiUsers(v))
    BY <1>1, GuardedOne, EmptyPage DEF aiProfitLoss, aiUsers
  <2> QED BY <2>1, <2>2, AiSummaryGood, TopProductsGood, SalesReportGood
          DEF GoodPages, AiPages
<1>6. /\ GoodPages(ProductTools(v))
      /\ DOMAIN ProductTools(v) = {"toolLowStock", "toolTopProducts", "toolSearchProducts"}
  <2>1. /\ Good("toolLowStock", Restricted(v, One("lowStock")))
        /\ Good("toolTopProducts", One("ownCompleted"))
        /\ Good("toolSearchProducts", One("products"))
    BY <1>1, OnePage, EmptyPage DEF Restricted
  <2> QED BY <2>1 DEF GoodPages, ProductTools
<1>7. /\ GoodPages(ToolPages(v))
      /\ DOMAIN ToolPages(v) =
           {"toolLowStock", "toolTopProducts", "toolSearchProducts",
            "toolDashboardSummary", "toolCategories", "toolSuppliers",
            "toolInventoryValue", "toolProfitLoss"}
  <2> DEFINE others ==
        [toolDashboardSummary |-> toolDashboardSummary,
         toolCategories       |-> toolCategories,
         toolSuppliers        |-> toolSuppliers(v),
         toolInventoryValue   |-> toolInventoryValue(v),
         toolProfitLoss       |-> toolProfitLoss(v)]
  <2>1. /\ Good("toolCategories", toolCategories)
        /\ Good("toolSuppliers", toolSuppliers(v))
        /\ Good("toolInventoryValue", toolInventoryValue(v))
        /\ Good("toolProfitLoss", toolProfitLoss(v))
    BY <1>1, OnePage, EmptyPage
       DEF Restricted, toolCategories, toolSuppliers, toolInventoryValue, toolProfitLoss
  <2>2. /\ GoodPages(others)
        /\ DOMAIN others = {"toolDashboardSummary", "toolCategories", "toolSuppliers",
                            "toolInventoryValue", "toolProfitLoss"}
    BY <2>1, ToolSummaryGood DEF GoodPages
  <2>3. ToolPages(v) = Merge(ProductTools(v), others)
    BY DEF ToolPages
  <2> HIDE DEF others
  <2>4. /\ GoodPages(ToolPages(v))
        /\ DOMAIN ToolPages(v) = DOMAIN ProductTools(v) \cup DOMAIN others
    BY <1>6, <2>2, <2>3, MergeGood
  <2> QED BY <1>6, <2>2, <2>4
<1>8. /\ GoodPages(PlatformPages)
      /\ DOMAIN PlatformPages = {"findAllTenants", "getPlatformStats"}
  BY PlatformGood DEF PlatformPages
<1>9. /\ GoodPages(AdminPages)
      /\ DOMAIN AdminPages
           = DOMAIN DashboardPages \cup (DOMAIN ReportsPages \cup DOMAIN ExportsPages)
  <2>1. /\ GoodPages(Merge(ReportsPages, ExportsPages))
        /\ DOMAIN Merge(ReportsPages, ExportsPages)
             = DOMAIN ReportsPages \cup DOMAIN ExportsPages
    BY <1>3, <1>4, MergeGood
  <2> QED BY <1>2, <2>1, MergeGood DEF AdminPages
<1>10. /\ GoodPages(MemberPages(v))
       /\ DOMAIN MemberPages(v) = DOMAIN AiPages(v) \cup DOMAIN ToolPages(v)
  BY <1>5, <1>7, MergeGood DEF MemberPages
<1>11. v.role \in {"ADMIN", "STAFF", "SUPER_ADMIN"}
  BY ReportsAssumption DEF Role
<1>12. CASE v.role = "SUPER_ADMIN"
  <2>1. Pages(v) = Merge(AdminPages, PlatformPages)
    BY <1>12 DEF Pages
  <2>2. GoodPages(Pages(v))
    BY <1>8, <1>9, <2>1, MergeGood
  <2> QED BY <1>12, <2>2 DEF GoodPages
<1>13. CASE v.role = "ADMIN"
  <2>1. Pages(v) = Merge(AdminPages, MemberPages(v))
    BY <1>13 DEF Pages
  <2>2. /\ GoodPages(Pages(v))
        /\ DOMAIN Pages(v) = DOMAIN AdminPages \cup DOMAIN MemberPages(v)
    BY <1>9, <1>10, <2>1, MergeGood
  <2>3. page \notin {"findAllTenants", "getPlatformStats"}
    BY <1>2, <1>3, <1>4, <1>5, <1>7, <1>9, <1>10, <2>2
  <2> QED BY <2>2, <2>3 DEF GoodPages
<1>14. CASE v.role = "STAFF"
  <2>1. Pages(v) = Merge(DashboardPages, MemberPages(v))
    BY <1>14 DEF Pages
  <2>2. /\ GoodPages(Pages(v))
        /\ DOMAIN Pages(v) = DOMAIN DashboardPages \cup DOMAIN MemberPages(v)
    BY <1>2, <1>10, <2>1, MergeGood
  <2>3. page \notin {"findAllTenants", "getPlatformStats"}
    BY <1>2, <1>5, <1>7, <1>10, <2>2
  <2> QED BY <2>2, <2>3 DEF GoodPages
<1> QED BY <1>11, <1>12, <1>13, <1>14


-----------------------------------------------------------------------------
(***************************************************************************)
(* The page that is being read.  A row that a figure was asked for or has  *)
(* counted is one that belongs there still, unless it was removed.         *)
(***************************************************************************)
World == [life |-> life, owner |-> owner, book |-> book, created |-> created]

\* Row k is in figure f of viewer v, in the world w, or was before it was
\* removed; leaving aside how old it is.
Belongs(f, v, k, w) ==
  /\ k \in TableOf(f) /\ w.life[k] # "none"
  /\ f \in Shared \cup {"inStock", "named"} /\ v.tenantId # NoTenant =>
       w.owner[k] = v.tenantId
  /\ f \in Strict \cup {"lowStock"} => w.owner[k] = v.tenantId
  /\ f \in {"ownOrders", "ownTotal"} => Seller[k] = v.id
  /\ f \in OwnSalesOnly /\ v.role # "ADMIN" => Seller[k] = v.id
  /\ f \in {"completed", "sold", "ownCompleted"} => w.book[k].status = "COMPLETED"
  /\ f = "access" => k = v.id

\* Row k is in figure f now.
In(f, v, since, k, w) ==
  /\ Listed(f, v, k, w.life[k], w.owner[k],
            IF k \in Order THEN w.book[k].status ELSE "NONE")
  /\ Recent(f, since, w.created[k])

Shaped(r) ==
  /\ {"page", "viewer", "pending", "todo", "since", "asked", "got"} \subseteq DOMAIN r
  /\ r.viewer \in Viewer
  /\ {r.since.today, r.since.month} \subseteq Day
  /\ r.page \in {"findAllTenants", "getPlatformStats"} => r.viewer.tenantId = NoTenant

\* What the statements ahead have yet to read, and in which order.
AheadOf(pending, todo) == (UNION pending) \cup AllOf(todo)

After(pending, todo, read, a, b) ==
  /\ b \in read \cup (UNION pending) => a \in read
  /\ \A i \in DOMAIN todo : b \in UNION todo[i] =>
       \/ a \in read \cup (UNION pending)
       \/ \E j \in DOMAIN todo : j < i /\ a \in UNION todo[j]

Planned(page, pending, todo, read) ==
  /\ Neat(todo)
  /\ \A S \in pending : Whole(S)
  /\ \A S, T \in pending : S \cap T = {} \/ S = T
  /\ (UNION pending) \cap AllOf(todo) = {}
  /\ AheadOf(pending, todo) \cap read = {}
  /\ Fits(page, AheadOf(pending, todo) \cup read)
  /\ page # "getSummary" => After(pending, todo, read, "today", "month")
  /\ After(pending, todo, read, "ordered", "named")

AskedOK(r, w) ==
  /\ DOMAIN r.asked \subseteq Lastings
  /\ \A f \in DOMAIN r.asked : \A k \in r.asked[f] : Belongs(f, r.viewer, k, w)

GotOK(r, w) ==
  /\ \A f \in DOMAIN r.got : \A k \in r.got[f] :
       Belongs(f, r.viewer, k, w) /\ Recent(f, r.since, w.created[k])
  /\ \A f \in DOMAIN r.got \cap DOMAIN r.asked : \A k \in r.asked[f] :
       In(f, r.viewer, r.since, k, w) => k \in r.got[f]

\* MonthCovers, for any page and any world.
Covers(r, w, day, month) ==
  /\ {day, month} \subseteq DOMAIN r.got
  /\ r.page # "getSummary"
  /\ r.since.month <= r.since.today
  => \A k \in r.got[day] : k \in r.got[month] \/ w.life[k] = "removed"

NamedOK(r, w) ==
  "named" \in DOMAIN r.got =>
    \A o \in r.got["ordered"] : \A i \in DOMAIN w.book[o].items :
      LET p == w.book[o].items[i].product IN
      p \in r.got["named"] \/ w.life[p] = "removed"

PageOK(r, w) ==
  /\ Shaped(r)
  /\ Planned(r.page, r.pending, r.todo, DOMAIN r.got)
  /\ AskedOK(r, w)
  /\ GotOK(r, w)
  /\ Covers(r, w, "today", "month")
  /\ Covers(r, w, "soldToday", "soldThisMonth")
  /\ NamedOK(r, w)

ReadingInv == WorldInv /\ (reading # Closed => PageOK(reading, World))


\* What WorldInv says of a world, and RowMoves of two.
Calm(w) ==
  /\ w.life \in [Row -> {"none", "live", "removed"}]
  /\ w.created \in [Order -> Nat]
  /\ \A k \in Row : w.life[k] # "none" => w.owner[k] = OwnerOf[k]
  /\ \A o \in Order : \A i \in DOMAIN w.book[o].items :
       LET p == w.book[o].items[i].product IN
       p \in Product /\ w.life[p] # "none" /\ OwnerOf[p] = OwnerOf[o]

Moved(w, x) ==
  \A k \in Row :
    /\ w.life[k] = "live" => x.life[k] \in {"live", "removed"}
    /\ w.life[k] = "removed" => x.life[k] = "removed"
    /\ w.life[k] # "none" => x.owner[k] = w.owner[k]
    /\ k \in Order /\ w.life[k] # "none" =>
         /\ x.created[k] = w.created[k]
         /\ x.book[k].items = w.book[k].items
         /\ w.book[k].status = "COMPLETED" => x.book[k].status = "COMPLETED"

\* The tables of a calm world.
LEMMA WorldCalm == WorldInv => Calm(World)
BY DEF WorldInv, RowsOK, OrdersOK, ItemsOK, Calm, World

\* What every row does, the tables do.
LEMMA WorldMoved == (\A k \in Row : RowMoves(k)) => Moved(World, World')
BY DEF RowMoves, Moved, World

\* Every figure counts rows of a table.
LEMMA TablesOfRows == ASSUME NEW f PROVE TableOf(f) \subseteq Row
BY DEF TableOf, Row

\* Which rows a query for orders finds.
LEMMA OrdersOf ==
  ASSUME NEW f \in {"completed", "sold", "ownCompleted", "today", "month",
                    "soldToday", "soldThisMonth"}
  PROVE  TableOf(f) = Order
BY DEF TableOf

\* A row that belongs to a figure does so as long as the world moves.
LEMMA BelongsLasts ==
  ASSUME NEW w, NEW x, Calm(w), Moved(w, x), NEW f, NEW v, NEW k, Belongs(f, v, k, w)
  PROVE  /\ Belongs(f, v, k, x)
         /\ \A since : Recent(f, since, w.created[k]) <=> Recent(f, since, x.created[k])
<1>1. k \in Row /\ k \in TableOf(f) /\ w.life[k] # "none"
  BY TablesOfRows DEF Belongs
<1>2. x.life[k] # "none" /\ x.owner[k] = w.owner[k]
  BY <1>1 DEF Calm, Moved
<1>3. f \in {"completed", "sold", "ownCompleted", "today", "month", "soldToday",
             "soldThisMonth"} =>
        /\ x.created[k] = w.created[k]
        /\ w.book[k].status = "COMPLETED" => x.book[k].status = "COMPLETED"
  BY <1>1, OrdersOf DEF Moved
<1>4. Belongs(f, v, k, x)
  BY <1>1, <1>2, <1>3 DEF Belongs
<1>5. \A since : Recent(f, since, w.created[k]) <=> Recent(f, since, x.created[k])
  BY <1>3 DEF Recent
<1> QED BY <1>4, <1>5

\* A row that is in a figure now belongs there, and one that belongs there
\* is in it unless it was removed.
LEMMA InBelongs ==
  ASSUME NEW f \in Lastings, NEW v, NEW since, NEW k, NEW w
  PROVE  /\ In(f, v, since, k, w) => Belongs(f, v, k, w) /\ Recent(f, since, w.created[k])
         /\ /\ Belongs(f, v, k, w) /\ Recent(f, since, w.created[k])
            /\ w.life[k] = "live" \/ f \in Kept
            => In(f, v, since, k, w)
<1>1. f \notin {"inStock", "named", "lowStock"}
  BY DEF Lastings, Platform, Shared, Strict, OwnSalesOnly
<1>2. f \in {"completed", "sold", "ownCompleted"} => TableOf(f) = Order
  BY OrdersOf
<1> QED BY <1>1, <1>2 DEF In, Listed, Belongs

\* A row that was asked for and is in the figure now was in it before.
LEMMA InBefore ==
  ASSUME NEW w, NEW x, Calm(w), Moved(w, x), NEW f \in Lastings, NEW v, NEW since, NEW k,
         Belongs(f, v, k, w), In(f, v, since, k, x)
  PROVE  In(f, v, since, k, w)
<1>1. k \in Row /\ w.life[k] # "none"
  BY TablesOfRows DEF Belongs
<1>2. Recent(f, since, w.created[k])
  BY BelongsLasts, InBelongs
<1>3. w.life[k] = "live" \/ f \in Kept
  BY <1>1 DEF Calm, Moved, In, Listed
<1> QED BY <1>2, <1>3, InBelongs

\* The world moves under the page.
LEMMA PageLasts ==
  ASSUME NEW w, NEW x, Calm(w), Moved(w, x), NEW r, PageOK(r, w)
  PROVE  PageOK(r, x)
<1>1. AskedOK(r, x)
  BY BelongsLasts DEF PageOK, AskedOK
<1>2. GotOK(r, x)
  <2>1. ASSUME NEW f \in DOMAIN r.got, NEW k \in r.got[f]
        PROVE  Belongs(f, r.viewer, k, x) /\ Recent(f, r.since, x.created[k])
    <3>1. Belongs(f, r.viewer, k, w) /\ Recent(f, r.since, w.created[k])
      BY <2>1 DEF PageOK, GotOK
    <3> QED BY <3>1, BelongsLasts
  <2>2. ASSUME NEW f \in DOMAIN r.got \cap DOMAIN r.asked, NEW k \in r.asked[f],
               In(f, r.viewer, r.since, k, x)
        PROVE  k \in r.got[f]
    <3>1. f \in Lastings /\ Belongs(f, r.viewer, k, w)
      BY <2>2 DEF PageOK, AskedOK
    <3>2. In(f, r.viewer, r.since, k, w)
      BY <2>2, <3>1, InBefore
    <3> QED BY <2>2, <3>2 DEF PageOK, GotOK
  <2> QED BY <2>1, <2>2 DEF GotOK
<1>3. \A f \in DOMAIN r.got : \A k \in r.got[f] :
        k \in Row /\ w.life[k] # "none" /\ k \in TableOf(f)
  BY TablesOfRows DEF PageOK, GotOK, Belongs
<1>4. ASSUME NEW day, NEW month, Covers(r, w, day, month) PROVE Covers(r, x, day, month)
  <2> SUFFICES ASSUME {day, month} \subseteq DOMAIN r.got, r.page # "getSummary",
                      r.since.month <= r.since.today, NEW k \in r.got[day]
               PROVE  k \in r.got[month] \/ x.life[k] = "removed"
    BY DEF Covers
  <2>1. k \in r.got[month] \/ w.life[k] = "removed"
    BY <1>4 DEF Covers
  <2> QED BY <1>3, <2>1 DEF Moved
<1>5. NamedOK(r, x)
  <2> SUFFICES ASSUME "named" \in DOMAIN r.got, NEW o \in r.got["ordered"],
                      NEW i \in DOMAIN x.book[o].items
               PROVE  LET p == x.book[o].items[i].product IN
                      p \in r.got["named"] \/ x.life[p] = "removed"
    BY DEF NamedOK
  <2>1. "ordered" \in DOMAIN r.got
    BY DEF PageOK, Planned, After
  <2>2. o \in Order /\ w.life[o] # "none"
    BY <1>3, <2>1 DEF TableOf
  <2>3. x.book[o].items = w.book[o].items
    BY <2>2 DEF Moved, Row
  <2> DEFINE p == w.book[o].items[i].product
  <2>4. p \in Row /\ (p \in r.got["named"] \/ w.life[p] = "removed")
    BY <2>2, <2>3 DEF PageOK, NamedOK, Calm, Row
  <2> QED BY <2>3, <2>4 DEF Moved
<1> QED BY <1>1, <1>2, <1>4, <1>5 DEF PageOK


-----------------------------------------------------------------------------
\* The days that the figures read so far were counted from.
Frozen(since, later, read) ==
  /\ read \cap {"today", "soldToday"} # {} => later.today = since.today
  /\ read \cap {"month", "soldThisMonth"} # {} => later.month = since.month

\* r and s differ in what is ahead, and in days nothing was counted from.
LEMMA DaysChange ==
  ASSUME NEW w, NEW r, NEW s, PageOK(r, w),
         s.page = r.page, s.viewer = r.viewer, s.asked = r.asked, s.got = r.got,
         Shaped(s), Planned(s.page, s.pending, s.todo, DOMAIN s.got),
         Frozen(r.since, s.since, DOMAIN r.got)
  PROVE  PageOK(s, w)
<1>1. \A f \in DOMAIN r.got : \A day :
        Recent(f, s.since, day) <=> Recent(f, r.since, day)
  BY DEF Frozen, Recent
<1>2. AskedOK(s, w) /\ NamedOK(s, w)
  BY DEF PageOK, AskedOK, NamedOK
<1>3. GotOK(s, w)
  <2>1. GotOK(r, w)
    BY DEF PageOK
  <2> QED BY <1>1, <2>1 DEF GotOK, In
<1>4. Covers(s, w, "today", "month") /\ Covers(s, w, "soldToday", "soldThisMonth")
  BY DEF PageOK, Covers, Frozen
<1> QED BY <1>2, <1>3, <1>4 DEF PageOK

\* The next phase is sent.
LEMMA PhasePlanned ==
  ASSUME NEW page, NEW todo, NEW D, Planned(page, {}, todo, D), todo # << >>
  PROVE  /\ Planned(page, Head(todo), Tail(todo), D)
         /\ {"today"} \in Head(todo) => D \cap {"today", "soldToday"} = {}
         /\ {"month"} \in Head(todo) => D \cap {"month", "soldThisMonth"} = {}
<1> DEFINE R == SUBSET SUBSET Figures
           head == Head(todo)
           tail == Tail(todo)
<1>1. todo \in Seq(R)
  BY DEF Planned, Neat
<1>2. PICK n \in Nat :
        /\ DOMAIN todo = 1..(n + 1) /\ DOMAIN tail = 1..n
        /\ head = todo[1]
        /\ \A i \in 1..n : tail[i] = todo[i + 1]
        /\ \A i \in DOMAIN todo : todo[i] \in R
        /\ tail \in Seq(R)
  BY <1>1, TailLines
<1> HIDE DEF head, tail
<1>3. /\ 1 \in 1..(n + 1)
      /\ \A i \in 1..n : i + 1 \in 1..(n + 1) /\ i + 1 # 1
      /\ \A i \in 1..(n + 1) : i = 1 \/ (i - 1 \in 1..n /\ todo[i] = tail[i - 1])
  BY <1>2
<1>a. Neat(todo)
  BY DEF Planned
<1>b. /\ \A i \in 1..(n + 1) : \A S \in todo[i] : Whole(S)
      /\ \A i, j \in 1..(n + 1) : \A S \in todo[i], T \in todo[j] :
           S \cap T = {} \/ (i = j /\ S = T)
  BY <1>2, <1>a DEF Neat
<1>c. /\ \A f : f \in AllOf(todo) <=> \E i \in 1..(n + 1) : f \in UNION todo[i]
      /\ \A f : f \in AllOf(tail) <=> \E i \in 1..n : f \in UNION tail[i]
  BY <1>2 DEF AllOf
<1>4. AllOf(todo) = (UNION head) \cup AllOf(tail)
  <2>1. ASSUME NEW f, f \in AllOf(todo) PROVE f \in (UNION head) \cup AllOf(tail)
    <3>1. PICK i \in 1..(n + 1) : f \in UNION todo[i]
      BY <1>c, <2>1
    <3> QED BY <1>2, <1>3, <1>c, <3>1
  <2>2. ASSUME NEW f, f \in (UNION head) \cup AllOf(tail) PROVE f \in AllOf(todo)
    <3>1. CASE f \in UNION head
      BY <1>2, <1>3, <1>c, <3>1
    <3>2. CASE f \in AllOf(tail)
      <4>1. PICK i \in 1..n : f \in UNION tail[i]
        BY <1>c, <3>2
      <4>2. i + 1 \in 1..(n + 1) /\ tail[i] = todo[i + 1]
        BY <1>2, <1>3
      <4>3. f \in UNION todo[i + 1]
        BY <4>1, <4>2
      <4> DEFINE l == i + 1
      <4> HIDE DEF l
      <4>4. l \in 1..(n + 1) /\ f \in UNION todo[l]
        BY <4>2, <4>3 DEF l
      <4> QED BY <1>c, <4>4
    <3> QED BY <2>2, <3>1, <3>2
  <2> QED BY <2>1, <2>2
<1>5. Neat(tail)
  <2>1. ASSUME NEW i \in DOMAIN tail, NEW S \in tail[i] PROVE Whole(S)
    <3>1. i + 1 \in 1..(n + 1) /\ S \in todo[i + 1]
      BY <1>2, <1>3, <2>1
    <3> QED BY <1>b, <3>1
  <2>2. ASSUME NEW i \in DOMAIN tail, NEW j \in DOMAIN tail,
               NEW S \in tail[i], NEW T \in tail[j]
        PROVE  S \cap T = {} \/ (i = j /\ S = T)
    <3>a. /\ i + 1 \in 1..(n + 1) /\ S \in todo[i + 1]
          /\ j + 1 \in 1..(n + 1) /\ T \in todo[j + 1]
      BY <1>2, <1>3, <2>2
    <3>1. S \cap T = {} \/ (i + 1 = j + 1 /\ S = T)
      BY <1>b, <3>a
    <3>2. i + 1 = j + 1 => i = j
      BY <1>2
    <3> QED BY <3>1, <3>2
  <2> QED BY <1>2, <2>1, <2>2 DEF Neat
<1>6. /\ \A S \in head : Whole(S)
      /\ \A S, T \in head : S \cap T = {} \/ S = T
  BY <1>2, <1>3 DEF Planned, Neat
<1>7. (UNION head) \cap AllOf(tail) = {}
  <2>1. ASSUME NEW i \in 1..n, NEW S \in head, NEW T \in tail[i] PROVE S \cap T = {}
    <3>1. /\ 1 \in 1..(n + 1) /\ S \in todo[1]
          /\ i + 1 \in 1..(n + 1) /\ T \in todo[i + 1] /\ 1 # i + 1
      BY <1>2, <1>3, <2>1
    <3> QED BY <1>b, <3>1
  <2>2. ASSUME NEW f, f \in UNION head, f \in AllOf(tail) PROVE FALSE
    <3>1. PICK i \in 1..n : f \in UNION tail[i]
      BY <1>c, <2>2
    <3>2. PICK S \in head : f \in S
      BY <2>2
    <3>3. PICK T \in tail[i] : f \in T
      BY <3>1
    <3> QED BY <2>1, <3>2, <3>3
  <2> QED BY <2>2
<1>8. AheadOf(head, tail) = AllOf(todo) /\ AheadOf({}, todo) = AllOf(todo)
  <2>1. UNION {} = {}
    OBVIOUS
  <2>2. AheadOf(head, tail) = (UNION head) \cup AllOf(tail)
    BY DEF AheadOf
  <2>3. AheadOf({}, todo) = (UNION {}) \cup AllOf(todo)
    BY DEF AheadOf
  <2>4. (UNION {}) \cup AllOf(todo) = AllOf(todo)
    BY <2>1
  <2> QED BY <1>4, <2>2, <2>3, <2>4
<1>9. ASSUME NEW a, NEW b, After({}, todo, D, a, b) PROVE After(head, tail, D, a, b)
  <2>1. b \in D \cup (UNION head) => a \in D
    <3>1. b \in UNION todo[1] => a \in D \/ \E j \in 1..(n + 1) : j < 1
      BY <1>2, <1>3, <1>9 DEF After
    <3> QED BY <1>2, <1>9, <3>1 DEF After
  <2>2. ASSUME NEW i \in 1..n, b \in UNION tail[i]
        PROVE  \/ a \in D \cup (UNION head)
               \/ \E j \in 1..n : j < i /\ a \in UNION tail[j]
    <3>1. \/ a \in D
          \/ \E j \in 1..(n + 1) : j < i + 1 /\ a \in UNION todo[j]
      BY <1>2, <1>3, <1>9, <2>2 DEF After
    <3>2. ASSUME NEW j \in 1..(n + 1), j < i + 1, a \in UNION todo[j], j # 1
          PROVE  \E l \in 1..n : l < i /\ a \in UNION tail[l]
      <4>1. j - 1 \in 1..n /\ j - 1 < i /\ todo[j] = tail[j - 1]
        BY <1>2, <1>3, <3>2
      <4> QED BY <3>2, <4>1
    <3> QED BY <1>2, <3>1, <3>2
  <2> QED BY <1>2, <2>1, <2>2 DEF After
<1>10. Planned(page, head, tail, D)
  BY <1>5, <1>6, <1>7, <1>8, <1>9 DEF Planned
<1>11. \A f : {f} \in head => f \in AllOf(todo)
  BY <1>4
<1>12. /\ AllOf(todo) \cap D = {} /\ Fits(page, AllOf(todo) \cup D)
  BY <1>8 DEF Planned
<1>13. \A f \in Calendar : {f} \in head => D \cap SoldOn = {} /\ f \notin D
  <2> TAKE f \in Calendar
  <2> HAVE {f} \in head
  <2>1. f \in AllOf(todo) /\ f \notin D
    BY <1>11, <1>12
  <2>2. page # "toolDashboardSummary"
    BY <1>12, <2>1 DEF Fits
  <2> QED BY <1>12, <2>1, <2>2 DEF Fits
<1> QED BY <1>10, <1>13 DEF Calendar, SoldOn, head, tail

\* A statement is answered.
LEMMA AnswerPlanned ==
  ASSUME NEW page, NEW pending, NEW todo, NEW D, Planned(page, pending, todo, D),
         NEW S \in pending
  PROVE  /\ Planned(page, pending \ {S}, todo, D \cup S)
         /\ S \cap D = {} /\ Whole(S) /\ Fits(page, D \cup S)
         /\ page # "getSummary" /\ "month" \in S => "today" \in D
         /\ "named" \in S => "ordered" \in D
<1> DEFINE rest == pending \ {S}
           u == UNION pending
           left == UNION rest
           later == AllOf(todo)
<1>1. /\ \A T \in pending : Whole(T)
      /\ \A T, U \in pending : T \cap U = {} \/ T = U
      /\ u \cap later = {}
      /\ (u \cup later) \cap D = {} /\ Fits(page, (u \cup later) \cup D)
  <2>1. AheadOf(pending, todo) = u \cup later
    BY DEF AheadOf
  <2> HIDE DEF later
  <2>2. /\ \A T \in pending : Whole(T)
        /\ \A T, U \in pending : T \cap U = {} \/ T = U
    BY DEF Planned
  <2>3. u \cap later = {}
    BY DEF Planned, later
  <2>4. (u \cup later) \cap D = {} /\ Fits(page, (u \cup later) \cup D)
    BY <2>1 DEF Planned
  <2> QED BY <2>2, <2>3, <2>4
<1>2. S \subseteq u /\ left \subseteq u /\ rest \subseteq pending
  OBVIOUS
<1>3. /\ \A f : f \in u => f \in S \/ f \in left
      /\ \A f : f \in left => f \notin S
  <2>1. ASSUME NEW f, f \in u, f \notin S PROVE f \in left
    <3>1. PICK T \in pending : f \in T
      BY <2>1
    <3>2. T \in rest
      BY <2>1, <3>1
    <3> HIDE DEF rest
    <3> QED BY <3>1, <3>2
  <2>2. ASSUME NEW f, f \in left, f \in S PROVE FALSE
    <3>1. PICK T \in rest : f \in T
      BY <2>2
    <3> QED BY <1>1, <2>2, <3>1
  <2> QED BY <2>1, <2>2
<1>a. AheadOf(rest, todo) = left \cup later
  BY DEF AheadOf
<1>b. S \subseteq UNION pending
  BY <1>2
<1> HIDE DEF u, left, later
<1>4. left \cap later = {} /\ (left \cup later) \cap (D \cup S) = {} /\ S \cap D = {}
  BY <1>1, <1>2, <1>3
<1>5. (left \cup later) \cup (D \cup S) = (u \cup later) \cup D
  BY <1>2, <1>3
<1>6. Fits(page, (left \cup later) \cup (D \cup S))
  BY <1>1, <1>5
<1>7. ASSUME NEW a, NEW b, After(pending, todo, D, a, b)
      PROVE  After(rest, todo, D \cup S, a, b)
  <2>1. D \cup (UNION pending) = (D \cup S) \cup (UNION rest)
    BY <1>2, <1>3 DEF u, left
  <2>2. b \in (D \cup S) \cup (UNION rest) => a \in D \cup S
    BY <1>7, <2>1 DEF After
  <2> QED BY <1>7, <2>1, <2>2 DEF After
<1>8. Planned(page, rest, todo, D \cup S)
  <2>1. Neat(todo)
    BY DEF Planned
  <2>2. /\ page # "getSummary" => After(pending, todo, D, "today", "month")
        /\ After(pending, todo, D, "ordered", "named")
    BY DEF Planned
  <2>3. (UNION rest) \cap AllOf(todo) = {}
    <3>1. left \cap later = {}
      BY <1>4
    <3> HIDE DEF rest
    <3> QED BY <3>1 DEF left, later
  <2>4. AheadOf(rest, todo) \cap (D \cup S) = {}
    BY <1>4, <1>a
  <2>5. Fits(page, AheadOf(rest, todo) \cup (D \cup S))
    BY <1>6, <1>a
  <2> HIDE DEF rest
  <2>6. \A T \in rest : Whole(T)
    BY <1>1, <1>2
  <2>7. \A T, U \in rest : T \cap U = {} \/ T = U
    BY <1>1, <1>2
  <2> QED BY <1>7, <2>1, <2>2, <2>3, <2>4, <2>5, <2>6, <2>7 DEF Planned
<1>9. Fits(page, D \cup S)
  BY <1>6 DEF Fits
<1>10. /\ page # "getSummary" /\ "month" \in S => "today" \in D
       /\ "named" \in S => "ordered" \in D
  BY <1>b DEF Planned, After
<1> QED BY <1>1, <1>4, <1>8, <1>9, <1>10 DEF rest


-----------------------------------------------------------------------------
\* What a statement S of page r answers in the world w, counting from the
\* days since: the figures' rows, and of stock at least whose it is.
Answers(fig, S, r, since, w) ==
  /\ DOMAIN fig = S
  /\ \A f \in S \cap Lastings : \A k : k \in fig[f] <=> In(f, r.viewer, since, k, w)
  /\ \A f \in S \ Lastings : \A k \in fig[f] : Belongs(f, r.viewer, k, w)
  /\ "named" \in S => \A k \in Product :
       /\ w.life[k] = "live" /\ w.owner[k] = r.viewer.tenantId
       /\ \E o \in r.got["ordered"] : \E i \in DOMAIN w.book[o].items :
            k = w.book[o].items[i].product
       => k \in fig["named"]

\* r after statement S has answered.
Answered(r, s, S, fig) ==
  /\ \A field \in {"page", "viewer", "todo", "asked"} : s[field] = r[field]
  /\ s.pending = r.pending \ {S}
  /\ s.got = Merge(fig, r.got)

\* The figures of which the second counts the first one's month.
DayOf(day, month) ==
  \/ day = "today" /\ month = "month"
  \/ day = "soldToday" /\ month = "soldThisMonth"

\* An answer keeps the invariant of the page.
LEMMA AnswerKeeps ==
  ASSUME NEW w, Calm(w), NEW r, PageOK(r, w), NEW S \in r.pending, NEW s, Shaped(s),
         NEW fig, Answered(r, s, S, fig), Answers(fig, S, r, s.since, w),
         Frozen(r.since, s.since, DOMAIN r.got)
  PROVE  PageOK(s, w)
<1> DEFINE D == DOMAIN r.got
           v == r.viewer
<1>1. /\ Planned(r.page, r.pending \ {S}, r.todo, D \cup S)
      /\ S \cap D = {} /\ Whole(S) /\ Fits(r.page, D \cup S)
      /\ r.page # "getSummary" /\ "month" \in S => "today" \in D
      /\ "named" \in S => "ordered" \in D
  BY AnswerPlanned DEF PageOK
<1>2. /\ DOMAIN s.got = D \cup S
      /\ \A f \in S : s.got[f] = fig[f]
      /\ \A f \in D : s.got[f] = r.got[f]
  BY <1>1 DEF Answered, Answers, Merge
<1>3. s.page = r.page /\ s.viewer = v /\ s.todo = r.todo /\ s.asked = r.asked
  BY DEF Answered
<1>4. Planned(s.page, s.pending, s.todo, DOMAIN s.got)
  BY <1>1, <1>2, <1>3 DEF Answered
<1>5. AskedOK(s, w)
  BY <1>3 DEF PageOK, AskedOK
<1>6. \A f \in D : \A day : Recent(f, s.since, day) <=> Recent(f, r.since, day)
  BY DEF Frozen, Recent
<1>7. \A f \in S \ Lastings : f \in Swinging
  BY <1>1 DEF Fits, Figures
<1>8. GotOK(s, w)
  <2>1. ASSUME NEW f \in S, NEW k \in fig[f]
        PROVE  Belongs(f, v, k, w) /\ Recent(f, s.since, w.created[k])
    <3>1. CASE f \in Lastings
      <4>1. In(f, v, s.since, k, w)
        BY <2>1, <3>1 DEF Answers
      <4> QED BY <3>1, <4>1, InBelongs
    <3>2. CASE f \notin Lastings
      <4>1. Belongs(f, v, k, w)
        BY <2>1, <3>2 DEF Answers
      <4>2. Recent(f, s.since, w.created[k])
        BY <1>7, <3>2 DEF Swinging, Recent
      <4> QED BY <4>1, <4>2
    <3> QED BY <3>1, <3>2
  <2>2. ASSUME NEW f \in D, NEW k \in r.got[f]
        PROVE  Belongs(f, v, k, w) /\ Recent(f, s.since, w.created[k])
    BY <1>6, <2>2 DEF PageOK, GotOK
  <2>3. ASSUME NEW f \in S \cap DOMAIN r.asked, NEW k, In(f, v, s.since, k, w)
        PROVE  k \in fig[f]
    BY <2>3 DEF Answers, PageOK, AskedOK
  <2>4. ASSUME NEW f \in D \cap DOMAIN r.asked, NEW k \in r.asked[f],
               In(f, v, s.since, k, w)
        PROVE  k \in r.got[f]
    <3>1. In(f, v, r.since, k, w)
      BY <1>6, <2>4 DEF In
    <3> QED BY <2>4, <3>1 DEF PageOK, GotOK
  <2> QED BY <1>2, <1>3, <2>1, <2>2, <2>3, <2>4 DEF GotOK
\* An order of the day is one of the month.
<1>9. ASSUME NEW day, NEW month, DayOf(day, month), NEW k,
             Belongs(day, v, k, w), Recent(day, s.since, w.created[k]),
             s.since.month <= s.since.today, w.life[k] # "removed"
      PROVE  In(month, v, s.since, k, w)
  <2>1. \/ day = "today" /\ month = "month"
        \/ day = "soldToday" /\ month = "soldThisMonth"
    BY <1>9 DEF DayOf
  <2>2. k \in Order /\ k \in Row /\ w.life[k] = "live" /\ w.created[k] \in Nat
    <3>1. k \in Order /\ w.life[k] # "none"
      BY <1>9, <2>1, OrdersOf DEF Belongs
    <3> QED BY <1>9, <3>1 DEF Calm, Row
  <2>3. s.since.month \in Int /\ s.since.today \in Int
    BY DEF Shaped, Day
  <2>4. w.created[k] >= s.since.today
    BY <1>9, <2>1 DEF Recent
  <2>5. w.created[k] >= s.since.month
    BY <1>9, <2>2, <2>3, <2>4
  <2>6. Recent(month, s.since, w.created[k])
    BY <2>1, <2>5 DEF Recent
  <2>7. Belongs(month, v, k, w)
    BY <1>9, <2>1, <2>2, OrdersOf DEF Belongs, Shared, Strict, OwnSalesOnly
  <2> QED BY <2>1, <2>2, <2>6, <2>7, InBelongs
          DEF Lastings, Shared, Strict, OwnSalesOnly
<1>10. ASSUME NEW day, NEW month, DayOf(day, month)
       PROVE  Covers(s, w, day, month)
  <2> SUFFICES ASSUME {day, month} \subseteq D \cup S, s.page # "getSummary",
                      s.since.month <= s.since.today, NEW k \in s.got[day]
               PROVE  k \in s.got[month] \/ w.life[k] = "removed"
    BY <1>2 DEF Covers
  <2>1. Belongs(day, v, k, w) /\ Recent(day, s.since, w.created[k])
    BY <1>2, <1>3, <1>8 DEF GotOK
  <2>2. CASE month \in S
    <3>1. month \in Lastings
      BY <1>10 DEF DayOf, Lastings, Shared, Strict, OwnSalesOnly
    <3>2. In(month, v, s.since, k, w) => k \in fig[month]
      BY <2>2, <3>1 DEF Answers
    <3> QED BY <1>2, <1>9, <1>10, <2>1, <2>2, <3>2
  <2>3. CASE month \in D
    <3>1. day \in D
      BY <1>1, <1>3, <1>10, <2>3 DEF DayOf, Whole, SoldOn, PageOK, Planned, After
    <3>2. s.since.today = r.since.today /\ s.since.month = r.since.month
      BY <1>10, <2>3, <3>1 DEF DayOf, Frozen
    <3>3. Covers(r, w, day, month)
      BY <1>10 DEF DayOf, PageOK
    <3> QED BY <1>2, <1>3, <2>3, <3>1, <3>2, <3>3 DEF Covers
  <2> QED BY <2>2, <2>3
<1>11. NamedOK(s, w)
  <2> SUFFICES ASSUME "named" \in D \cup S, NEW o \in s.got["ordered"],
                      NEW i \in DOMAIN w.book[o].items,
                      w.life[w.book[o].items[i].product] # "removed"
               PROVE  w.book[o].items[i].product \in s.got["named"]
    BY <1>2 DEF NamedOK
  <2> DEFINE p == w.book[o].items[i].product
  <2>1. "ordered" \in D /\ s.got["ordered"] = r.got["ordered"]
    BY <1>1, <1>2 DEF PageOK, Planned, After
  <2>2. CASE "named" \in D
    BY <1>2, <2>1, <2>2 DEF PageOK, NamedOK
  <2>3. CASE "named" \in S
    <3>1. Belongs("ordered", v, o, w)
      BY <2>1 DEF PageOK, GotOK
    <3>2. o \in Order /\ o \in Row /\ w.life[o] # "none" /\ w.owner[o] = v.tenantId
      BY <3>1, TablesOfRows DEF Belongs, TableOf, Strict
    <3>3. p \in Product /\ w.life[p] # "none" /\ OwnerOf[p] = OwnerOf[o] /\ p \in Row
      BY <3>2 DEF Calm, Row
    <3>4. w.life[p] = "live" /\ w.owner[p] = v.tenantId
      BY <3>2, <3>3 DEF Calm
    <3>5. \E a \in r.got["ordered"] : \E j \in DOMAIN w.book[a].items :
            p = w.book[a].items[j].product
      BY <2>1
    <3> HIDE DEF p
    <3>a. \A k \in Product :
            /\ w.life[k] = "live" /\ w.owner[k] = r.viewer.tenantId
            /\ \E a \in r.got["ordered"] : \E j \in DOMAIN w.book[a].items :
                 k = w.book[a].items[j].product
            => k \in fig["named"]
      BY <2>3 DEF Answers
    <3>6. p \in fig["named"]
      BY <3>3, <3>4, <3>5, <3>a
    <3> QED BY <1>2, <2>3, <3>6 DEF p
  <2> QED BY <2>2, <2>3
<1>12. Covers(s, w, "today", "month") /\ Covers(s, w, "soldToday", "soldThisMonth")
  BY <1>10 DEF DayOf
<1> QED BY <1>4, <1>5, <1>8, <1>11, <1>12 DEF PageOK


-----------------------------------------------------------------------------
\* What the figures of a statement answer, whatever days they count from.
LEMMA FiguresAnswer ==
  ASSUME WorldInv, NEW r, PageOK(r, World), NEW S \in r.pending,
         NEW q, q.viewer = r.viewer, q.got = r.got
  PROVE  Answers([f \in S |-> Figure(f, q)], S, r, q.since, World)
<1> DEFINE fig == [f \in S |-> Figure(f, q)]
           v == r.viewer
<1>1. S \subseteq Figures
  <2>1. Planned(r.page, r.pending, r.todo, DOMAIN r.got)
    BY DEF PageOK
  <2> DEFINE page == r.page
             pending == r.pending
             todo == r.todo
             D == DOMAIN r.got
  <2> HIDE DEF page, pending, todo, D
  <2>2. Planned(page, pending, todo, D) /\ S \in pending
    BY <2>1 DEF page, pending, todo, D
  <2>3. Fits(page, D \cup S)
    BY <2>2, AnswerPlanned
  <2> QED BY <2>3 DEF Fits
<1>2. ASSUME NEW f \in S \cap Lastings, NEW k
      PROVE  k \in fig[f] <=> In(f, v, q.since, k, World)
  <2>1. k \in Figure(f, q) <=>
          /\ Listed(f, q.viewer, k, life[k], owner[k], StatusOf(k))
          /\ Recent(f, q.since, created[k])
    BY FigureRows
  <2>2. /\ World.life[k] = life[k] /\ World.owner[k] = owner[k]
        /\ World.created[k] = created[k] /\ World.book = book
    BY DEF World
  <2>3. In(f, v, q.since, k, World) <=>
          /\ Listed(f, v, k, life[k], owner[k], StatusOf(k))
          /\ Recent(f, q.since, created[k])
    BY <2>2 DEF In, StatusOf
  <2> QED BY <2>1, <2>3
<1>3. /\ Table("Product") = Product
      /\ \A k : k \in Client(v, "Product", << >>) <=> k \in Table("Product") /\ Mine(v, k)
      /\ \A k : k \in Found("Product", Own(v)) <=>
           k \in Table("Product") /\ life[k] = "live" /\ owner[k] = v.tenantId
  BY ClientRows, RawRows DEF Table, TENANT_SOFT_DELETE_MODELS
<1>4. /\ "inStock" \in S => fig["inStock"] \subseteq Client(v, "Product", << >>)
      /\ "lowStock" \in S => fig["lowStock"] \subseteq Found("Product", Own(v))
      /\ "named" \in S => fig["named"]
           = Client(v, "Product", << >>) \cap ItemsOf(r.got["ordered"])
  BY DEF Figure, Named
<1> HIDE DEF fig
<1>5. ASSUME NEW f \in S \ Lastings, NEW k \in fig[f] PROVE Belongs(f, v, k, World)
  <2>1. f \in Swinging
    BY <1>1 DEF Figures
  <2>2. /\ k \in Product /\ life[k] = "live"
        /\ f \in {"inStock", "named"} /\ v.tenantId # NoTenant => owner[k] = v.tenantId
        /\ f = "lowStock" => owner[k] = v.tenantId
    BY <1>3, <1>4, <2>1 DEF Swinging, Mine
  <2>3. World.life[k] = "live" /\ World.owner[k] = owner[k]
    BY <2>2 DEF World
  <2> QED BY <2>1, <2>2, <2>3
          DEF Belongs, TableOf, Swinging, Shared, Strict, OwnSalesOnly
<1>6. ASSUME "named" \in S, NEW k \in Product,
             World.life[k] = "live", World.owner[k] = v.tenantId,
             NEW o \in r.got["ordered"], NEW i \in DOMAIN World.book[o].items,
             k = World.book[o].items[i].product
      PROVE  k \in fig["named"]
  <2>1. life[k] = "live" /\ owner[k] = v.tenantId /\ World.book = book
    BY <1>6 DEF World
  <2>2. k \in ItemsOf(r.got["ordered"])
    BY <1>6, <2>1 DEF ItemsOf
  <2> QED BY <1>3, <1>4, <1>6, <2>1, <2>2 DEF Mine
<1>7. DOMAIN fig = S
  BY DEF fig
<1> QED BY <1>2, <1>5, <1>6, <1>7 DEF Answers, fig

\* The next phase, if there is one.
LEMMA ProceedKeeps ==
  ASSUME WorldInv, NEW r, PageOK(r, World) PROVE PageOK(Proceed(r), World)
<1>1. CASE r.pending = {} /\ r.todo # << >> /\ ~Refused(r)
  <2> DEFINE s == StartPhase(r)
             D == DOMAIN r.got
             days == [d \in {"today", "month"} |->
                        IF {d} \in Head(r.todo) THEN Today[d] ELSE r.since[d]]
  <2>1. {"page", "viewer", "pending", "todo", "since", "asked", "got"} \subseteq DOMAIN r
    BY DEF PageOK, Shaped
  <2>2. /\ s.page = r.page /\ s.viewer = r.viewer /\ s.asked = r.asked /\ s.got = r.got
        /\ s.pending = Head(r.todo) /\ s.todo = Tail(r.todo) /\ s.since = days
        /\ DOMAIN s = DOMAIN r
    BY <2>1 DEF StartPhase
  <2>3. /\ days.today \in {today, r.since.today}
        /\ days.month \in {MonthStart[today], r.since.month}
        /\ {"today"} \notin Head(r.todo) => days.today = r.since.today
        /\ {"month"} \notin Head(r.todo) => days.month = r.since.month
    BY DEF Today
  <2>4. today \in Day /\ MonthStart[today] \in Day
    BY ReportsAssumption DEF WorldInv, OrdersOK
  <2> HIDE DEF s, days
  <2>5. Shaped(s)
    BY <2>2, <2>3, <2>4 DEF PageOK, Shaped
  <2>6. /\ Planned(r.page, Head(r.todo), Tail(r.todo), D)
        /\ {"today"} \in Head(r.todo) => D \cap {"today", "soldToday"} = {}
        /\ {"month"} \in Head(r.todo) => D \cap {"month", "soldThisMonth"} = {}
    BY <1>1, PhasePlanned DEF PageOK
  <2>7. Planned(s.page, s.pending, s.todo, DOMAIN s.got)
    BY <2>2, <2>6
  <2>8. Frozen(r.since, s.since, D)
    BY <2>2, <2>3, <2>6 DEF Frozen
  <2>9. PageOK(s, World)
    BY <2>2, <2>5, <2>7, <2>8, DaysChange
  <2> QED BY <1>1, <2>9 DEF Proceed, s
<1>2. CASE ~(r.pending = {} /\ r.todo # << >> /\ ~Refused(r))
  BY <1>2 DEF Proceed
<1> QED BY <1>1, <1>2


\* A statement has been answered, and the page goes on.
LEMMA RunKeeps ==
  ASSUME WorldInv, reading # Closed, PageOK(reading, World), NEW S, Run(S)
  PROVE  PageOK(reading', World)
<1> DEFINE r == reading
           q == IF "soldToday" \in S THEN [r EXCEPT !.since = Today] ELSE r
           fig == [f \in S |-> Figure(f, q)]
           s == [q EXCEPT !.pending = q.pending \ {S}, !.got = Merge(fig, q.got)]
           D == DOMAIN r.got
<1>1. S \in r.pending /\ reading' = Proceed(s)
  BY DEF Run
<1>2. {"page", "viewer", "pending", "todo", "since", "asked", "got"} \subseteq DOMAIN r
  BY DEF PageOK, Shaped
<1>3. /\ q.page = r.page /\ q.viewer = r.viewer /\ q.pending = r.pending
      /\ q.todo = r.todo /\ q.asked = r.asked /\ q.got = r.got
      /\ DOMAIN q = DOMAIN r
      /\ "soldToday" \in S => q.since = Today
      /\ "soldToday" \notin S => q.since = r.since
  BY <1>2
<1>4. /\ Today.today = today /\ Today.month = MonthStart[today]
      /\ today \in Day /\ MonthStart[today] \in Day
  BY ReportsAssumption DEF Today, WorldInv, OrdersOK
<1> HIDE DEF q, r
<1>5. Answers(fig, S, r, q.since, World)
  BY <1>1, <1>3, FiguresAnswer DEF r
<1> HIDE DEF fig
<1>6. /\ s.page = r.page /\ s.viewer = r.viewer /\ s.todo = r.todo /\ s.asked = r.asked
      /\ s.pending = r.pending \ {S} /\ s.got = Merge(fig, r.got)
      /\ s.since = q.since /\ DOMAIN s = DOMAIN r
  BY <1>2, <1>3
<1> HIDE DEF s
<1>7. Answered(r, s, S, fig)
  BY <1>6 DEF Answered
<1>8. Shaped(s)
  BY <1>3, <1>4, <1>6 DEF PageOK, Shaped, r
<1>9. Frozen(r.since, s.since, D)
  <2>1. CASE "soldToday" \notin S
    BY <1>3, <1>6, <2>1 DEF Frozen
  <2>2. CASE "soldToday" \in S
    <3>1. Planned(r.page, r.pending, r.todo, D)
      BY DEF PageOK, r
    <3> DEFINE page == r.page
               pending == r.pending
               todo == r.todo
    <3> HIDE DEF page, pending, todo, D
    <3>a. Planned(page, pending, todo, D) /\ S \in pending
      BY <1>1, <3>1 DEF page, pending, todo
    <3>2. S \cap D = {} /\ Whole(S) /\ Fits(page, D \cup S)
      BY <3>a, AnswerPlanned
    <3>3. {"soldToday", "soldThisMonth"} \subseteq S
      BY <2>2, <3>2 DEF Whole, SoldOn
    <3>4. "today" \notin D /\ "month" \notin D
      BY <3>2, <3>3 DEF Fits, Calendar, SoldOn
    <3> QED BY <3>2, <3>3, <3>4 DEF Frozen
  <2> QED BY <2>1, <2>2
<1>10. Calm(World)
  BY WorldCalm
<1>11. PageOK(s, World)
  BY <1>1, <1>5, <1>6, <1>7, <1>8, <1>9, <1>10, AnswerKeeps DEF r
<1> QED BY <1>1, <1>11, ProceedKeeps

\* A page is asked for.
LEMMA OpenKeeps ==
  ASSUME WorldInv, NEW v \in Viewer, NEW page \in DOMAIN Pages(v), Open(v, page)
  PROVE  PageOK(reading', World)
<1> DEFINE phases == Pages(v)[page]
           r == [page |-> page, viewer |-> v, pending |-> {}, todo |-> phases,
                 since |-> Today, asked |-> << >>, got |-> << >>]
           asked == [f \in Lasting(phases) |-> Figure(f, r)]
           s == [r EXCEPT !.asked = asked]
<1>1. reading' = Proceed(s)
  BY DEF Open
<1>2. /\ Good(page, phases)
      /\ page \in {"findAllTenants", "getPlatformStats"} => v.tenantId = NoTenant
  BY PagesGood, ReportsAssumption
<1>3. /\ Today.today = today /\ Today.month = MonthStart[today]
      /\ today \in Day /\ MonthStart[today] \in Day
  BY ReportsAssumption DEF Today, WorldInv, OrdersOK
<1>4. Lasting(phases) = AllOf(phases) \ Swinging
  BY DEF Lasting, AllOf, Swinging
<1> HIDE DEF phases
<1>5. /\ r.viewer = v /\ r.since = Today
      /\ DOMAIN asked = Lasting(phases) /\ \A f \in Lasting(phases) : asked[f] = Figure(f, r)
  OBVIOUS
<1> HIDE DEF asked
<1>6. /\ s.page = page /\ s.viewer = v /\ s.pending = {} /\ s.todo = phases
      /\ s.since = Today /\ s.asked = asked /\ s.got = << >>
      /\ {"page", "viewer", "pending", "todo", "since", "asked", "got"} \subseteq DOMAIN s
  OBVIOUS
<1>7. DOMAIN s.got = {}
  BY <1>6
<1> HIDE DEF s, r
<1>8. Shaped(s)
  BY <1>2, <1>3, <1>6 DEF Shaped
<1>9. Planned(s.page, s.pending, s.todo, DOMAIN s.got)
  <2>1. /\ Neat(phases) /\ Fits(page, AllOf(phases))
        /\ page # "getSummary" => Follows(phases, "today", "month")
        /\ Follows(phases, "ordered", "named")
    BY <1>2 DEF Good
  <2>2. UNION {} = {}
    OBVIOUS
  <2>3. ASSUME NEW a, NEW b, Follows(phases, a, b) PROVE After({}, phases, {}, a, b)
    <3>1. ASSUME NEW i \in DOMAIN phases, b \in UNION phases[i]
          PROVE  \E j \in DOMAIN phases : j < i /\ a \in UNION phases[j]
      BY <2>3, <3>1 DEF Follows
    <3> QED BY <2>2, <3>1 DEF After
  <2>4. AheadOf({}, phases) = AllOf(phases)
    BY <2>2 DEF AheadOf
  <2>5. (UNION {}) \cap AllOf(phases) = {}
    BY <2>2
  <2>6. AheadOf({}, phases) \cup {} = AllOf(phases) /\ AheadOf({}, phases) \cap {} = {}
    BY <2>4
  <2>7. Planned(page, {}, phases, {})
    BY <2>1, <2>3, <2>5, <2>6 DEF Planned
  <2> QED BY <1>6, <1>7, <2>7
<1>10. AskedOK(s, World)
  <2>1. Lasting(phases) \subseteq Lastings
    BY <1>2, <1>4 DEF Good, Fits, Figures
  <2>2. ASSUME NEW f \in Lasting(phases), NEW k \in asked[f]
        PROVE  Belongs(f, v, k, World)
    <3>1. f \in Lastings /\ k \in Figure(f, r)
      BY <1>5, <2>1, <2>2
    <3>2. /\ Listed(f, v, k, life[k], owner[k], StatusOf(k))
          /\ Recent(f, r.since, created[k])
      BY <1>5, <3>1, FigureRows
    <3>3. World.life[k] = life[k] /\ World.owner[k] = owner[k]
          /\ World.created[k] = created[k] /\ World.book = book
      BY DEF World
    <3>4. In(f, v, r.since, k, World)
      BY <3>2, <3>3 DEF In, StatusOf
    <3> QED BY <3>1, <3>4, InBelongs
  <2> QED BY <1>5, <1>6, <2>1, <2>2 DEF AskedOK
<1>11. /\ GotOK(s, World) /\ NamedOK(s, World)
       /\ Covers(s, World, "today", "month")
       /\ Covers(s, World, "soldToday", "soldThisMonth")
  BY <1>7 DEF GotOK, NamedOK, Covers
<1>12. PageOK(s, World)
  BY <1>8, <1>9, <1>10, <1>11 DEF PageOK
<1> QED BY <1>1, <1>12, ProceedKeeps

-----------------------------------------------------------------------------
\* At the beginning no page is read.
LEMMA ReadingInvInit == ReportsInit => ReadingInv
BY WorldInitInv DEF ReportsInit, ReadingInv

\* Every step keeps the invariant.
LEMMA ReadingInvNext == ReadingInv /\ [ReportsNext]_reportsVars => ReadingInv'
<1> SUFFICES ASSUME ReadingInv, [ReportsNext]_reportsVars PROVE ReadingInv'
  OBVIOUS
<1>1. WorldInv /\ (reading # Closed => PageOK(reading, World))
  BY DEF ReadingInv
<1>2. ASSUME WorldNext \/ UNCHANGED worldVars, UNCHANGED reading PROVE ReadingInv'
  <2>1. WorldInv' /\ \A k \in Row : RowMoves(k)
    BY <1>1, <1>2, WorldStepMoves DEF WorldMoves
  <2>2. Calm(World) /\ Moved(World, World')
    BY <1>1, <2>1, WorldCalm, WorldMoved
  <2> DEFINE w == World
             x == World'
             r == reading
  <2> HIDE DEF w, x, r
  <2>3. PageOK(r, w) => PageOK(r, x)
    BY <2>2, PageLasts DEF w, x
  <2>4. PageOK(reading, World) => PageOK(reading', World')
    BY <1>2, <2>3 DEF w, x, r
  <2>5. Closed' = Closed
    BY DEF Closed
  <2> QED BY <1>1, <1>2, <2>1, <2>4, <2>5 DEF ReadingInv
<1>3. ASSUME UNCHANGED worldVars, reading' = Closed \/ PageOK(reading', World)
      PROVE  ReadingInv'
  <2>1. WorldInv'
    BY <1>1, <1>3, WorldStepMoves DEF WorldMoves
  <2>2. World' = World
    BY <1>3 DEF World, worldVars, bookVars
  <2> QED BY <1>3, <2>1, <2>2 DEF ReadingInv, Closed
<1>4. CASE WorldNext
  <2>1. UNCHANGED reading
    BY <1>4
       DEF WorldNext, EnterOrder, CloseOrder, AddRow, RemoveRow, RemoveStore,
           Restock, Midnight
  <2> QED BY <1>2, <1>4, <2>1
<1>5. ASSUME NEW v \in Viewer, NEW page \in DOMAIN Pages(v), Open(v, page)
      PROVE  ReadingInv'
  <2>1. PageOK(reading', World) /\ UNCHANGED worldVars
    BY <1>1, <1>5, OpenKeeps DEF Open
  <2> QED BY <1>3, <2>1
<1>6. ASSUME NEW S, Run(S) PROVE ReadingInv'
  <2>1. reading # Closed /\ UNCHANGED worldVars
    BY <1>6 DEF Run
  <2>2. PageOK(reading', World)
    BY <1>1, <1>6, <2>1, RunKeeps
  <2> QED BY <1>3, <2>1, <2>2
<1>7. CASE Fail \/ Close
  BY <1>3, <1>7 DEF Fail, Close
<1>8. CASE UNCHANGED reportsVars
  BY <1>2, <1>8 DEF reportsVars
<1> QED BY <1>4, <1>5, <1>6, <1>7, <1>8 DEF ReportsNext, ReadNext


\* The invariant, in every state.
LEMMA ReadingAlways == ReportsSpec => []ReadingInv
BY ReadingInvInit, ReadingInvNext, PTL DEF ReportsSpec

(***************************************************************************)
(* What the page shows, in each of these states.                           *)
(***************************************************************************)
LEMMA FiguresWereTrueHolds == ReadingInv => FiguresWereTrue
<1> SUFFICES ASSUME ReadingInv, reading # Closed,
                    NEW f \in DOMAIN reading.got \cap DOMAIN reading.asked
             PROVE  LET now == Figure(f, reading) IN
                    /\ reading.asked[f] \cap now \subseteq reading.got[f]
                    /\ reading.got[f] \subseteq now \cup {k \in Row : life[k] = "removed"}
  BY DEF FiguresWereTrue
<1> DEFINE r == reading
           w == World
           v == r.viewer
<1>1. Calm(w) /\ PageOK(r, w)
  BY WorldCalm DEF ReadingInv
<1>2. f \in Lastings
  BY <1>1 DEF PageOK, AskedOK
<1>3. ASSUME NEW k PROVE k \in Figure(f, r) <=> In(f, v, r.since, k, w)
  <2>1. k \in Figure(f, r) <=>
          /\ Listed(f, v, k, life[k], owner[k], StatusOf(k))
          /\ Recent(f, r.since, created[k])
    BY <1>2, FigureRows
  <2>2. /\ w.life[k] = life[k] /\ w.owner[k] = owner[k]
        /\ w.created[k] = created[k] /\ w.book = book
    BY DEF World
  <2> HIDE DEF w
  <2> QED BY <2>1, <2>2 DEF In, StatusOf
<1>4. \A k : w.life[k] = life[k]
  BY DEF World
<1> HIDE DEF r, w
<1>5. ASSUME NEW k \in r.asked[f], k \in Figure(f, r) PROVE k \in r.got[f]
  BY <1>1, <1>3, <1>5 DEF PageOK, GotOK, r
<1>6. ASSUME NEW k \in r.got[f], life[k] # "removed" PROVE k \in Figure(f, r)
  <2>1. Belongs(f, v, k, w) /\ Recent(f, r.since, w.created[k])
    BY <1>1, <1>6 DEF PageOK, GotOK, r
  <2>2. k \in Row /\ w.life[k] = "live"
    BY <1>1, <1>4, <1>6, <2>1, TablesOfRows DEF Belongs, Calm
  <2> QED BY <1>2, <1>3, <2>1, <2>2, InBelongs
<1>7. \A k \in r.got[f] : k \in Row
  BY <1>1, TablesOfRows DEF PageOK, GotOK, Belongs, r
<1> QED BY <1>5, <1>6, <1>7 DEF r

\* What the invariant says of months and days,
LEMMA MonthCoversHolds == ReadingInv => MonthCoversToday
<1> SUFFICES ASSUME ReadingInv, reading # Closed PROVE MonthCoversToday
  BY DEF MonthCoversToday
<1> DEFINE r == reading
           w == World
<1>1. PageOK(r, w) /\ \A k : w.life[k] = life[k]
  BY DEF ReadingInv, World
<1> HIDE DEF w
<1>2. \A f \in DOMAIN r.got : \A k \in r.got[f] : k \in Row
  BY <1>1, TablesOfRows DEF PageOK, GotOK, Belongs
<1>3. ASSUME NEW day, NEW month, Covers(r, w, day, month) PROVE MonthCovers(day, month)
  <2> SUFFICES ASSUME {day, month} \subseteq DOMAIN r.got, r.page # "getSummary",
                      r.since.month <= r.since.today, NEW k \in r.got[day]
               PROVE  k \in r.got[month] \cup {x \in Row : life[x] = "removed"}
    BY DEF MonthCovers
  <2>1. k \in r.got[month] \/ w.life[k] = "removed"
    BY <1>3 DEF Covers
  <2> QED BY <1>1, <1>2, <2>1
<1>4. MonthCovers("today", "month") /\ MonthCovers("soldToday", "soldThisMonth")
  BY <1>1, <1>3 DEF PageOK
<1> QED BY <1>4 DEF MonthCoversToday

\* of names that are unknown,
LEMMA UnknownIsRemovedHolds == ReadingInv => UnknownIsRemoved
<1> SUFFICES ASSUME ReadingInv, reading # Closed, "named" \in DOMAIN reading.got,
                    NEW p \in ItemsOf(reading.got["ordered"]) \ reading.got["named"]
             PROVE  life[p] = "removed"
  BY DEF UnknownIsRemoved
<1>1. NamedOK(reading, World) /\ World.book = book /\ World.life = life
  BY DEF ReadingInv, PageOK, World
<1>2. PICK o \in reading.got["ordered"] :
        \E i \in DOMAIN book[o].items : p = book[o].items[i].product
  BY DEF ItemsOf
<1> QED BY <1>1, <1>2 DEF NamedOK

\* and of whose rows are counted.
LEMMA FiguresAreOfViewerHolds == ReadingInv => FiguresAreOfViewer
<1> SUFFICES ASSUME ReadingInv, reading # Closed, reading.viewer.tenantId # NoTenant,
                    NEW f \in DOMAIN reading.got \ {"sold"}, NEW k \in reading.got[f]
             PROVE  /\ OwnerOf[k] = reading.viewer.tenantId
                    /\ /\ f \in {"ownOrders", "ownTotal", "ownCompleted", "soldToday",
                                 "soldThisMonth"}
                       /\ reading.viewer.role = "STAFF"
                       => Seller[k] = reading.viewer.id
  BY DEF FiguresAreOfViewer
<1> DEFINE r == reading
           w == World
           D == DOMAIN r.got
<1>1. Calm(w) /\ PageOK(r, w)
  BY WorldCalm DEF ReadingInv
<1> HIDE DEF w, r
<1>2. Belongs(f, r.viewer, k, w)
  BY <1>1 DEF PageOK, GotOK, r
<1>3. k \in Row /\ w.owner[k] = OwnerOf[k]
  BY <1>1, <1>2, TablesOfRows DEF Belongs, Calm
<1>4. r.page \notin {"findAllTenants", "getPlatformStats"}
  BY <1>1 DEF PageOK, Shaped, r
<1>5. Fits(r.page, D)
  <2>1. Fits(r.page, AheadOf(r.pending, r.todo) \cup D)
    BY <1>1 DEF PageOK, Planned
  <2> QED BY <2>1 DEF Fits
<1>6. f \in Figures /\ f \notin Platform /\ f # "sold"
  BY <1>4, <1>5 DEF Fits, r
<1>7. f \in (Shared \cup {"inStock", "named"}) \cup (Strict \cup {"lowStock"})
  BY <1>6 DEF Figures, Lastings, Swinging
<1>8. OwnerOf[k] = r.viewer.tenantId
  BY <1>2, <1>3, <1>7 DEF Belongs, r
<1>9. /\ f \in {"ownOrders", "ownTotal", "ownCompleted", "soldToday", "soldThisMonth"}
      /\ r.viewer.role = "STAFF"
      => Seller[k] = r.viewer.id
  BY <1>2 DEF Belongs, OwnSalesOnly
<1> QED BY <1>8, <1>9 DEF r

(***************************************************************************)
(* Every figure of every page was true at a moment while the page was      *)
(* read, whatever sales, removals and midnights came between.              *)
(***************************************************************************)
THEOREM FiguresAreAlwaysTrue == ReportsSpec => []FiguresWereTrue
BY ReadingAlways, FiguresWereTrueHolds, PTL

(***************************************************************************)
(* The month's sales of the assistant's summary and of crack-ai's include  *)
(* the day's.                                                              *)
(***************************************************************************)
THEOREM MonthsIncludeTheirDays == ReportsSpec => []MonthCoversToday
BY ReadingAlways, MonthCoversHolds, PTL

(***************************************************************************)
(* The assistant calls no best seller 'Unknown' that is still there.       *)
(***************************************************************************)
THEOREM UnknownsWereRemoved == ReportsSpec => []UnknownIsRemoved
BY ReadingAlways, UnknownIsRemovedHolds, PTL

(***************************************************************************)
(* No page shows a user another store's rows, or staff another's sales.    *)
(***************************************************************************)
THEOREM PagesKeepToTheirViewer == ReportsSpec => []FiguresAreOfViewer
BY ReadingAlways, FiguresAreOfViewerHolds, PTL

=============================================================================
