------------------------------ MODULE Reports ------------------------------
(***************************************************************************)
(* The readers: DashboardService, ReportsService, the reading half of      *)
(* AdminService, AiDataController, and those tools of crack-ai that ask    *)
(* PostgreSQL the same questions.  A page is made of statements, each of   *)
(* which sees what is committed when it runs, some side by side            *)
(* (Promise.all), some one after another; sales, receipts and returns,     *)
(* removals and midnight come between them.                                *)
(*                                                                         *)
(* What is read are the abstractions that the writers implement: OrderBook *)
(* (see Sales) and SoftRows (see Catalog).  A figure, a count or a sum, is *)
(* kept as the set of rows it counts.  The date range that a caller may    *)
(* give, paging, limits and grouping are left out.  Readers change         *)
(* nothing, so one page at a time shows all that any number of them see.   *)
(***************************************************************************)
EXTENDS OrderBook, TenantScope

CONSTANTS
  User, Category, Supplier,
  OwnerOf,      \* per row: the store it belongs to (a store to itself)
  Seller,       \* per order: the user who enters it
  Opening,      \* the rows that are there to start with
  Viewer,       \* the users that ask for pages
  ReorderLevel,
  Counts,       \* what a shelf may hold after a receipt, a return or a count
  MaxDay,       \* bounds the calendar
  MonthStart    \* per day: the first day of its month

Row == Tenant \cup User \cup Category \cup Supplier \cup Product \cup Order

Day == 1..MaxDay

Role == {"ADMIN", "STAFF", "SUPER_ADMIN"}

ASSUME ReportsAssumption ==
  /\ OwnerOf \in [Row -> Tenant]
  /\ Seller \in [Order -> User]
  /\ Opening \subseteq Row \ Order
  /\ Viewer \subseteq [id : User, role : Role, tenantId : Tenant \cup {NoTenant}]
  /\ \A v \in Viewer : v.role = "SUPER_ADMIN" => v.tenantId = NoTenant
  /\ Baskets \subseteq Seq([product : Product, quantity : Nat \ {0}])
  /\ MaxDay \in Nat \ {0}
  /\ MonthStart \in [Day -> Day]
  /\ \A d \in Day : MonthStart[d] <= d

VARIABLES
  life, owner,  \* every table of the database, as SoftRows has it
  created,      \* per order: the day it was entered, 0 before
  today,
  reading       \* the page that is being read

worldVars == <<bookVars, life, owner, created, today>>

reportsVars == <<worldVars, reading>>

Rows == INSTANCE SoftRows WITH Owner <- Tenant, Nobody <- NoTenant

-----------------------------------------------------------------------------
(* The queries *)

Table(model) ==
  CASE model = "Tenant"     -> Tenant
    [] model = "TenantUser" -> User
    [] model = "Category"   -> Category
    [] model = "Supplier"   -> Supplier
    [] model = "Product"    -> Product
    [] model = "SalesOrder" -> Order
    [] model = "OrderItem"  -> Order  \* its items, found through the order

\* The columns that a where may name.
Columns(k) ==
  [id        |-> k,
   deletedAt |-> IF life[k] = "live" THEN "null" ELSE "set",
   tenantId  |-> owner[k],
   userId    |-> IF k \in Order THEN Seller[k] ELSE k,
   status    |-> IF k \in Order THEN book[k].status ELSE "NONE"]

\* Mutant: an order that was cancelled is no longer counted.
FoundUncancelled(model, where) ==
  {k \in Table(model) : /\ life[k] # "none"
                        /\ Matches(Columns(k), where)
                        /\ Columns(k).status # "CANCELLED"}

\* A query as it is written: raw SQL, and PrismaService used directly.
Found(model, where) ==
  {k \in Table(model) : life[k] # "none" /\ Matches(Columns(k), where)}

\* A query through getClient(tenantId).
Client(v, model, where) ==
  Found(model, Rewrite("findMany", model, where, v.tenantId))

\* Mutant: the query names no store.
OfAnyStore(v) == [deletedAt |-> "null"]

\* WHERE "tenantId" = $1 AND "deletedAt" IS NULL
Own(v) == [tenantId |-> v.tenantId, deletedAt |-> "null"]

\* ... AND "userId" = $2, for whoever is no administrator.
OwnSales(v) ==
  IF v.role = "ADMIN"
    THEN Found("SalesOrder", Own(v))
    ELSE Found("SalesOrder", [userId |-> v.id, tenantId |-> v.tenantId,
                              deletedAt |-> "null"])

Completed(v) == Client(v, "SalesOrder", [status |-> "COMPLETED"])

ItemsOf(orders) ==
  UNION {{book[o].items[i].product : i \in DOMAIN book[o].items} : o \in orders}

Since(orders, day) == {o \in orders : created[o] >= day}

-----------------------------------------------------------------------------
(***************************************************************************)
(* The pages.  Each is a sequence of phases, a phase a set of statements   *)
(* that run side by side, and a statement the set of figures it reads at   *)
(* once.                                                                   *)
(***************************************************************************)

\* f, and g where f has nothing to say.
Merge(f, g) ==
  [x \in DOMAIN f \cup DOMAIN g |-> IF x \in DOMAIN f THEN f[x] ELSE g[x]]

One(figure) == <<{{figure}}>>

Guarded(phases) == One("access") \o phases

getSummary ==
  <<{{"products"}, {"inStock"}, {"suppliers"}, {"categories"},
     {"today"}, {"month"}, {"orders"}, {"lowStock"}}>>

DashboardPages ==
  [getSummary        |-> getSummary,
   getTopProducts    |-> One("sold"),
   getSalesTrend     |-> One("trend"),
   getInventoryValue |-> One("products")]

ReportsPages ==
  [getSalesReport     |-> One("orders"),
   getInventoryReport |-> One("products"),
   getProfitLoss      |-> One("completed")]

ExportsPages ==
  [exportSalesCsv      |-> One("orders"),
   exportInventoryCsv  |-> One("products"),
   exportProfitLossCsv |-> One("completed")]

findAllTenants ==
  <<{{"tenants", "everyUser", "everyProduct", "everyOrder"}, {"total"}}>>

getPlatformStats ==
  <<{{"tenants"}, {"everyUser"}, {"everyProduct"}, {"everyOrder"}}>>

PlatformPages ==
  [findAllTenants |-> findAllTenants, getPlatformStats |-> getPlatformStats]

\* Mutant: the month is asked for before the day.
MonthBeforeToday ==
  Guarded(One("products") \o One("lowStock") \o One("month") \o One("today"))

aiDashboardSummary ==
  Guarded(One("products") \o One("lowStock") \o One("today") \o One("month"))

aiLowStockProducts == Guarded(One("lowStock"))

aiTopProducts == Guarded(One("ordered") \o One("named"))

aiSearchProducts == Guarded(One("products"))

aiSalesReport(v) ==
  Guarded(IF v.role = "STAFF" THEN <<{{"ownOrders"}, {"ownTotal"}}>>
                              ELSE <<{{"orders"}, {"allTotal"}}>>)

aiProfitLoss(v) == Guarded(IF v.role = "ADMIN" THEN One("orders") ELSE << >>)

aiCategories == Guarded(One("categories"))

aiSuppliers == Guarded(One("suppliers"))

aiUsers(v) == Guarded(IF v.role = "ADMIN" THEN One("users") ELSE << >>)

AiPages(v) ==
  [aiDashboardSummary |-> aiDashboardSummary,
   aiLowStockProducts |-> aiLowStockProducts,
   aiTopProducts      |-> aiTopProducts,
   aiSearchProducts   |-> aiSearchProducts,
   aiSalesReport      |-> aiSalesReport(v),
   aiProfitLoss       |-> aiProfitLoss(v),
   aiCategories       |-> aiCategories,
   aiSuppliers        |-> aiSuppliers,
   aiUsers            |-> aiUsers(v)]

\* The tools of crack-ai; two dashboard queries over one connection.
toolDashboardSummary ==
  <<{{"products", "inStock", "suppliers", "categories", "lowStock"}},
    {{"soldToday", "soldThisMonth"}}>>

Restricted(v, phases) == IF v.role = "ADMIN" THEN phases ELSE << >>

ProductTools(v) ==
  [toolLowStock       |-> Restricted(v, One("lowStock")),
   toolTopProducts    |-> One("ownCompleted"),
   toolSearchProducts |-> One("products")]

toolCategories == One("categories")

toolSuppliers(v) == Restricted(v, One("suppliers"))

toolInventoryValue(v) == Restricted(v, One("products"))

toolProfitLoss(v) == Restricted(v, One("ownCompleted"))

ToolPages(v) ==
  Merge(ProductTools(v),
        [toolDashboardSummary |-> toolDashboardSummary,
         toolCategories       |-> toolCategories,
         toolSuppliers        |-> toolSuppliers(v),
         toolInventoryValue   |-> toolInventoryValue(v),
         toolProfitLoss       |-> toolProfitLoss(v)])

\* What administrators may see, and what all members of a store may.
AdminPages == Merge(DashboardPages, Merge(ReportsPages, ExportsPages))

MemberPages(v) == Merge(AiPages(v), ToolPages(v))

\* Who may ask for which page: @Roles, and what a token says.
Pages(v) ==
  CASE v.role = "SUPER_ADMIN" -> Merge(AdminPages, PlatformPages)
    [] v.role = "ADMIN"       -> Merge(AdminPages, MemberPages(v))
    [] v.role = "STAFF"       -> Merge(DashboardPages, MemberPages(v))

-----------------------------------------------------------------------------
\* Mutant: products that are sold out are not looked up.
NamedInStock(r) ==
  {p \in Client(r.viewer, "Product", << >>) \cap ItemsOf(r.got["ordered"]) : stock[p] > 0}

\* The names of the best sellers that the page's first query found.
Named(r) == Client(r.viewer, "Product", << >>) \cap ItemsOf(r.got["ordered"])

(***************************************************************************)
(* What figure f of page r is at this moment.  The raw client of the       *)
(* platform's pages filters what the query says, and nothing else.         *)
(***************************************************************************)
Figure(f, r) ==
  LET v == r.viewer
      orders == Client(v, "SalesOrder", << >>)
  IN
  CASE f = "products"      -> Client(v, "Product", << >>)
    [] f = "inStock"       -> {p \in Client(v, "Product", << >>) : stock[p] > 0}
    [] f = "lowStock"      -> {p \in Found("Product", Own(v)) : stock[p] <= ReorderLevel}
    [] f = "suppliers"     -> Client(v, "Supplier", << >>)
    [] f = "categories"    -> Client(v, "Category", << >>)
    [] f = "users"         -> Client(v, "TenantUser", << >>)
    [] f = "access"        -> Found("TenantUser", [id |-> v.id, tenantId |-> v.tenantId,
                                                     deletedAt |-> "null"])
    [] f \in {"orders", "allTotal"}    -> orders
    [] f \in {"ownOrders", "ownTotal"} -> Client(v, "SalesOrder", [userId |-> v.id])
    [] f = "today"         -> Since(orders, r.since.today)
    [] f = "month"         -> Since(orders, r.since.month)
    [] f = "completed"     -> Completed(v)
    [] f = "sold"          -> Client(v, "OrderItem", [status |-> "COMPLETED"])
    [] f = "trend"         -> Found("SalesOrder", Own(v))
    [] f = "ordered"       -> Found("OrderItem", Own(v))
    [] f = "named"         -> Named(r)
    [] f = "soldToday"     -> Since(OwnSales(v), r.since.today)
    [] f = "soldThisMonth" -> Since(OwnSales(v), r.since.month)
    [] f = "ownCompleted"  -> {o \in OwnSales(v) : book[o].status = "COMPLETED"}
    [] f \in {"tenants", "total"} -> Found("Tenant", [deletedAt |-> "null"])
    [] f = "everyUser"     -> Found("TenantUser", [deletedAt |-> "null"])
    [] f = "everyProduct"  -> Found("Product", [deletedAt |-> "null"])
    [] f = "everyOrder"    -> Found("SalesOrder", << >>)

\* Figures of rows that come and go once; stock goes up and down.
Lasting(phases) ==
  (UNION {UNION phases[i] : i \in DOMAIN phases}) \ {"inStock", "lowStock", "named"}

Closed == [page |-> "none"]

Today == [today |-> today, month |-> MonthStart[today]]

\* The code up to the next await.  The days that a phase counts from are
\* taken when its statements are sent.
StartPhase(r) ==
  [r EXCEPT !.pending = Head(r.todo), !.todo = Tail(r.todo),
            !.since = [d \in {"today", "month"} |->
                         IF {d} \in Head(r.todo) THEN Today[d] ELSE r.since[d]]]

\* 403, or nothing to look up.
Refused(r) == \E f \in {"access", "ordered"} \cap DOMAIN r.got : r.got[f] = {}

Proceed(r) ==
  IF r.pending = {} /\ r.todo # << >> /\ ~Refused(r) THEN StartPhase(r) ELSE r

Served == reading # Closed /\ reading.pending = {}

\* JwtStrategy knows no removed user; crack-ai believes the token.
Open(v, page) ==
  /\ reading = Closed
  /\ page \in DOMAIN Pages(v)
  /\ page \in DOMAIN ToolPages(v) \/ v.role = "SUPER_ADMIN" \/ life[v.id] = "live"
  /\ LET phases == Pages(v)[page]
         r == [page |-> page, viewer |-> v, pending |-> {}, todo |-> phases,
               since |-> Today, asked |-> << >>, got |-> << >>]
     IN reading' = Proceed([r EXCEPT !.asked = [f \in Lasting(phases) |-> Figure(f, r)]])
  /\ UNCHANGED worldVars

\* CURRENT_DATE is the day on which the statement runs.
Run(statement) ==
  /\ reading # Closed
  /\ statement \in reading.pending
  /\ LET r == IF "soldToday" \in statement THEN [reading EXCEPT !.since = Today]
                                            ELSE reading
     IN reading' = Proceed([r EXCEPT
          !.pending = @ \ {statement},
          !.got = Merge([f \in statement |-> Figure(f, r)], @)])
  /\ UNCHANGED worldVars

\* A statement fails: the page does, whatever the others still answer.
Fail ==
  /\ reading # Closed
  /\ reading.pending # {}
  /\ reading' = Closed
  /\ UNCHANGED worldVars

Close ==
  /\ Served
  /\ reading' = Closed
  /\ UNCHANGED worldVars

-----------------------------------------------------------------------------
(* The world *)

EnterOrder(o) ==
  /\ \E items \in Baskets :
       /\ \A i \in DOMAIN items :
            /\ life[items[i].product] # "none"
            /\ OwnerOf[items[i].product] = OwnerOf[o]
       /\ Place(o, items) \/ Sell(o, items)
  /\ Rows!Insert(o, OwnerOf[o])
  /\ created' = [created EXCEPT ![o] = today]
  /\ UNCHANGED <<today, reading>>

CloseOrder(o) ==
  /\ Complete(o) \/ Cancel(o)
  /\ UNCHANGED <<life, owner, created, today, reading>>

\* Receipts, the returns of orders that stay COMPLETED, adjustments and
\* PATCH change what a shelf holds, and leave the orders as they are.
Restock(p) ==
  /\ life[p] # "none"
  /\ \E units \in Counts : stock' = [stock EXCEPT ![p] = units]
  /\ UNCHANGED <<book, life, owner, created, today, reading>>

AddRow(k) ==
  /\ Rows!Insert(k, OwnerOf[k])
  /\ UNCHANGED <<bookVars, created, today, reading>>

RemoveRow(k) ==
  /\ Rows!Remove({k}, OwnerOf[k])
  /\ UNCHANGED <<bookVars, created, today, reading>>

\* In one step, as the transaction commits it.
RemoveStore(t) ==
  /\ life[t] = "live"
  /\ Rows!Remove({k \in Row : life[k] = "live" /\ owner[k] = t}, t)
  /\ UNCHANGED <<bookVars, created, today, reading>>

Midnight ==
  /\ today < MaxDay
  /\ today' = today + 1
  /\ UNCHANGED <<bookVars, life, owner, created, reading>>

ReportsInit ==
  /\ BookInit
  /\ life = [k \in Row |-> IF k \in Opening THEN "live" ELSE "none"]
  /\ owner = [k \in Row |-> IF k \in Opening THEN OwnerOf[k] ELSE NoTenant]
  /\ created = [o \in Order |-> 0]
  /\ today = 1
  /\ reading = Closed

WorldNext ==
  \/ \E o \in Order : EnterOrder(o) \/ CloseOrder(o)
  \/ \E k \in Category \cup Supplier \cup Product \cup User : AddRow(k) \/ RemoveRow(k)
  \/ \E p \in Product : Restock(p)
  \/ \E t \in Tenant : RemoveStore(t)
  \/ Midnight

ReadNext ==
  \/ \E v \in Viewer : \E page \in DOMAIN Pages(v) : Open(v, page)
  \/ \E statement \in (IF reading = Closed THEN {} ELSE reading.pending) : Run(statement)
  \/ Fail
  \/ Close

ReportsNext == WorldNext \/ ReadNext

ReportsSpec == ReportsInit /\ [][ReportsNext]_reportsVars

-----------------------------------------------------------------------------

(***************************************************************************)
(* Whatever happens between the statements of a page, a figure has every   *)
(* row that was there both when the page was asked for and after it was    *)
(* read, and none that was never there: a dashboard can mix moments, but   *)
(* it never shows an order twice, a completed one undone or a row revived. *)
(* It holds because the writers keep to OrderBook and SoftRows.            *)
(***************************************************************************)
FiguresWereTrue ==
  reading # Closed =>
    \A f \in DOMAIN reading.got \cap DOMAIN reading.asked :
      LET now == Figure(f, reading) IN
      /\ reading.asked[f] \cap now \subseteq reading.got[f]
      /\ reading.got[f] \subseteq now \cup {k \in Row : life[k] = "removed"}

\* Of one count of the orders since midnight and since the first of the month.
MonthCovers(day, month) ==
  /\ {day, month} \subseteq DOMAIN reading.got
  /\ reading.page # "getSummary"
  /\ reading.since.month <= reading.since.today
  => reading.got[day] \subseteq
       reading.got[month] \cup {k \in Row : life[k] = "removed"}

(***************************************************************************)
(* The summary for the assistant asks for the month after the day: unless  *)
(* a month begins in between, the month's sales include the day's, however *)
(* many are made while it is asked.  The dashboard's own summary asks side *)
(* by side and promises no such thing.                                     *)
(***************************************************************************)
MonthCoversToday ==
  reading # Closed =>
    /\ MonthCovers("today", "month")
    /\ MonthCovers("soldToday", "soldThisMonth")

(***************************************************************************)
(* A best seller that the assistant calls 'Unknown' is a product that was  *)
(* removed since its orders came in.                                       *)
(***************************************************************************)
UnknownIsRemoved ==
  reading # Closed /\ "named" \in DOMAIN reading.got =>
    \A p \in ItemsOf(reading.got["ordered"]) \ reading.got["named"] :
      life[p] = "removed"

(***************************************************************************)
(* A page shows a store's user rows of that store alone, and to staff who  *)
(* ask for the sales, their own; all but the best sellers of the           *)
(* dashboard, which are counted over all stores: OrderItem is no model     *)
(* that the extension knows.                                               *)
(***************************************************************************)
FiguresAreOfViewer ==
  reading # Closed /\ reading.viewer.tenantId # NoTenant =>
    \A f \in DOMAIN reading.got \ {"sold"} : \A k \in reading.got[f] :
      /\ OwnerOf[k] = reading.viewer.tenantId
      /\ /\ f \in {"ownOrders", "ownTotal", "ownCompleted", "soldToday", "soldThisMonth"}
         /\ reading.viewer.role = "STAFF"
         => Seller[k] = reading.viewer.id
=============================================================================
