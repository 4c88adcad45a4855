# CrackPOS backend: TLA+ specifications and proofs

CrackPOS is a multi-tenant inventory backend: a NestJS process (`src/src`) over
PostgreSQL through Prisma (`src/prisma/schema.prisma`), with a Python service
for AI chat (`src/crack-ai`). This directory holds TLA+ models of its core, the
TLC configurations that check them and TLAPS proofs of their main properties.

## The system

Node runs many HTTP requests at a time. Each `await` of a service method is one
database statement, and between two of them any other request may run. Some
methods wrap their statements in a Prisma `$transaction` (READ COMMITTED, the
default); some read before the transaction opens; login and refresh use none.
`register` and `createStore` use a transaction too. There is no lock in the
process and no `SELECT ... FOR UPDATE`. So the questions
are: what was read before an `await` and used after it, what a rollback undoes,
and what the conditional `UPDATE`s guarantee.

| Component | State | Operations that change it | What makes it correct |
|---|---|---|---|
| Sales (`sales/`) | `sales_orders`, `order_items`, product stock, `stock_transactions` | create, create pending, complete, cancel | never oversell; ship all items or none, in the step that completes the order |
| Purchase (`purchase/`) | `purchase_orders`, stock, average cost, ledger | create, create pending, receive, cancel | all items arrive or none; the ledger accounts for them; a cost between the prices paid |
| Returns (`returns/`) | `sales_returns`, `returnedQuantity`, order totals, stock | create a return | counters agree with rows; totals agree with refunds; only completed orders |
| Inventory (`inventory/`) | stock, ledger; categories, suppliers, products (AI input) | adjust, AI input | stock and ledger agree; an input only adds rows, with references of its own store |
| Categories, suppliers, products | their rows | create, update, soft delete | rows of the user's store only; a removed row stays removed |
| Admin (`admin/`) | soft deletes of a store's rows | remove tenant | a store goes whole or not at all |
| Auth (`auth/`) | `tenant_users` counters and locks, `refresh_tokens`, `platform_users`, `tenants`, `tenant_members` | login, refresh, logout, register, create store, Google login | a replaced token is revoked; locks are deserved and effective; logout ends sessions; a store is created whole or not at all |
| Users (`users/`) | `tenant_users` | create, update, remove, change password | names unique in a store; removal is final and ends access |
| Tenant scope (`prisma.extension.ts`) | none | rewrites the WHERE of reads, updates and deletions | a client reaches its tenant's rows, reads none that is removed, deletes none for good |
| Audit log (`activity-log/`, the interceptor) | `activity_logs` | insert after the response | the log is about a row of the user |
| Dashboard, reports, AI data, the tools of `crack-ai`, platform statistics | none of their own | reads, many statements to a page | every figure was true, and is the viewer's |
| AI gateway, `crack-ai` | the conversation, `ai_audit_logs` | chat | the loop ends; every tool call has its result; the log has what was told |
| Response cache, upload, health | a map in the process; files | the cache is wired to no controller; file I/O | |
| Guards, filters, middleware | none | decisions and formatting | roles |

What is hard: concurrent requests on the same rows, an error in the middle of a
loop, crossing locks, stale reads before a write, statements that rely on a
check made by an earlier statement, and pages whose figures are read one after another. `PROJECT.json` lists these places, line by
line, as hazards.

## Modules

```
RowStore ── StockDb ── Requests ─┬─ Sales ── Returns ─┐
                                 ├─ Purchase ─────────┼─ Store ── MCShifts, MCReturns
                                 └─ Inventory ────────┘    │
                                                          StoreProofs ─┐
Sums ──────────────────────────────────────────────────────────────────┴ BooksProofs
OrderBook ◁ Sales            ◁: is implemented by
SoftRows  ◁ Catalog
RowStore, TenantScope ── Catalog ── MCCatalog, CatalogProofs
OrderBook, SoftRows, TenantScope ── Reports ── MCReports
Sums, Reports ── ReportsProofs
RowStore ── Accounts ── MCAccounts, AccountsProofs
Sessions ── MCSessions, SessionsProofs
Chat ── MCChat, ChatProofs
```

* **RowStore** is the database as the services use it: a table has a committed
  and a current version of each row and the transaction that holds its lock. A
  writing statement waits for the lock and sees the newest version (PostgreSQL
  re-evaluates the WHERE clause after a wait); a SELECT never waits.
* **StockDb** is the products table with the `stock_transactions` ledger, and
  the only things a service does to them: `MoveStock` (a relative update of
  `stockQuantity` and a ledger row), `CommitStock`, `RollbackStock`,
  `SetProduct` (PATCH and DELETE, outside a transaction). `StockSpec` lets them
  happen in any order with any amount that leaves the stock non-negative: it is
  the abstract specification that the services implement. `posted`, `ledger` and
  `base` are the sums of uncommitted and committed ledger rows and of the stock
  that was set and not moved.
* **Requests** has the requests in flight: `req[h]` is the method, the statement
  that comes next and the row it is about; `todo[h]` and `productMap[h]` are the
  locals that survive an `await`. A request refused before its first write is
  not a step, as it changes nothing.
* **Sales**, **Purchase**, **Returns**, **Inventory** have one action per
  database statement of the service method, in the method's order. The guard of
  a statement with a WHERE is evaluated on the newest version under the lock,
  that of a check on an earlier read on what was read. Every error path
  (`RefuseShortage`, `RefuseForeignProduct`, a unique violation) is a rollback of all
  the tables. `Expire...` is what Prisma and PostgreSQL do to an open
  transaction: deadlock victim, timeout, lost connection, death of the process.
* **Store** composes them over one database. **MCShifts** checks it on four
  small instances at once: a behaviour is a shift at the counter (a sale and its
  returns), in the warehouse (deliveries), at both, or one in which two tenants are
  neighbours and ask for anything there is, adjustments and product edits included.
  **MCReturns** is the store with one order and its returns.
* **OrderBook** is what a reader of the database sees of sales: orders appear,
  and are completed or cancelled, in single steps, and the goods of all the items leave
  the shelf in the step that makes an order COMPLETED. `Sales` implements it
  (`ImplementsOrderBook`); the refinement mapping takes the committed rows. The
  specification allows any existing order to be completed, because the code does.
* **TenantScope** has the Prisma extension as operators from an operation, a
  model and a where to the where that reaches the database. `Requests.Sees` is
  its effect on stock and orders, Catalog and Reports send statements through it.
* **SoftRows** is a soft-deleted table: a row appears once, has one owner, and
  stays removed.
* **Catalog** has `CategoriesService`, `SuppliersService`, `ProductsService`, the
  bulk input `aiProductInput` (a loop of lookups, upserts and inserts, no
  transaction), the part of `AdminService.removeTenant` that marks these
  tables in one transaction, and the audit interceptor's task after each. It
  implements SoftRows (`ImplementsSoftRows`).
* **Reports** has every page of the dashboard, the reports, the platform
  statistics, the AI data and those tools of `crack-ai` that read the same
  tables: which statements it sends together and which one after another, who may
  ask, and which store each statement names. What moves under a page are not the
  services again but the abstractions they implement, OrderBook and SoftRows. As receipts,
  returns, adjustments and PATCH also change what is on a shelf while the orders stay
  as they are, `Restock` puts any figure there at any time.
* **Sessions** has login with its lockout, refresh-token rotation, logout,
  change of password and removal of a user, one action per statement; nothing is
  transactional, and a `Crash` may come between any two statements.
* **Accounts** has the rows of platform users, tenants, owners and users, on the
  same row locks: registration, creation of a store, first Google login,
  creation, change and removal of users, removal of a tenant. `register` asks for
  the names outside its transaction and inserts inside it, so only the unique
  indexes decide; a unique violation is an `Abort`.
* **Chat** is one question to the AI assistant, from the gateway to the audit row:
  the bounded loop, the tools of a round as concurrent tasks, and the gateway's
  timer, which runs against it. Chats share only a connection pool, so one is
  enough.

Definitions whose name begins with what a bug would do and whose comment begins
with "Mutant" (`InStockUnchecked`, `KeepToken`...) are used by no specification:
they are variants of the definition that follows, kept to show that the
properties notice them.

Abstractions. An order is identified by its number, which is unique within a
tenant. Money is in whole cents; the average cost is rounded half up to a cent,
as `Decimal(12,2)` is on write. Order totals are functions of the items and of
what returns took off, and the row keeps those amounts. Dates and notes are
left out. A hash matches exactly what it was made
from, so passwords and tokens stand for their hashes; time is a counter. A figure of a
page is the set of rows it counts or sums; date ranges, limits, grouping and rows
included in others are left out. Clients of Catalog send ids of their own store, as nothing
shows them others. `InsertLog` is the read of "before" and the insert of the log row in
one step, as nothing the properties tell apart comes between them.

## Runs

`tlc -config X.cfg M` in this directory. Passing runs:

| Run | Module, cfg | Instance | Shows |
|---|---|---|---|
| `sales` | MCSales | 2 requests, 2 orders, 2 products with 2 pieces each, carts that lock them in opposite orders and one with a product twice | nothing is oversold; only completed orders ship; the committed rows are an order book; every request is answered |
| `shifts` | MCShifts | 3 requests; at the counter 1 order of two lines and 2 returns, in the warehouse 2 orders (an empty cart, a product on two lines, another tenant's product, opening stock 0 or 1), or a sale and a delivery; or 2 requests of 2 tenants, all services, an order, a purchase order and a return, each tenant naming the other's product, adjustments whose type contradicts their sign | types; no stock is negative and the ledger accounts for it; all or nothing arrives; the cost stays between the prices; returned counters equal return rows; totals equal price less refunds and cost of what was kept; nothing is left behind by a request that ended in any way; no row of another tenant is written |
| `catalog` | MCCatalog | 2 requests of 2 stores and a super admin, 2 categories, 1 product, bulk inputs of two items of which the second has no category | no row changes hands or is revived, also when two inputs race for a name; an input carries its own references; a store goes whole; the log is about the user's row |
| `reports` | MCReports | 1 page at a time (all of them), 2 stores, 3 orders, 3 days of which the last begins a month; sales, refilled shelves, midnights or removals in between | a figure was true; the month covers the day where the code asks in that order; 'Unknown' is a removed product; figures are the viewer's |
| `sessions` | MCSessions | 2 calls, 1 user, 3 tokens, 2 failures to a lock, crashes | rotation, finality of revocation, deserved locks; a logout ends every session but those a refresh is racing for |
| `accounts` | MCAccounts | 3 requests, 2 e-mails and 2 user names for 1 store | a store has its owner and a user, or does not exist; a failed registration wastes no e-mail; removal is final |
| `chat` | MCChat | 4 rounds of at most two tools, one of which may be unreadable | one result per tool call, in place; the newest text is told, and logged as told; a late answer changes nothing; everything ends |

Two or three concurrent requests are enough for every race here: each race
needs one request between another's read and write, and a third one to create
the order or to hold a crossing lock. Carts have two lines because loops can
fail at the first, between, and at the last line. Stock is scarce so that
shortages happen. `MaxAdjusted`, `MaxLines`, `MaxTime` and `MaxFailures` are
bounds of the instances; only the numbers of keys bound the rest.
`MaxToolIterations` is 5 in the code and 4 in the instance: the first, middle and last
rounds occur. Requests, tokens and names are symmetric where SYMMETRY is used;
liveness is checked without it; of the neighbours in MCShifts only one handler of the
symmetric ones is on duty, and the guest is not one of them. Suppliers are the same code as categories, so the instance
of Catalog has none. In MCReports a page meets one kind of change at a time (`scene`),
which keeps eight concurrent statements within reach. `CHECK_DEADLOCK FALSE` is set because a server that gets no
more requests, or whose finite number of keys is used up, simply rests.

Runs that TLC refutes: a sentence of the repository that the code does not keep.

| Run | The sentence | What happens |
|---|---|---|
| `sales_stale_completion` | "Only PENDING orders can be completed" (`sales.service.ts:204`) | the status is read without a lock and the update is by id: an order cancelled or completed meanwhile is shipped (again) |
| `purchase_stale_cost` | "weighted average" (`purchase.controller.ts:36`) | the cost is computed from rows read before the loop: a product on two lines, or a concurrent receipt or sale, makes it wrong |
| `returns_too_many` | "Quantity retur tidak boleh melebihi quantity yang dibeli" (`returns.controller.ts:40`) | the check precedes the transaction and looks at each line by itself |
| `lockout_loses_counts` | "terkunci 30 menit setelah 5 failed attempts" (`auth.controller.ts:264`) | the counter is read, incremented in the process and written: concurrent failures count once |
| `logout_misses_refresh` | "revoke semua refresh token user" (`auth.controller.ts:371`) | a refresh that read its token before the logout gives its successor after it |

Reading the code against its comments also showed, without a run of its own:

* `receivePurchaseOrder` refuses RECEIVED only (`purchase.service.ts:165`), so a
  cancelled order can be received, against "PENDING → RECEIVED"
  (`purchase.controller.ts:97`); two concurrent receipts both add the stock.
* `adjustStock` lets the type IN or OUT override the sign of `quantityChange`,
  against `inventory.controller.ts:28-29` (see `StockChange`).
* Two concurrent refreshes of one token yield two new ones.
* User names are checked across stores but unique within one, so concurrent
  registrations can share one.
* A user, an order or a catalog row that is inserted while the store is being
  removed stays live in a removed store.
* A store that `register` created has no AI tokens (`schema.prisma:27`) while
  `createStore` gives it 10000; nothing increments `aiTokensUsed`, so the limit
  never bites.
* Every mutation is said to be logged (`src/README.md:120`), but failed bulk inputs,
  which leave rows behind, the work of super admins, and log rows that cannot be
  written are not; and "before" is read after the handler (`LogFollowsWrite`).
* The upsert of `aiProductInput` finds removed categories and suppliers, so a new product
  can refer to one.
* The dashboard's sums are of all orders, PENDING and CANCELLED included, against
  `dashboard.controller.ts:27-29`; its inventory value is a number of units,
  against `dashboard.controller.ts:109-112`; its best sellers are counted over all
  stores, because `OrderItem` is no model of the extension (see `FiguresAreOfViewer`).
* Figures of a dashboard page are read side by side, so today's sales may exceed
  the month's; the AI data asks for the month after the day, which bounds it
  (`MonthCoversToday`). Revenue is not reduced by returns.
* Platform counts of orders include removed ones. The tools of `crack-ai` that join
  `users` name a table that does not exist (`tenant_users`).
* No module registers the response cache.
* The gateway documents the history role "model" (`ai-chat-request.dto.ts`), which
  the AI service refuses (`schemas.py:16`); and when the model ends without a text,
  the reply is an answer from the history.

### Fairness

`SalesSpec` and `StoreSpec` assume weak fairness of each handler's next
statement: Node runs every ready callback, PostgreSQL grants a free lock, and
Prisma ends a transaction that stays open beyond its timeout, so some step of a
request in flight is always enabled and eventually taken. Nothing makes clients
send requests. `ChatSpec` assumes that what the process does itself, timeouts
included, happens (`ChatStep`); not that a model answers, that a tool returns or that
a client asks. `SessionsSpec` and `AccountsSpec` state no fairness; only safety
is checked there. So do
`CatalogSpec` and `ReportsSpec`: a page or a bulk input that is given up is a `Fail`.

## Proofs

All are for arbitrary constants (any handlers, products, keys, tenants, carts,
prices and calendars), under the named ASSUMEs of the modules. They say
that opening stock is not negative, quantities are positive, sentinels differ
from real values; and, for Reports, that a super
admin has no tenant and a month does not begin after its days.

Each theorem is Init => IInv, IInv /\ [Next]_vars => IInv' and IInv => Inv for an invariant
that says more than the property. What it says, and why, is below.

* **StoreProofs**, the stock. `StockSafe`: the abstract stock specification keeps stock
  non-negative and the ledger complete. `LedgerAccountsForStock` is not inductive
  by itself: a rollback restores the committed row, so one needs that an
  unlocked row has a single version (`Consistent`), and the types. `StoreTyped`;
  `StoreImplementsStock`, each of the actions of
  Sales, Purchase, Returns and Inventory is a step of `StockNext` or leaves the
  stock alone (the refinement mapping is the identity on the stock variables);
  from it and `StockSafe`, `StoreNeverOversells` and `StoreLedgerIsComplete`. The
  typing part carries what the actions need: `todo` has lines with positive
  quantities, a claim's order is one, `productMap` has product rows.
* **StoreProofs**, the orders: five properties of the composition `StoreSpec`.
  `FinishedRequestsHoldNothing` needs to know what a request may hold at every statement,
  not only at the end (`LockInv`): nothing before the first write of its transaction,
  later only rows of its own tenant, in the tables of its own service, and the ids in
  its locals have passed a filter on the tenant. The same invariant gives
  `TenantsAreIsolated`, since a transaction commits only what it holds
  (`Confined`). `OnlyCompletedOrdersShip` is not inductive: the piece of stock and the
  status are written by different statements and published together. `SoldInv` adds
  that whoever has a sale posted under an order has also written COMPLETED to that
  order and holds it (`ShipsOwn`), and that no statement of any service writes another
  status over a COMPLETED (`Lasting`), however stale the check before it was.
  `OnlyReceivedOrdersArrive` is its counterpart for purchases (`BoughtInv`), and
  `OnlyCompletedOrdersReturn` follows from `SoldInv`'s lasting status (`ReturnInv`). A
  step of one request leaves alone what another one holds (`StepKeepsOthers`), so each
  of these looks only at the request that moves.
* **Sums**: what the books need of `SumFunctionOnSet`: a sum loses and gains one term, adds
  up over disjoint sets, pointwise sums and renamed keys, and the pieces of a product on a
  list of lines (`Pieces`) are those of its head and its tail. The community module sums by
  recursion over sets, and the induction theorems cannot be instantiated; the facts come
  from the well-foundedness of strict inclusion on finite sets (`WFMin`), as a search for a smallest
  counterexample.
* **BooksProofs**: five results about amounts.
  `ReceivedOrdersArriveComplete`: `ArrivedInv` says that what a receipt has posted so far and
  the lines it has still to receive make up the order's items, for every product and
  at every statement; the loop ends with nothing to receive, and status and stock are
  committed together.
  `AverageCostsStayWithinPrices`: `CostInv` bounds by the known prices not only the
  committed cost but every version of a row, the row that a receipt found and may use much
  later, and the prices of the lines to come. An average of such a cost and price, with weights
  that are not negative, lies between them, and so does its rounding; it does not
  matter that the weights are stale.
  `ReturnedCountersAreExact`: `ReturnedInv` says that a committed counter is the tally of
  the committed return rows, that the open return has added exactly the lines
  it has gone through, and that return rows are never changed.
  `BooksAlwaysBalance`: `BooksInv` weighs the items with their counters, what an order
  has refunded and the cost that an open return has not taken off yet
  against the totals of the row, at each of the three writes of a return.
  `SalesImplementOrderBook`: `SalesInv` says of each request that before its first write it
  holds no order and has moved nothing (`Reads`), and after it holds one order, and
  what it has moved is the order's items less those still to ship (`Writes`); what a
  handler read is what the order has, as items are settled when the order is created,
  and costs stand still. So the commit is one step of OrderBook and every other
  statement is none.
* **SessionsProofs**: the invariant `SessionsInv` adds to the properties what a
  call in flight still knows although its locals are stale (`CallKnows`): a
  token read as issued stays issued, one revoked stays revoked, failures only
  accumulate. From it `SessionsTyped`, `RotationRevokes`, `LocksAreDeserved`,
  `RevocationLasts`. `LogoutIsThorough`: `standing` says of each token whether its
  session was ended by the last logout of its user. That no ended session has a live
  token is not inductive, since a refresh in flight could give it one; `RefreshesGoOn` adds that what
  such a refresh holds is no token of an ended session, as the logout that would have ended it saw
  the refresh and left the session racing.
* **AccountsProofs**: `AccountsTyped` and `RemovalIsFinal`. The invariant `AccountsInv`
  says which arguments a request at a statement has (`Carries`), and that a row
  whose committed version is removed has no newer version that is not: a commit
  publishes the current version, a rollback restores the committed one.
  `StoresAreWhole` and `NoEmailIsWasted`: neither property says what
  a transaction holds before it commits, so neither is inductive. `FoundingInv` adds,
  for every request and statement, exactly which rows it has inserted and holds
  (`HasAccount`, `HasTenant`, `HasOwner`, `HasUser`: register and createStore insert in
  different orders), and that what it read before still stands: the e-mail of
  `createStore` has an account, the store of a new user exists, the user of an update
  is there. As the holder of a new store found no store under the slug and keeps
  the others out, the commit meets a slug without owners or users and publishes all of
  them at once. No UPDATE unmakes a row (`Lasting`), so what was committed
  stays so (`Stays`), and a step leaves what others hold alone (`Keeps`).
* **CatalogProofs**: `ClientsAreConfined` and `RemovedRowsAreHidden`, of the
  extension for any where and row; then `CatalogTyped`, `InputsCarryTheirOwn`,
  `LogIsOfOwnRows`, `WritesStayInStore`, `StoresGoWhole` and
  `CatalogImplementsSoftRows`. None of these properties is inductive alone. The
  invariant `CatalogInv` adds what a request must carry for its next statement
  (`Carries`), that a row nobody holds has a single version (`TableInv`), and that
  only the removal of a store holds rows, rows of that store which it has marked
  (`Holding`); so an UPDATE that got the lock sees the committed row, and a
  commit publishes removals only. Each action is shown once to keep all of this
  (`Kept`), and to be a step of SoftRows (`SoftStep`), from which what others know of the
  rows stays true (`KnowledgeLasts`).
* **ReportsProofs**: `FiguresAreAlwaysTrue`, `MonthsIncludeTheirDays`,
  `UnknownsWereRemoved` and `PagesKeepToTheirViewer`, for all pages
  and any number of stores, orders and days. Each is about figures that were read while the
  rows moved on, so `ReadingInv` relates the page to the rows as they are now
  (`PageOK`): the plan of what is still to ask (`Planned`: the month after the day, the
  names after the orders); that the
  rows a figure had when the page asked for it may still be shown (`AskedOK`); of each figure read,
  that each of its rows may be shown, and that none is missing of those it had and still has (`GotOK`). Rows make this
  stable: they go from live to removed only, keep owner and items, and a COMPLETED stays
  one. `Covers` and `NamedOK` are the two properties that relate two figures, extended to
  pages half read.
* **ChatProofs**: `ChatTyped`, `ReplyIsTheNewest`, `AuditIsTrue` and `OneAnswer`, for
  any model, tools, histories and number of rounds. `ChatInv` says that the texts of a
  conversation stand in the order of their rounds, none newer than the present one
  (`Ordered`), so the last text from the back is the newest (`ReplyTextFinds`); and
  that a tool that was called has started or is still scheduled (`ToolsAreCounted`), so
  when all tasks of a round are done the tools counted are those called.
  `ConversationsAreWellFormed`: in `Conversation` the rounds are counted from the front
  (`RoundAt`), so what is appended leaves the rounds before it as they were; the tasks of the
  present round are those of its calls, in their order (`TasksOf`), and so are the results that
  `gather` returns and the loop appends.

Only model-checked: liveness (`EveryRequestEnds`, `EveryChatEnds`; the prover does not
handle fairness and ENABLED). The sentences that the refuting runs are about are false, and
TLC shows the steps.

## Not modelled

File upload, health, configuration, seed and migrations, formatting (CSV, response
wrapping, sanitising); the response cache, which no request passes. Listings, and pages
that are one SELECT without a figure. Modelled in part: admin (`removeTenant` marks
users in Accounts, categories, suppliers and products in Catalog; the orders it marks
as well are left out, as nothing the models know reads their `deletedAt`), the
audit log (when and about what row, not its contents), `crack-ai` (no
connection pool, no product-from-image; a pool that is recreated twice at
`database.py:18` shows only as connections that the database closes in the end), the guards
(roles are guards of the actions; CSRF and throttling are left out).

## Order of the work

RowStore, StockDb, Requests, Sales, Purchase, Returns, Inventory, Store; Sessions;
Accounts; Chat; TenantScope, SoftRows, Catalog; OrderBook and its implementation by
Sales; Reports. Proofs: StockDb, Store, Sessions, Accounts, Catalog, orders and tenants,
founding of stores, Chat; then Sums, the books of the store, the implementation of
OrderBook, Reports and the conversation. Every invariant and action property of the
passing runs has a theorem. What would come next: the pool of `crack-ai` and the orders
that `removeTenant` marks.
