------------------------------- MODULE Sales -------------------------------
(***************************************************************************)
(* SalesService: orders that ship at once, orders that wait, and their     *)
(* completion and cancellation.  One action per database statement of each *)
(* method; every method runs in one $transaction.                          *)
(*                                                                         *)
(* An order is identified by its number, which is unique within a tenant.  *)
(* The columns totalPrice, totalCogs and totalProfit are functions of the  *)
(* order's items and of what returns have taken off since, so the row      *)
(* keeps the items and the amounts taken off.                              *)
(***************************************************************************)
EXTENDS Requests

CONSTANTS
  SalesOrder,   \* order numbers of all tenants
  SaleCarts     \* the item lists that clients send

OrderLine == [product : Product, quantity : Nat \ {0}, unitPrice : Nat, cogs : Int]

ASSUME SalesAssumption ==
  /\ SalesOrder \subseteq Key
  /\ SaleCarts \subseteq Seq(Line)
  /\ << >> \notin SaleCarts

VARIABLES
  salesOrders,  \* the sales_orders table and its order_items
  shipped       \* committed OUT rows per order number and product

salesVars == <<salesOrders, shipped>>

SalesOrderRow ==
  [status : {"NONE", "PENDING", "COMPLETED", "CANCELLED"},
   items : Seq(OrderLine),
   returnedCogs : Int,
   returnedProfit : Int]

NoSalesOrder == [status |-> "NONE", items |-> << >>,
                 returnedCogs |-> 0, returnedProfit |-> 0]

SalesInit ==
  /\ salesOrders = NewTable([o \in SalesOrder |-> NoSalesOrder])
  /\ shipped = [o \in SalesOrder |-> NoRows]

-----------------------------------------------------------------------------

\* The rows buildOrderItemsData prepares: what each item cost on average when
\* the request read its product.
OrderItems(lines, found) ==
  [i \in 1..Len(lines) |->
     [product   |-> lines[i].product,
      quantity  |-> lines[i].quantity,
      unitPrice |-> lines[i].unitPrice,
      cogs      |-> found[lines[i].product].averageCost * lines[i].quantity]]

\* buildOrderItemsData: every product must be one of the tenant's.  Nothing
\* asks whether the product was removed, or how much of it there is.
BuildOrderItems(h, op, o, cart) ==
  /\ Begin(h, op, o, "insertOrder")
  /\ Sees(h, o)
  /\ DOMAIN FindProducts(h, cart) = ProductsOf(cart)
  /\ todo' = [todo EXCEPT ![h] = cart]
  /\ productMap' = [productMap EXCEPT ![h] = FindProducts(h, cart)]
  /\ UNCHANGED <<stockVars, salesVars>>

InsertSalesOrder(h) ==
  LET o == req[h].key
      ships == req[h].op = "createSalesOrder" IN
  /\ At(h, {"createSalesOrder", "createPendingSalesOrder"}, "insertOrder")
  /\ Free(salesOrders, h, o)
  /\ salesOrders.current[o].status = "NONE"
  /\ salesOrders' = Update(salesOrders, h, o,
        [status         |-> IF ships THEN "COMPLETED" ELSE "PENDING",
         items          |-> OrderItems(todo[h], productMap[h]),
         returnedCogs   |-> 0,
         returnedProfit |-> 0])
  /\ Goto(h, IF ships THEN "shipLine" ELSE "commit")
  /\ UNCHANGED <<stockVars, todo, productMap, shipped>>

\* completeSalesOrder, first statement: a SELECT that takes no lock.
FindPendingSalesOrder(h, o) ==
  /\ Begin(h, "completeSalesOrder", o, "markCompleted")
  /\ Sees(h, o)
  /\ salesOrders.committed[o].status = "PENDING"
  /\ todo' = [todo EXCEPT ![h] =
        [i \in 1..Len(salesOrders.committed[o].items) |->
           [product   |-> salesOrders.committed[o].items[i].product,
            quantity  |-> salesOrders.committed[o].items[i].quantity,
            unitPrice |-> salesOrders.committed[o].items[i].unitPrice]]]
  /\ UNCHANGED <<stockVars, productMap, salesVars>>

\* Second statement: an UPDATE by id alone, whatever the status is by now.
MarkCompleted(h) ==
  LET o == req[h].key IN
  /\ At(h, {"completeSalesOrder"}, "markCompleted")
  /\ Free(salesOrders, h, o)
  /\ salesOrders' = Update(salesOrders, h, o,
        [salesOrders.current[o] EXCEPT !.status = "COMPLETED"])
  /\ Goto(h, "shipLine")
  /\ UNCHANGED <<stockVars, todo, productMap, shipped>>

\* Mutant: the decrement is not conditional on the stock.
InStockUnchecked(h, line) == Sees(h, line.product)

\* The WHERE of the stock decrement: the newest version of the row has enough.
InStock(h, line) ==
  /\ Sees(h, line.product)
  /\ products.current[line.product].stockQuantity >= line.quantity

\* Mutant: the loop ends after the first item.
ShipFirstLineOnly(h) ==
  LET line == Head(todo[h]) IN
  /\ At(h, SalesOp, "shipLine")
  /\ todo[h] # << >>
  /\ InStock(h, line)
  /\ MoveStock(h, line.product, -line.quantity,
               products.current[line.product].averageCost)
  /\ todo' = [todo EXCEPT ![h] = << >>]
  /\ UNCHANGED <<req, productMap, salesVars>>

\* One iteration of processStockOut.
ShipLine(h) ==
  LET line == Head(todo[h]) IN
  /\ At(h, SalesOp, "shipLine")
  /\ todo[h] # << >>
  /\ InStock(h, line)
  /\ MoveStock(h, line.product, -line.quantity,
               products.current[line.product].averageCost)
  /\ todo' = [todo EXCEPT ![h] = Tail(@)]
  /\ UNCHANGED <<req, productMap, salesVars>>

\* Mutant: the UPDATE of the cancellation is not conditional on PENDING.
CancelAnySalesOrder(h, o) ==
  /\ Begin(h, "cancelSalesOrder", o, "commit")
  /\ Sees(h, o)
  /\ Free(salesOrders, h, o)
  /\ salesOrders.current[o].status # "NONE"
  /\ salesOrders' = Update(salesOrders, h, o,
        [salesOrders.current[o] EXCEPT !.status = "CANCELLED"])
  /\ UNCHANGED <<stockVars, todo, productMap, shipped>>

\* cancelSalesOrder: one conditional UPDATE.
CancelSalesOrder(h, o) ==
  /\ Begin(h, "cancelSalesOrder", o, "commit")
  /\ Sees(h, o)
  /\ Free(salesOrders, h, o)
  /\ salesOrders.current[o].status = "PENDING"
  /\ salesOrders' = Update(salesOrders, h, o,
        [salesOrders.current[o] EXCEPT !.status = "CANCELLED"])
  /\ UNCHANGED <<stockVars, todo, productMap, shipped>>

CommitSale(h) ==
  LET o == req[h].key IN
  /\ \/ At(h, SalesOp, "shipLine") /\ todo[h] = << >>
     \/ At(h, SalesOp, "commit")
  /\ CommitStock(h)
  /\ salesOrders' = Commit(salesOrders, h)
  /\ shipped' = [shipped EXCEPT
                   ![o] = [p \in Product |-> @[p] - posted[h][p]]]
  /\ Respond(h)

\* Mutant: the error of a rolled back transaction never reaches the client.
RollbackSaleSilently(h) ==
  /\ RollbackStock(h)
  /\ salesOrders' = Rollback(salesOrders, h)
  /\ UNCHANGED <<shipped, requestVars>>

RollbackSale(h) ==
  /\ RollbackStock(h)
  /\ salesOrders' = Rollback(salesOrders, h)
  /\ UNCHANGED shipped
  /\ Respond(h)

\* Unique violation (P2002) on (tenantId, orderNumber).
RefuseOrderNumber(h) ==
  /\ At(h, {"createSalesOrder", "createPendingSalesOrder"}, "insertOrder")
  /\ Free(salesOrders, h, req[h].key)
  /\ salesOrders.current[req[h].key].status # "NONE"
  /\ RollbackSale(h)

\* P2025 on the stock decrement becomes a BadRequestException.
RefuseShortage(h) ==
  /\ At(h, SalesOp, "shipLine")
  /\ todo[h] # << >>
  /\ Free(products, h, Head(todo[h]).product)
  /\ ~ InStock(h, Head(todo[h]))
  /\ RollbackSale(h)

\* The database or Prisma ends a transaction that is still open: the victim
\* of a deadlock, the transaction timeout, a lost connection, a crash of the
\* process.
ExpireSale(h) == req[h].op \in SalesOp /\ RollbackSale(h)

SalesStep(h) ==
  \/ InsertSalesOrder(h)
  \/ RefuseOrderNumber(h)
  \/ MarkCompleted(h)
  \/ ShipLine(h)
  \/ RefuseShortage(h)
  \/ CommitSale(h)
  \/ ExpireSale(h)

SalesRequest(h) ==
  \E o \in SalesOrder :
    \/ \E op \in {"createSalesOrder", "createPendingSalesOrder"},
          cart \in SaleCarts : BuildOrderItems(h, op, o, cart)
    \/ FindPendingSalesOrder(h, o)
    \/ CancelSalesOrder(h, o)

SalesNext == \E h \in Handler : SalesRequest(h) \/ SalesStep(h)

salesOnlyVars == <<stockVars, requestVars, salesVars>>

SalesOnlyInit == StockInit /\ RequestsInit /\ SalesInit

SalesSpec ==
  /\ SalesOnlyInit
  /\ [][SalesNext]_salesOnlyVars
  /\ \A h \in Handler : WF_salesOnlyVars(SalesStep(h))

-----------------------------------------------------------------------------

SalesTypeOK ==
  /\ salesOrders \in Table(SalesOrder, SalesOrderRow, Handler)
  /\ shipped \in [SalesOrder -> [Product -> Int]]

(***************************************************************************)
(* An order that is not completed has taken nothing out of stock: waiting, *)
(* cancelled and failed orders leave no OUT rows under their number.       *)
(***************************************************************************)
OnlyCompletedShips ==
  \A o \in SalesOrder :
     salesOrders.committed[o].status # "COMPLETED" => shipped[o] = NoRows

(***************************************************************************)
(* Seen from the committed rows, sales are steps of the order book: though *)
(* a method is several statements and others run in between, an order and  *)
(* the stock of all of its products change together, or not at all.        *)
(***************************************************************************)
Book == INSTANCE OrderBook WITH
  Order   <- SalesOrder,
  Baskets <- {OrderItems(cart, rows) : cart \in SaleCarts, rows \in OpeningRows},
  Shelves <- {[p \in Product |-> rows[p].stockQuantity] : rows \in OpeningRows},
  book    <- [o \in SalesOrder |->
                [status |-> salesOrders.committed[o].status,
                 items  |-> salesOrders.committed[o].items]],
  stock   <- [p \in Product |-> products.committed[p].stockQuantity]

ImplementsOrderBook == Book!BookSpec

(***************************************************************************)
(* "Only PENDING orders can be completed": the order that a completion     *)
(* commits was PENDING up to that moment.  (Two completions that both read *)
(* PENDING ship the order twice, and one that read PENDING before a        *)
(* cancellation committed ships a cancelled order.)                        *)
(***************************************************************************)
OnlyPendingCompletes ==
  [][\A h \in Handler :
       req[h].op = "completeSalesOrder" /\ CommitSale(h) =>
         salesOrders.committed[req[h].key].status = "PENDING"]_salesOnlyVars
=============================================================================
