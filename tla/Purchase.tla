------------------------------ MODULE Purchase ------------------------------
(***************************************************************************)
(* PurchaseService: orders received at once, orders that wait, their       *)
(* receipt and their cancellation, and the moving average cost that a      *)
(* receipt computes.  One action per database statement.                   *)
(*                                                                         *)
(* Money is in cents: averageCost is a Decimal(12,2) column, so PostgreSQL *)
(* rounds what the service computes to the nearest cent, half up.          *)
(***************************************************************************)
EXTENDS Requests, Functions

CONSTANTS
  PurchaseOrder,  \* purchase order numbers of all tenants
  PurchaseCarts   \* the item lists that clients send; one may be empty

ASSUME PurchaseAssumption ==
  /\ PurchaseOrder \subseteq Key
  /\ PurchaseCarts \subseteq Seq(Line)

VARIABLES
  purchaseOrders, \* the purchase_orders table and its purchase_order_items
  arrived         \* committed IN rows per purchase order number and product

purchaseVars == <<purchaseOrders, arrived>>

PurchaseOrderRow ==
  [status : {"NONE", "PENDING", "RECEIVED", "CANCELLED"}, items : Seq(Line)]

NoPurchaseOrder == [status |-> "NONE", items |-> << >>]

PurchaseInit ==
  /\ purchaseOrders = NewTable([o \in PurchaseOrder |-> NoPurchaseOrder])
  /\ arrived = [o \in PurchaseOrder |-> NoRows]

-----------------------------------------------------------------------------

RoundedQuotient(n, d) == (2 * n + d) \div (2 * d)

\* Mutant: the quotient forgets the pieces that arrive.
NewAverageCostOfOldStock(product, line) ==
  IF product.stockQuantity > 0
    THEN RoundedQuotient(product.averageCost * product.stockQuantity
                           + line.unitPrice * line.quantity,
                         product.stockQuantity)
    ELSE line.unitPrice

\* The average cost of the stock in row `product` once `line` has joined it.
NewAverageCost(product, line) ==
  LET totalValueOld == product.averageCost * product.stockQuantity
      totalValueNew == line.unitPrice * line.quantity
      newTotalStock == product.stockQuantity + line.quantity IN
  IF newTotalStock > 0
    THEN RoundedQuotient(totalValueOld + totalValueNew, newTotalStock)
    ELSE line.unitPrice

\* purchaseOrder.create, the first statement of createPurchaseOrder and of
\* createPendingPurchaseOrder.  Nothing asks whose products the items are.
InsertPurchaseOrder(h, op, o, cart) ==
  LET arrives == op = "createPurchaseOrder" IN
  /\ Begin(h, op, o, IF arrives THEN "findProducts" ELSE "commit")
  /\ Sees(h, o)
  /\ Free(purchaseOrders, h, o)
  /\ purchaseOrders.current[o].status = "NONE"
  /\ purchaseOrders' = Update(purchaseOrders, h, o,
        [status |-> IF arrives THEN "RECEIVED" ELSE "PENDING", items |-> cart])
  /\ todo' = [todo EXCEPT ![h] = IF arrives THEN cart ELSE << >>]
  /\ UNCHANGED <<stockVars, productMap, arrived>>

\* Mutant: the order is read by PrismaService itself, not its tenant's client.
FindAnyPurchaseOrder(h, o) ==
  /\ Begin(h, "receivePurchaseOrder", o, "markReceived")
  /\ purchaseOrders.committed[o].status \notin {"NONE", "RECEIVED"}
  /\ todo' = [todo EXCEPT ![h] = purchaseOrders.committed[o].items]
  /\ UNCHANGED <<stockVars, productMap, purchaseVars>>

\* receivePurchaseOrder reads the order before it opens a transaction, and
\* refuses only the status RECEIVED.
FindPurchaseOrder(h, o) ==
  /\ Begin(h, "receivePurchaseOrder", o, "markReceived")
  /\ Sees(h, o)
  /\ purchaseOrders.committed[o].status \notin {"NONE", "RECEIVED"}
  /\ todo' = [todo EXCEPT ![h] = purchaseOrders.committed[o].items]
  /\ UNCHANGED <<stockVars, productMap, purchaseVars>>

\* An UPDATE by id alone, whatever the status is by now.
MarkReceived(h) ==
  LET o == req[h].key IN
  /\ At(h, {"receivePurchaseOrder"}, "markReceived")
  /\ Free(purchaseOrders, h, o)
  /\ purchaseOrders' = Update(purchaseOrders, h, o,
        [purchaseOrders.current[o] EXCEPT !.status = "RECEIVED"])
  /\ Goto(h, "findProducts")
  /\ UNCHANGED <<stockVars, todo, productMap, arrived>>

\* processReceivedItems reads all the products once, before the loop.
FindReceivedProducts(h) ==
  /\ At(h, PurchaseOp, "findProducts")
  /\ productMap' = [productMap EXCEPT ![h] = FindProducts(h, todo[h])]
  /\ Goto(h, "receiveLine")
  /\ UNCHANGED <<stockVars, todo, purchaseVars>>

\* One iteration: the increment is relative to the newest row, the average
\* cost is computed from the row as findMany returned it.  The UPDATE is
\* of the product of that id and of the user's tenant.
ReceiveLine(h) ==
  LET line == Head(todo[h]) IN
  /\ At(h, PurchaseOp, "receiveLine")
  /\ todo[h] # << >>
  /\ line.product \in DOMAIN productMap[h]
  /\ Sees(h, line.product)
  /\ MoveStock(h, line.product, line.quantity,
               NewAverageCost(productMap[h][line.product], line))
  /\ todo' = [todo EXCEPT ![h] = Tail(@)]
  /\ UNCHANGED <<req, productMap, purchaseVars>>

\* Mutant: the UPDATE of the cancellation is not conditional on PENDING.
CancelAnyPurchaseOrder(h, o) ==
  /\ Begin(h, "cancelPurchaseOrder", o, "commit")
  /\ Sees(h, o)
  /\ Free(purchaseOrders, h, o)
  /\ purchaseOrders.current[o].status # "NONE"
  /\ purchaseOrders' = Update(purchaseOrders, h, o,
        [purchaseOrders.current[o] EXCEPT !.status = "CANCELLED"])
  /\ UNCHANGED <<stockVars, todo, productMap, arrived>>

\* cancelPurchaseOrder: one conditional UPDATE.
CancelPurchaseOrder(h, o) ==
  /\ Begin(h, "cancelPurchaseOrder", o, "commit")
  /\ Sees(h, o)
  /\ Free(purchaseOrders, h, o)
  /\ purchaseOrders.current[o].status = "PENDING"
  /\ purchaseOrders' = Update(purchaseOrders, h, o,
        [purchaseOrders.current[o] EXCEPT !.status = "CANCELLED"])
  /\ UNCHANGED <<stockVars, todo, productMap, arrived>>

CommitPurchase(h) ==
  LET o == req[h].key IN
  /\ \/ At(h, PurchaseOp, "receiveLine") /\ todo[h] = << >>
     \/ At(h, PurchaseOp, "commit")
  /\ CommitStock(h)
  /\ purchaseOrders' = Commit(purchaseOrders, h)
  /\ arrived' = [arrived EXCEPT
                   ![o] = [p \in Product |-> @[p] + posted[h][p]]]
  /\ Respond(h)

RollbackPurchase(h) ==
  /\ RollbackStock(h)
  /\ purchaseOrders' = Rollback(purchaseOrders, h)
  /\ UNCHANGED arrived
  /\ Respond(h)

\* productMap.get(id)! is undefined for a product of another tenant, and
\* reading its stockQuantity throws a TypeError; an UPDATE that finds no row
\* throws as well.
RefuseForeignProduct(h) ==
  /\ At(h, PurchaseOp, "receiveLine")
  /\ todo[h] # << >>
  /\ \/ Head(todo[h]).product \notin DOMAIN productMap[h]
     \/ ~ Sees(h, Head(todo[h]).product)
  /\ RollbackPurchase(h)

\* The database or Prisma ends a transaction that is still open (a deadlock,
\* the timeout, a lost connection), or the process dies.
ExpirePurchase(h) == req[h].op \in PurchaseOp /\ RollbackPurchase(h)

PurchaseStep(h) ==
  \/ MarkReceived(h)
  \/ FindReceivedProducts(h)
  \/ ReceiveLine(h)
  \/ RefuseForeignProduct(h)
  \/ CommitPurchase(h)
  \/ ExpirePurchase(h)

PurchaseRequest(h) ==
  \E o \in PurchaseOrder :
    \/ \E op \in {"createPurchaseOrder", "createPendingPurchaseOrder"},
          cart \in PurchaseCarts : InsertPurchaseOrder(h, op, o, cart)
    \/ FindPurchaseOrder(h, o)
    \/ CancelPurchaseOrder(h, o)

PurchaseNext == \E h \in Handler : PurchaseRequest(h) \/ PurchaseStep(h)

purchaseOnlyVars == <<stockVars, requestVars, purchaseVars>>

PurchaseOnlyInit == StockInit /\ RequestsInit /\ PurchaseInit

PurchaseSpec ==
  /\ PurchaseOnlyInit
  /\ [][PurchaseNext]_purchaseOnlyVars
  /\ \A h \in Handler : WF_purchaseOnlyVars(PurchaseStep(h))

-----------------------------------------------------------------------------

PurchaseTypeOK ==
  /\ purchaseOrders \in Table(PurchaseOrder, PurchaseOrderRow, Handler)
  /\ arrived \in [PurchaseOrder -> [Product -> Int]]

\* How many of product p the committed purchase order o is for.
Supplied(o, p) ==
  LET items == purchaseOrders.committed[o].items IN
  SumFunctionOnSet([i \in DOMAIN items |-> items[i].quantity],
                   {i \in DOMAIN items : items[i].product = p})

(***************************************************************************)
(* Nothing enters the stock under the number of a purchase order that is   *)
(* not RECEIVED, so a receipt that fails on its last item leaves no rows.  *)
(***************************************************************************)
OnlyReceivedArrives ==
  \A o \in PurchaseOrder :
     purchaseOrders.committed[o].status # "RECEIVED" => arrived[o] = NoRows

(***************************************************************************)
(* A RECEIVED purchase order has brought in every one of its items.        *)
(***************************************************************************)
ReceivedArrivesAll ==
  \A o \in PurchaseOrder, p \in Product :
     purchaseOrders.committed[o].status = "RECEIVED" =>
        arrived[o][p] >= Supplied(o, p)

\* The costs p started with and the prices of all the lines it may arrive on.
KnownCosts(p) ==
  {rows[p].averageCost : rows \in OpeningRows} \cup
  {line.unitPrice : line \in
     UNION {{cart[i] : i \in {j \in DOMAIN cart : cart[j].product = p}} :
            cart \in PurchaseCarts}}

(***************************************************************************)
(* The average cost of a product stays between the cheapest and the        *)
(* dearest cost it was ever stocked at, even when it is computed from a    *)
(* stale stock figure and rounded at every receipt.                        *)
(***************************************************************************)
AverageCostWithinPrices ==
  \A p \in Product :
     \E lo, hi \in KnownCosts(p) :
        products.current[p].averageCost \in lo..hi

(***************************************************************************)
(* "Update average cost produk (weighted average)": the cost a receipt     *)
(* writes is the weighted average of the stock it joins.  (A product row   *)
(* that changed after findMany, or a product on two lines, breaks it.)     *)
(***************************************************************************)
CostIsWeightedAverage ==
  [][\A h \in Handler :
       LET line == Head(todo[h]) IN
       ReceiveLine(h) =>
         products'.current[line.product].averageCost
           = NewAverageCost(products.current[line.product], line)
    ]_purchaseOnlyVars
=============================================================================
