----------------------------- MODULE BooksProofs -----------------------------
(***************************************************************************)
(* The books of the store, for any number of handlers, products and        *)
(* orders: what was received, returned and paid back agrees with the rows, *)
(* the average cost stays within the prices that were paid, and sales      *)
(* implement the order book.                                               *)
(***************************************************************************)
EXTENDS StoreProofs, Sums

-----------------------------------------------------------------------------
(***************************************************************************)
(* Receipts, costs, returned quantities and totals.                        *)
(***************************************************************************)

(***************************************************************************)
(* The loop of another handler waits: its items and the ledger rows it has *)
(* inserted are as they were.                                              *)
(***************************************************************************)
OthersWait(h) ==
  \A g \in Handler : g # h => todo'[g] = todo[g] /\ posted'[g] = posted[g]

\* What stock actions and responses leave of the other handlers.
LEMMA StockWaits ==
  ASSUME StoreInv, NEW h \in Handler
  PROVE  /\ \A p, change, cost : MoveStock(h, p, change, cost) =>
              \A g \in Handler : g # h => posted'[g] = posted[g]
         /\ CommitStock(h) \/ RollbackStock(h) =>
              \A g \in Handler : g # h => posted'[g] = posted[g]
         /\ \A p, row : SetProduct(p, row) => UNCHANGED posted
         /\ Respond(h) => \A g \in Handler : g # h => todo'[g] = todo[g]
BY DEF MoveStock, CommitStock, RollbackStock, SetProduct, Respond, StoreInv,
       StockInv, StockTypeOK, StoreTypeOK, RequestsTypeOK

\* Steps of SalesService let the other loops wait.
LEMMA SalesWait ==
  ASSUME StoreInv, NEW h \in Handler, SalesRequest(h) \/ SalesStep(h)
  PROVE  OthersWait(h)
<1>1. DOMAIN todo = Handler
  BY DEF StoreInv, StoreTypeOK, RequestsTypeOK
<1>2. CASE SalesRequest(h)
  BY <1>1, <1>2
     DEF SalesRequest, BuildOrderItems, FindPendingSalesOrder,
         CancelSalesOrder, stockVars, OthersWait
<1>3. CASE InsertSalesOrder(h) \/ MarkCompleted(h)
  BY <1>3 DEF InsertSalesOrder, MarkCompleted, stockVars, OthersWait
<1>4. CASE ShipLine(h)
  BY <1>1, <1>4, StockWaits DEF ShipLine, OthersWait
<1>5. CASE CommitSale(h) \/ RollbackSale(h)
  BY <1>5, StockWaits DEF CommitSale, RollbackSale, OthersWait
<1> QED BY <1>2, <1>3, <1>4, <1>5
        DEF SalesStep, RefuseOrderNumber, RefuseShortage, ExpireSale

\* So do steps of PurchaseService,
LEMMA PurchaseWait ==
  ASSUME StoreInv, NEW h \in Handler, PurchaseRequest(h) \/ PurchaseStep(h)
  PROVE  OthersWait(h)
<1>1. DOMAIN todo = Handler
  BY DEF StoreInv, StoreTypeOK, RequestsTypeOK
<1>2. CASE PurchaseRequest(h)
  BY <1>1, <1>2
     DEF PurchaseRequest, InsertPurchaseOrder, FindPurchaseOrder,
         CancelPurchaseOrder, stockVars, OthersWait
<1>3. CASE MarkReceived(h) \/ FindReceivedProducts(h)
  BY <1>3 DEF MarkReceived, FindReceivedProducts, stockVars, OthersWait
<1>4. CASE ReceiveLine(h)
  BY <1>1, <1>4, StockWaits DEF ReceiveLine, OthersWait
<1>5. CASE CommitPurchase(h) \/ RollbackPurchase(h)
  BY <1>5, StockWaits DEF CommitPurchase, RollbackPurchase, OthersWait
<1> QED BY <1>2, <1>3, <1>4, <1>5
        DEF PurchaseStep, RefuseForeignProduct, ExpirePurchase

\* steps of ReturnsService,
LEMMA ReturnsWait ==
  ASSUME StoreInv, NEW h \in Handler, ReturnsRequest(h) \/ ReturnsStep(h)
  PROVE  OthersWait(h)
<1>1. CASE ReturnsRequest(h)
  BY <1>1 DEF ReturnsRequest, CheckReturn, stockVars, OthersWait
<1>2. CASE InsertSalesReturn(h) \/ IncrementReturned(h) \/ ReduceTotals(h)
  BY <1>2
     DEF InsertSalesReturn, IncrementReturned, ReduceTotals, stockVars, OthersWait
<1>3. CASE Restock(h)
  BY <1>3, StockWaits DEF Restock, OthersWait
<1>4. CASE CommitReturn(h) \/ RollbackReturn(h)
  BY <1>4, StockWaits DEF CommitReturn, RollbackReturn, OthersWait
<1> QED BY <1>1, <1>2, <1>3, <1>4
        DEF ReturnsStep, RefuseReturnNumber, ExpireReturn

\* and adjustments and product edits.
LEMMA InventoryWait ==
  ASSUME StoreInv, NEW h \in Handler, InventoryRequest(h) \/ InventoryStep(h)
  PROVE  OthersWait(h)
<1>1. CASE InventoryRequest(h)
  BY <1>1, StockWaits
     DEF InventoryRequest, AdjustStock, FindProduct, stockVars, OthersWait
<1>2. CASE InventoryStep(h)
  BY <1>2, StockWaits
     DEF InventoryStep, CommitAdjustment, UpdateProduct, RemoveProduct,
         ExpireInventory, OthersWait
<1> QED BY <1>1, <1>2

\* Every step of the store.
LEMMA StepWaits ==
  ASSUME StoreInv, NEW h \in Handler, StoreRequest(h) \/ StoreStep(h)
  PROVE  OthersWait(h)
BY SalesWait, PurchaseWait, ReturnsWait, InventoryWait DEF StoreRequest, StoreStep

-----------------------------------------------------------------------------
(***************************************************************************)
(* The items of an order are written once: a row that exists keeps them    *)
(* while its status changes.                                               *)
(***************************************************************************)
ItemsSettled(t) ==
  \A k \in DOMAIN t.holder :
     t.committed[k].status # "NONE" =>
       /\ t.current[k].status # "NONE"
       /\ t.current[k].items = t.committed[k].items

ItemsStay(t, u) ==
  \A k \in DOMAIN t.holder :
     t.committed[k].status # "NONE" =>
       /\ u.committed[k].status # "NONE"
       /\ u.committed[k].items = t.committed[k].items

\* The statements that keep the items: all but an INSERT over a row that
\* exists.
LEMMA ItemsLast ==
  ASSUME NEW K, NEW R, NEW t \in Table(K, R, Handler), NEW h \in Handler,
         ItemsSettled(t)
  PROVE  /\ ItemsStay(t, t)
         /\ ItemsSettled(Commit(t, h)) /\ ItemsStay(t, Commit(t, h))
         /\ ItemsSettled(Rollback(t, h)) /\ ItemsStay(t, Rollback(t, h))
         /\ \A k, row :
              (k \in K /\ t.current[k].status # "NONE" =>
                 row.status # "NONE" /\ row.items = t.current[k].items) =>
              /\ ItemsSettled(Update(t, h, k, row))
              /\ ItemsStay(t, Update(t, h, k, row))
BY DEF ItemsSettled, ItemsStay, Commit, Rollback, Visible, Update, Table

-----------------------------------------------------------------------------
(***************************************************************************)
(* A receipt on its way: the ledger rows it has inserted and the items it  *)
(* has still to do are together the items of its purchase order, which it  *)
(* holds; the other methods of PurchaseService hold a row that is not      *)
(* RECEIVED, or none.                                                      *)
(***************************************************************************)
Arriving(h) ==
  /\ \A o \in PurchaseOrder : purchaseOrders.holder[o] = h => req[h].key = o
  /\ req[h].at = "markReceived" =>
       \A o \in PurchaseOrder : req[h].key = o =>
         /\ purchaseOrders.committed[o].status # "NONE"
         /\ todo[h] = purchaseOrders.committed[o].items
  /\ req[h].at \in {"findProducts", "receiveLine"} =>
       \A o \in PurchaseOrder : req[h].key = o =>
         \A p \in Product :
           posted[h][p] + Pieces(todo[h], p)
             = Pieces(purchaseOrders.current[o].items, p)
  /\ req[h].op \in PurchaseOp /\ req[h].at = "commit" =>
       \A o \in PurchaseOrder :
         purchaseOrders.holder[o] = h =>
           purchaseOrders.current[o].status # "RECEIVED"
  /\ req[h].op \in PurchaseOp => \A p \in Product : posted[h][p] >= 0

ArrivedInv ==
  /\ ItemsSettled(purchaseOrders)
  /\ \A o \in PurchaseOrder, p \in Product :
       /\ arrived[o][p] >= 0
       /\ purchaseOrders.committed[o].status = "RECEIVED" =>
            arrived[o][p] >= Pieces(purchaseOrders.committed[o].items, p)
  /\ \A h \in Handler : Arriving(h)

ArrivedStep(h) ==
  /\ ItemsSettled(purchaseOrders')
  /\ ItemsStay(purchaseOrders, purchaseOrders')
  /\ \A o \in PurchaseOrder, p \in Product :
       /\ arrived'[o][p] >= 0
       /\ purchaseOrders'.committed[o].status = "RECEIVED" =>
            arrived'[o][p] >= Pieces(purchaseOrders'.committed[o].items, p)
  /\ Arriving(h)'

\* A step of h need only be checked for h.
LEMMA ArrivingOfOthers ==
  ASSUME StoreInv, LockInv, BoughtInv, ArrivedInv, NEW h \in Handler,
         OthersKeep(h), OthersWait(h), ArrivedStep(h)
  PROVE  ArrivedInv'
<1>0. (\A g \in Handler : g # h => Arriving(g)') => ArrivedInv'
  BY DEF ArrivedInv, ArrivedStep, Pieces
<1> SUFFICES ASSUME NEW g \in Handler, g # h PROVE Arriving(g)'
  BY <1>0
<1>1. Arriving(g) /\ ReceivesOwn(g) /\ HandlerLocks(g) /\ g # NoOne
  BY OpeningAssumption DEF ArrivedInv, BoughtInv, LockInv
<1>2. req'[g] = req[g] /\ todo'[g] = todo[g] /\ posted'[g] = posted[g]
  BY DEF OthersKeep, OthersWait
<1>3. DOMAIN purchaseOrders.holder = PurchaseOrder
  BY StoreTables DEF Table
<1>4. \A o \in PurchaseOrder :
        /\ purchaseOrders'.holder[o] = g => purchaseOrders.holder[o] = g
        /\ purchaseOrders.holder[o] = g =>
             purchaseOrders'.current[o] = purchaseOrders.current[o]
  BY <1>1, <1>3 DEF OthersKeep, Keeps
<1>5. \A o \in PurchaseOrder : purchaseOrders.committed[o].status # "NONE" =>
        /\ purchaseOrders'.committed[o].status # "NONE"
        /\ purchaseOrders'.committed[o].items = purchaseOrders.committed[o].items
  BY <1>3 DEF ArrivedStep, ItemsStay
<1>6. ASSUME req[g].at \in {"findProducts", "receiveLine"},
             NEW o \in PurchaseOrder, req[g].key = o, NEW p \in Product
      PROVE  posted'[g][p] + Pieces(todo'[g], p)
               = Pieces(purchaseOrders'.current[o].items, p)
  <2>1. purchaseOrders'.current[o] = purchaseOrders.current[o]
    BY <1>1, <1>4, <1>6 DEF ReceivesOwn
  <2> QED BY <1>1, <1>2, <1>6, <2>1 DEF Arriving
<1> QED BY <1>1, <1>2, <1>4, <1>5, <1>6 DEF Arriving, Pieces

\* A write of a purchase order that rewrites no items.
LEMMA ArrivedByUpdate ==
  ASSUME StoreInv, ArrivedInv, NEW h \in Handler, NEW o, NEW row,
         purchaseOrders' = Update(purchaseOrders, h, o, row),
         o \in PurchaseOrder /\ purchaseOrders.current[o].status # "NONE" =>
           row.status # "NONE" /\ row.items = purchaseOrders.current[o].items,
         UNCHANGED arrived, Arriving(h)'
  PROVE  ArrivedStep(h)
<1>1. /\ purchaseOrders \in Table(PurchaseOrder, PurchaseOrderRow, Handler)
      /\ ItemsSettled(purchaseOrders)
  BY StoreTables DEF ArrivedInv
<1>2. ItemsSettled(purchaseOrders') /\ ItemsStay(purchaseOrders, purchaseOrders')
  BY <1>1, ItemsLast
<1>3. purchaseOrders'.committed = purchaseOrders.committed
  BY <1>1 DEF Update
<1> QED BY <1>2, <1>3 DEF ArrivedStep, ArrivedInv

\* A step that leaves purchase orders alone, and what is left to check of it.
LEMMA ArrivedQuietly ==
  ASSUME StoreInv, ArrivedInv, NEW h \in Handler,
         UNCHANGED <<purchaseOrders, arrived>>, Arriving(h)'
  PROVE  ArrivedStep(h)
<1>1. ItemsStay(purchaseOrders, purchaseOrders)
  BY StoreTables, ItemsLast DEF ArrivedInv
<1> QED BY <1>1 DEF ArrivedStep, ArrivedInv

\* Nothing is to be said of a handler that runs no method of PurchaseService.
LEMMA ArrivesNothing ==
  ASSUME NEW h \in Handler, req'[h].op \notin PurchaseOp,
         req'[h].at \notin {"markReceived", "findProducts", "receiveLine"},
         \A o \in PurchaseOrder : purchaseOrders'.holder[o] # h
  PROVE  Arriving(h)'
BY DEF Arriving

\* The other services do not touch purchase orders.
LEMMA OthersArrived ==
  ASSUME StoreInv, LockInv, ArrivedInv, NEW h \in Handler,
         \/ SalesRequest(h) \/ SalesStep(h)
         \/ ReturnsRequest(h) \/ ReturnsStep(h)
         \/ InventoryRequest(h) \/ InventoryStep(h),
         UNCHANGED purchaseVars
  PROVE  ArrivedStep(h)
<1>1. UNCHANGED <<purchaseOrders, arrived>>
  BY DEF purchaseVars
<1>2. /\ req[h].op \notin PurchaseOp /\ req'[h].op \notin PurchaseOp
      /\ req'[h].at \notin {"markReceived", "findProducts", "receiveLine"}
  BY SalesMoves, ReturnsMoves, InventoryMoves
     DEF Running, SalesOp, PurchaseOp, ReturnsOp, InventoryOp
<1>3. \A o \in PurchaseOrder : purchaseOrders.holder[o] # h
  BY <1>2 DEF LockInv, HandlerLocks, Writing
<1> QED BY <1>1, <1>2, <1>3, ArrivesNothing, ArrivedQuietly

\* A stock movement adds to the rows its handler has inserted.
LEMMA MovePosts ==
  ASSUME StoreInv, NEW h \in Handler, NEW p, NEW change \in Int, NEW cost,
         MoveStock(h, p, change, cost)
  PROVE  \A q \in Product :
           posted'[h][q] = posted[h][q] + (IF p = q THEN change ELSE 0)
<1>1. posted \in [Handler -> [Product -> Int]]
  BY DEF StoreInv, StockInv, StockTypeOK
<1> QED BY <1>1 DEF MoveStock

\* The end of a transaction leaves its handler with no rows and no locks.
LEMMA ArrivedAtEnd ==
  ASSUME StoreInv, NEW h \in Handler, Respond(h),
         \/ purchaseOrders' = Commit(purchaseOrders, h)
         \/ purchaseOrders' = Rollback(purchaseOrders, h)
  PROVE  Arriving(h)'
<1>1. req'[h].at = "idle" /\ req'[h].op = "none"
  BY RespondFacts
<1>2. \A o \in PurchaseOrder : purchaseOrders'.holder[o] # h
  BY StoreTables, Holders
<1> QED BY <1>1, <1>2, ArrivesNothing DEF PurchaseOp

\* The pieces of a list of items are counted in numbers.
LEMMA PiecesOfLines ==
  ASSUME NEW lines \in Seq(Line)
  PROVE  /\ \A i \in DOMAIN lines : lines[i].quantity \in Nat
         /\ \A p : Pieces(lines, p) \in Nat
<1>1. \A i \in DOMAIN lines : lines[i] \in Line
  BY ElementOfSeq, LenProperties
<1>2. \A i \in DOMAIN lines : lines[i].quantity \in Nat
  BY <1>1 DEF Line
<1> QED BY <1>2, PiecesNat

\* An INSERT of a purchase order, with the items still to do, or with none
\* to do.
LEMMA InsertArrives ==
  ASSUME StoreInv, LockInv, ArrivedInv, NEW h \in Handler,
         NEW o \in PurchaseOrder, NEW cart \in PurchaseCarts,
         NEW op \in {"createPurchaseOrder", "createPendingPurchaseOrder"},
         InsertPurchaseOrder(h, op, o, cart)
  PROVE  ArrivedStep(h)
<1> DEFINE arrives == op = "createPurchaseOrder"
           row == [status |-> IF arrives THEN "RECEIVED" ELSE "PENDING",
                   items |-> cart]
<1>1. /\ purchaseOrders \in Table(PurchaseOrder, PurchaseOrderRow, Handler)
      /\ DOMAIN todo = Handler
  BY StoreTables DEF StoreInv, StoreTypeOK, RequestsTypeOK
<1>2. /\ req'[h].key = o /\ req'[h].op = op
      /\ req'[h].at = IF arrives THEN "findProducts" ELSE "commit"
      /\ req[h].at \in BeforeWrite
  BY BeginFacts DEF InsertPurchaseOrder
<1>3. /\ purchaseOrders' = Update(purchaseOrders, h, o, row)
      /\ purchaseOrders.current[o].status = "NONE"
      /\ arrives => todo'[h] = cart
      /\ UNCHANGED <<posted, arrived>>
  BY <1>1 DEF InsertPurchaseOrder, stockVars
<1>4. \A p \in Product : posted[h][p] = 0
  BY <1>2, NothingYet, NothingPosted
<1>5. /\ \A x \in PurchaseOrder : purchaseOrders'.holder[x] = h => x = o
      /\ purchaseOrders'.current[o] = row
  BY <1>1, <1>2, <1>3, NothingYet, Holders, Versions
<1>6. arrives => \A p \in Product :
        posted'[h][p] + Pieces(todo'[h], p) = Pieces(cart, p)
  <2>1. \A p : Pieces(cart, p) \in Nat
    BY PurchaseAssumption, PiecesOfLines
  <2> QED BY <1>3, <1>4, <2>1
<1> HIDE DEF row
<1>7. Arriving(h)'
  <2>1. req'[h].at \in {"findProducts", "receiveLine"} => arrives
    BY <1>2
  <2>2. \A p \in Product : posted'[h][p] >= 0
    BY <1>3, <1>4
  <2>3. req'[h].at = "commit" => purchaseOrders'.current[o].status # "RECEIVED"
    BY <1>2, <1>5 DEF row
  <2>4. arrives => purchaseOrders'.current[o].items = cart
    BY <1>5 DEF row
  <2> QED BY <1>2, <1>5, <1>6, <2>1, <2>2, <2>3, <2>4 DEF Arriving, Pieces
<1> QED BY <1>3, <1>7, ArrivedByUpdate

\* The UPDATE that starts a receipt: what was read before the transaction
\* are still the items of the row.
LEMMA MarkArrives ==
  ASSUME StoreInv, LockInv, ArrivedInv, NEW h \in Handler, MarkReceived(h)
  PROVE  ArrivedStep(h)
<1> DEFINE o == req[h].key
           row == [purchaseOrders.current[o] EXCEPT !.status = "RECEIVED"]
<1>1. purchaseOrders \in Table(PurchaseOrder, PurchaseOrderRow, Handler)
  BY StoreTables
<1>2. /\ req[h].op \in PurchaseOp /\ req[h].at = "markReceived"
      /\ req'[h].op = req[h].op /\ req'[h].key = o /\ req'[h].at = "findProducts"
      /\ req[h].at \in BeforeWrite
  BY GotoFacts DEF MarkReceived, At, PurchaseOp, BeforeWrite
<1>3. /\ purchaseOrders' = Update(purchaseOrders, h, o, row)
      /\ UNCHANGED <<posted, todo, arrived>>
  BY DEF MarkReceived, stockVars
<1>4. \A p \in Product : posted[h][p] = 0
  BY <1>2, NothingYet, NothingPosted
<1>5. o \in PurchaseOrder =>
        /\ row.status = "RECEIVED"
        /\ row.items = purchaseOrders.current[o].items
  BY PurchaseRows DEF PurchaseOrderRow
<1> HIDE DEF row, o
<1>6. \A x \in PurchaseOrder : purchaseOrders'.holder[x] = h => x = o
  BY <1>1, <1>2, <1>3, NothingYet, Holders
<1>7. o \in PurchaseOrder => purchaseOrders'.current[o].items = todo[h]
  <2>1. SUFFICES ASSUME o \in PurchaseOrder
                 PROVE  purchaseOrders'.current[o].items = todo[h]
    OBVIOUS
  <2>2. /\ purchaseOrders.committed[o].status # "NONE"
        /\ todo[h] = purchaseOrders.committed[o].items
    BY <1>2, <2>1 DEF ArrivedInv, Arriving, o
  <2>3. purchaseOrders.current[o].items = purchaseOrders.committed[o].items
    BY <1>1, <2>1, <2>2 DEF ArrivedInv, ItemsSettled, Table
  <2>4. purchaseOrders'.current[o] = row
    BY <1>1, <1>3, <2>1, Versions
  <2> QED BY <1>5, <2>1, <2>2, <2>3, <2>4
<1>8. \A p : Pieces(todo[h], p) \in Nat
  BY LocalFacts, PiecesOfLines
<1>9. o \in PurchaseOrder =>
        \A p \in Product :
          posted'[h][p] + Pieces(todo'[h], p)
            = Pieces(purchaseOrders'.current[o].items, p)
  BY <1>3, <1>4, <1>7, <1>8
<1>10. Arriving(h)'
  <2>1. \A p \in Product : posted'[h][p] >= 0
    BY <1>3, <1>4
  <2> QED BY <1>2, <1>6, <1>9, <2>1 DEF Arriving, Pieces
<1> QED BY <1>3, <1>5, <1>10, ArrivedByUpdate

\* An iteration of the receipt loop moves one item from what is to do to
\* what is posted.
LEMMA LineArrives ==
  ASSUME StoreInv, LockInv, ArrivedInv, NEW h \in Handler,
         FindReceivedProducts(h) \/ ReceiveLine(h)
  PROVE  ArrivedStep(h)
<1>1. UNCHANGED <<purchaseOrders, arrived>>
  BY DEF FindReceivedProducts, ReceiveLine, purchaseVars
<1>2. /\ req[h].op \in PurchaseOp /\ req'[h].op = req[h].op
      /\ req'[h].key = req[h].key
      /\ req[h].at \in {"findProducts", "receiveLine"}
      /\ req'[h].at = "receiveLine"
  BY GotoFacts DEF FindReceivedProducts, ReceiveLine, At
<1>3. Arriving(h) /\ \A p \in Product : posted[h][p] \in Int
  BY PurchaseRows DEF ArrivedInv
<1>4. ASSUME NEW p \in Product
      PROVE  /\ posted'[h][p] + Pieces(todo'[h], p)
                  = posted[h][p] + Pieces(todo[h], p)
             /\ posted'[h][p] >= posted[h][p]
  <2>1. CASE FindReceivedProducts(h)
    BY <1>3, <2>1 DEF FindReceivedProducts, stockVars
  <2>2. CASE ReceiveLine(h)
    <3> DEFINE lines == todo[h]
               line == Head(lines)
               q == line.quantity
    <3>1. lines \in Seq(Line) /\ lines # << >> /\ todo'[h] = Tail(lines)
      BY <2>2, LocalFacts DEF ReceiveLine, StoreInv, StoreTypeOK, RequestsTypeOK
    <3>2. MoveStock(h, line.product, q, NewAverageCost(productMap[h][line.product], line))
      BY <2>2 DEF ReceiveLine
    <3>3. line \in Line /\ q \in Nat /\ Tail(lines) \in Seq(Line)
      <4>1. line \in Line /\ Tail(lines) \in Seq(Line)
        BY <3>1, HeadTailProperties
      <4> QED BY <4>1 DEF Line
    <3> HIDE DEF lines, q
    <3>4. posted'[h][p] = posted[h][p] + (IF line.product = p THEN q ELSE 0)
      BY <3>2, <3>3, MovePosts
    <3>5. Pieces(lines, p)
            = (IF line.product = p THEN q ELSE 0) + Pieces(Tail(lines), p)
      BY <3>1, PiecesOfLines, PiecesTail DEF q
    <3>6. Pieces(Tail(lines), p) \in Nat
      BY <3>3, PiecesOfLines
    <3> HIDE DEF line
    <3> QED BY <1>3, <3>1, <3>3, <3>4, <3>5, <3>6 DEF lines
  <2> QED BY <2>1, <2>2
<1>5. \A p \in Product : posted'[h][p] \in Int
  <2>1. CASE FindReceivedProducts(h)
    BY <1>3, <2>1 DEF FindReceivedProducts, stockVars
  <2>2. CASE ReceiveLine(h)
    <3>1. Head(todo[h]) \in Line
      BY <2>2, LocalFacts, HeadTailProperties DEF ReceiveLine
    <3>2. Head(todo[h]).quantity \in Int
      BY <3>1 DEF Line
    <3> QED BY <1>3, <2>2, <3>2, MovePosts DEF ReceiveLine
  <2> QED BY <2>1, <2>2
<1>6. Arriving(h)'
  <2>1. \A p \in Product : posted'[h][p] >= 0
    BY <1>2, <1>3, <1>4, <1>5 DEF Arriving
  <2>2. ASSUME NEW o \in PurchaseOrder, req'[h].key = o, NEW p \in Product
        PROVE  posted'[h][p] + Pieces(todo'[h], p)
                 = Pieces(purchaseOrders'.current[o].items, p)
    <3>1. posted[h][p] + Pieces(todo[h], p) = Pieces(purchaseOrders.current[o].items, p)
      BY <1>2, <1>3, <2>2 DEF Arriving
    <3> QED BY <1>1, <1>4, <3>1
  <2>3. \A o \in PurchaseOrder : purchaseOrders'.holder[o] = h => req'[h].key = o
    BY <1>1, <1>2, <1>3 DEF Arriving
  <2> QED BY <1>2, <2>1, <2>2, <2>3 DEF Arriving, Pieces
<1> QED BY <1>1, <1>6, ArrivedQuietly

\* The commit of a receipt publishes all of its items.
LEMMA CommitArrives ==
  ASSUME StoreInv, LockInv, BoughtInv, ArrivedInv, NEW h \in Handler,
         CommitPurchase(h)
  PROVE  ArrivedStep(h)
<1> DEFINE key == req[h].key
           t == purchaseOrders
<1>1. /\ t \in Table(PurchaseOrder, PurchaseOrderRow, Handler)
      /\ ItemsSettled(t) /\ Lasting(t, "RECEIVED")
      /\ Arriving(h) /\ ReceivesOwn(h)
  BY StoreTables DEF ArrivedInv, BoughtInv
<1>2. /\ Respond(h) /\ t' = Commit(t, h)
      /\ arrived' = [arrived EXCEPT ![key] = [p \in Product |-> @[p] + posted[h][p]]]
      /\ req[h].op \in PurchaseOp
      /\ \/ req[h].at = "receiveLine" /\ todo[h] = << >>
         \/ req[h].at = "commit"
  BY DEF CommitPurchase, At
<1>3. ItemsSettled(t') /\ ItemsStay(t, t') /\ Arriving(h)'
  BY <1>1, <1>2, ItemsLast, ArrivedAtEnd
<1>4. ASSUME NEW o \in PurchaseOrder, NEW p \in Product
      PROVE  /\ arrived'[o][p] >= 0
             /\ t'.committed[o].status = "RECEIVED" =>
                  arrived'[o][p] >= Pieces(t'.committed[o].items, p)
  <2> DEFINE n == posted[h][p]
  <2>1. /\ arrived[o][p] \in Int /\ arrived[o][p] >= 0 /\ n \in Int /\ n >= 0
        /\ t.committed[o].status = "RECEIVED" =>
             arrived[o][p] >= Pieces(t.committed[o].items, p)
    BY <1>1, <1>2, PurchaseRows DEF ArrivedInv, Arriving
  <2>2. arrived'[o][p] = IF o = key THEN arrived[o][p] + n ELSE arrived[o][p]
    BY <1>2, PurchaseRows
  <2>3. t'.committed[o] = IF t.holder[o] = h THEN t.current[o] ELSE t.committed[o]
    BY <1>1, <1>2 DEF Commit, Visible, Table
  <2>4. /\ t.current[o] \in PurchaseOrderRow /\ t.committed[o] \in PurchaseOrderRow
        /\ Pieces(t.current[o].items, p) \in Nat
        /\ Pieces(t.committed[o].items, p) \in Nat
    <3>1. t.current[o] \in PurchaseOrderRow /\ t.committed[o] \in PurchaseOrderRow
      BY <1>1 DEF Table
    <3>2. t.current[o].items \in Seq(Line) /\ t.committed[o].items \in Seq(Line)
      BY <3>1 DEF PurchaseOrderRow
    <3> QED BY <3>1, <3>2, PiecesOfLines
  <2>5. CASE t.holder[o] # h
    <3> HIDE DEF n, t
    <3> QED BY <2>1, <2>2, <2>3, <2>4, <2>5 DEF t
  <2>6. CASE t.holder[o] = h /\ req[h].at = "receiveLine" /\ todo[h] = << >>
    <3>1. o = key
      BY <1>1, <2>6 DEF Arriving
    <3>2. n + Pieces(<< >>, p) = Pieces(t.current[o].items, p)
      BY <1>1, <2>6, <3>1 DEF Arriving
    <3>3. Pieces(<< >>, p) = 0
      BY PiecesNone
    <3> HIDE DEF n
    <3> QED BY <2>1, <2>2, <2>3, <2>4, <2>6, <3>1, <3>2, <3>3
  <2>7. CASE t.holder[o] = h /\ req[h].at = "commit"
    <3>1. t.current[o].status # "RECEIVED"
      BY <1>1, <1>2, <2>7 DEF Arriving
    <3> HIDE DEF n
    <3> QED BY <2>1, <2>2, <2>3, <2>7, <3>1
  <2> QED BY <1>2, <2>5, <2>6, <2>7
<1> QED BY <1>3, <1>4 DEF ArrivedStep

\* Steps of PurchaseService keep the invariant.
LEMMA PurchaseArrived ==
  ASSUME StoreInv, LockInv, BoughtInv, ArrivedInv, NEW h \in Handler,
         PurchaseRequest(h) \/ PurchaseStep(h)
  PROVE  ArrivedStep(h)
<1>1. /\ purchaseOrders \in Table(PurchaseOrder, PurchaseOrderRow, Handler)
      /\ ItemsSettled(purchaseOrders)
      /\ DOMAIN todo = Handler
  BY StoreTables DEF ArrivedInv, StoreInv, StoreTypeOK, RequestsTypeOK
<1>2. ASSUME NEW o \in PurchaseOrder, FindPurchaseOrder(h, o)
      PROVE  ArrivedStep(h)
  <2>1. /\ req'[h].key = o /\ req'[h].op = "receivePurchaseOrder"
        /\ req'[h].at = "markReceived" /\ req[h].at \in BeforeWrite
    BY <1>2, BeginFacts DEF FindPurchaseOrder
  <2>2. /\ UNCHANGED <<posted, purchaseOrders, arrived>>
        /\ todo'[h] = purchaseOrders.committed[o].items
        /\ purchaseOrders.committed[o].status # "NONE"
    BY <1>1, <1>2 DEF FindPurchaseOrder, stockVars, purchaseVars
  <2>3. /\ \A x \in PurchaseOrder : purchaseOrders.holder[x] # h
        /\ \A p \in Product : posted[h][p] = 0
    BY <2>1, NothingYet, NothingPosted
  <2>4. Arriving(h)'
    BY <2>1, <2>2, <2>3 DEF Arriving
  <2> QED BY <2>2, <2>4, ArrivedQuietly
<1>3. ASSUME NEW o \in PurchaseOrder, CancelPurchaseOrder(h, o)
      PROVE  ArrivedStep(h)
  <2> DEFINE row == [purchaseOrders.current[o] EXCEPT !.status = "CANCELLED"]
  <2>1. /\ req'[h].key = o /\ req'[h].at = "commit" /\ req[h].at \in BeforeWrite
    BY <1>3, BeginFacts DEF CancelPurchaseOrder
  <2>2. /\ purchaseOrders' = Update(purchaseOrders, h, o, row)
        /\ UNCHANGED <<posted, arrived>>
    BY <1>3 DEF CancelPurchaseOrder, stockVars
  <2>3. row.status = "CANCELLED" /\ row.items = purchaseOrders.current[o].items
    BY PurchaseRows DEF PurchaseOrderRow
  <2> HIDE DEF row
  <2>4. /\ \A x \in PurchaseOrder : purchaseOrders'.holder[x] = h => x = o
        /\ purchaseOrders'.current[o] = row
        /\ \A p \in Product : posted[h][p] = 0
    BY <1>1, <2>1, <2>2, NothingYet, NothingPosted, Holders, Versions
  <2>5. Arriving(h)'
    BY <2>1, <2>2, <2>3, <2>4 DEF Arriving
  <2> QED BY <2>2, <2>3, <2>5, ArrivedByUpdate
<1>4. CASE RollbackPurchase(h)
  <2>1. /\ Respond(h) /\ UNCHANGED arrived
        /\ purchaseOrders' = Rollback(purchaseOrders, h)
    BY <1>4 DEF RollbackPurchase
  <2>2. /\ ItemsSettled(purchaseOrders')
        /\ ItemsStay(purchaseOrders, purchaseOrders')
        /\ purchaseOrders'.committed = purchaseOrders.committed
    BY <1>1, <2>1, ItemsLast, Versions
  <2> QED BY <2>1, <2>2, ArrivedAtEnd DEF ArrivedStep, ArrivedInv
<1>5. CASE PurchaseRequest(h)
  BY <1>2, <1>3, <1>5, InsertArrives DEF PurchaseRequest
<1>6. CASE PurchaseStep(h)
  BY <1>4, <1>6, MarkArrives, LineArrives, CommitArrives
     DEF PurchaseStep, RefuseForeignProduct, ExpirePurchase
<1> QED BY <1>5, <1>6

\* Every step keeps the invariant.
LEMMA ArrivedNextInv ==
  /\ StoreInv /\ LockInv /\ BoughtInv /\ ArrivedInv
  /\ [StoreNext]_storeVars
  => ArrivedInv'
<1> SUFFICES ASSUME StoreInv, LockInv, BoughtInv, ArrivedInv,
                    [StoreNext]_storeVars
             PROVE  ArrivedInv'
  OBVIOUS
<1>1. CASE UNCHANGED storeVars
  <2>1. UNCHANGED <<req, todo, posted, purchaseOrders, arrived>>
    BY <1>1 DEF storeVars, stockVars, requestVars, purchaseVars
  <2>2. ASSUME NEW h \in Handler PROVE Arriving(h)'
    <3>1. Arriving(h)
      BY DEF ArrivedInv
    <3> QED BY <2>1, <3>1 DEF Arriving, Pieces
  <2>3. ItemsSettled(purchaseOrders)'
    BY <2>1 DEF ArrivedInv, ItemsSettled
  <2> QED BY <2>1, <2>2, <2>3 DEF ArrivedInv, Pieces
<1>2. ASSUME NEW h \in Handler, StoreRequest(h) \/ StoreStep(h)
      PROVE  ArrivedInv'
  <2>1. ArrivedStep(h)
    BY <1>2, PurchaseArrived, OthersArrived DEF StoreRequest, StoreStep
  <2>2. OthersKeep(h) /\ OthersWait(h)
    BY <1>2, StepKeepsOthers, StepWaits
  <2> QED BY <2>1, <2>2, ArrivingOfOthers
<1> QED BY <1>1, <1>2 DEF StoreNext

\* Nothing is on its way when the store opens.
LEMMA ArrivedInitInv == StoreInit => ArrivedInv
<1> SUFFICES ASSUME StoreInit PROVE ArrivedInv
  OBVIOUS
<1>1. /\ purchaseOrders = NewTable([o \in PurchaseOrder |-> NoPurchaseOrder])
      /\ arrived = [o \in PurchaseOrder |-> NoRows]
      /\ \A h \in Handler : req[h] = IdleRequest /\ h # NoOne
  BY OpeningAssumption DEF StoreInit, PurchaseInit, RequestsInit
<1>2. ItemsSettled(purchaseOrders)
  BY <1>1 DEF ItemsSettled, NewTable, NoPurchaseOrder
<1>3. ASSUME NEW h \in Handler PROVE Arriving(h)
  <2>1. /\ \A o \in PurchaseOrder : purchaseOrders.holder[o] # h
        /\ req[h].at = "idle" /\ req[h].op \notin PurchaseOp
    BY <1>1 DEF NewTable, IdleRequest, PurchaseOp
  <2> QED BY <2>1 DEF Arriving
<1>4. \A o \in PurchaseOrder, p \in Product :
        arrived[o][p] = 0 /\ purchaseOrders.committed[o].status = "NONE"
  BY <1>1 DEF NewTable, NoRows, NoPurchaseOrder
<1> QED BY <1>2, <1>3, <1>4 DEF ArrivedInv

(***************************************************************************)
(* A RECEIVED purchase order has brought in every one of its items, for    *)
(* any order and any number of concurrent receipts of it: each of them     *)
(* commits the rows of all its items, or none.                             *)
(***************************************************************************)
THEOREM ReceivedOrdersArriveComplete == StoreSpec => []ReceivedArrivesAll
<1>1. StoreInit => BoughtInv /\ ArrivedInv
  BY BoughtInitInv, ArrivedInitInv
<1>2. StoreInv /\ LockInv /\ BoughtInv /\ [StoreNext]_storeVars => BoughtInv'
  BY BoughtNextInv
<1>3. /\ StoreInv /\ LockInv /\ BoughtInv /\ ArrivedInv
      /\ [StoreNext]_storeVars
      => ArrivedInv'
  BY ArrivedNextInv
<1>4. ArrivedInv => ReceivedArrivesAll
  BY DEF ArrivedInv, ReceivedArrivesAll, Supplied, Pieces
<1> QED BY <1>1, <1>2, <1>3, <1>4, LocksAlways, PTL DEF StoreSpec

-----------------------------------------------------------------------------
(***************************************************************************)
(* Average costs.  Multiplication by something that is not negative, and   *)
(* division by something positive.                                         *)
(***************************************************************************)
LEMMA Grow ==
  ASSUME NEW a \in Int, NEW b \in Int, NEW d \in Int, d >= 0, a <= b
  PROVE  a * d <= b * d
OBVIOUS

\* A quotient rounded down.
LEMMA DivFacts ==
  ASSUME NEW m \in Int, NEW e \in Int, e > 0
  PROVE  /\ m \div e \in Int
         /\ e * (m \div e) <= m
         /\ m < e * (m \div e) + e
OBVIOUS

\* A quotient rounded half up lies between two whole numbers if the exact one
\* does.
LEMMA RoundedBetween ==
  ASSUME NEW n \in Int, NEW d \in Int, d > 0, NEW lo \in Int, NEW hi \in Int,
         lo * d <= n, n <= hi * d
  PROVE  RoundedQuotient(n, d) \in lo..hi
<1> DEFINE m == 2 * n + d
           e == 2 * d
           q == m \div e
<1>1. m \in Int /\ e \in Int /\ e > 0
  OBVIOUS
<1> HIDE DEF m, e
<1>2. q \in Int /\ e * q <= m /\ m < e * q + e
  BY <1>1, DivFacts
<1> HIDE DEF q
<1>3. lo <= q
  <2>1. SUFFICES ASSUME q + 1 <= lo PROVE FALSE
    BY <1>2
  <2>2. (q + 1) * d <= lo * d
    BY <1>2, <2>1, Grow
  <2>3. q * d \in Int /\ (q + 1) * d = q * d + d /\ e * q = 2 * (q * d)
    BY <1>2 DEF e
  <2>4. lo * d \in Int
    OBVIOUS
  <2> QED BY <1>2, <2>2, <2>3, <2>4 DEF m, e
<1>4. q <= hi
  <2>1. SUFFICES ASSUME hi + 1 <= q PROVE FALSE
    BY <1>2
  <2>2. (hi + 1) * d <= q * d
    BY <1>2, <2>1, Grow
  <2>3. q * d \in Int /\ (hi + 1) * d = hi * d + d /\ e * q = 2 * (q * d)
    BY <1>2 DEF e
  <2>4. hi * d \in Int
    OBVIOUS
  <2> QED BY <1>2, <2>2, <2>3, <2>4 DEF m, e
<1> QED BY <1>2, <1>3, <1>4 DEF RoundedQuotient, q, m, e

(***************************************************************************)
(* A cost that has a known one on either side.                             *)
(***************************************************************************)
Known(p, c) == \E lo, hi \in KnownCosts(p) : c \in lo..hi

\* The costs that are known are numbers.
LEMMA KnownCostsInt == ASSUME NEW p \in Product PROVE KnownCosts(p) \subseteq Int
<1>1. ASSUME NEW rows \in OpeningRows PROVE rows[p].averageCost \in Int
  <2>1. rows[p] \in ProductRow
    BY OpeningAssumption
  <2> QED BY <2>1 DEF ProductRow
<1>2. ASSUME NEW cart \in PurchaseCarts, NEW i \in DOMAIN cart
      PROVE  cart[i].unitPrice \in Int
  <2>1. cart \in Seq(Line)
    BY PurchaseAssumption
  <2>2. cart[i] \in Line
    BY <2>1, ElementOfSeq, LenProperties
  <2> QED BY <2>2 DEF Line
<1> QED BY <1>1, <1>2 DEF KnownCosts

\* The moving average of a known cost and a known price is between the two.
LEMMA AverageKnown ==
  ASSUME NEW p \in Product, NEW product \in ProductRow, NEW line \in Line,
         Known(p, product.averageCost), product.stockQuantity >= 0,
         line.unitPrice \in KnownCosts(p)
  PROVE  Known(p, NewAverageCost(product, line))
<1> DEFINE a == product.averageCost
           s == product.stockQuantity
           u == line.unitPrice
           q == line.quantity
<1>1. a \in Int /\ s \in Int /\ s >= 0 /\ u \in Int /\ q \in Int /\ q > 0
  BY DEF ProductRow, Line
<1>2. PICK x, y \in KnownCosts(p) : a \in x..y
  BY DEF Known
<1>3. x \in Int /\ y \in Int
  BY <1>2, KnownCostsInt
<1>4. PICK lo, hi \in KnownCosts(p) : lo <= a /\ lo <= u /\ a <= hi /\ u <= hi
  <2>1. PICK lo \in {x, u} : lo <= x /\ lo <= u
    BY <1>1, <1>3
  <2>2. PICK hi \in {y, u} : y <= hi /\ u <= hi
    BY <1>1, <1>3
  <2>3. lo <= a /\ a <= hi /\ lo \in KnownCosts(p) /\ hi \in KnownCosts(p)
    BY <1>1, <1>2, <1>3, <2>1, <2>2
  <2> QED BY <2>1, <2>2, <2>3
<1>5. lo \in Int /\ hi \in Int
  BY <1>4, KnownCostsInt
<1>6. NewAverageCost(product, line) = RoundedQuotient(a * s + u * q, s + q)
  BY <1>1 DEF NewAverageCost
<1> HIDE DEF a, s, u, q
<1>7. /\ lo * s <= a * s /\ a * s <= hi * s
      /\ lo * q <= u * q /\ u * q <= hi * q
  BY <1>1, <1>4, <1>5, Grow
<1>8. /\ lo * (s + q) = lo * s + lo * q /\ hi * (s + q) = hi * s + hi * q
      /\ lo * s \in Int /\ lo * q \in Int /\ hi * s \in Int /\ hi * q \in Int
      /\ a * s \in Int /\ u * q \in Int
  BY <1>1, <1>5
<1>9. lo * (s + q) <= a * s + u * q /\ a * s + u * q <= hi * (s + q)
  BY <1>7, <1>8
<1>10. RoundedQuotient(a * s + u * q, s + q) \in lo..hi
  BY <1>1, <1>5, <1>8, <1>9, RoundedBetween
<1> QED BY <1>4, <1>6, <1>10 DEF Known

\* Items that may arrive: each at a price that is known of its product.
Priced(lines) == \A i \in DOMAIN lines : lines[i].unitPrice \in KnownCosts(lines[i].product)

KnownRow(p, row) == Known(p, row.averageCost)

KnownTable(t) ==
  \A p \in Product : KnownRow(p, t.current[p]) /\ KnownRow(p, t.committed[p])

PricedTable(t) ==
  \A o \in PurchaseOrder :
     Priced(t.current[o].items) /\ Priced(t.committed[o].items)

KnownFound(found) ==
  \A p \in DOMAIN found : KnownRow(p, found[p]) /\ found[p].stockQuantity >= 0

(***************************************************************************)
(* Every cost is known, in the table and in what a request has read of it, *)
(* and so is every price that may still arrive.                            *)
(***************************************************************************)
CostLocals(h) ==
  /\ KnownFound(productMap[h])
  /\ req[h].at \in {"markReceived", "findProducts", "receiveLine"} =>
       Priced(todo[h])

CostInv ==
  /\ KnownTable(products)
  /\ PricedTable(purchaseOrders)
  /\ \A h \in Handler : CostLocals(h)

CostStep(h) ==
  /\ KnownTable(products')
  /\ PricedTable(purchaseOrders')
  /\ KnownFound(productMap'[h])
  /\ req'[h].at \in {"markReceived", "findProducts", "receiveLine"} =>
       Priced(todo'[h])

\* A step of h need only be checked for h.
LEMMA CostOfOthers ==
  ASSUME StoreInv, CostInv, NEW h \in Handler, OthersKeep(h), OthersWait(h),
         CostStep(h)
  PROVE  CostInv'
<1>1. ASSUME NEW g \in Handler
      PROVE  /\ KnownFound(productMap'[g])
             /\ req'[g].at \in {"markReceived", "findProducts", "receiveLine"} =>
                  Priced(todo'[g])
  <2>1. CASE g = h
    BY <2>1 DEF CostStep
  <2>2. CASE g # h
    BY <2>2 DEF CostInv, CostLocals, OthersKeep, OthersWait
  <2> QED BY <2>1, <2>2
<1> QED BY <1>1 DEF CostInv, CostStep, CostLocals, KnownTable, PricedTable,
                    KnownFound, KnownRow, Known, Priced, KnownCosts

\* The statements that write a table, and the ends of a transaction.
LEMMA CostsStay ==
  ASSUME StoreInv, CostInv, NEW h \in Handler
  PROVE  /\ KnownTable(products)
         /\ KnownTable(Commit(products, h)) /\ KnownTable(Rollback(products, h))
         /\ \A p, row : (p \in Product => KnownRow(p, row)) =>
              /\ KnownTable(Update(products, h, p, row))
              /\ KnownTable(Overwrite(products, p, row))
         /\ PricedTable(purchaseOrders)
         /\ PricedTable(Commit(purchaseOrders, h))
         /\ PricedTable(Rollback(purchaseOrders, h))
         /\ \A o, row : (o \in PurchaseOrder => Priced(row.items)) =>
              PricedTable(Update(purchaseOrders, h, o, row))
<1>1. KnownTable(products) /\ PricedTable(purchaseOrders)
  BY DEF CostInv
<1>2. /\ products \in Table(Product, ProductRow, Handler)
      /\ purchaseOrders \in Table(PurchaseOrder, PurchaseOrderRow, Handler)
  BY StoreTables
<1>3. /\ KnownTable(Commit(products, h)) /\ KnownTable(Rollback(products, h))
      /\ \A p, row : (p \in Product => KnownRow(p, row)) =>
           /\ KnownTable(Update(products, h, p, row))
           /\ KnownTable(Overwrite(products, p, row))
  BY <1>1, <1>2 DEF KnownTable, Commit, Rollback, Visible, Update, Overwrite, Table
<1>4. /\ PricedTable(Commit(purchaseOrders, h))
      /\ PricedTable(Rollback(purchaseOrders, h))
      /\ \A o, row : (o \in PurchaseOrder => Priced(row.items)) =>
           PricedTable(Update(purchaseOrders, h, o, row))
  BY <1>1, <1>2 DEF PricedTable, Commit, Rollback, Visible, Update, Table
<1> QED BY <1>1, <1>3, <1>4

\* A movement of stock writes a cost that is known, or the old one.
LEMMA MoveCosts ==
  ASSUME StoreInv, CostInv, NEW h \in Handler, NEW p, NEW change, NEW cost,
         MoveStock(h, p, change, cost), p \in Product => Known(p, cost)
  PROVE  KnownTable(products')
<1> DEFINE row == [products.current[p] EXCEPT
                     !.stockQuantity = products.current[p].stockQuantity + change,
                     !.averageCost = cost]
<1>1. products' = Update(products, h, p, row)
  BY DEF MoveStock
<1>2. ASSUME p \in Product PROVE KnownRow(p, row)
  <2>1. products.current[p] \in ProductRow
    BY <1>2, ProductFigures DEF StoreInv
  <2>2. row.averageCost = cost
    BY <2>1 DEF ProductRow
  <2> QED BY <1>2, <2>2 DEF KnownRow
<1> HIDE DEF row
<1> QED BY <1>1, <1>2, CostsStay

\* What findMany returns.
LEMMA FoundKnown ==
  ASSUME StoreInv, CostInv, NEW h \in Handler, NEW lines \in Seq(Line)
  PROVE  KnownFound(FindProducts(h, lines))
<1>1. ProductsOf(lines) \subseteq Product
  <2>1. \A i \in DOMAIN lines : lines[i] \in Line
    BY ElementOfSeq, LenProperties
  <2> QED BY <2>1 DEF ProductsOf, Line
<1>2. \A p \in Product :
        /\ KnownRow(p, products.current[p]) /\ KnownRow(p, products.committed[p])
        /\ products.current[p].stockQuantity >= 0
        /\ products.committed[p].stockQuantity >= 0
  BY ProductFigures DEF StoreInv, CostInv, KnownTable
<1> QED BY <1>1, <1>2 DEF KnownFound, FindProducts, Visible

\* A step that changes no purchase order, of another service.
LEMMA CostsOfProducts ==
  ASSUME StoreInv, CostInv, NEW h \in Handler, UNCHANGED purchaseOrders,
         KnownTable(products'),
         req'[h].at \notin {"markReceived", "findProducts", "receiveLine"},
         KnownFound(productMap'[h])
  PROVE  CostStep(h)
BY CostsStay DEF CostStep

\* The products that a handler knew, and what a response leaves of them.
LEMMA FoundStays ==
  ASSUME StoreInv, CostInv, NEW h \in Handler
  PROVE  /\ UNCHANGED productMap => KnownFound(productMap'[h])
         /\ Respond(h) => KnownFound(productMap'[h])
BY DEF CostInv, CostLocals, KnownFound, NothingFound, Respond, StoreInv,
       StoreTypeOK, RequestsTypeOK

\* Steps of SalesService write the cost that was there.
LEMMA SalesCosts ==
  ASSUME StoreInv, CostInv, NEW h \in Handler, SalesRequest(h) \/ SalesStep(h),
         UNCHANGED purchaseVars
  PROVE  CostStep(h)
<1>1. /\ req'[h].at \notin {"markReceived", "findProducts", "receiveLine"}
      /\ UNCHANGED purchaseOrders
  BY SalesMoves DEF Running, purchaseVars
<1>2. CASE UNCHANGED <<products, productMap>>
  BY <1>1, <1>2, CostsStay, FoundStays, CostsOfProducts
<1>3. ASSUME NEW o \in SalesOrder, NEW cart \in SaleCarts, NEW op,
             BuildOrderItems(h, op, o, cart)
      PROVE  CostStep(h)
  <2>1. /\ UNCHANGED products /\ productMap'[h] = FindProducts(h, cart)
        /\ cart \in Seq(Line)
    BY <1>3, SalesAssumption
       DEF BuildOrderItems, stockVars, StoreInv, StoreTypeOK, RequestsTypeOK
  <2>2. KnownFound(productMap'[h])
    BY <2>1, FoundKnown
  <2> QED BY <1>1, <2>1, <2>2, CostsStay, CostsOfProducts
<1>4. CASE SalesRequest(h)
  BY <1>2, <1>3, <1>4
     DEF SalesRequest, FindPendingSalesOrder, CancelSalesOrder, stockVars
<1>5. CASE InsertSalesOrder(h) \/ MarkCompleted(h)
  BY <1>2, <1>5 DEF InsertSalesOrder, MarkCompleted, stockVars
<1>6. CASE ShipLine(h)
  <2> DEFINE p == Head(todo[h]).product
  <2>1. /\ UNCHANGED productMap
        /\ MoveStock(h, p, - Head(todo[h]).quantity, products.current[p].averageCost)
    BY <1>6 DEF ShipLine
  <2>2. p \in Product => Known(p, products.current[p].averageCost)
    BY DEF CostInv, KnownTable, KnownRow
  <2>3. KnownTable(products')
    BY <2>1, <2>2, MoveCosts
  <2> QED BY <1>1, <2>1, <2>3, FoundStays, CostsOfProducts
<1>7. CASE CommitSale(h) \/ RollbackSale(h)
  <2>1. KnownTable(products') /\ Respond(h)
    BY <1>7, CostsStay
       DEF CommitSale, CommitStock, RollbackSale, RollbackStock
  <2> QED BY <1>1, <2>1, FoundStays, CostsOfProducts
<1> QED BY <1>4, <1>5, <1>6, <1>7
        DEF SalesStep, RefuseOrderNumber, RefuseShortage, ExpireSale

\* So do steps of ReturnsService.
LEMMA ReturnsCosts ==
  ASSUME StoreInv, CostInv, NEW h \in Handler, ReturnsRequest(h) \/ ReturnsStep(h),
         UNCHANGED purchaseVars
  PROVE  CostStep(h)
<1>1. /\ req'[h].at \notin {"markReceived", "findProducts", "receiveLine"}
      /\ UNCHANGED purchaseOrders
  BY ReturnsMoves DEF Running, purchaseVars
<1>2. CASE UNCHANGED <<products, productMap>>
  BY <1>1, <1>2, CostsStay, FoundStays, CostsOfProducts
<1>3. CASE ReturnsRequest(h)
  BY <1>2, <1>3 DEF ReturnsRequest, CheckReturn, stockVars
<1>4. CASE InsertSalesReturn(h) \/ IncrementReturned(h) \/ ReduceTotals(h)
  BY <1>2, <1>4 DEF InsertSalesReturn, IncrementReturned, ReduceTotals, stockVars
<1>5. CASE Restock(h)
  <2> DEFINE line == Head(claim[h].items)
             p == line.product
  <2>1. /\ UNCHANGED productMap
        /\ MoveStock(h, p, line.quantity, products.current[p].averageCost)
    BY <1>5 DEF Restock
  <2>2. p \in Product => Known(p, products.current[p].averageCost)
    BY DEF CostInv, KnownTable, KnownRow
  <2>3. KnownTable(products')
    BY <2>1, <2>2, MoveCosts
  <2> QED BY <1>1, <2>1, <2>3, FoundStays, CostsOfProducts
<1>6. CASE CommitReturn(h) \/ RollbackReturn(h)
  <2>1. KnownTable(products') /\ Respond(h)
    BY <1>6, CostsStay
       DEF CommitReturn, CommitStock, RollbackReturn, RollbackStock
  <2> QED BY <1>1, <2>1, FoundStays, CostsOfProducts
<1> QED BY <1>3, <1>4, <1>5, <1>6
        DEF ReturnsStep, RefuseReturnNumber, ExpireReturn

\* And adjustments, PATCHes and DELETEs of products.
LEMMA InventoryCosts ==
  ASSUME StoreInv, CostInv, NEW h \in Handler,
         InventoryRequest(h) \/ InventoryStep(h), UNCHANGED purchaseVars
  PROVE  CostStep(h)
<1>1. /\ req'[h].at \notin {"markReceived", "findProducts", "receiveLine"}
      /\ UNCHANGED purchaseOrders
  BY InventoryMoves DEF Running, purchaseVars
<1>2. ASSUME NEW p \in Product, NEW change, NEW type, AdjustStock(h, p, change, type)
      PROVE  CostStep(h)
  <2>1. /\ UNCHANGED productMap
        /\ MoveStock(h, p, StockChange(change, type), products.current[p].averageCost)
    BY <1>2 DEF AdjustStock
  <2>2. Known(p, products.current[p].averageCost)
    BY DEF CostInv, KnownTable, KnownRow
  <2>3. KnownTable(products')
    BY <2>1, <2>2, MoveCosts
  <2> QED BY <1>1, <2>1, <2>3, FoundStays, CostsOfProducts
<1>3. ASSUME NEW p \in Product, NEW op, FindProduct(h, op, p)
      PROVE  CostStep(h)
  <2>1. UNCHANGED <<products, productMap>>
    BY <1>3 DEF FindProduct, stockVars
  <2> QED BY <1>1, <2>1, CostsStay, FoundStays, CostsOfProducts
<1>4. ASSUME NEW stock, UpdateProduct(h, stock) PROVE CostStep(h)
  <2> DEFINE p == req[h].key
             row == [products.committed[p] EXCEPT !.stockQuantity = stock]
  <2>1. products' = Overwrite(products, p, row) /\ Respond(h)
    BY <1>4 DEF UpdateProduct, SetProduct
  <2>2. ASSUME p \in Product PROVE KnownRow(p, row)
    <3>1. products.committed[p] \in ProductRow /\ KnownRow(p, products.committed[p])
      BY <2>2, ProductFigures DEF StoreInv, CostInv, KnownTable
    <3>2. row.averageCost = products.committed[p].averageCost
      BY <3>1 DEF ProductRow
    <3> QED BY <3>1, <3>2 DEF KnownRow
  <2> HIDE DEF p, row
  <2>3. KnownTable(products')
    BY <2>1, <2>2, CostsStay
  <2> QED BY <1>1, <2>1, <2>3, FoundStays, CostsOfProducts
<1>5. CASE RemoveProduct(h)
  <2> DEFINE p == req[h].key
             row == [products.committed[p] EXCEPT !.deletedAt = "set"]
  <2>1. products' = Overwrite(products, p, row) /\ Respond(h)
    BY <1>5 DEF RemoveProduct, SetProduct
  <2>2. ASSUME p \in Product PROVE KnownRow(p, row)
    <3>1. products.committed[p] \in ProductRow /\ KnownRow(p, products.committed[p])
      BY <2>2, ProductFigures DEF StoreInv, CostInv, KnownTable
    <3>2. row.averageCost = products.committed[p].averageCost
      BY <3>1 DEF ProductRow
    <3> QED BY <3>1, <3>2 DEF KnownRow
  <2> HIDE DEF p, row
  <2>3. KnownTable(products')
    BY <2>1, <2>2, CostsStay
  <2> QED BY <1>1, <2>1, <2>3, FoundStays, CostsOfProducts
<1>6. CASE CommitAdjustment(h) \/ ExpireInventory(h)
  <2>1. KnownTable(products') /\ Respond(h)
    BY <1>6, CostsStay
       DEF CommitAdjustment, CommitStock, ExpireInventory, RollbackStock
  <2> QED BY <1>1, <2>1, FoundStays, CostsOfProducts
<1>7. CASE InventoryRequest(h)
  BY <1>2, <1>3, <1>7 DEF InventoryRequest
<1>8. CASE InventoryStep(h)
  BY <1>4, <1>5, <1>6, <1>8 DEF InventoryStep
<1> QED BY <1>7, <1>8

\* Carts that arrive have prices that are known.
LEMMA CartsPriced == ASSUME NEW cart \in PurchaseCarts PROVE Priced(cart)
<1> SUFFICES ASSUME NEW i \in DOMAIN cart
             PROVE  cart[i].unitPrice \in KnownCosts(cart[i].product)
  BY DEF Priced
<1> DEFINE p == cart[i].product
<1>1. i \in {j \in DOMAIN cart : cart[j].product = p}
  OBVIOUS
<1> QED BY <1>1 DEF KnownCosts

\* A receipt writes an average of costs that are known.
LEMMA ReceiveCosts ==
  ASSUME StoreInv, CostInv, NEW h \in Handler, ReceiveLine(h)
  PROVE  KnownTable(products') /\ Priced(todo'[h])
<1> DEFINE lines == todo[h]
           line == Head(lines)
           p == line.product
           cost == NewAverageCost(productMap[h][p], line)
<1>1. /\ lines \in Seq(Line) /\ lines # << >> /\ todo'[h] = Tail(lines)
      /\ req[h].at = "receiveLine" /\ p \in DOMAIN productMap[h]
      /\ MoveStock(h, p, line.quantity, cost)
  BY LocalFacts DEF ReceiveLine, At, StoreInv, StoreTypeOK, RequestsTypeOK
<1>2. Priced(lines) /\ KnownFound(productMap[h])
  BY <1>1 DEF CostInv, CostLocals
<1>3. PICK n \in Nat :
        /\ DOMAIN lines = 1..(n + 1) /\ DOMAIN Tail(lines) = 1..n
        /\ line = lines[1]
        /\ \A i \in 1..n : Tail(lines)[i] = lines[i + 1]
        /\ \A i \in DOMAIN lines : lines[i] \in Line
  BY <1>1, TailLines
<1>4. line \in Line /\ line.unitPrice \in KnownCosts(p) /\ p \in Product
  <2>1. 1 \in DOMAIN lines
    BY <1>3
  <2>2. line \in Line
    BY <1>3, <2>1
  <2> QED BY <1>2, <1>3, <2>1, <2>2 DEF Priced, Line
<1>5. /\ productMap[h][p] \in ProductRow
      /\ Known(p, productMap[h][p].averageCost)
      /\ productMap[h][p].stockQuantity >= 0
  BY <1>1, <1>2 DEF KnownFound, KnownRow, StoreInv, StoreTypeOK, RequestsTypeOK
<1>6. Known(p, cost)
  BY <1>4, <1>5, AverageKnown
<1>7. Priced(Tail(lines))
  BY <1>2, <1>3 DEF Priced
<1> HIDE DEF lines, line, p, cost
<1> QED BY <1>1, <1>6, <1>7, MoveCosts

\* Steps of PurchaseService keep the invariant.
LEMMA PurchaseCosts ==
  ASSUME StoreInv, CostInv, NEW h \in Handler, PurchaseRequest(h) \/ PurchaseStep(h)
  PROVE  CostStep(h)
<1>1. DOMAIN todo = Handler /\ DOMAIN productMap = Handler
  BY DEF StoreInv, StoreTypeOK, RequestsTypeOK
<1>2. ASSUME NEW o \in PurchaseOrder, NEW cart \in PurchaseCarts, NEW op,
             InsertPurchaseOrder(h, op, o, cart)
      PROVE  CostStep(h)
  <2> DEFINE row == [status |-> IF op = "createPurchaseOrder"
                                  THEN "RECEIVED" ELSE "PENDING",
                     items |-> cart]
  <2>1. /\ purchaseOrders' = Update(purchaseOrders, h, o, row)
        /\ row.items = cart /\ Priced(cart)
        /\ UNCHANGED <<products, productMap>>
        /\ todo'[h] = IF op = "createPurchaseOrder" THEN cart ELSE << >>
        /\ Priced(<< >>)
    BY <1>1, <1>2, CartsPriced DEF InsertPurchaseOrder, stockVars, Priced
  <2> HIDE DEF row
  <2>2. PricedTable(purchaseOrders') /\ Priced(todo'[h])
    BY <2>1, CostsStay
  <2> QED BY <2>1, <2>2, CostsStay, FoundStays DEF CostStep
<1>3. ASSUME NEW o \in PurchaseOrder, FindPurchaseOrder(h, o) PROVE CostStep(h)
  <2>1. /\ UNCHANGED <<products, productMap, purchaseOrders>>
        /\ todo'[h] = purchaseOrders.committed[o].items
    BY <1>1, <1>3 DEF FindPurchaseOrder, stockVars, purchaseVars
  <2>2. Priced(todo'[h])
    BY <2>1 DEF CostInv, PricedTable
  <2> QED BY <2>1, <2>2, CostsStay, FoundStays DEF CostStep
<1>4. ASSUME NEW o \in PurchaseOrder, CancelPurchaseOrder(h, o) PROVE CostStep(h)
  <2> DEFINE row == [purchaseOrders.current[o] EXCEPT !.status = "CANCELLED"]
  <2>1. /\ purchaseOrders' = Update(purchaseOrders, h, o, row)
        /\ UNCHANGED <<products, productMap>>
        /\ req'[h].at = "commit"
    BY <1>4, BeginFacts DEF CancelPurchaseOrder, stockVars
  <2>2. Priced(row.items)
    BY PurchaseRows DEF PurchaseOrderRow, CostInv, PricedTable
  <2> HIDE DEF row
  <2>3. PricedTable(purchaseOrders')
    BY <2>1, <2>2, CostsStay
  <2> QED BY <2>1, <2>3, CostsStay, FoundStays DEF CostStep
<1>5. CASE MarkReceived(h)
  <2> DEFINE o == req[h].key
             row == [purchaseOrders.current[o] EXCEPT !.status = "RECEIVED"]
  <2>1. /\ purchaseOrders' = Update(purchaseOrders, h, o, row)
        /\ UNCHANGED <<products, productMap, todo>>
        /\ req[h].at = "markReceived"
    BY <1>5 DEF MarkReceived, At, stockVars
  <2>2. o \in PurchaseOrder => Priced(row.items)
    BY PurchaseRows DEF PurchaseOrderRow, CostInv, PricedTable
  <2>3. Priced(todo'[h])
    BY <2>1 DEF CostInv, CostLocals
  <2> HIDE DEF row, o
  <2>4. PricedTable(purchaseOrders')
    BY <2>1, <2>2, CostsStay
  <2> QED BY <2>1, <2>3, <2>4, CostsStay, FoundStays DEF CostStep
<1>6. CASE FindReceivedProducts(h)
  <2>1. /\ UNCHANGED <<products, purchaseOrders, todo>>
        /\ productMap'[h] = FindProducts(h, todo[h])
        /\ req[h].at = "findProducts"
    BY <1>1, <1>6 DEF FindReceivedProducts, At, stockVars, purchaseVars
  <2>2. Priced(todo'[h]) /\ KnownFound(productMap'[h])
    BY <2>1, LocalFacts, FoundKnown DEF CostInv, CostLocals
  <2> QED BY <2>1, <2>2, CostsStay DEF CostStep
<1>7. CASE ReceiveLine(h)
  <2>1. UNCHANGED <<productMap, purchaseOrders>>
    BY <1>7 DEF ReceiveLine, purchaseVars
  <2> QED BY <1>7, <2>1, ReceiveCosts, CostsStay, FoundStays DEF CostStep
<1>8. CASE CommitPurchase(h) \/ RollbackPurchase(h)
  <2>1. /\ KnownTable(products') /\ PricedTable(purchaseOrders')
        /\ Respond(h)
    BY <1>8, CostsStay
       DEF CommitPurchase, CommitStock, RollbackPurchase, RollbackStock
  <2> QED BY <2>1, RespondFacts, FoundStays DEF CostStep
<1>9. CASE PurchaseRequest(h)
  BY <1>2, <1>3, <1>4, <1>9 DEF PurchaseRequest
<1>10. CASE PurchaseStep(h)
  BY <1>5, <1>6, <1>7, <1>8, <1>10
     DEF PurchaseStep, RefuseForeignProduct, ExpirePurchase
<1> QED BY <1>9, <1>10

\* Every step keeps the invariant.
LEMMA CostNextInv ==
  StoreInv /\ CostInv /\ [StoreNext]_storeVars => CostInv'
<1> SUFFICES ASSUME StoreInv, CostInv, [StoreNext]_storeVars PROVE CostInv'
  OBVIOUS
<1>1. CASE UNCHANGED storeVars
  <2>1. UNCHANGED <<products, purchaseOrders, productMap, req, todo>>
    BY <1>1 DEF storeVars, stockVars, requestVars, purchaseVars
  <2>2. KnownTable(products') /\ PricedTable(purchaseOrders')
    BY <2>1 DEF CostInv
  <2>3. \A g \in Handler :
          /\ KnownFound(productMap'[g])
          /\ req'[g].at \in {"markReceived", "findProducts", "receiveLine"} =>
               Priced(todo'[g])
    BY <2>1 DEF CostInv, CostLocals
  <2> QED BY <2>2, <2>3
          DEF CostInv, CostLocals, KnownTable, PricedTable, KnownFound,
              KnownRow, Known, Priced, KnownCosts
<1>2. ASSUME NEW h \in Handler, StoreRequest(h) \/ StoreStep(h)
      PROVE  CostInv'
  <2>1. CostStep(h)
    BY <1>2, SalesCosts, ReturnsCosts, PurchaseCosts, InventoryCosts
       DEF StoreRequest, StoreStep
  <2>2. OthersKeep(h) /\ OthersWait(h)
    BY <1>2, StepKeepsOthers, StepWaits
  <2> QED BY <2>1, <2>2, CostOfOthers
<1> QED BY <1>1, <1>2 DEF StoreNext

\* The costs of the opening stock are known.
LEMMA CostInitInv == StoreInit => CostInv
<1> SUFFICES ASSUME StoreInit PROVE CostInv
  OBVIOUS
<1>1. PICK rows \in OpeningRows : products = NewTable(rows)
  BY DEF StoreInit, StockInit
<1>2. KnownTable(products)
  <2> SUFFICES ASSUME NEW p \in Product PROVE KnownRow(p, rows[p])
    BY <1>1 DEF KnownTable, NewTable
  <2>1. rows[p].averageCost \in KnownCosts(p)
    BY DEF KnownCosts
  <2>2. rows[p].averageCost \in rows[p].averageCost .. rows[p].averageCost
    BY <2>1, KnownCostsInt
  <2> QED BY <2>1, <2>2 DEF KnownRow, Known
<1>3. /\ purchaseOrders = NewTable([o \in PurchaseOrder |-> NoPurchaseOrder])
      /\ \A h \in Handler : req[h].at = "idle" /\ productMap[h] = NothingFound
  BY DEF StoreInit, PurchaseInit, RequestsInit, IdleRequest
<1>4. PricedTable(purchaseOrders)
  BY <1>3 DEF PricedTable, Priced, NewTable, NoPurchaseOrder
<1>5. \A h \in Handler : CostLocals(h)
  BY <1>3 DEF CostLocals, KnownFound, NothingFound
<1> QED BY <1>2, <1>4, <1>5 DEF CostInv

(***************************************************************************)
(* The average cost of a product stays between two costs it was ever       *)
(* stocked at, for any stock, prices and number of concurrent receipts:    *)
(* rounding to the cent does not take it out, nor does a stale stock       *)
(* figure, because stock is never negative.                                *)
(***************************************************************************)
THEOREM AverageCostsStayWithinPrices == StoreSpec => []AverageCostWithinPrices
<1>1. StoreInit => CostInv
  BY CostInitInv
<1>2. StoreInv /\ CostInv /\ [StoreNext]_storeVars => CostInv'
  BY CostNextInv
<1>3. CostInv => AverageCostWithinPrices
  BY DEF CostInv, KnownTable, KnownRow, Known, AverageCostWithinPrices
<1> QED BY <1>1, <1>2, <1>3, StoreAlways, PTL DEF StoreSpec

-----------------------------------------------------------------------------
\* How many pieces of the order's item i the lines of a return bring back.
Counted(lines, i) ==
  SumFunctionOnSet([j \in DOMAIN lines |-> lines[j].quantity],
                   {j \in DOMAIN lines : lines[j].item = i})

\* No lines, no pieces.
LEMMA CountedNone == ASSUME NEW i PROVE Counted(<< >>, i) = 0
<1>1. {j \in DOMAIN << >> : << >>[j].item = i} = {}
  OBVIOUS
<1> QED BY <1>1, SumEmpty DEF Counted

\* The pieces counted for an item are a natural number.
LEMMA CountedLines ==
  ASSUME NEW lines \in Seq(ReturnLine), NEW i
  PROVE  /\ Counted(lines, i) \in Nat
         /\ \A j \in DOMAIN lines : lines[j].quantity \in Nat
<1> DEFINE f == [j \in DOMAIN lines |-> lines[j].quantity]
           T == {j \in DOMAIN lines : lines[j].item = i}
<1>1. \A j \in DOMAIN lines : lines[j] \in ReturnLine
  BY ElementOfSeq, LenProperties
<1>2. \A j \in DOMAIN lines : lines[j].quantity \in Nat
  BY <1>1 DEF ReturnLine
<1>3. IsFiniteSet(T) /\ \A j \in T : f[j] \in Nat
  BY <1>2, FewLines, FS_Subset
<1> HIDE DEF f, T
<1>4. SumFunctionOnSet(f, T) \in Nat
  BY <1>3, SumNat
<1> QED BY <1>2, <1>4 DEF Counted, f, T

\* The count of the first line and of the rest.
LEMMA CountedTail ==
  ASSUME NEW lines \in Seq(ReturnLine), lines # << >>, NEW i
  PROVE  Counted(lines, i)
           = (IF Head(lines).item = i THEN Head(lines).quantity ELSE 0)
               + Counted(Tail(lines), i)
<1>1. PICK n \in Nat :
        /\ DOMAIN lines = 1..(n + 1) /\ DOMAIN Tail(lines) = 1..n
        /\ Head(lines) = lines[1]
        /\ \A j \in 1..n : Tail(lines)[j] = lines[j + 1]
  BY TailLines
<1> DEFINE f == [j \in 1..(n + 1) |-> lines[j].quantity]
           g == [j \in 1..n |-> Tail(lines)[j].quantity]
           T == {j \in 1..(n + 1) : lines[j].item = i}
<1>2. Shifted(f, g, T, n)
  BY <1>1, CountedLines DEF Shifted
<1>3. /\ 1 \in T <=> Head(lines).item = i
      /\ f[1] = Head(lines).quantity
      /\ Before(T, n) = {j \in 1..n : Tail(lines)[j].item = i}
  BY <1>1 DEF Before
<1>4. Counted(lines, i) = SumFunctionOnSet(f, T)
  BY <1>1 DEF Counted
<1>5. Counted(Tail(lines), i)
        = SumFunctionOnSet(g, {j \in 1..n : Tail(lines)[j].item = i})
  BY <1>1 DEF Counted
<1> HIDE DEF f, g, T
<1>6. SumFunctionOnSet(f, T)
        = (IF 1 \in T THEN f[1] ELSE 0) + SumFunctionOnSet(g, Before(T, n))
  BY <1>2, SumTail
<1> QED BY <1>3, <1>4, <1>5, <1>6

-----------------------------------------------------------------------------
(***************************************************************************)
(* The return items of an order, as the table c of returns has them: which *)
(* of them are of its item i, and how many pieces those bring back.        *)
(***************************************************************************)
Rows(c, o) ==
  UNION {{r} \X DOMAIN c[r].items : r \in {x \in SalesReturn : c[x].order = o}}

Matching(c, o, i) == {x \in Rows(c, o) : c[x[1]].items[x[2]].item = i}

Tally(c, o, i) ==
  SumFunctionOnSet([x \in Rows(c, o) |-> c[x[1]].items[x[2]].quantity],
                   Matching(c, o, i))

\* The table d of returns has the return r, which c has not.
OneMore(c, d, r) ==
  /\ c \in [SalesReturn -> ReturnRowType]
  /\ d \in [SalesReturn -> ReturnRowType]
  /\ c[r] = NoSalesReturn
  /\ \A x \in SalesReturn : x # r => d[x] = c[x]

\* The positions of return r, if it is a return of order o.
NewRows(d, r, o) == IF d[r].order = o THEN DOMAIN d[r].items ELSE {}

\* One more return adds its rows to those of its order.
LEMMA RowsGrow ==
  ASSUME NEW c, NEW d, NEW r \in SalesReturn, OneMore(c, d, r), NEW o \in SalesOrder
  PROVE  /\ \A x \in Rows(c, o) : x[1] # r /\ d[x[1]] = c[x[1]]
         /\ Rows(d, o) = Rows(c, o) \cup Placed(r, NewRows(d, r, o))
         /\ \A x \in Rows(c, o) : c[x[1]].items[x[2]] \in ReturnLine
         /\ \A j \in NewRows(d, r, o) : d[r].items[j] \in ReturnLine
         /\ IsFiniteSet(NewRows(d, r, o))
<1>1. c[r].order # o
  BY SalesAssumption, TenantAssumption DEF OneMore, NoSalesReturn
<1>2. ASSUME NEW s \in SalesReturn
      PROVE  /\ c[s].items \in Seq(ReturnLine) /\ d[s].items \in Seq(ReturnLine)
             /\ \A j \in DOMAIN c[s].items : c[s].items[j] \in ReturnLine
             /\ \A j \in DOMAIN d[s].items : d[s].items[j] \in ReturnLine
  <2>1. c[s].items \in Seq(ReturnLine) /\ d[s].items \in Seq(ReturnLine)
    BY DEF OneMore, ReturnRowType
  <2> QED BY <2>1, ElementOfSeq, LenProperties
<1>3. \A x : x \in Rows(c, o) <=>
        \E s \in SalesReturn : /\ c[s].order = o
                               /\ \E j \in DOMAIN c[s].items : x = <<s, j>>
  BY DEF Rows
<1>4. \A x : x \in Rows(d, o) <=>
        \E s \in SalesReturn : /\ d[s].order = o
                               /\ \E j \in DOMAIN d[s].items : x = <<s, j>>
  BY DEF Rows
<1>5. \A x \in Rows(c, o) : x[1] # r /\ d[x[1]] = c[x[1]]
  BY <1>1, <1>3 DEF OneMore
<1>6. Rows(d, o) = Rows(c, o) \cup Placed(r, NewRows(d, r, o))
  <2>1. ASSUME NEW x \in Rows(d, o)
        PROVE  x \in Rows(c, o) \cup Placed(r, NewRows(d, r, o))
    <3>1. PICK s \in SalesReturn : d[s].order = o /\ \E j \in DOMAIN d[s].items : x = <<s, j>>
      BY <1>4, <2>1
    <3>2. CASE s = r
      BY <3>1, <3>2 DEF NewRows, Placed
    <3>3. CASE s # r
      BY <1>3, <3>1, <3>3 DEF OneMore
    <3> QED BY <3>2, <3>3
  <2>2. ASSUME NEW x \in Rows(c, o) PROVE x \in Rows(d, o)
    BY <1>1, <1>3, <1>4 DEF OneMore
  <2>3. ASSUME NEW j \in NewRows(d, r, o) PROVE <<r, j>> \in Rows(d, o)
    BY <1>4 DEF NewRows
  <2> QED BY <2>1, <2>2, <2>3 DEF Placed
<1>7. IsFiniteSet(NewRows(d, r, o))
  BY <1>2, FewLines, FS_EmptySet DEF NewRows
<1>8. \A x \in Rows(c, o) : c[x[1]].items[x[2]] \in ReturnLine
  BY <1>2, <1>3
<1>9. \A j \in NewRows(d, r, o) : d[r].items[j] \in ReturnLine
  BY <1>2 DEF NewRows
<1> QED BY <1>5, <1>6, <1>7, <1>8, <1>9

\* A new return adds its own items to the tally of its order.
LEMMA TallyGrows ==
  ASSUME NEW c, NEW d, NEW r \in SalesReturn, OneMore(c, d, r),
         NEW o \in SalesOrder, NEW i, IsFiniteSet(Rows(c, o))
  PROVE  /\ IsFiniteSet(Rows(d, o))
         /\ Tally(d, o, i)
              = Tally(c, o, i)
                  + (IF d[r].order = o THEN Counted(d[r].items, i) ELSE 0)
<1> DEFINE N == NewRows(d, r, o)
           S == Matching(c, o, i)
           T == {j \in N : d[r].items[j].item = i}
           f == [x \in Rows(c, o) |-> c[x[1]].items[x[2]].quantity]
           g == [x \in Rows(d, o) |-> d[x[1]].items[x[2]].quantity]
           w == [j \in DOMAIN d[r].items |-> d[r].items[j].quantity]
<1>1. /\ \A x \in Rows(c, o) : x[1] # r /\ d[x[1]] = c[x[1]]
      /\ Rows(d, o) = Rows(c, o) \cup Placed(r, N)
      /\ \A x \in Rows(c, o) : c[x[1]].items[x[2]] \in ReturnLine
      /\ \A j \in N : d[r].items[j] \in ReturnLine
      /\ IsFiniteSet(N)
  BY RowsGrow
<1>2. /\ \A x \in Rows(c, o) : c[x[1]].items[x[2]].quantity \in Int
      /\ \A j \in N : d[r].items[j].quantity \in Int
  BY <1>1 DEF ReturnLine
<1>3. N \subseteq DOMAIN d[r].items
  BY DEF NewRows
<1>4. IsFiniteSet(S) /\ IsFiniteSet(T)
  BY <1>1, FS_Subset DEF Matching
<1>5. \A j \in T : <<r, j>> \notin S
  BY <1>1 DEF Matching
<1>6. /\ \A x \in S : f[x] \in Int /\ g[x] = f[x]
      /\ \A j \in T : w[j] \in Int /\ g[<<r, j>>] = w[j]
  <2>1. \A x \in Rows(c, o) : x \in Rows(d, o)
    BY <1>1
  <2>2. \A j \in N : <<r, j>> \in Rows(d, o)
    BY <1>1 DEF Placed
  <2>3. \A x \in S : f[x] \in Int /\ g[x] = f[x]
    BY <1>1, <1>2, <2>1 DEF Matching
  <2>4. \A j \in T : w[j] \in Int /\ g[<<r, j>>] = w[j]
    BY <1>2, <1>3, <2>2
  <2> QED BY <2>3, <2>4
<1>7. Matching(d, o, i) = S \cup Placed(r, T)
  BY <1>1 DEF Matching, Placed
<1>8. SumFunctionOnSet(w, T) = IF d[r].order = o THEN Counted(d[r].items, i) ELSE 0
  <2>1. CASE d[r].order = o
    BY <2>1 DEF NewRows, Counted
  <2>2. CASE d[r].order # o
    <3>1. T = {}
      BY <2>2 DEF NewRows
    <3> QED BY <2>2, <3>1, SumEmpty
  <2> QED BY <2>1, <2>2
<1>9. IsFiniteSet(Rows(d, o))
  <2> DEFINE b == [j \in N |-> <<r, j>>]
             U == Placed(r, N)
  <2>1. b \in Surjection(N, U)
    BY DEF Surjection, Placed
  <2> HIDE DEF b, N
  <2>2. IsFiniteSet(U)
    BY <1>1, <2>1, FS_Surjection
  <2> QED BY <1>1, <2>2, FS_Union
<1>10. Tally(d, o, i) = SumFunctionOnSet(g, Matching(d, o, i))
       /\ Tally(c, o, i) = SumFunctionOnSet(f, S)
  BY DEF Tally
<1> HIDE DEF N, S, T, f, g, w
<1>11. SumFunctionOnSet(g, S \cup Placed(r, T))
         = SumFunctionOnSet(f, S) + SumFunctionOnSet(w, T)
  BY <1>4, <1>5, <1>6, SumGrows
<1> QED BY <1>7, <1>8, <1>9, <1>10, <1>11

(***************************************************************************)
(* A return on its way: it holds its own new row, which no commit has      *)
(* published, and what it has added to the counters of its order and the   *)
(* items it has still to count are together the items of that row.         *)
(***************************************************************************)
\* What handler h has added to counter k and not committed.
Added(t, h, k) == IF t.holder[k] = h THEN t.current[k] - t.committed[k] ELSE 0

\* The items that the loop has still to count.
Left(at, lines) == IF at = "restock" THEN Tail(lines) ELSE lines

Returning(h) ==
  /\ \A r \in SalesReturn : salesReturns.holder[r] = h =>
       r = req[h].key /\ salesReturns.committed[r] = NoSalesReturn
  /\ \A k \in SalesOrder \X LineNo :
       orderItems.holder[k] = h => k[1] = claim[h].order
  /\ req[h].op \in ReturnsOp => req[h].key \in SalesReturn
  /\ req[h].op \in ReturnsOp /\ req[h].at = "commit" => claim[h].items = << >>
  /\ Writing(h, ReturnsOp) =>
       /\ salesReturns.holder[req[h].key] = h
       /\ salesReturns.current[req[h].key].order = claim[h].order
       /\ \A i \in LineNo :
            Added(orderItems, h, <<claim[h].order, i>>)
              + Counted(Left(req[h].at, claim[h].items), i)
              = Counted(salesReturns.current[req[h].key].items, i)

\* A committed return is never rewritten.
Final(t) == \A r \in DOMAIN t.holder :
              t.committed[r] # NoSalesReturn => t.current[r] = t.committed[r]

\* The counters agree with the committed returns.
Tallied(c, t) ==
  \A o \in SalesOrder :
    /\ IsFiniteSet(Rows(c, o))
    /\ \A i \in LineNo : t.committed[<<o, i>>] = Tally(c, o, i)

ReturnedInv ==
  /\ Consistent(orderItems)
  /\ Final(salesReturns)
  /\ Tallied(salesReturns.committed, orderItems)
  /\ \A h \in Handler : Returning(h)

ReturnedStep(h) ==
  /\ Consistent(orderItems')
  /\ Final(salesReturns')
  /\ Tallied(salesReturns'.committed, orderItems')
  /\ Returning(h)'

\* A step of h need only be checked for h.
LEMMA ReturningOfOthers ==
  ASSUME StoreInv, ReturnInv, ReturnedInv, NEW h \in Handler,
         OthersKeep(h), ReturnedStep(h)
  PROVE  ReturnedInv'
<1>0. (\A g \in Handler : g # h => Returning(g)') => ReturnedInv'
  BY DEF ReturnedInv, ReturnedStep, Consistent, Final, Tallied, Tally, Rows, Matching
<1> SUFFICES ASSUME NEW g \in Handler, g # h PROVE Returning(g)'
  BY <1>0
<1>1. Returning(g) /\ g # NoOne
  BY OpeningAssumption DEF ReturnedInv
<1>2. req'[g] = req[g] /\ claim'[g] = claim[g]
  BY DEF OthersKeep
<1>3. /\ DOMAIN salesReturns.holder = SalesReturn
      /\ DOMAIN orderItems.holder = SalesOrder \X LineNo
  BY StoreTables DEF Table
<1>4. \A r \in SalesReturn :
        /\ salesReturns'.holder[r] = g => salesReturns.holder[r] = g
        /\ salesReturns.holder[r] = g =>
             /\ salesReturns'.holder[r] = g
             /\ salesReturns'.current[r] = salesReturns.current[r]
             /\ salesReturns'.committed[r] = salesReturns.committed[r]
  BY <1>1, <1>3 DEF OthersKeep, Keeps
<1>5. \A k \in SalesOrder \X LineNo :
        /\ orderItems'.holder[k] = g => orderItems.holder[k] = g
        /\ orderItems.holder[k] = g =>
             /\ orderItems'.holder[k] = g
             /\ orderItems'.current[k] = orderItems.current[k]
             /\ orderItems'.committed[k] = orderItems.committed[k]
  BY <1>1, <1>3 DEF OthersKeep, Keeps
<1>6. \A k \in SalesOrder \X LineNo : Added(orderItems', g, k) = Added(orderItems, g, k)
  BY <1>5 DEF Added
<1>7. ASSUME Writing(g, ReturnsOp), NEW i \in LineNo
      PROVE  Added(orderItems', g, <<claim'[g].order, i>>)
               + Counted(Left(req'[g].at, claim'[g].items), i)
               = Counted(salesReturns'.current[req'[g].key].items, i)
  <2>1. req[g].key \in SalesReturn /\ salesReturns.holder[req[g].key] = g
    BY <1>1, <1>7 DEF Returning, Writing
  <2>2. salesReturns'.current[req[g].key] = salesReturns.current[req[g].key]
    BY <1>4, <2>1
  <2>3. claim[g].order \in SalesOrder
    BY <1>7 DEF Writing, ReturnInv, OfCompleted
  <2> QED BY <1>1, <1>2, <1>6, <1>7, <2>2, <2>3 DEF Returning
<1> QED BY <1>1, <1>2, <1>4, <1>5, <1>7 DEF Returning, Writing, Added, Left, Counted
\* The statements that keep the counters and the return rows in order.
LEMMA TablesStay ==
  ASSUME NEW K, NEW R, NEW t \in Table(K, R, Handler), NEW h \in Handler
  PROVE  /\ Consistent(t) =>
              /\ Consistent(Commit(t, h)) /\ Consistent(Rollback(t, h))
              /\ \A k \in K : \A row : Consistent(Update(t, h, k, row))
         /\ Final(t) =>
              /\ Final(Commit(t, h)) /\ Final(Rollback(t, h))
              /\ \A k \in K : \A row :
                   t.current[k] = NoSalesReturn => Final(Update(t, h, k, row))
<1>1. h # NoOne
  BY OpeningAssumption
<1> QED BY <1>1 DEF Consistent, Final, Commit, Rollback, Visible, Update, Table

\* A step that commits nothing leaves the tally as it is.
LEMMA TallyStays ==
  ASSUME ReturnedInv, salesReturns'.committed = salesReturns.committed,
         orderItems'.committed = orderItems.committed
  PROVE  Tallied(salesReturns'.committed, orderItems')
BY DEF ReturnedInv, Tallied

\* A step that leaves returns and counters alone.
LEMMA ReturnedQuietly ==
  ASSUME ReturnedInv, NEW h \in Handler, UNCHANGED <<salesReturns, orderItems>>,
         Returning(h)'
  PROVE  ReturnedStep(h)
BY TallyStays DEF ReturnedInv, ReturnedStep

\* Nothing is to be said of a handler that has written no return.
LEMMA ReturnsNothing ==
  ASSUME NEW h \in Handler, ~ Writing(h, ReturnsOp)',
         req'[h].op \in ReturnsOp => req'[h].key \in SalesReturn,
         req'[h].at # "commit" \/ req'[h].op \notin ReturnsOp,
         \A r \in SalesReturn : salesReturns'.holder[r] # h,
         \A k \in SalesOrder \X LineNo : orderItems'.holder[k] # h
  PROVE  Returning(h)'
BY DEF Returning, Writing

\* The other services do not touch returns and counters.
LEMMA OthersReturned ==
  ASSUME StoreInv, LockInv, ReturnedInv, NEW h \in Handler,
         \/ SalesRequest(h) \/ SalesStep(h)
         \/ PurchaseRequest(h) \/ PurchaseStep(h)
         \/ InventoryRequest(h) \/ InventoryStep(h),
         UNCHANGED returnsVars
  PROVE  ReturnedStep(h)
<1>1. UNCHANGED <<salesReturns, orderItems>>
  BY DEF returnsVars
<1>2. req[h].op \notin ReturnsOp /\ req'[h].op \notin ReturnsOp
  BY SalesMoves, PurchaseMoves, InventoryMoves
     DEF Running, SalesOp, PurchaseOp, ReturnsOp, InventoryOp
<1>3. /\ \A r \in SalesReturn : salesReturns.holder[r] # h
      /\ \A k \in SalesOrder \X LineNo : orderItems.holder[k] # h
  BY <1>2 DEF LockInv, HandlerLocks, Writing
<1>4. Returning(h)'
  BY <1>1, <1>2, <1>3, ReturnsNothing DEF Writing
<1> QED BY <1>1, <1>4, ReturnedQuietly

\* The check before the transaction writes nothing.
LEMMA CheckReturns ==
  ASSUME StoreInv, LockInv, ReturnedInv, NEW h \in Handler, ReturnsRequest(h)
  PROVE  ReturnedStep(h)
<1>1. PICK r \in SalesReturn : Begin(h, "createReturn", r, "insertReturn")
  BY DEF ReturnsRequest, CheckReturn
<1>2. UNCHANGED <<salesReturns, orderItems>>
  BY DEF ReturnsRequest, CheckReturn
<1>3. /\ req'[h].key = r /\ req'[h].at = "insertReturn"
      /\ req[h].at \in BeforeWrite
  BY <1>1, BeginFacts
<1>4. /\ \A s \in SalesReturn : salesReturns.holder[s] # h
      /\ \A k \in SalesOrder \X LineNo : orderItems.holder[k] # h
  BY <1>3, NothingYet
<1>5. Returning(h)'
  BY <1>2, <1>3, <1>4, ReturnsNothing DEF Writing, BeforeWrite
<1> QED BY <1>2, <1>5, ReturnedQuietly

\* The row of a return is new, and nothing is counted yet.
LEMMA InsertReturns ==
  ASSUME StoreInv, LockInv, ReturnInv, ReturnedInv, NEW h \in Handler, InsertSalesReturn(h)
  PROVE  ReturnedStep(h)
<1> DEFINE r == req[h].key
           row == [order |-> claim[h].order, items |-> claim[h].items]
<1>1. /\ salesReturns \in Table(SalesReturn, ReturnRowType, Handler)
      /\ Final(salesReturns) /\ Returning(h)
      /\ Consistent(orderItems)
  BY StoreTables DEF ReturnedInv
<1>2. /\ salesReturns' = Update(salesReturns, h, r, row)
      /\ salesReturns.current[r] = NoSalesReturn
      /\ UNCHANGED <<orderItems, claim>>
      /\ req[h].op \in ReturnsOp /\ req[h].at = "insertReturn"
      /\ req'[h].op \in ReturnsOp /\ req'[h].key = r /\ req'[h].at = "returnItem"
  BY GotoFacts DEF InsertSalesReturn, At
<1>3. r \in SalesReturn
  BY <1>1, <1>2 DEF Returning
<1>4. /\ \A s \in SalesReturn : salesReturns.holder[s] # h
      /\ \A k \in SalesOrder \X LineNo : orderItems.holder[k] # h
  BY <1>2, NothingYet DEF BeforeWrite
<1>5. /\ salesReturns'.committed = salesReturns.committed
      /\ salesReturns'.current[r] = row
      /\ salesReturns'.holder[r] = h
      /\ \A s \in SalesReturn : salesReturns'.holder[s] = h => s = r
      /\ Final(salesReturns')
  BY <1>1, <1>2, <1>3, <1>4, Versions, Holders, TablesStay
<1>6. salesReturns.committed[r] = NoSalesReturn
  BY <1>1, <1>2, <1>3 DEF Final, Table
<1>7. ASSUME NEW i \in LineNo
      PROVE  Added(orderItems', h, <<claim'[h].order, i>>)
               + Counted(Left(req'[h].at, claim'[h].items), i)
               = Counted(salesReturns'.current[req'[h].key].items, i)
  <2>1. Counted(claim[h].items, i) \in Nat
    BY ReturnsRows, CountedLines
  <2>2. Added(orderItems', h, <<claim'[h].order, i>>) = 0
    BY <1>2, <1>4 DEF Added, ReturnInv, OfCompleted
  <2>3. Left(req'[h].at, claim'[h].items) = claim[h].items
    BY <1>2 DEF Left
  <2> QED BY <1>2, <1>5, <2>1, <2>2, <2>3
<1>8. Returning(h)'
  <2>1. salesReturns'.current[r].order = claim'[h].order
    BY <1>2, <1>5
  <2> HIDE DEF row
  <2> QED BY <1>2, <1>3, <1>4, <1>5, <1>6, <1>7, <2>1
     DEF Returning, Writing, Added, Left, Counted
<1>9. Tallied(salesReturns'.committed, orderItems')
  BY <1>2, <1>5, TallyStays
<1> QED BY <1>1, <1>2, <1>5, <1>8, <1>9 DEF ReturnedStep

\* What a handler has added to a counter, after one more increment.
LEMMA AddedGrows ==
  ASSUME NEW K, NEW t \in Table(K, Nat, Handler), Consistent(t),
         NEW h \in Handler, NEW k \in K, Free(t, h, k), NEW n \in Int
  PROVE  \A j \in K :
           /\ Added(t, h, j) \in Int
           /\ Added(Update(t, h, k, t.current[k] + n), h, j)
                = Added(t, h, j) + (IF j = k THEN n ELSE 0)
<1>1. h # NoOne /\ DOMAIN t.holder = K
  BY OpeningAssumption DEF Table
<1>2. \A j \in K : t.current[j] \in Int /\ t.committed[j] \in Int
  BY DEF Table
<1>3. t.holder[k] # h => t.current[k] = t.committed[k]
  BY <1>1 DEF Consistent, Free
<1> DEFINE u == Update(t, h, k, t.current[k] + n)
<1>4. /\ u.committed = t.committed
      /\ u.current[k] = t.current[k] + n /\ u.holder[k] = h
      /\ \A j \in K : j # k => u.current[j] = t.current[j] /\ u.holder[j] = t.holder[j]
  BY DEF Update, Table
<1> HIDE DEF u
<1>5. ASSUME NEW j \in K
      PROVE  /\ Added(t, h, j) \in Int
             /\ Added(u, h, j) = Added(t, h, j) + (IF j = k THEN n ELSE 0)
  <2>1. Added(t, h, j) \in Int
    BY <1>2 DEF Added
  <2>2. CASE j # k
    BY <1>4, <2>1, <2>2 DEF Added
  <2>3. CASE j = k
    BY <1>2, <1>3, <1>4, <2>3 DEF Added
  <2> QED BY <2>1, <2>2, <2>3
<1> QED BY <1>5 DEF u

\* An increment moves its item from what is left to what is added.
LEMMA IncrementReturns ==
  ASSUME StoreInv, LockInv, ReturnInv, ReturnedInv, NEW h \in Handler,
         IncrementReturned(h)
  PROVE  ReturnedStep(h)
<1> DEFINE lines == claim[h].items
           o == claim[h].order
           line == Head(lines)
           i == line.item
           q == line.quantity
           k == <<o, i>>
           t == orderItems
<1>1. /\ t \in Table(SalesOrder \X LineNo, Nat, Handler) /\ Consistent(t)
      /\ Returning(h)
  BY StoreTables DEF ReturnedInv
<1>2. /\ lines # << >>
      /\ Free(t, h, k) /\ t' = Update(t, h, k, t.current[k] + q)
      /\ UNCHANGED <<salesReturns, claim>>
      /\ req[h].op \in ReturnsOp /\ req[h].at = "returnItem"
      /\ req'[h].op \in ReturnsOp /\ req'[h].key = req[h].key
      /\ req'[h].at = "restock"
  BY GotoFacts DEF IncrementReturned, At
<1>3. lines \in Seq(ReturnLine) /\ o \in SalesOrder
  BY <1>2, ReturnsRows DEF ReturnInv, OfCompleted
<1>4. line \in ReturnLine /\ Tail(lines) \in Seq(ReturnLine)
  BY <1>2, <1>3, HeadTailProperties
<1>5. i \in LineNo /\ q \in Nat /\ k \in SalesOrder \X LineNo
  BY <1>3, <1>4 DEF ReturnLine
<1> HIDE DEF lines, o, line, q, i
<1>6. \A j \in SalesOrder \X LineNo :
        /\ Added(t, h, j) \in Int
        /\ Added(t', h, j) = Added(t, h, j) + (IF j = k THEN q ELSE 0)
  <2> HIDE DEF t, k
  <2>1. q \in Int
    BY <1>5
  <2>2. \A j \in SalesOrder \X LineNo :
          /\ Added(t, h, j) \in Int
          /\ Added(Update(t, h, k, t.current[k] + q), h, j)
               = Added(t, h, j) + (IF j = k THEN q ELSE 0)
    BY <1>1, <1>2, <1>5, <2>1, AddedGrows
  <2> QED BY <1>2, <2>2
<1>7. /\ t'.committed = t.committed /\ Consistent(t')
      /\ \A j \in SalesOrder \X LineNo : t'.holder[j] = h => j = k \/ t.holder[j] = h
  BY <1>1, <1>2, <1>5, Versions, Holders, TablesStay
<1>8. Writing(h, ReturnsOp)
  BY <1>2 DEF Writing, BeforeWrite
<1>9. ASSUME NEW n \in LineNo
      PROVE  Added(t', h, <<claim'[h].order, n>>)
               + Counted(Left(req'[h].at, claim'[h].items), n)
               = Counted(salesReturns'.current[req'[h].key].items, n)
  <2>1. Added(t, h, <<o, n>>) + Counted(Left("returnItem", lines), n)
          = Counted(salesReturns.current[req[h].key].items, n)
    BY <1>1, <1>2, <1>8 DEF Returning, o, lines
  <2>2. Left("returnItem", lines) = lines /\ Left("restock", lines) = Tail(lines)
    BY DEF Left
  <2>3. /\ Counted(lines, n) = (IF i = n THEN q ELSE 0) + Counted(Tail(lines), n)
        /\ Counted(Tail(lines), n) \in Nat
    BY <1>2, <1>3, <1>4, CountedTail, CountedLines DEF line, q, i
  <2>4. /\ Added(t, h, <<o, n>>) \in Int
        /\ Added(t', h, <<o, n>>) = Added(t, h, <<o, n>>) + (IF n = i THEN q ELSE 0)
    BY <1>3, <1>6
  <2>5. Added(t', h, <<o, n>>) + Counted(Left("restock", lines), n)
          = Counted(salesReturns.current[req[h].key].items, n)
    <3> DEFINE a == Added(t, h, <<o, n>>)
               b == Added(t', h, <<o, n>>)
               left == Counted(Tail(lines), n)
               all == Counted(salesReturns.current[req[h].key].items, n)
               d == IF n = i THEN q ELSE 0
    <3>1. /\ a + Counted(lines, n) = all
          /\ Counted(lines, n) = d + left
          /\ b = a + d
          /\ a \in Int /\ left \in Nat /\ d \in Nat
      BY <1>5, <2>1, <2>2, <2>3, <2>4
    <3>2. Left("restock", lines) = Tail(lines)
      BY <2>2
    <3> HIDE DEF a, b, left, all, d
    <3>3. b + left = all
      BY <3>1
    <3> QED BY <3>2, <3>3 DEF b, left, all
  <2> QED BY <1>2, <2>5 DEF o, lines
<1>10. Returning(h)'
  <2>1. \A j \in SalesOrder \X LineNo : t'.holder[j] = h => j[1] = claim'[h].order
    BY <1>1, <1>2, <1>7 DEF Returning, o
  <2> QED BY <1>1, <1>2, <1>8, <1>9, <2>1
          DEF Returning, Writing, Added, Left, Counted
<1>11. Tallied(salesReturns'.committed, orderItems')
  BY <1>2, <1>7, TallyStays
<1>12. Final(salesReturns')
  BY <1>2 DEF ReturnedInv, Final
<1> QED BY <1>7, <1>10, <1>11, <1>12 DEF ReturnedStep

\* The rest of an iteration, and the totals of the order: no counter and no
\* return is written.
LEMMA LoopReturns ==
  ASSUME StoreInv, LockInv, ReturnInv, ReturnedInv, NEW h \in Handler,
         Restock(h) \/ ReduceTotals(h)
  PROVE  ReturnedStep(h)
<1>1. UNCHANGED <<salesReturns, orderItems>> /\ Returning(h)
  BY DEF Restock, ReduceTotals, ReturnedInv
<1>2. /\ req[h].op \in ReturnsOp
      /\ req'[h].op \in ReturnsOp /\ req'[h].key = req[h].key
      /\ \/ /\ req[h].at = "restock" /\ req'[h].at = "returnItem"
            /\ claim'[h].items = Tail(claim[h].items)
         \/ /\ req[h].at = "returnItem" /\ req'[h].at = "commit"
            /\ claim[h].items = << >> /\ claim'[h].items = << >>
      /\ claim'[h].order = claim[h].order
  <2>1. CASE Restock(h)
    BY <2>1, GotoFacts, ReturnsRows DEF Restock, At
  <2>2. CASE ReduceTotals(h)
    BY <2>2, GotoFacts DEF ReduceTotals, At
  <2> QED BY <2>1, <2>2
<1>3. Left(req'[h].at, claim'[h].items) = Left(req[h].at, claim[h].items)
  BY <1>2 DEF Left
<1>4. Writing(h, ReturnsOp)
  BY <1>2 DEF Writing, BeforeWrite
<1>5. ASSUME NEW n \in LineNo
      PROVE  Added(orderItems', h, <<claim'[h].order, n>>)
               + Counted(Left(req'[h].at, claim'[h].items), n)
               = Counted(salesReturns'.current[req'[h].key].items, n)
  BY <1>1, <1>2, <1>3, <1>4 DEF Returning
<1>6. Returning(h)'
  BY <1>1, <1>2, <1>4, <1>5 DEF Returning, Writing, Added, Left, Counted
<1> QED BY <1>1, <1>6, ReturnedQuietly

\* A transaction that is rolled back takes its row and its counts with it.
LEMMA RollbackReturns ==
  ASSUME StoreInv, ReturnedInv, NEW h \in Handler, RollbackReturn(h)
  PROVE  ReturnedStep(h)
<1>1. /\ salesReturns \in Table(SalesReturn, ReturnRowType, Handler)
      /\ orderItems \in Table(SalesOrder \X LineNo, Nat, Handler)
      /\ Final(salesReturns) /\ Consistent(orderItems)
  BY StoreTables DEF ReturnedInv
<1>2. /\ salesReturns' = Rollback(salesReturns, h)
      /\ orderItems' = Rollback(orderItems, h)
      /\ req'[h].op = "none"
  BY RespondFacts DEF RollbackReturn
<1>3. /\ salesReturns'.committed = salesReturns.committed
      /\ orderItems'.committed = orderItems.committed
      /\ Final(salesReturns') /\ Consistent(orderItems')
      /\ \A r \in SalesReturn : salesReturns'.holder[r] # h
      /\ \A k \in SalesOrder \X LineNo : orderItems'.holder[k] # h
  BY <1>1, <1>2, Versions, Holders, TablesStay
<1>4. Returning(h)'
  BY <1>2, <1>3, ReturnsNothing DEF Writing, ReturnsOp
<1> QED BY <1>3, <1>4, TallyStays DEF ReturnedStep

\* A commit shows one return more, the handler's, and what it has counted.
LEMMA CommitPublishes ==
  ASSUME StoreInv, ReturnedInv, NEW h \in Handler, CommitReturn(h)
  PROVE  /\ req[h].op \in ReturnsOp /\ req[h].at = "commit"
         /\ req[h].key \in SalesReturn
         /\ OneMore(salesReturns.committed, salesReturns'.committed, req[h].key)
         /\ salesReturns'.committed[req[h].key] = salesReturns.current[req[h].key]
         /\ salesReturns.current[req[h].key].order = claim[h].order
         /\ claim[h].items = << >>
         /\ \A k \in SalesOrder \X LineNo :
              /\ orderItems.committed[k] \in Int /\ Added(orderItems, h, k) \in Int
              /\ orderItems'.committed[k]
                   = orderItems.committed[k] + Added(orderItems, h, k)
<1> DEFINE r == req[h].key
           s == salesReturns
           t == orderItems
           c == salesReturns.committed
           d == salesReturns'.committed
<1>1. /\ s \in Table(SalesReturn, ReturnRowType, Handler)
      /\ t \in Table(SalesOrder \X LineNo, Nat, Handler)
      /\ Returning(h)
  BY StoreTables DEF ReturnedInv
<1>2. /\ s' = Commit(s, h) /\ t' = Commit(t, h)
      /\ req[h].op \in ReturnsOp /\ req[h].at = "commit"
  BY DEF CommitReturn, At
<1>3. /\ r \in SalesReturn /\ s.holder[r] = h
      /\ s.current[r].order = claim[h].order
      /\ claim[h].items = << >>
  BY <1>1, <1>2 DEF Returning, Writing, BeforeWrite
<1>4. OneMore(c, d, r) /\ d[r] = s.current[r]
  <2>1. /\ d = [x \in SalesReturn |-> IF s.holder[x] = h THEN s.current[x] ELSE c[x]]
        /\ c \in [SalesReturn -> ReturnRowType]
        /\ s.current \in [SalesReturn -> ReturnRowType]
    BY <1>1, <1>2 DEF Commit, Visible, Table
  <2>2. \A x \in SalesReturn : s.holder[x] = h => x = r /\ c[x] = NoSalesReturn
    BY <1>1 DEF Returning
  <2> HIDE DEF c, d, s, r
  <2>3. d \in [SalesReturn -> ReturnRowType]
    BY <2>1
  <2> QED BY <1>3, <2>1, <2>2, <2>3 DEF OneMore
<1>5. ASSUME NEW k \in SalesOrder \X LineNo
      PROVE  /\ t.committed[k] \in Int /\ Added(t, h, k) \in Int
             /\ t'.committed[k] = t.committed[k] + Added(t, h, k)
  <2>1. /\ t.committed[k] \in Nat /\ t.current[k] \in Nat
        /\ t'.committed[k] = IF t.holder[k] = h THEN t.current[k] ELSE t.committed[k]
    BY <1>1, <1>2 DEF Commit, Visible, Table
  <2> HIDE DEF t
  <2>2. CASE t.holder[k] = h
    BY <2>1, <2>2 DEF Added
  <2>3. CASE t.holder[k] # h
    BY <2>1, <2>3 DEF Added
  <2> QED BY <2>2, <2>3
<1> QED BY <1>2, <1>3, <1>4, <1>5

\* A commit publishes the row and the counts together.
LEMMA CommitReturns ==
  ASSUME StoreInv, LockInv, ReturnInv, ReturnedInv, NEW h \in Handler,
         CommitReturn(h)
  PROVE  ReturnedStep(h)
<1> DEFINE r == req[h].key
           s == salesReturns
           t == orderItems
           c == salesReturns.committed
           d == salesReturns'.committed
<1>1. /\ s \in Table(SalesReturn, ReturnRowType, Handler)
      /\ t \in Table(SalesOrder \X LineNo, Nat, Handler)
      /\ Final(s) /\ Consistent(t) /\ Returning(h)
  BY StoreTables DEF ReturnedInv
<1>2. /\ s' = Commit(s, h) /\ t' = Commit(t, h) /\ req'[h].op = "none"
  BY RespondFacts DEF CommitReturn
<1>3. /\ Final(s') /\ Consistent(t')
      /\ \A x \in SalesReturn : s'.holder[x] # h
      /\ \A k \in SalesOrder \X LineNo : t'.holder[k] # h
  BY <1>1, <1>2, Holders, TablesStay
<1>4. Returning(h)'
  BY <1>2, <1>3, ReturnsNothing DEF Writing, ReturnsOp
<1>5. /\ r \in SalesReturn /\ OneMore(c, d, r) /\ d[r] = s.current[r]
      /\ s.current[r].order = claim[h].order
      /\ \A k \in SalesOrder \X LineNo :
           /\ t.committed[k] \in Int /\ Added(t, h, k) \in Int
           /\ t'.committed[k] = t.committed[k] + Added(t, h, k)
  BY CommitPublishes
<1>6. \A i \in LineNo :
        Added(t, h, <<claim[h].order, i>>) + Counted(<< >>, i)
          = Counted(s.current[r].items, i)
  BY <1>1, CommitPublishes DEF Returning, Writing, BeforeWrite, Left
<1>7. ASSUME NEW o \in SalesOrder, NEW i \in LineNo
      PROVE  t'.committed[<<o, i>>] = Tally(d, o, i)
  <2> DEFINE k == <<o, i>>
             old == Tally(c, o, i)
             more == IF d[r].order = o THEN Counted(d[r].items, i) ELSE 0
  <2>1. IsFiniteSet(Rows(c, o)) /\ t.committed[k] = old
    BY DEF ReturnedInv, Tallied
  <2>2. Tally(d, o, i) = old + more
    <3> HIDE DEF r, c, d
    <3> QED BY <1>5, <2>1, TallyGrows
  <2>3. k \in SalesOrder \X LineNo
    OBVIOUS
  <2>4. t'.committed[k] = t.committed[k] + Added(t, h, k) /\ Added(t, h, k) \in Int
    BY <1>5, <2>3
  <2>5. Added(t, h, k) = more
    <3>1. CASE d[r].order = o
      BY <1>5, <1>6, <2>4, <3>1, CountedNone
    <3>2. CASE d[r].order # o
      <4>1. t.holder[k] # h
        BY <1>1, <1>5, <2>3, <3>2 DEF Returning
      <4> QED BY <3>2, <4>1 DEF Added
    <3> QED BY <3>1, <3>2
  <2> HIDE DEF k, old, more
  <2> QED BY <2>1, <2>2, <2>4, <2>5 DEF k
<1>8. ASSUME NEW o \in SalesOrder PROVE IsFiniteSet(Rows(d, o))
  <2>1. IsFiniteSet(Rows(c, o))
    BY DEF ReturnedInv, Tallied
  <2> HIDE DEF r, c, d
  <2> QED BY <1>5, <2>1, TallyGrows
<1>9. Tallied(salesReturns'.committed, orderItems')
  BY <1>7, <1>8 DEF Tallied
<1> QED BY <1>3, <1>4, <1>9 DEF ReturnedStep

\* Every step keeps the invariant.
LEMMA ReturnedNextInv ==
  /\ StoreInv /\ LockInv /\ ReturnInv /\ ReturnedInv
  /\ [StoreNext]_storeVars
  => ReturnedInv'
<1> SUFFICES ASSUME StoreInv, LockInv, ReturnInv, ReturnedInv,
                    [StoreNext]_storeVars
             PROVE  ReturnedInv'
  OBVIOUS
<1>1. CASE UNCHANGED storeVars
  <2>1. UNCHANGED <<req, salesReturns, orderItems, claim>>
    BY <1>1 DEF storeVars, requestVars, returnsVars
  <2>2. ASSUME NEW h \in Handler PROVE Returning(h)'
    <3>1. Returning(h)
      BY DEF ReturnedInv
    <3> QED BY <2>1, <3>1 DEF Returning, Writing, Added, Left, Counted
  <2>3. Consistent(orderItems') /\ Final(salesReturns')
    BY <2>1 DEF ReturnedInv
  <2>4. Tallied(salesReturns'.committed, orderItems')
    BY <2>1 DEF ReturnedInv
  <2> QED BY <2>2, <2>3, <2>4
          DEF ReturnedInv, Consistent, Final, Tallied, Tally, Rows, Matching
<1>2. ASSUME NEW h \in Handler, StoreRequest(h) \/ StoreStep(h)
      PROVE  ReturnedInv'
  <2>1. ReturnsRequest(h) \/ ReturnsStep(h) => ReturnedStep(h)
    BY CheckReturns, InsertReturns, IncrementReturns, LoopReturns,
       RollbackReturns, CommitReturns
       DEF ReturnsStep, RefuseReturnNumber, ExpireReturn
  <2>2. ReturnedStep(h)
    BY <1>2, <2>1, OthersReturned DEF StoreRequest, StoreStep
  <2> QED BY <1>2, <2>2, StepKeepsOthers, ReturningOfOthers
<1> QED BY <1>1, <1>2 DEF StoreNext

\* There are no returns and no counts when the store opens.
LEMMA ReturnedInitInv == StoreInit => ReturnedInv
<1> SUFFICES ASSUME StoreInit PROVE ReturnedInv
  OBVIOUS
<1>1. /\ salesReturns = NewTable([r \in SalesReturn |-> NoSalesReturn])
      /\ orderItems = NewTable([k \in SalesOrder \X LineNo |-> 0])
      /\ \A h \in Handler : req[h] = IdleRequest /\ h # NoOne
  BY OpeningAssumption DEF StoreInit, ReturnsInit, RequestsInit
<1>2. Consistent(orderItems) /\ Final(salesReturns)
  BY <1>1 DEF Consistent, Final, NewTable
<1>3. ASSUME NEW h \in Handler PROVE Returning(h)
  <2>1. /\ \A r \in SalesReturn : salesReturns.holder[r] # h
        /\ \A k \in SalesOrder \X LineNo : orderItems.holder[k] # h
        /\ req[h].op \notin ReturnsOp
    BY <1>1 DEF NewTable, IdleRequest, ReturnsOp
  <2> QED BY <2>1 DEF Returning, Writing
<1>4. ASSUME NEW o \in SalesOrder
      PROVE  /\ IsFiniteSet(Rows(salesReturns.committed, o))
             /\ \A i \in LineNo :
                  orderItems.committed[<<o, i>>] = Tally(salesReturns.committed, o, i)
  <2>1. \A r \in SalesReturn : salesReturns.committed[r].order # o
    BY <1>1, SalesAssumption, TenantAssumption DEF NewTable, NoSalesReturn
  <2>2. Rows(salesReturns.committed, o) = {}
    BY <2>1 DEF Rows
  <2>3. \A i : Matching(salesReturns.committed, o, i) = {}
    BY <2>2 DEF Matching
  <2>4. \A i : Tally(salesReturns.committed, o, i) = 0
    BY <2>3, SumEmpty DEF Tally
  <2>5. \A i \in LineNo : orderItems.committed[<<o, i>>] = 0
    BY <1>1 DEF NewTable
  <2> QED BY <2>2, <2>4, <2>5, FS_EmptySet
<1> QED BY <1>2, <1>3, <1>4 DEF ReturnedInv, Tallied

\* The invariants about returns hold for ever.
LEMMA ReturnedAlways ==
  StoreSpec => [](StoreInv /\ LockInv /\ SoldInv /\ ReturnInv /\ ReturnedInv)
<1>1. StoreInit => ReturnInv /\ ReturnedInv
  BY ReturnInitInv, ReturnedInitInv
<1>2. /\ StoreInv /\ LockInv /\ SoldInv /\ ReturnInv
      /\ [StoreNext]_storeVars
      => ReturnInv'
  BY ReturnNextInv
<1>3. /\ StoreInv /\ LockInv /\ ReturnInv /\ ReturnedInv
      /\ [StoreNext]_storeVars
      => ReturnedInv'
  BY ReturnedNextInv
<1> QED BY <1>1, <1>2, <1>3, SoldAlways, PTL DEF StoreSpec

(***************************************************************************)
(* The counter of every order item is the number of pieces that the        *)
(* committed returns brought back, for any number of concurrent returns of *)
(* the same item: no increment is lost, doubled, or left behind by a       *)
(* rollback.                                                               *)
(***************************************************************************)
THEOREM ReturnedCountersAreExact == StoreSpec => []ReturnedMatchesRows
<1>1. ReturnedInv => ReturnedMatchesRows
  <2> SUFFICES ASSUME ReturnedInv PROVE ReturnedMatchesRows
    OBVIOUS
  <2>1. ASSUME NEW o \in SalesOrder, NEW i \in LineNo
        PROVE  orderItems.committed[<<o, i>>] =
                 SumFunctionOnSet([x \in ReturnRows(o) |-> ReturnRow(x).quantity],
                                  {x \in ReturnRows(o) : ReturnRow(x).item = i})
    <3>1. orderItems.committed[<<o, i>>] = Tally(salesReturns.committed, o, i)
      BY DEF ReturnedInv, Tallied
    <3> QED BY <3>1 DEF Tally, Matching, Rows, ReturnRows, ReturnRow
  <2> QED BY <2>1 DEF ReturnedMatchesRows
<1> QED BY <1>1, ReturnedAlways, PTL

-----------------------------------------------------------------------------
(***************************************************************************)
(* What the lines of a return refund, and what all the returns of an order *)
(* refund.                                                                 *)
(***************************************************************************)
Refund(lines) ==
  SumFunctionOnSet([j \in DOMAIN lines |-> lines[j].refundAmount], DOMAIN lines)

Refunded(c, o) ==
  SumFunctionOnSet([x \in Rows(c, o) |-> c[x[1]].items[x[2]].refundAmount],
                   Rows(c, o))

\* No lines, no refund.
LEMMA RefundNone == Refund(<< >>) = 0
BY SumEmpty DEF Refund

\* A refund is an amount.
LEMMA RefundInt ==
  ASSUME NEW lines \in Seq(ReturnLine)
  PROVE  /\ Refund(lines) \in Int
         /\ \A j \in DOMAIN lines : lines[j].refundAmount \in Int
<1> DEFINE f == [j \in DOMAIN lines |-> lines[j].refundAmount]
           T == DOMAIN lines
<1>1. \A j \in DOMAIN lines : lines[j] \in ReturnLine
  BY ElementOfSeq, LenProperties
<1>2. \A j \in DOMAIN lines : lines[j].refundAmount \in Int
  BY <1>1 DEF ReturnLine
<1>3. IsFiniteSet(T) /\ \A j \in T : f[j] \in Int
  BY <1>2, FewLines
<1> HIDE DEF f, T
<1>4. SumFunctionOnSet(f, T) \in Int
  BY <1>3, SumInt
<1> QED BY <1>2, <1>4 DEF Refund, f, T

\* A refund is that of the first line and of the rest.
LEMMA RefundTail ==
  ASSUME NEW lines \in Seq(ReturnLine), lines # << >>
  PROVE  Refund(lines) = Head(lines).refundAmount + Refund(Tail(lines))
<1>1. PICK n \in Nat :
        /\ DOMAIN lines = 1..(n + 1) /\ DOMAIN Tail(lines) = 1..n
        /\ Head(lines) = lines[1]
        /\ \A j \in 1..n : Tail(lines)[j] = lines[j + 1]
  BY TailLines
<1> DEFINE f == [j \in 1..(n + 1) |-> lines[j].refundAmount]
           g == [j \in 1..n |-> Tail(lines)[j].refundAmount]
           T == 1..(n + 1)
<1>2. Shifted(f, g, T, n)
  BY <1>1, RefundInt DEF Shifted
<1>3. /\ 1 \in T
      /\ f[1] = Head(lines).refundAmount
      /\ Before(T, n) = 1..n
  BY <1>1 DEF Before
<1>4. Refund(lines) = SumFunctionOnSet(f, T)
  BY <1>1 DEF Refund
<1>5. Refund(Tail(lines)) = SumFunctionOnSet(g, 1..n)
  BY <1>1 DEF Refund
<1> HIDE DEF f, g, T
<1>6. SumFunctionOnSet(f, T)
        = (IF 1 \in T THEN f[1] ELSE 0) + SumFunctionOnSet(g, Before(T, n))
  BY <1>2, SumTail
<1> QED BY <1>3, <1>4, <1>5, <1>6

\* A new return adds its own refund to those of its order.
LEMMA RefundedGrows ==
  ASSUME NEW c, NEW d, NEW r \in SalesReturn, OneMore(c, d, r),
         NEW o \in SalesOrder, IsFiniteSet(Rows(c, o))
  PROVE  Refunded(d, o)
           = Refunded(c, o) + (IF d[r].order = o THEN Refund(d[r].items) ELSE 0)
<1> DEFINE N == NewRows(d, r, o)
           S == Rows(c, o)
           f == [x \in Rows(c, o) |-> c[x[1]].items[x[2]].refundAmount]
           g == [x \in Rows(d, o) |-> d[x[1]].items[x[2]].refundAmount]
           w == [j \in DOMAIN d[r].items |-> d[r].items[j].refundAmount]
<1>1. /\ \A x \in S : x[1] # r /\ d[x[1]] = c[x[1]]
      /\ Rows(d, o) = S \cup Placed(r, N)
      /\ \A x \in S : c[x[1]].items[x[2]] \in ReturnLine
      /\ \A j \in N : d[r].items[j] \in ReturnLine
      /\ IsFiniteSet(N)
  BY RowsGrow
<1>2. /\ \A x \in S : c[x[1]].items[x[2]].refundAmount \in Int
      /\ \A j \in N : d[r].items[j].refundAmount \in Int
  BY <1>1 DEF ReturnLine
<1>3. N \subseteq DOMAIN d[r].items /\ \A j \in N : <<r, j>> \notin S
  BY <1>1 DEF NewRows
<1>4. \A x \in S : f[x] \in Int /\ g[x] = f[x]
  BY <1>1, <1>2
<1>5. \A j \in N : w[j] \in Int /\ g[<<r, j>>] = w[j]
  <2>1. \A j \in N : <<r, j>> \in Rows(d, o)
    BY <1>1 DEF Placed
  <2> QED BY <1>2, <1>3, <2>1
<1>6. SumFunctionOnSet(w, N) = IF d[r].order = o THEN Refund(d[r].items) ELSE 0
  BY SumEmpty DEF NewRows, Refund
<1>7. Refunded(d, o) = SumFunctionOnSet(g, Rows(d, o))
      /\ Refunded(c, o) = SumFunctionOnSet(f, S)
  BY DEF Refunded
<1>a. IsFiniteSet(S) /\ IsFiniteSet(N) /\ \A j \in N : <<r, j>> \notin S
  BY <1>1, <1>3
<1> HIDE DEF N, S, f, g, w
<1>8. SumFunctionOnSet(g, S \cup Placed(r, N))
        = SumFunctionOnSet(f, S) + SumFunctionOnSet(w, N)
  BY <1>4, <1>5, <1>a, SumGrows
<1> QED BY <1>1, <1>6, <1>7, <1>8

-----------------------------------------------------------------------------
(***************************************************************************)
(* What n[i] pieces of each item i of an order cost.                       *)
(***************************************************************************)
Unit(line) == line.cogs \div line.quantity

Worth(items, n) ==
  SumFunctionOnSet([i \in DOMAIN items |-> Unit(items[i]) * n[i]], DOMAIN items)

\* The items of an order as InsertSalesOrder makes them.
Good(items) ==
  /\ items \in Seq(OrderLine)
  /\ \A i \in DOMAIN items :
       i \in LineNo /\ Unit(items[i]) * items[i].quantity = items[i].cogs

\* The price of a piece is an amount.
LEMMA UnitInt ==
  ASSUME NEW items \in Seq(OrderLine), NEW i \in DOMAIN items
  PROVE  /\ Unit(items[i]) \in Int
         /\ items[i].quantity \in Nat /\ items[i].cogs \in Int
         /\ items[i].unitPrice \in Nat
<1>1. items[i] \in OrderLine
  BY ElementOfSeq, LenProperties
<1>2. /\ items[i].quantity \in Nat \ {0} /\ items[i].cogs \in Int
      /\ items[i].unitPrice \in Nat
  BY <1>1 DEF OrderLine
<1> QED BY <1>2 DEF Unit

\* So is what an order is worth.
LEMMA WorthInt ==
  ASSUME NEW items \in Seq(OrderLine), NEW n,
         \A i \in DOMAIN items : n[i] \in Int
  PROVE  /\ Worth(items, n) \in Int
         /\ \A i \in DOMAIN items : Unit(items[i]) * n[i] \in Int
<1> DEFINE f == [i \in DOMAIN items |-> Unit(items[i]) * n[i]]
           S == DOMAIN items
<1>1. \A i \in DOMAIN items : Unit(items[i]) * n[i] \in Int
  BY UnitInt
<1>2. IsFiniteSet(S) /\ \A i \in S : f[i] \in Int
  BY <1>1, FewLines
<1> HIDE DEF f, S
<1>3. SumFunctionOnSet(f, S) \in Int
  BY <1>2, SumInt
<1> QED BY <1>1, <1>3 DEF Worth, f, S

\* Items whose counters grow are worth that much less.
LEMMA WorthPlus ==
  ASSUME NEW items \in Seq(OrderLine), NEW n, NEW m, NEW l,
         \A i \in DOMAIN items : n[i] \in Int /\ m[i] \in Int /\ l[i] = n[i] + m[i]
  PROVE  Worth(items, l) = Worth(items, n) + Worth(items, m)
<1> DEFINE f == [i \in DOMAIN items |-> Unit(items[i]) * n[i]]
           g == [i \in DOMAIN items |-> Unit(items[i]) * m[i]]
           e == [i \in DOMAIN items |-> Unit(items[i]) * l[i]]
           S == DOMAIN items
<1>1. IsFiniteSet(S)
  BY FewLines
<1>2. ASSUME NEW i \in S PROVE f[i] \in Int /\ g[i] \in Int /\ e[i] = f[i] + g[i]
  <2>1. Unit(items[i]) \in Int /\ n[i] \in Int /\ m[i] \in Int /\ l[i] = n[i] + m[i]
    BY UnitInt
  <2>2. \A u, a, b \in Int : u * (a + b) = u * a + u * b
    OBVIOUS
  <2> QED BY <2>1, <2>2
<1> HIDE DEF f, g, e, S
<1>3. SumFunctionOnSet(e, S) = SumFunctionOnSet(f, S) + SumFunctionOnSet(g, S)
  BY <1>1, <1>2, SumPlus
<1> QED BY <1>3 DEF Worth, f, g, e, S

\* Nothing is worth nothing.
LEMMA WorthZero ==
  ASSUME NEW items \in Seq(OrderLine), NEW n, \A i \in DOMAIN items : n[i] = 0
  PROVE  Worth(items, n) = 0
<1>1. Worth(items, n) \in Int
  BY WorthInt
<1>2. Worth(items, n) = Worth(items, n) + Worth(items, n)
  BY WorthPlus
<1> QED BY <1>1, <1>2

\* A few pieces more of one item.
LEMMA WorthChange ==
  ASSUME NEW items \in Seq(OrderLine), NEW n, NEW m, NEW k \in DOMAIN items,
         NEW q \in Int,
         \A i \in DOMAIN items : n[i] \in Int /\ m[i] = n[i] + (IF i = k THEN q ELSE 0)
  PROVE  Worth(items, m) = Worth(items, n) + Unit(items[k]) * q
<1> DEFINE f == [i \in DOMAIN items |-> Unit(items[i]) * n[i]]
           g == [i \in DOMAIN items |-> Unit(items[i]) * m[i]]
           S == DOMAIN items
<1>1. IsFiniteSet(S)
  BY FewLines
<1>2. \A i \in DOMAIN items : m[i] \in Int
  OBVIOUS
<1>3. \A i \in S : f[i] \in Int /\ g[i] \in Int
  BY <1>2, WorthInt
<1>4. \A i \in S : i # k => f[i] = g[i]
  OBVIOUS
<1>5. g[k] = f[k] + Unit(items[k]) * q
  <2>1. Unit(items[k]) \in Int /\ n[k] \in Int /\ m[k] = n[k] + q
    BY UnitInt
  <2>2. \A u, a, b \in Int : u * (a + b) = u * a + u * b
    OBVIOUS
  <2> QED BY <2>1, <2>2
<1>6. Unit(items[k]) * q \in Int
  BY UnitInt
<1>a. k \in S
  OBVIOUS
<1>7. Worth(items, n) = SumFunctionOnSet(f, S) /\ Worth(items, m) = SumFunctionOnSet(g, S)
  BY DEF Worth
<1> HIDE DEF f, g, S
<1>8. /\ SumFunctionOnSet(f, S) = f[k] + SumFunctionOnSet(f, S \ {k})
      /\ SumFunctionOnSet(g, S) = g[k] + SumFunctionOnSet(g, S \ {k})
  BY <1>1, <1>3, <1>a, SumRemove
<1>9. IsFiniteSet(S \ {k})
  BY <1>1, FS_Subset
<1>10. SumFunctionOnSet(f, S \ {k}) = SumFunctionOnSet(g, S \ {k})
  BY <1>4, <1>9, SumEqual
<1>11. SumFunctionOnSet(f, S \ {k}) \in Int /\ f[k] \in Int
  BY <1>3, <1>9, <1>a, SumInt
<1> QED BY <1>5, <1>6, <1>7, <1>8, <1>10, <1>11

-----------------------------------------------------------------------------
(***************************************************************************)
(* The books.  Of an order that is committed, the amounts taken off are    *)
(* the refunds of its committed returns, and the cost taken off is what    *)
(* the counted pieces cost.  A return on its way has worked out as much    *)
(* cost and profit as its row refunds, as far as its loop has come.        *)
(***************************************************************************)
\* The counters of the items of order o, and what h has added to them.
Counters(t, o) == [i \in LineNo |-> t.committed[<<o, i>>]]

Adds(t, h, o) == [i \in LineNo |-> Added(t, h, <<o, i>>)]

SameAmounts(row, old) ==
  row.returnedCogs = old.returnedCogs /\ row.returnedProfit = old.returnedProfit

\* The lines of a return are of the items of its order.
LinesOf(lines, items) ==
  \A j \in DOMAIN lines :
    /\ lines[j].item \in DOMAIN items
    /\ lines[j].returnedCogs = Unit(items[lines[j].item]) * lines[j].quantity

\* The cost that is counted but not yet worked out.
Pending(at, lines) == IF at = "restock" THEN Head(lines).returnedCogs ELSE 0

GoodOrders(s) ==
  \A o \in SalesOrder :
    /\ Good(s.current[o].items)
    /\ s.current[o].status = "NONE" => s.current[o] = NoSalesOrder
    /\ s.committed[o].status = "NONE" => s.committed[o] = NoSalesOrder

Balanced(s, c, t) ==
  \A o \in SalesOrder :
    /\ Refunded(c, o) = s.committed[o].returnedCogs + s.committed[o].returnedProfit
    /\ Worth(s.committed[o].items, Counters(t, o)) = s.committed[o].returnedCogs

\* A request r that runs a method of SalesService leaves the amounts alone.
Sold(r, lines, s, h) ==
  r.op \in SalesOp =>
    /\ r.key \in SalesOrder
    /\ r.at = "insertOrder" => lines \in SaleCarts
    /\ \A o \in SalesOrder : s.holder[o] = h => SameAmounts(s.current[o], s.committed[o])

\* A request r that returns goods, with the locals l, writes the order last.
Booked(r, l, s, c, t, h) ==
  LET row == s.current[l.order]
      old == s.committed[l.order]
  IN r.op \in ReturnsOp =>
       /\ LinesOf(l.items, old.items)
       /\ \A x \in SalesOrder : s.holder[x] = h => x = l.order /\ r.at = "commit"
       /\ r.at = "insertReturn" => l.returnedCogs = 0 /\ l.returnedProfit = 0
       /\ r.at = "commit" =>
            /\ s.holder[l.order] = h
            /\ row.returnedCogs = old.returnedCogs + l.returnedCogs
            /\ row.returnedProfit = old.returnedProfit + l.returnedProfit
       /\ r.at \notin BeforeWrite =>
            /\ Refund(l.items) + l.returnedCogs + l.returnedProfit
                 = Refund(c[r.key].items)
            /\ Worth(old.items, Adds(t, h, l.order))
                 = l.returnedCogs + Pending(r.at, l.items)

Selling(h) == Sold(req[h], todo[h], salesOrders, h)

Booking(h) ==
  Booked(req[h], claim[h], salesOrders, salesReturns.current, orderItems, h)

BooksInv ==
  /\ Consistent(salesOrders)
  /\ ItemsSettled(salesOrders)
  /\ GoodOrders(salesOrders)
  /\ Balanced(salesOrders, salesReturns.committed, orderItems)
  /\ \A h \in Handler : Selling(h) /\ Booking(h)

BooksStep(h) ==
  /\ Consistent(salesOrders')
  /\ ItemsSettled(salesOrders')
  /\ ItemsStay(salesOrders, salesOrders')
  /\ GoodOrders(salesOrders')
  /\ Balanced(salesOrders', salesReturns'.committed, orderItems')
  /\ Selling(h)'
  /\ Booking(h)'

\* A step of h need only be checked for h.
LEMMA BooksOfOthers ==
  ASSUME StoreInv, ReturnInv, ReturnedInv, BooksInv, NEW h \in Handler,
         OthersKeep(h), OthersWait(h), BooksStep(h)
  PROVE  BooksInv'
<1>0. (\A g \in Handler : g # h => Selling(g)' /\ Booking(g)') => BooksInv'
  BY DEF BooksInv, BooksStep, Consistent, ItemsSettled, GoodOrders, Good,
         Balanced, Refunded, Rows, Worth, Counters
<1> SUFFICES ASSUME NEW g \in Handler, g # h PROVE Selling(g)' /\ Booking(g)'
  BY <1>0
<1>1. Selling(g) /\ Booking(g) /\ Returning(g) /\ g # NoOne
  BY OpeningAssumption DEF BooksInv, ReturnedInv
<1>2. req'[g] = req[g] /\ claim'[g] = claim[g] /\ todo'[g] = todo[g]
  BY DEF OthersKeep, OthersWait
<1>3. /\ DOMAIN salesReturns.holder = SalesReturn
      /\ DOMAIN salesOrders.holder = SalesOrder
      /\ DOMAIN orderItems.holder = SalesOrder \X LineNo
  BY StoreTables DEF Table
<1>4. \A o \in SalesOrder :
        /\ salesOrders'.holder[o] = g => salesOrders.holder[o] = g
        /\ salesOrders.holder[o] = g =>
             /\ salesOrders'.holder[o] = g
             /\ salesOrders'.current[o] = salesOrders.current[o]
             /\ salesOrders'.committed[o] = salesOrders.committed[o]
  BY <1>1, <1>3 DEF OthersKeep, Keeps
<1>5. Selling(g)'
  BY <1>1, <1>2, <1>4 DEF Selling, Sold, SameAmounts
<1>6. ASSUME req[g].op \in ReturnsOp
      PROVE  Booking(g)'
  <2> DEFINE o == claim[g].order
             key == req[g].key
             old == salesOrders.committed[o]
             new == salesOrders'.committed[o]
  <2>1. o \in SalesOrder /\ old.status = "COMPLETED"
    BY <1>6 DEF ReturnInv, OfCompleted
  <2>2. new.items = old.items
    BY <1>3, <2>1 DEF BooksStep, ItemsStay
  <2>3. \A k \in SalesOrder \X LineNo :
          Added(orderItems', g, k) = Added(orderItems, g, k)
    BY <1>1, <1>3 DEF OthersKeep, Keeps, Added
  <2>4. Adds(orderItems', g, o) = Adds(orderItems, g, o)
    BY <2>1, <2>3 DEF Adds
  <2>5. req[g].at \notin BeforeWrite =>
          salesReturns'.current[key] = salesReturns.current[key]
    BY <1>1, <1>3, <1>6 DEF Returning, Writing, OthersKeep, Keeps
  <2>6. Booked(req[g], claim[g], salesOrders, salesReturns.current, orderItems, g)
    BY <1>1 DEF Booking
  <2>7. Booked(req[g], claim[g], salesOrders', salesReturns'.current, orderItems', g)
    BY <1>4, <2>1, <2>2, <2>4, <2>5, <2>6 DEF Booked
  <2> QED BY <1>2, <2>7 DEF Booking
<1>7. req[g].op \notin ReturnsOp => Booking(g)'
  BY <1>2 DEF Booking, Booked
<1> QED BY <1>5, <1>6, <1>7

\* A step that leaves sales orders alone, and publishes nothing else.
LEMMA BooksQuietly ==
  ASSUME StoreInv, BooksInv, NEW h \in Handler, UNCHANGED salesOrders,
         salesReturns'.committed = salesReturns.committed,
         orderItems'.committed = orderItems.committed,
         Selling(h)', Booking(h)'
  PROVE  BooksStep(h)
<1>1. ItemsStay(salesOrders, salesOrders)
  BY StoreTables, ItemsLast DEF BooksInv
<1>2. Balanced(salesOrders', salesReturns'.committed, orderItems')
  BY DEF BooksInv, Balanced, Counters
<1> QED BY <1>1, <1>2 DEF BooksInv, BooksStep

\* A write of a sales order that exists, or of one with good items.
LEMMA BooksByUpdate ==
  ASSUME StoreInv, BooksInv, NEW h \in Handler, NEW o \in SalesOrder, NEW row,
         salesOrders' = Update(salesOrders, h, o, row),
         Good(row.items), row.status # "NONE",
         salesOrders.current[o].status # "NONE" =>
           row.items = salesOrders.current[o].items,
         salesReturns'.committed = salesReturns.committed,
         orderItems'.committed = orderItems.committed,
         Selling(h)', Booking(h)'
  PROVE  BooksStep(h)
<1>1. /\ salesOrders \in Table(SalesOrder, SalesOrderRow, Handler)
      /\ Consistent(salesOrders) /\ ItemsSettled(salesOrders)
      /\ GoodOrders(salesOrders)
  BY StoreTables DEF BooksInv
<1>2. ItemsSettled(salesOrders') /\ ItemsStay(salesOrders, salesOrders')
  BY <1>1, ItemsLast
<1>3. Consistent(salesOrders') /\ salesOrders'.committed = salesOrders.committed
  BY <1>1, TablesStay, Versions
<1>4. GoodOrders(salesOrders')
  <2>1. \A x \in SalesOrder :
          salesOrders'.current[x] = IF x = o THEN row ELSE salesOrders.current[x]
    BY <1>1, Versions
  <2> QED BY <1>1, <1>3, <2>1 DEF GoodOrders
<1>5. Balanced(salesOrders', salesReturns'.committed, orderItems')
  BY <1>3 DEF BooksInv, Balanced, Counters
<1> QED BY <1>2, <1>3, <1>4, <1>5 DEF BooksStep

\* The items of a committed order are good.
LEMMA CommittedGood ==
  ASSUME StoreInv, BooksInv, NEW o \in SalesOrder
  PROVE  Good(salesOrders.committed[o].items)
<1>1. DOMAIN salesOrders.holder = SalesOrder
  BY StoreTables DEF Table
<1>2. CASE salesOrders.committed[o].status = "NONE"
  <2>1. Good(<< >>)
    BY EmptySeq DEF Good
  <2> QED BY <1>2, <2>1 DEF BooksInv, GoodOrders, NoSalesOrder
<1>3. CASE salesOrders.committed[o].status # "NONE"
  BY <1>1, <1>3 DEF BooksInv, ItemsSettled, GoodOrders
<1> QED BY <1>2, <1>3

\* Nothing is to be said of a handler that runs another service.
LEMMA BooksNothing ==
  ASSUME NEW h \in Handler, req'[h].op \notin SalesOp \cup ReturnsOp
  PROVE  Selling(h)' /\ Booking(h)'
BY DEF Selling, Sold, Booking, Booked

\* A transaction that is rolled back.
LEMMA RollbackBooks ==
  ASSUME StoreInv, BooksInv, NEW h \in Handler, Respond(h),
         salesOrders' = Rollback(salesOrders, h),
         salesReturns'.committed = salesReturns.committed,
         orderItems'.committed = orderItems.committed
  PROVE  BooksStep(h)
<1>1. /\ salesOrders \in Table(SalesOrder, SalesOrderRow, Handler)
      /\ Consistent(salesOrders) /\ ItemsSettled(salesOrders)
      /\ GoodOrders(salesOrders)
  BY StoreTables DEF BooksInv
<1>2. /\ ItemsSettled(salesOrders') /\ ItemsStay(salesOrders, salesOrders')
      /\ Consistent(salesOrders') /\ salesOrders'.committed = salesOrders.committed
  BY <1>1, ItemsLast, TablesStay, Versions
<1>3. GoodOrders(salesOrders')
  <2>1. \A x \in SalesOrder :
          salesOrders'.current[x] \in {salesOrders.committed[x], salesOrders.current[x]}
    BY <1>1, Versions
  <2> QED BY <1>1, <1>2, <2>1, CommittedGood DEF GoodOrders
<1>4. Balanced(salesOrders', salesReturns'.committed, orderItems')
  BY <1>2 DEF BooksInv, Balanced, Counters
<1>5. Selling(h)' /\ Booking(h)'
  BY RespondFacts, BooksNothing DEF SalesOp, ReturnsOp
<1> QED BY <1>2, <1>3, <1>4, <1>5 DEF BooksStep

\* Purchases, adjustments and product edits.
LEMMA OthersBooks ==
  ASSUME StoreInv, BooksInv, NEW h \in Handler,
         \/ PurchaseRequest(h) \/ PurchaseStep(h)
         \/ InventoryRequest(h) \/ InventoryStep(h),
         UNCHANGED <<salesVars, returnsVars>>
  PROVE  BooksStep(h)
<1>1. UNCHANGED <<salesOrders, salesReturns, orderItems>>
  BY DEF salesVars, returnsVars
<1>2. req'[h].op \notin SalesOp \cup ReturnsOp
  BY PurchaseMoves, InventoryMoves
     DEF Running, SalesOp, PurchaseOp, ReturnsOp, InventoryOp
<1> QED BY <1>1, <1>2, BooksNothing, BooksQuietly

\* What q pieces cost, divided by q, is what one piece costs.
LEMMA UnitOfProduct ==
  ASSUME NEW c \in Int, NEW q \in Nat \ {0}
  PROVE  ((c * q) \div q) * q = c * q
<1> DEFINE m == c * q
           d == m \div q
<1>1. m \in Int /\ q \in Int /\ q > 0
  OBVIOUS
<1>2. d \in Int /\ q * d <= m /\ m < q * d + q
  <2> HIDE DEF m
  <2> QED BY <1>1, DivFacts
<1> HIDE DEF d
<1>3. d = c
  <2>1. CASE d < c
    <3>1. (d + 1) * q <= c * q
      BY <1>1, <1>2, <2>1, Grow
    <3>2. (d + 1) * q = q * d + q
      BY <1>1, <1>2
    <3> QED BY <1>2, <3>1, <3>2 DEF m
  <2>2. CASE d > c
    <3>1. (c + 1) * q <= d * q
      BY <1>1, <1>2, <2>2, Grow
    <3>2. (c + 1) * q = c * q + q /\ d * q = q * d
      BY <1>1, <1>2
    <3> QED BY <1>1, <1>2, <3>1, <3>2 DEF m
  <2> QED BY <1>2, <2>1, <2>2
<1> QED BY <1>1, <1>3 DEF d, m

\* The items that InsertSalesOrder writes are good.
LEMMA NewItemsGood ==
  ASSUME StoreInv, NEW h \in Handler, req[h].at = "insertOrder",
         todo[h] \in SaleCarts
  PROVE  Good(OrderItems(todo[h], productMap[h]))
<1> DEFINE lines == todo[h]
           found == productMap[h]
           items == OrderItems(lines, found)
<1>1. /\ lines \in Seq(Line) /\ Len(lines) <= MaxLines /\ MaxLines \in Nat
      /\ ProductsOf(lines) \subseteq DOMAIN found
      /\ \A p \in DOMAIN found : found[p] \in ProductRow
  BY LocalFacts, ReturnsAssumption DEF StoreInv, CarriedLocals
<1>2. items \in Seq(OrderLine)
  BY <1>1, OrderItemsType
<1>3. /\ Len(lines) \in Nat /\ DOMAIN lines = 1..Len(lines)
      /\ DOMAIN items = 1..Len(lines)
  BY <1>1, LenProperties DEF OrderItems
<1>4. ASSUME NEW i \in DOMAIN items
      PROVE  i \in LineNo /\ Unit(items[i]) * items[i].quantity = items[i].cogs
  <2> DEFINE q == lines[i].quantity
             c == found[lines[i].product].averageCost
  <2>1. lines[i] \in Line /\ lines[i].product \in DOMAIN found
    BY <1>1, <1>3, ElementOfSeq DEF ProductsOf
  <2>2. q \in Nat \ {0} /\ c \in Int
    BY <1>1, <2>1 DEF Line, ProductRow
  <2>3. items[i].quantity = q /\ items[i].cogs = c * q
    BY <1>3 DEF OrderItems
  <2> HIDE DEF q, c, items, lines
  <2>4. ((c * q) \div q) * q = c * q
    BY <2>2, UnitOfProduct
  <2>5. i \in LineNo
    BY <1>1, <1>3 DEF LineNo
  <2> QED BY <2>3, <2>4, <2>5 DEF Unit
<1> QED BY <1>2, <1>4 DEF Good

\* The first write of a sales order by a method of SalesService.
LEMMA WriteSells ==
  ASSUME StoreInv, LockInv, BooksInv, NEW h \in Handler, NEW o \in SalesOrder,
         NEW row, salesOrders' = Update(salesOrders, h, o, row),
         Free(salesOrders, h, o), req[h].at \in BeforeWrite,
         SameAmounts(row, salesOrders.current[o]),
         req'[h].op \in SalesOp, req'[h].key \in SalesOrder,
         req'[h].at # "insertOrder"
  PROVE  Selling(h)' /\ Booking(h)'
<1>1. /\ salesOrders \in Table(SalesOrder, SalesOrderRow, Handler)
      /\ Consistent(salesOrders)
  BY StoreTables DEF BooksInv
<1>2. \A x \in SalesOrder : salesOrders.holder[x] # h
  BY NothingYet
<1>3. salesOrders.current[o] = salesOrders.committed[o]
  BY <1>1, <1>2 DEF Free, Consistent, Table
<1>4. /\ salesOrders'.committed = salesOrders.committed
      /\ salesOrders'.current[o] = row
      /\ \A x \in SalesOrder : salesOrders'.holder[x] = h => x = o
  BY <1>1, <1>2, Versions, Holders
<1>5. Selling(h)'
  BY <1>3, <1>4 DEF Selling, Sold, SameAmounts
<1>6. Booking(h)'
  BY DEF Booking, Booked, SalesOp, ReturnsOp
<1> QED BY <1>5, <1>6

\* The requests to SalesService.
LEMMA RequestBooks ==
  ASSUME StoreInv, LockInv, BooksInv, NEW h \in Handler, SalesRequest(h),
         UNCHANGED returnsVars
  PROVE  BooksStep(h)
<1>1. /\ salesReturns'.committed = salesReturns.committed
      /\ orderItems'.committed = orderItems.committed
  BY DEF returnsVars
<1>2. ASSUME NEW o \in SalesOrder, NEW cart, NEW op,
             \/ /\ op \in SalesOp /\ cart \in SaleCarts
                /\ BuildOrderItems(h, op, o, cart)
             \/ FindPendingSalesOrder(h, o)
      PROVE  BooksStep(h)
  <2>1. /\ UNCHANGED salesOrders /\ req[h].at \in BeforeWrite
        /\ req'[h].op \in SalesOp /\ req'[h].key = o
        /\ req'[h].at = "insertOrder" => todo'[h] \in SaleCarts
    <3>1. DOMAIN todo = Handler
      BY DEF StoreInv, StoreTypeOK, RequestsTypeOK
    <3>2. CASE /\ op \in SalesOp /\ cart \in SaleCarts
               /\ BuildOrderItems(h, op, o, cart)
      BY <3>1, <3>2, BeginFacts DEF BuildOrderItems, salesVars
    <3>3. CASE FindPendingSalesOrder(h, o)
      BY <3>3, BeginFacts DEF FindPendingSalesOrder, salesVars, SalesOp
    <3> QED BY <1>2, <3>2, <3>3
  <2>2. \A x \in SalesOrder : salesOrders'.holder[x] # h
    BY <2>1, NothingYet
  <2>3. Selling(h)' /\ Booking(h)'
    BY <2>1, <2>2 DEF Selling, Sold, Booking, Booked, SalesOp, ReturnsOp
  <2> QED BY <1>1, <2>1, <2>3, BooksQuietly
<1>3. ASSUME NEW o \in SalesOrder, CancelSalesOrder(h, o)
      PROVE  BooksStep(h)
  <2> DEFINE old == salesOrders.current[o]
             row == [old EXCEPT !.status = "CANCELLED"]
  <2>1. /\ salesOrders' = Update(salesOrders, h, o, row)
        /\ Free(salesOrders, h, o)
        /\ req[h].at \in BeforeWrite
        /\ req'[h].op \in SalesOp /\ req'[h].key = o /\ req'[h].at = "commit"
    BY <1>3, BeginFacts DEF CancelSalesOrder, SalesOp
  <2>2. row.status # "NONE" /\ row.items = old.items /\ SameAmounts(row, old)
    BY SalesRows DEF SalesOrderRow, SameAmounts
  <2>3. Good(row.items)
    BY <2>2 DEF BooksInv, GoodOrders
  <2> HIDE DEF row
  <2>4. Selling(h)' /\ Booking(h)'
    BY <2>1, <2>2, WriteSells
  <2> QED BY <1>1, <2>1, <2>2, <2>3, <2>4, BooksByUpdate
<1> QED BY <1>2, <1>3 DEF SalesRequest, SalesOp

\* The order is inserted, or marked COMPLETED; the loop ships an item.
LEMMA StatementBooks ==
  ASSUME StoreInv, LockInv, BooksInv, NEW h \in Handler, UNCHANGED returnsVars,
         InsertSalesOrder(h) \/ MarkCompleted(h) \/ ShipLine(h)
  PROVE  BooksStep(h)
<1> DEFINE o == req[h].key
           old == salesOrders.current[o]
<1>1. /\ salesReturns'.committed = salesReturns.committed
      /\ orderItems'.committed = orderItems.committed
  BY DEF returnsVars
<1>2. /\ req[h].op \in SalesOp
      /\ Sold(req[h], todo[h], salesOrders, h)
  BY DEF InsertSalesOrder, MarkCompleted, ShipLine, At, SalesOp, BooksInv, Selling
<1>3. CASE InsertSalesOrder(h)
  <2> DEFINE row == [status |-> IF req[h].op = "createSalesOrder"
                                  THEN "COMPLETED" ELSE "PENDING",
                     items |-> OrderItems(todo[h], productMap[h]),
                     returnedCogs |-> 0, returnedProfit |-> 0]
  <2>1. /\ salesOrders' = Update(salesOrders, h, o, row)
        /\ Free(salesOrders, h, o) /\ old.status = "NONE"
        /\ req[h].at = "insertOrder"
        /\ req'[h].op = req[h].op /\ req'[h].key = o
        /\ req'[h].at \in {"shipLine", "commit"}
    BY <1>3, GotoFacts DEF InsertSalesOrder, At
  <2>2. o \in SalesOrder /\ Good(row.items) /\ row.status # "NONE"
    BY <1>2, <2>1, NewItemsGood DEF Sold
  <2>3. SameAmounts(row, old)
    <3>1. salesOrders.holder[o] = NoOne
      BY <2>1, <2>2, NothingYet DEF Free, BeforeWrite
    <3>2. old = salesOrders.committed[o]
      BY <2>2, <3>1, StoreTables DEF BooksInv, Consistent, Table
    <3>3. salesOrders.committed[o] = NoSalesOrder
      BY <2>1, <2>2, <3>2 DEF BooksInv, GoodOrders
    <3> QED BY <3>2, <3>3 DEF SameAmounts, NoSalesOrder
  <2> HIDE DEF row, old, o
  <2>4. Selling(h)' /\ Booking(h)'
    BY <1>2, <2>1, <2>2, <2>3, WriteSells DEF BeforeWrite, old
  <2> QED BY <1>1, <2>1, <2>2, <2>4, BooksByUpdate DEF old
<1>4. CASE MarkCompleted(h)
  <2> DEFINE row == [old EXCEPT !.status = "COMPLETED"]
  <2>1. /\ salesOrders' = Update(salesOrders, h, o, row)
        /\ Free(salesOrders, h, o)
        /\ req[h].at = "markCompleted"
        /\ req'[h].op = req[h].op /\ req'[h].key = o /\ req'[h].at = "shipLine"
    BY <1>4, GotoFacts DEF MarkCompleted, At
  <2>2. o \in SalesOrder
    BY <1>2 DEF Sold
  <2>3. row.status # "NONE" /\ row.items = old.items /\ SameAmounts(row, old)
    BY <2>2, SalesRows DEF SalesOrderRow, SameAmounts
  <2>4. Good(row.items)
    BY <2>2, <2>3 DEF BooksInv, GoodOrders
  <2> HIDE DEF row, o, old
  <2>5. Selling(h)' /\ Booking(h)'
    BY <1>2, <2>1, <2>2, <2>3, WriteSells DEF BeforeWrite, old
  <2> QED BY <1>1, <2>1, <2>2, <2>3, <2>4, <2>5, BooksByUpdate DEF old
<1>5. CASE ShipLine(h)
  <2>1. UNCHANGED <<salesOrders, req>> /\ req[h].at = "shipLine"
    BY <1>5 DEF ShipLine, At, salesVars
  <2>2. Selling(h)' /\ Booking(h)'
    BY <1>2, <2>1 DEF Selling, Sold, Booking, Booked, SalesOp, ReturnsOp
  <2> QED BY <1>1, <2>1, <2>2, BooksQuietly
<1> QED BY <1>3, <1>4, <1>5

\* Nothing has come back of an order that is not COMPLETED.
LEMMA NothingCameBack ==
  ASSUME StoreInv, ReturnInv, ReturnedInv, NEW o \in SalesOrder,
         salesOrders.committed[o].status # "COMPLETED"
  PROVE  \A i \in LineNo : orderItems.committed[<<o, i>>] = 0
<1> DEFINE c == salesReturns.committed
<1>1. \A r \in SalesReturn : c[r].order # o
  BY SalesAssumption, TenantAssumption DEF ReturnInv, OfCompleted, NoSalesReturn
<1>2. Rows(c, o) = {}
  BY <1>1 DEF Rows
<1>3. \A i : Matching(c, o, i) = {}
  BY <1>2 DEF Matching
<1>4. \A i : Tally(c, o, i) = 0
  BY <1>3, SumEmpty DEF Tally
<1> QED BY <1>4 DEF ReturnedInv, Tallied

\* The end of a transaction, if the books balance in what it publishes.
LEMMA CommitBooks ==
  ASSUME StoreInv, BooksInv, NEW h \in Handler, Respond(h),
         salesOrders' = Commit(salesOrders, h),
         Balanced(salesOrders', salesReturns'.committed, orderItems')
  PROVE  BooksStep(h)
<1>1. /\ salesOrders \in Table(SalesOrder, SalesOrderRow, Handler)
      /\ Consistent(salesOrders) /\ ItemsSettled(salesOrders)
      /\ GoodOrders(salesOrders)
  BY StoreTables DEF BooksInv
<1>2. /\ ItemsSettled(salesOrders') /\ ItemsStay(salesOrders, salesOrders')
      /\ Consistent(salesOrders')
  BY <1>1, ItemsLast, TablesStay
<1>3. GoodOrders(salesOrders')
  <2>1. \A x \in SalesOrder :
          /\ salesOrders'.current[x] = salesOrders.current[x]
          /\ salesOrders'.committed[x]
               \in {salesOrders.committed[x], salesOrders.current[x]}
    BY <1>1, Versions
  <2> QED BY <1>1, <2>1 DEF GoodOrders
<1>4. Selling(h)' /\ Booking(h)'
  BY RespondFacts, BooksNothing DEF SalesOp, ReturnsOp
<1> QED BY <1>2, <1>3, <1>4 DEF BooksStep

\* A sale that commits shows new orders, of which nothing has come back, or
\* orders with the items and amounts that they had.
LEMMA SaleBalances ==
  ASSUME StoreInv, ReturnInv, ReturnedInv, BooksInv, NEW h \in Handler,
         UNCHANGED returnsVars, CommitSale(h)
  PROVE  BooksStep(h)
<1> DEFINE s == salesOrders
           c == salesReturns.committed
           t == orderItems
<1>1. /\ s \in Table(SalesOrder, SalesOrderRow, Handler)
      /\ Sold(req[h], todo[h], s, h)
  BY StoreTables DEF BooksInv, Selling
<1>2. /\ s' = Commit(s, h) /\ Respond(h) /\ req[h].op \in SalesOp
      /\ UNCHANGED <<salesReturns, orderItems>>
  BY DEF CommitSale, At, returnsVars
<1>3. ASSUME NEW o \in SalesOrder
      PROVE  /\ Refunded(c, o)
                  = s'.committed[o].returnedCogs + s'.committed[o].returnedProfit
             /\ Worth(s'.committed[o].items, Counters(t, o))
                  = s'.committed[o].returnedCogs
  <2> DEFINE old == s.committed[o]
             row == s.current[o]
  <2>1. s'.committed[o] = IF s.holder[o] = h THEN row ELSE old
    BY <1>1, <1>2 DEF Commit, Visible, Table
  <2>2. /\ Refunded(c, o) = old.returnedCogs + old.returnedProfit
        /\ Worth(old.items, Counters(t, o)) = old.returnedCogs
    BY DEF BooksInv, Balanced
  <2>3. s.holder[o] = h => SameAmounts(row, old)
    BY <1>1, <1>2 DEF Sold
  <2>4. CASE old.status # "NONE"
    <3>1. row.items = old.items
      BY <1>1, <2>4 DEF BooksInv, ItemsSettled, Table
    <3> QED BY <2>1, <2>2, <2>3, <3>1 DEF SameAmounts
  <2>5. CASE old.status = "NONE"
    <3>1. old.returnedCogs = 0
      BY <2>5 DEF BooksInv, GoodOrders, NoSalesOrder
    <3>2. \A i \in LineNo : t.committed[<<o, i>>] = 0
      BY <2>5, NothingCameBack
    <3>3. Good(row.items)
      BY DEF BooksInv, GoodOrders
    <3>4. row.items \in Seq(OrderLine) /\ \A i \in DOMAIN row.items : i \in LineNo
      BY <3>3 DEF Good
    <3>5. \A i \in DOMAIN row.items : Counters(t, o)[i] = 0
      BY <3>2, <3>4 DEF Counters
    <3> HIDE DEF row, t
    <3>6. Worth(row.items, Counters(t, o)) = 0
      BY <3>4, <3>5, WorthZero
    <3> QED BY <2>1, <2>2, <2>3, <3>1, <3>6 DEF SameAmounts
  <2> QED BY <2>4, <2>5
<1>4. Balanced(s', salesReturns'.committed, orderItems')
  BY <1>2, <1>3 DEF Balanced, Counters
<1> QED BY <1>2, <1>4, CommitBooks

\* Steps of SalesService keep the books.
LEMMA SalesBooks ==
  ASSUME StoreInv, LockInv, ReturnInv, ReturnedInv, BooksInv, NEW h \in Handler,
         SalesRequest(h) \/ SalesStep(h), UNCHANGED returnsVars
  PROVE  BooksStep(h)
<1>1. ASSUME RollbackSale(h) PROVE BooksStep(h)
  BY <1>1, RollbackBooks DEF RollbackSale, returnsVars
<1> QED BY <1>1, RequestBooks, StatementBooks, SaleBalances
        DEF SalesStep, RefuseOrderNumber, RefuseShortage, ExpireSale

\* The order that a return is about, as its statements read it.
LEMMA ClaimFacts ==
  ASSUME StoreInv, ReturnInv, ReturnedInv, BooksInv, NEW h \in Handler,
         req[h].op \in ReturnsOp
  PROVE  /\ claim[h].order \in SalesOrder
         /\ salesOrders.committed[claim[h].order].status # "NONE"
         /\ Good(salesOrders.committed[claim[h].order].items)
         /\ claim[h].items \in Seq(ReturnLine)
         /\ claim[h].returnedCogs \in Int /\ claim[h].returnedProfit \in Int
         /\ req[h].key \in SalesReturn
         /\ Booked(req[h], claim[h], salesOrders, salesReturns.current, orderItems, h)
<1>1. OfCompleted(claim[h].order)
  BY DEF ReturnInv
<1>2. claim[h].order \in SalesOrder
      /\ salesOrders.committed[claim[h].order].status # "NONE"
  BY <1>1 DEF OfCompleted
<1> QED BY <1>2, CommittedGood, ReturnsRows DEF ReturnedInv, Returning, BooksInv, Booking

\* A method of ReturnsService is none of SalesService.
LEMMA ReturnsSell ==
  ASSUME NEW h \in Handler, req'[h].op \in ReturnsOp
  PROVE  Selling(h)'
BY DEF Selling, Sold, SalesOp, ReturnsOp

\* The check makes out lines of the order that it read.
LEMMA CheckBooks ==
  ASSUME StoreInv, LockInv, BooksInv, NEW h \in Handler, ReturnsRequest(h)
  PROVE  BooksStep(h)
<1>1. PICK r \in SalesReturn, o \in SalesOrder, picks \in ReturnPicks :
        CheckReturn(h, r, o, picks)
  BY DEF ReturnsRequest
<1> DEFINE items == salesOrders.committed[o].items
           lines == [i \in 1..Len(picks) |->
                       ToReturnLine(items[picks[i].item], picks[i])]
<1>2. /\ UNCHANGED <<salesOrders, salesReturns, orderItems>>
      /\ \A i \in DOMAIN picks : picks[i].item \in DOMAIN items
      /\ req[h].at \in BeforeWrite
      /\ req'[h].op \in ReturnsOp /\ req'[h].at = "insertReturn"
      /\ claim'[h] = [order |-> o, items |-> lines,
                      returnedCogs |-> 0, returnedProfit |-> 0]
  BY <1>1, BeginFacts, ReturnsRows DEF CheckReturn, Returnable, salesVars, ReturnsOp
<1>3. LinesOf(lines, items)
  <2>1. DOMAIN picks = 1..Len(picks)
    BY ReturnsAssumption, LenProperties
  <2> HIDE DEF items
  <2> QED BY <1>2, <2>1 DEF LinesOf, ToReturnLine, Unit
<1>4. \A x \in SalesOrder : salesOrders.holder[x] # h
  BY <1>2, NothingYet
<1> HIDE DEF items, lines
<1>5. Booked(req'[h], claim'[h], salesOrders, salesReturns.current, orderItems, h)
  BY <1>2, <1>3, <1>4 DEF Booked, BeforeWrite, items
<1>6. Selling(h)' /\ Booking(h)'
  BY <1>2, <1>5, ReturnsSell DEF Booking
<1> QED BY <1>2, <1>6, BooksQuietly

\* The row of a return refunds what its lines do.
LEMMA InsertBooks ==
  ASSUME StoreInv, LockInv, ReturnInv, ReturnedInv, BooksInv, NEW h \in Handler,
         InsertSalesReturn(h)
  PROVE  BooksStep(h)
<1> DEFINE o == claim[h].order
           lines == claim[h].items
           items == salesOrders.committed[o].items
           r == req[h].key
           row == [order |-> o, items |-> lines]
<1>1. /\ salesReturns' = Update(salesReturns, h, r, row)
      /\ UNCHANGED <<salesOrders, orderItems, claim>>
      /\ req[h].op \in ReturnsOp /\ req[h].at = "insertReturn"
      /\ req'[h].op \in ReturnsOp /\ req'[h].key = r /\ req'[h].at = "returnItem"
  BY GotoFacts DEF InsertSalesReturn, At, salesVars
<1>2. /\ o \in SalesOrder /\ Good(items) /\ lines \in Seq(ReturnLine)
      /\ r \in SalesReturn
      /\ Booked(req[h], claim[h], salesOrders, salesReturns.current, orderItems, h)
  BY <1>1, ClaimFacts
<1>3. /\ salesReturns'.committed = salesReturns.committed
      /\ salesReturns'.current[r] = row
  BY <1>1, <1>2, StoreTables, Versions
<1>4. /\ claim[h].returnedCogs = 0 /\ claim[h].returnedProfit = 0
      /\ LinesOf(lines, items)
      /\ \A x \in SalesOrder : salesOrders.holder[x] # h
  BY <1>1, <1>2 DEF Booked
<1>5. Refund(lines) \in Int
  BY <1>2, RefundInt
<1>6. Worth(items, Adds(orderItems, h, o)) = 0
  <2>1. \A k \in SalesOrder \X LineNo : orderItems.holder[k] # h
    BY <1>1, NothingYet DEF BeforeWrite
  <2>2. items \in Seq(OrderLine) /\ \A i \in DOMAIN items : i \in LineNo
    BY <1>2 DEF Good
  <2> HIDE DEF items, o
  <2>3. \A i \in DOMAIN items : Adds(orderItems, h, o)[i] = 0
    BY <1>2, <2>1, <2>2 DEF Adds, Added
  <2> QED BY <2>2, <2>3, WorthZero
<1>7. Booked(req'[h], claim[h], salesOrders, salesReturns'.current, orderItems, h)
  <2>1. Pending("returnItem", lines) = 0 /\ row.items = lines
    BY DEF Pending
  <2> HIDE DEF row
  <2> QED BY <1>1, <1>3, <1>4, <1>5, <1>6, <2>1 DEF Booked
<1>8. Selling(h)' /\ Booking(h)'
  BY <1>1, <1>7, ReturnsSell DEF Booking
<1> QED BY <1>1, <1>3, <1>8, BooksQuietly

\* A count adds what its pieces cost to what is counted.
LEMMA IncrementBooks ==
  ASSUME StoreInv, ReturnInv, ReturnedInv, BooksInv, NEW h \in Handler,
         IncrementReturned(h)
  PROVE  BooksStep(h)
<1> DEFINE o == claim[h].order
           lines == claim[h].items
           line == Head(lines)
           i == line.item
           q == line.quantity
           k == <<o, i>>
           t == orderItems
           items == salesOrders.committed[o].items
<1>1. /\ lines # << >> /\ Free(t, h, k)
      /\ t' = Update(t, h, k, t.current[k] + q)
      /\ UNCHANGED <<salesOrders, salesReturns, claim>>
      /\ req[h].op \in ReturnsOp /\ req[h].at = "returnItem"
      /\ req'[h].op \in ReturnsOp /\ req'[h].key = req[h].key
      /\ req'[h].at = "restock"
  BY GotoFacts DEF IncrementReturned, At, salesVars
<1>2. /\ o \in SalesOrder /\ Good(items) /\ lines \in Seq(ReturnLine)
      /\ claim[h].returnedCogs \in Int
      /\ Booked(req[h], claim[h], salesOrders, salesReturns.current, t, h)
  BY <1>1, ClaimFacts
<1>3. /\ LinesOf(lines, items)
      /\ \A x \in SalesOrder : salesOrders.holder[x] # h
      /\ Refund(lines) + claim[h].returnedCogs + claim[h].returnedProfit
           = Refund(salesReturns.current[req[h].key].items)
      /\ Worth(items, Adds(t, h, o)) = claim[h].returnedCogs + 0
  BY <1>1, <1>2 DEF Booked, BeforeWrite, Pending
<1>4. /\ i \in DOMAIN items /\ line.returnedCogs = Unit(items[i]) * q
      /\ line \in ReturnLine
  <2>1. Head(lines) = lines[1] /\ 1 \in DOMAIN lines /\ Head(lines) \in ReturnLine
    <3>1. PICK n \in Nat : DOMAIN lines = 1..(n + 1) /\ Head(lines) = lines[1]
      BY <1>1, <1>2, TailLines
    <3> QED BY <1>1, <1>2, <3>1, HeadTailProperties
  <2> HIDE DEF items, lines
  <2> QED BY <1>3, <2>1 DEF LinesOf
<1>5. /\ q \in Int /\ k \in SalesOrder \X LineNo
      /\ t \in Table(SalesOrder \X LineNo, Nat, Handler) /\ Consistent(t)
  BY <1>2, <1>4, StoreTables DEF ReturnLine, ReturnedInv
<1>6. items \in Seq(OrderLine) /\ \A n \in DOMAIN items : n \in LineNo
  BY <1>2 DEF Good
<1> HIDE DEF o, lines, line, i, q, items
<1>7. \A n \in DOMAIN items :
        /\ Adds(t, h, o)[n] \in Int
        /\ Adds(t', h, o)[n] = Adds(t, h, o)[n] + (IF n = i THEN q ELSE 0)
  <2>1. \A j \in SalesOrder \X LineNo :
          /\ Added(t, h, j) \in Int
          /\ Added(Update(t, h, k, t.current[k] + q), h, j)
               = Added(t, h, j) + (IF j = k THEN q ELSE 0)
    <3> HIDE DEF t, k
    <3> QED BY <1>1, <1>5, AddedGrows
  <2>2. \A j \in SalesOrder \X LineNo :
          /\ Added(t, h, j) \in Int
          /\ Added(t', h, j) = Added(t, h, j) + (IF j = k THEN q ELSE 0)
    BY <1>1, <2>1
  <2> HIDE DEF t
  <2> QED BY <1>2, <1>6, <2>2 DEF Adds
<1>8. /\ Worth(items, Adds(t', h, o)) = Worth(items, Adds(t, h, o)) + Unit(items[i]) * q
      /\ Unit(items[i]) * q \in Int
  <2>1. i \in DOMAIN items
    BY <1>4
  <2>2. Worth(items, Adds(t', h, o)) = Worth(items, Adds(t, h, o)) + Unit(items[i]) * q
    BY <1>5, <1>6, <1>7, <2>1, WorthChange
  <2> QED BY <1>5, <1>6, <2>1, <2>2, UnitInt
<1>9. Worth(items, Adds(t', h, o)) = claim[h].returnedCogs + Pending("restock", lines)
  BY <1>2, <1>3, <1>4, <1>8 DEF Pending, line
<1>10. Booked(req'[h], claim[h], salesOrders, salesReturns.current, t', h)
  BY <1>1, <1>3, <1>9 DEF Booked, o, lines, items
<1>11. Selling(h)' /\ Booking(h)'
  BY <1>1, <1>10, ReturnsSell DEF Booking
<1>12. t'.committed = t.committed
  BY <1>1, <1>5, Versions
<1> QED BY <1>1, <1>11, <1>12, BooksQuietly

\* The loop works out the cost and the profit of the item it counted last.
LEMMA RestockBooks ==
  ASSUME StoreInv, ReturnInv, ReturnedInv, BooksInv, NEW h \in Handler, Restock(h)
  PROVE  BooksStep(h)
<1> DEFINE o == claim[h].order
           lines == claim[h].items
           line == Head(lines)
           items == salesOrders.committed[o].items
           cogs == claim[h].returnedCogs + line.returnedCogs
           profit == claim[h].returnedProfit + (line.refundAmount - line.returnedCogs)
           next == [order |-> o, items |-> Tail(lines),
                    returnedCogs |-> cogs, returnedProfit |-> profit]
           w == Worth(items, Adds(orderItems, h, o))
           due == Refund(salesReturns.current[req[h].key].items)
<1>1. /\ UNCHANGED <<salesOrders, salesReturns, orderItems>>
      /\ req[h].op \in ReturnsOp /\ req[h].at = "restock"
      /\ req'[h].op \in ReturnsOp /\ req'[h].key = req[h].key
      /\ req'[h].at = "returnItem"
      /\ claim'[h] = next
  <2>1. DOMAIN claim = Handler
    BY ReturnsRows
  <2> QED BY <2>1, GotoFacts DEF Restock, At, salesVars
<1>2. /\ o \in SalesOrder /\ Good(items) /\ lines \in Seq(ReturnLine)
      /\ claim[h].returnedCogs \in Int /\ claim[h].returnedProfit \in Int
      /\ Booked(req[h], claim[h], salesOrders, salesReturns.current, orderItems, h)
  BY <1>1, ClaimFacts
<1>3. lines # << >>
  BY <1>1 DEF StoreInv, CarriedLocals
<1>4. /\ LinesOf(lines, items)
      /\ \A x \in SalesOrder : salesOrders.holder[x] # h
      /\ Refund(lines) + claim[h].returnedCogs + claim[h].returnedProfit = due
      /\ w = claim[h].returnedCogs + line.returnedCogs
  BY <1>1, <1>2 DEF Booked, BeforeWrite, Pending
<1>5. PICK n \in Nat :
        /\ DOMAIN lines = 1..(n + 1) /\ DOMAIN Tail(lines) = 1..n
        /\ line = lines[1]
        /\ \A j \in 1..n : Tail(lines)[j] = lines[j + 1]
  BY <1>2, <1>3, TailLines
<1>6. LinesOf(Tail(lines), items)
  <2> HIDE DEF items, lines
  <2>1. \A j \in 1..n : j + 1 \in 1..(n + 1)
    OBVIOUS
  <2> QED BY <1>4, <1>5, <2>1 DEF LinesOf
<1>7. /\ line.refundAmount \in Int /\ line.returnedCogs \in Int
      /\ Refund(lines) = line.refundAmount + Refund(Tail(lines))
      /\ Refund(Tail(lines)) \in Int
  <2>1. line \in ReturnLine /\ Tail(lines) \in Seq(ReturnLine)
    BY <1>2, <1>3, HeadTailProperties
  <2> HIDE DEF lines, line
  <2>2. line.refundAmount \in Int /\ line.returnedCogs \in Int
    BY <2>1 DEF ReturnLine
  <2> QED BY <1>2, <1>3, <2>1, <2>2, RefundTail, RefundInt DEF line
<1>8. Refund(Tail(lines)) + cogs + profit = due /\ w = cogs + 0
  <2>1. \A all, rest, f, g, a, b \in Int :
          all = f + rest => rest + (a + g) + (b + (f - g)) = all + a + b
    OBVIOUS
  <2>2. Refund(lines) \in Int
    BY <1>7
  <2> HIDE DEF line, lines
  <2>3. Refund(Tail(lines)) + cogs + profit
          = Refund(lines) + claim[h].returnedCogs + claim[h].returnedProfit
    BY <1>2, <1>7, <2>1, <2>2
  <2>4. cogs = cogs + 0
    BY <1>2, <1>7
  <2> HIDE DEF due, w, cogs, profit
  <2>5. w = cogs
    BY <1>4 DEF cogs
  <2> QED BY <1>4, <2>3, <2>4, <2>5
<1> HIDE DEF items, cogs, profit
<1>9. Booked(req'[h], next, salesOrders, salesReturns.current, orderItems, h)
  <2>1. Pending("returnItem", Tail(lines)) = 0
    BY DEF Pending
  <2> QED BY <1>1, <1>4, <1>6, <1>8, <2>1 DEF Booked, items
<1>10. Selling(h)' /\ Booking(h)'
  BY <1>1, <1>9, ReturnsSell DEF Booking
<1> QED BY <1>1, <1>10, BooksQuietly

\* The last statement takes off the order what the loop has worked out.
LEMMA ReduceBooks ==
  ASSUME StoreInv, ReturnInv, ReturnedInv, BooksInv, NEW h \in Handler,
         ReduceTotals(h)
  PROVE  BooksStep(h)
<1> DEFINE o == claim[h].order
           s == salesOrders
           old == s.current[o]
           was == s.committed[o]
           row == [old EXCEPT !.returnedCogs = @ + claim[h].returnedCogs,
                              !.returnedProfit = @ + claim[h].returnedProfit]
<1>1. /\ s' = Update(s, h, o, row) /\ Free(s, h, o)
      /\ UNCHANGED <<salesReturns, orderItems, claim>>
      /\ claim[h].items = << >>
      /\ req[h].op \in ReturnsOp /\ req[h].at = "returnItem"
      /\ req'[h].op \in ReturnsOp /\ req'[h].key = req[h].key
      /\ req'[h].at = "commit"
  BY GotoFacts DEF ReduceTotals, At
<1>2. /\ o \in SalesOrder /\ was.status # "NONE" /\ Good(was.items)
      /\ Booked(req[h], claim[h], s, salesReturns.current, orderItems, h)
  BY <1>1, ClaimFacts
<1>3. /\ \A x \in SalesOrder : s.holder[x] # h
      /\ LinesOf(claim[h].items, was.items)
      /\ Refund(claim[h].items) + claim[h].returnedCogs + claim[h].returnedProfit
           = Refund(salesReturns.current[req[h].key].items)
      /\ Worth(was.items, Adds(orderItems, h, o)) = claim[h].returnedCogs + 0
  BY <1>1, <1>2 DEF Booked, BeforeWrite, Pending
<1>4. /\ s \in Table(SalesOrder, SalesOrderRow, Handler)
      /\ Consistent(s) /\ old \in SalesOrderRow
  BY <1>2, StoreTables, SalesRows DEF BooksInv
<1>5. old = was
  BY <1>1, <1>2, <1>3, <1>4 DEF Free, Consistent, Table
<1>6. /\ row.status = old.status /\ row.items = old.items
      /\ row.returnedCogs = old.returnedCogs + claim[h].returnedCogs
      /\ row.returnedProfit = old.returnedProfit + claim[h].returnedProfit
  BY <1>4 DEF SalesOrderRow
<1> HIDE DEF row, old, was, o, s
<1>7. /\ s'.committed = s.committed /\ s'.current[o] = row /\ s'.holder[o] = h
      /\ \A x \in SalesOrder : s'.holder[x] = h => x = o
  BY <1>1, <1>2, <1>3, <1>4, Versions, Holders
<1>8. Booked(req'[h], claim[h], s', salesReturns.current, orderItems, h)
  <2>1. Pending("commit", claim[h].items) = 0
    BY DEF Pending
  <2> QED BY <1>1, <1>3, <1>5, <1>6, <1>7, <2>1 DEF Booked, was, o
<1>9. Selling(h)' /\ Booking(h)'
  BY <1>1, <1>8, ReturnsSell DEF Booking, s
<1> QED BY <1>1, <1>2, <1>5, <1>6, <1>9, BooksByUpdate DEF s, old

\* A return that commits shows its row, its counts and the amounts together.
LEMMA ReturnBalances ==
  ASSUME StoreInv, ReturnInv, ReturnedInv, BooksInv, NEW h \in Handler,
         CommitReturn(h)
  PROVE  BooksStep(h)
<1> DEFINE s == salesOrders
           t == orderItems
           c == salesReturns.committed
           d == salesReturns'.committed
           r == req[h].key
           mine == claim[h].order
           cogs == claim[h].returnedCogs
           profit == claim[h].returnedProfit
<1>1. /\ r \in SalesReturn /\ OneMore(c, d, r) /\ d[r] = salesReturns.current[r]
      /\ d[r].order = mine /\ claim[h].items = << >>
      /\ req[h].op \in ReturnsOp /\ req[h].at = "commit"
      /\ \A k \in SalesOrder \X LineNo :
           /\ t.committed[k] \in Int /\ Added(t, h, k) \in Int
           /\ t'.committed[k] = t.committed[k] + Added(t, h, k)
  BY CommitPublishes
<1>2. /\ mine \in SalesOrder /\ s.committed[mine].status # "NONE"
      /\ Good(s.committed[mine].items)
      /\ cogs \in Int /\ profit \in Int
      /\ Booked(req[h], claim[h], s, salesReturns.current, t, h)
  BY <1>1, ClaimFacts
<1>3. /\ s \in Table(SalesOrder, SalesOrderRow, Handler)
      /\ t \in Table(SalesOrder \X LineNo, Nat, Handler)
      /\ s' = Commit(s, h) /\ Respond(h)
  BY StoreTables DEF CommitReturn
<1>4. /\ s.holder[mine] = h
      /\ \A x \in SalesOrder : s.holder[x] = h => x = mine
      /\ s.current[mine].returnedCogs = s.committed[mine].returnedCogs + cogs
      /\ s.current[mine].returnedProfit = s.committed[mine].returnedProfit + profit
      /\ Refund(<< >>) + cogs + profit = Refund(d[r].items)
      /\ Worth(s.committed[mine].items, Adds(t, h, mine)) = cogs + 0
  BY <1>1, <1>2 DEF Booked, BeforeWrite, Pending
<1>5. s.current[mine].items = s.committed[mine].items
  BY <1>2, <1>3 DEF BooksInv, ItemsSettled, Table
<1>6. \A o \in SalesOrder :
        /\ s'.committed[o] = IF o = mine THEN s.current[o] ELSE s.committed[o]
        /\ s.committed[o].returnedCogs \in Int /\ s.committed[o].returnedProfit \in Int
  <2>1. \A o \in SalesOrder :
          /\ s'.committed[o] = IF s.holder[o] = h THEN s.current[o] ELSE s.committed[o]
          /\ s.committed[o] \in SalesOrderRow
    BY <1>3 DEF Commit, Visible, Table
  <2> HIDE DEF s, mine
  <2> QED BY <1>4, <2>1 DEF SalesOrderRow
<1>7. \A o \in SalesOrder :
        /\ Refunded(c, o)
             = s.committed[o].returnedCogs + s.committed[o].returnedProfit
        /\ Worth(s.committed[o].items, Counters(t, o)) = s.committed[o].returnedCogs
        /\ Good(s.committed[o].items)
  BY CommittedGood DEF BooksInv, Balanced
<1>8. ASSUME NEW o \in SalesOrder
      PROVE  Refunded(d, o) = Refunded(c, o)
               + (IF o = mine THEN Refund(d[r].items) ELSE 0)
  <2>1. IsFiniteSet(Rows(c, o))
    BY DEF ReturnedInv, Tallied
  <2> HIDE DEF c, d, r, mine
  <2> QED BY <1>1, <2>1, RefundedGrows
<1>9. ASSUME NEW o \in SalesOrder
      PROVE  Worth(s.committed[o].items, Counters(t', o))
               = Worth(s.committed[o].items, Counters(t, o))
                   + Worth(s.committed[o].items, Adds(t, h, o))
  <2> DEFINE items == s.committed[o].items
  <2>1. items \in Seq(OrderLine) /\ \A i \in DOMAIN items : i \in LineNo
    BY <1>7 DEF Good
  <2>2. \A i \in LineNo : <<o, i>> \in SalesOrder \X LineNo
    OBVIOUS
  <2> HIDE DEF items, t
  <2>3. \A i \in DOMAIN items :
          /\ Counters(t, o)[i] \in Int /\ Adds(t, h, o)[i] \in Int
          /\ Counters(t', o)[i] = Counters(t, o)[i] + Adds(t, h, o)[i]
    BY <1>1, <2>1, <2>2 DEF Counters, Adds
  <2>4. Worth(items, Counters(t', o))
          = Worth(items, Counters(t, o)) + Worth(items, Adds(t, h, o))
    BY <2>1, <2>3, WorthPlus
  <2> QED BY <2>4 DEF items
<1>10. ASSUME NEW o \in SalesOrder, o # mine
       PROVE  Worth(s.committed[o].items, Adds(t, h, o)) = 0
  <2> DEFINE items == s.committed[o].items
  <2>1. items \in Seq(OrderLine) /\ \A i \in DOMAIN items : i \in LineNo
    BY <1>7 DEF Good
  <2>2. \A k \in SalesOrder \X LineNo : t.holder[k] = h => k[1] = mine
    BY DEF ReturnedInv, Returning
  <2>3. \A i \in LineNo : Added(t, h, <<o, i>>) = 0
    <3> HIDE DEF t, mine
    <3> QED BY <1>10, <2>2 DEF Added
  <2> HIDE DEF items, t
  <2>4. \A i \in DOMAIN items : Adds(t, h, o)[i] = 0
    BY <2>1, <2>3 DEF Adds
  <2>5. Worth(items, Adds(t, h, o)) = 0
    BY <2>1, <2>4, WorthZero
  <2> QED BY <2>5 DEF items
<1> HIDE DEF s, t, c, d, r, mine, cogs, profit
<1>11. ASSUME NEW o \in SalesOrder
       PROVE  /\ Refunded(d, o)
                   = s'.committed[o].returnedCogs + s'.committed[o].returnedProfit
              /\ Worth(s'.committed[o].items, Counters(t', o))
                   = s'.committed[o].returnedCogs
  <2>1. CASE o = mine
    <3>1. /\ Refunded(d, o) = Refunded(c, o) + (cogs + profit)
          /\ Worth(s.committed[o].items, Counters(t', o))
               = Worth(s.committed[o].items, Counters(t, o)) + cogs
      BY <1>2, <1>4, <1>8, <1>9, <2>1, RefundNone
    <3>2. /\ s'.committed[o].items = s.committed[o].items
          /\ s'.committed[o].returnedCogs = s.committed[o].returnedCogs + cogs
          /\ s'.committed[o].returnedProfit = s.committed[o].returnedProfit + profit
      BY <1>4, <1>5, <1>6, <2>1
    <3>3. \A a, b, x, y \in Int : (a + b) + (x + y) = (a + x) + (b + y)
      OBVIOUS
    <3>4. Refunded(d, o)
            = s'.committed[o].returnedCogs + s'.committed[o].returnedProfit
      BY <1>2, <1>6, <1>7, <3>1, <3>2, <3>3
    <3> QED BY <1>7, <3>1, <3>2, <3>4
  <2>2. CASE o # mine
    <3>1. /\ Refunded(d, o) = Refunded(c, o) + 0
          /\ Worth(s.committed[o].items, Counters(t', o))
               = Worth(s.committed[o].items, Counters(t, o)) + 0
      BY <1>8, <1>9, <1>10, <2>2
    <3> QED BY <1>6, <1>7, <2>2, <3>1
  <2> QED BY <2>1, <2>2
<1>12. Balanced(salesOrders', salesReturns'.committed, orderItems')
  BY <1>11 DEF Balanced, d, s, t
<1> QED BY <1>3, <1>12, CommitBooks DEF s

\* Steps of ReturnsService keep the books.
LEMMA ReturnsBooks ==
  ASSUME StoreInv, LockInv, ReturnInv, ReturnedInv, BooksInv, NEW h \in Handler,
         ReturnsRequest(h) \/ ReturnsStep(h)
  PROVE  BooksStep(h)
<1>1. ASSUME RollbackReturn(h) PROVE BooksStep(h)
  <2>1. /\ salesReturns'.committed = salesReturns.committed
        /\ orderItems'.committed = orderItems.committed
    BY <1>1, StoreTables, Versions DEF RollbackReturn
  <2> QED BY <1>1, <2>1, RollbackBooks DEF RollbackReturn
<1> QED BY <1>1, CheckBooks, InsertBooks, IncrementBooks, RestockBooks,
           ReduceBooks, ReturnBalances
        DEF ReturnsStep, RefuseReturnNumber, ExpireReturn

\* Every step keeps the books.
LEMMA BooksNextInv ==
  /\ StoreInv /\ LockInv /\ ReturnInv /\ ReturnedInv /\ BooksInv
  /\ [StoreNext]_storeVars
  => BooksInv'
<1> SUFFICES ASSUME StoreInv, LockInv, ReturnInv, ReturnedInv, BooksInv,
                    [StoreNext]_storeVars
             PROVE  BooksInv'
  OBVIOUS
<1>1. CASE UNCHANGED storeVars
  <2>1. UNCHANGED <<req, todo, claim, salesOrders, salesReturns, orderItems>>
    BY <1>1 DEF storeVars, requestVars, returnsVars, salesVars
  <2>2. ASSUME NEW h \in Handler PROVE Selling(h)' /\ Booking(h)'
    <3>1. Selling(h) /\ Booking(h)
      BY DEF BooksInv
    <3> QED BY <2>1, <3>1 DEF Selling, Booking
  <2>3. /\ Consistent(salesOrders') /\ ItemsSettled(salesOrders')
        /\ GoodOrders(salesOrders')
    BY <2>1 DEF BooksInv
  <2>4. Balanced(salesOrders', salesReturns'.committed, orderItems')
    BY <2>1 DEF BooksInv
  <2> QED BY <2>2, <2>3, <2>4
          DEF BooksInv, Consistent, ItemsSettled, GoodOrders, Good, Balanced,
              Refunded, Rows, Worth, Counters
<1>2. ASSUME NEW h \in Handler, StoreRequest(h) \/ StoreStep(h)
      PROVE  BooksInv'
  <2>1. BooksStep(h)
    BY <1>2, SalesBooks, ReturnsBooks, OthersBooks DEF StoreRequest, StoreStep
  <2> QED BY <1>2, <2>1, StepKeepsOthers, StepWaits, BooksOfOthers
<1> QED BY <1>1, <1>2 DEF StoreNext

\* No order is in the books when the store opens.
LEMMA BooksInitInv == StoreInit => BooksInv
<1> SUFFICES ASSUME StoreInit PROVE BooksInv
  OBVIOUS
<1>1. /\ salesOrders = NewTable([o \in SalesOrder |-> NoSalesOrder])
      /\ salesReturns = NewTable([r \in SalesReturn |-> NoSalesReturn])
      /\ \A h \in Handler : req[h] = IdleRequest
  BY DEF StoreInit, SalesInit, ReturnsInit, RequestsInit
<1>2. /\ salesOrders.current = [o \in SalesOrder |-> NoSalesOrder]
      /\ salesOrders.committed = [o \in SalesOrder |-> NoSalesOrder]
      /\ DOMAIN salesOrders.holder = SalesOrder
      /\ salesReturns.committed = [r \in SalesReturn |-> NoSalesReturn]
  BY <1>1 DEF NewTable
<1>3. << >> \in Seq(OrderLine) /\ DOMAIN << >> = {}
  BY EmptySeq
<1>4. Consistent(salesOrders) /\ ItemsSettled(salesOrders)
  BY <1>2 DEF Consistent, ItemsSettled
<1>5. GoodOrders(salesOrders)
  <2>1. Good(<< >>)
    BY <1>3 DEF Good
  <2>2. NoSalesOrder.items = << >>
    BY DEF NoSalesOrder
  <2>3. \A o \in SalesOrder :
          /\ salesOrders.current[o] = NoSalesOrder
          /\ salesOrders.committed[o] = NoSalesOrder
    BY <1>2
  <2> QED BY <2>1, <2>2, <2>3 DEF GoodOrders
<1>6. Balanced(salesOrders, salesReturns.committed, orderItems)
  <2> SUFFICES ASSUME NEW o \in SalesOrder
               PROVE  /\ Refunded(salesReturns.committed, o) = 0
                      /\ Worth(<< >>, Counters(orderItems, o)) = 0
    BY <1>2 DEF Balanced, NoSalesOrder
  <2>1. \A r \in SalesReturn : salesReturns.committed[r].order # o
    BY <1>2, SalesAssumption, TenantAssumption DEF NoSalesReturn
  <2>2. Rows(salesReturns.committed, o) = {}
    BY <2>1 DEF Rows
  <2>3. Refunded(salesReturns.committed, o) = 0
    BY <2>2, SumEmpty DEF Refunded
  <2>4. Worth(<< >>, Counters(orderItems, o)) = 0
    BY <1>3, SumEmpty DEF Worth
  <2> QED BY <2>3, <2>4
<1>7. ASSUME NEW h \in Handler PROVE Selling(h) /\ Booking(h)
  <2>1. req[h].op \notin SalesOp \cup ReturnsOp
    BY <1>1 DEF IdleRequest, SalesOp, ReturnsOp
  <2> QED BY <2>1 DEF Selling, Sold, Booking, Booked
<1> QED BY <1>4, <1>5, <1>6, <1>7 DEF BooksInv

\* Price is cost and profit, and cost is what went out for good or came back.
LEMMA TotalsOfItems ==
  ASSUME NEW items, Good(items), NEW n, \A i \in DOMAIN items : n[i] \in Int
  PROVE  LET price == [i \in DOMAIN items |->
                         items[i].unitPrice * items[i].quantity]
             cogs == [i \in DOMAIN items |-> items[i].cogs]
             profit == [i \in DOMAIN items |->
                          items[i].unitPrice * items[i].quantity - items[i].cogs]
             kept == [i \in DOMAIN items |->
                        (items[i].cogs \div items[i].quantity)
                          * (items[i].quantity - n[i])]
         IN /\ SumFunction(cogs) \in Int /\ SumFunction(profit) \in Int
            /\ SumFunction(kept) \in Int /\ Worth(items, n) \in Int
            /\ SumFunction(price) = SumFunction(cogs) + SumFunction(profit)
            /\ SumFunction(cogs) = SumFunction(kept) + Worth(items, n)
<1> DEFINE S == DOMAIN items
           price == [i \in DOMAIN items |-> items[i].unitPrice * items[i].quantity]
           cogs == [i \in DOMAIN items |-> items[i].cogs]
           profit == [i \in DOMAIN items |->
                        items[i].unitPrice * items[i].quantity - items[i].cogs]
           kept == [i \in DOMAIN items |->
                      (items[i].cogs \div items[i].quantity)
                        * (items[i].quantity - n[i])]
           back == [i \in DOMAIN items |-> Unit(items[i]) * n[i]]
<1>1. items \in Seq(OrderLine) /\ IsFiniteSet(S)
  BY FewLines DEF Good
<1>2. ASSUME NEW i \in S
      PROVE  /\ price[i] = cogs[i] + profit[i]
             /\ cogs[i] = kept[i] + back[i]
             /\ cogs[i] \in Int /\ profit[i] \in Int
             /\ kept[i] \in Int /\ back[i] \in Int
  <2>1. /\ Unit(items[i]) \in Int /\ n[i] \in Int
        /\ items[i].quantity \in Int /\ items[i].cogs \in Int
        /\ items[i].unitPrice \in Int
        /\ Unit(items[i]) * items[i].quantity = items[i].cogs
    BY <1>1, UnitInt DEF Good
  <2>2. items[i].unitPrice * items[i].quantity \in Int
    BY <2>1
  <2>3. price[i] = cogs[i] + profit[i] /\ cogs[i] \in Int /\ profit[i] \in Int
    BY <2>1, <2>2
  <2>4. \A u, q, m \in Int :
          /\ u * q = u * (q - m) + u * m
          /\ u * (q - m) \in Int /\ u * m \in Int
    OBVIOUS
  <2>5. /\ kept[i] = Unit(items[i]) * (items[i].quantity - n[i])
        /\ back[i] = Unit(items[i]) * n[i]
        /\ cogs[i] = Unit(items[i]) * items[i].quantity
    BY <2>1 DEF Unit
  <2>6. cogs[i] = kept[i] + back[i] /\ kept[i] \in Int /\ back[i] \in Int
    <3> HIDE DEF kept, back, cogs
    <3> QED BY <2>1, <2>4, <2>5
  <2> QED BY <2>3, <2>6
<1>3. /\ DOMAIN price = S /\ DOMAIN cogs = S /\ DOMAIN profit = S
      /\ DOMAIN kept = S /\ Worth(items, n) = SumFunctionOnSet(back, S)
  BY DEF Worth
<1> HIDE DEF price, cogs, profit, kept, back, S
<1>4. SumFunctionOnSet(price, S)
        = SumFunctionOnSet(cogs, S) + SumFunctionOnSet(profit, S)
  BY <1>1, <1>2, SumPlus
<1>5. SumFunctionOnSet(cogs, S)
        = SumFunctionOnSet(kept, S) + SumFunctionOnSet(back, S)
  BY <1>1, <1>2, SumPlus
<1>6. /\ SumFunctionOnSet(cogs, S) \in Int
      /\ SumFunctionOnSet(profit, S) \in Int
      /\ SumFunctionOnSet(kept, S) \in Int
      /\ SumFunctionOnSet(back, S) \in Int
  BY <1>1, <1>2, SumInt
<1>7. /\ SumFunction(cogs) \in Int /\ SumFunction(profit) \in Int
      /\ SumFunction(kept) \in Int /\ Worth(items, n) \in Int
      /\ SumFunction(price) = SumFunction(cogs) + SumFunction(profit)
      /\ SumFunction(cogs) = SumFunction(kept) + Worth(items, n)
  BY <1>3, <1>4, <1>5, <1>6 DEF SumFunction
<1> QED BY <1>7 DEF price, cogs, profit, kept

(***************************************************************************)
(* For any number of orders, returns and handlers: the price of an order   *)
(* less its refunds is the cost and the profit that its totals still show, *)
(* and that cost is the cost of what the customer kept.  The totals are    *)
(* written in another statement than the rows and the counters, and no     *)
(* interleaving or rollback shows one without the others.                  *)
(***************************************************************************)
THEOREM BooksAlwaysBalance == StoreSpec => []BooksBalance
<1>1. StoreInv /\ BooksInv => BooksBalance
  <2> SUFFICES ASSUME StoreInv, BooksInv PROVE BooksBalance
    OBVIOUS
  <2> DEFINE n(o) == [i \in LineNo |-> orderItems.committed[<<o, i>>]]
             row(o) == salesOrders.committed[o]
             items(o) == row(o).items
             price(o) == SumFunction([i \in DOMAIN items(o) |->
                           items(o)[i].unitPrice * items(o)[i].quantity])
             cogs(o) == SumFunction([i \in DOMAIN items(o) |-> items(o)[i].cogs])
             profit(o) == SumFunction([i \in DOMAIN items(o) |->
                            items(o)[i].unitPrice * items(o)[i].quantity
                              - items(o)[i].cogs])
             kept(o) == SumFunction([i \in DOMAIN items(o) |->
                          (items(o)[i].cogs \div items(o)[i].quantity)
                            * (items(o)[i].quantity
                                 - orderItems.committed[<<o, i>>])])
             refunds(o) == SumFunction([x \in ReturnRows(o) |->
                                          ReturnRow(x).refundAmount])
  <2>1. ASSUME NEW o \in SalesOrder
        PROVE  /\ price(o) - refunds(o)
                    = (cogs(o) - row(o).returnedCogs)
                        + (profit(o) - row(o).returnedProfit)
               /\ cogs(o) - row(o).returnedCogs = kept(o)
    <3>1. Good(items(o))
      BY CommittedGood
    <3>2. \A i \in DOMAIN items(o) :
            n(o)[i] = orderItems.committed[<<o, i>>] /\ n(o)[i] \in Int
      BY <3>1, ReturnsRows DEF Good, Table
    <3>3. kept(o) = SumFunction([i \in DOMAIN items(o) |->
                      (items(o)[i].cogs \div items(o)[i].quantity)
                        * (items(o)[i].quantity - n(o)[i])])
      BY <3>2
    <3>4. /\ cogs(o) \in Int /\ profit(o) \in Int /\ kept(o) \in Int
          /\ Worth(items(o), n(o)) \in Int
          /\ price(o) = cogs(o) + profit(o)
          /\ cogs(o) = kept(o) + Worth(items(o), n(o))
      <4> HIDE DEF items, n
      <4> QED BY <3>1, <3>2, <3>3, TotalsOfItems
    <3>5. refunds(o) = Refunded(salesReturns.committed, o)
      BY DEF Refunded, SumFunction, ReturnRows, ReturnRow, Rows
    <3>6. /\ Refunded(salesReturns.committed, o)
               = row(o).returnedCogs + row(o).returnedProfit
          /\ Worth(items(o), n(o)) = row(o).returnedCogs
      BY DEF BooksInv, Balanced, Counters
    <3>7. row(o).returnedCogs \in Int /\ row(o).returnedProfit \in Int
      <4>1. row(o) \in SalesOrderRow
        BY StoreTables DEF Table
      <4> QED BY <4>1 DEF SalesOrderRow
    <3> HIDE DEF row, items, n, price, cogs, profit, kept, refunds
    <3> QED BY <3>4, <3>5, <3>6, <3>7
  <2> QED BY <2>1 DEF BooksBalance
<1>2. StoreInit => BooksInv
  BY BooksInitInv
<1>3. /\ StoreInv /\ LockInv /\ ReturnInv /\ ReturnedInv /\ BooksInv
      /\ [StoreNext]_storeVars
      => BooksInv'
  BY BooksNextInv
<1> QED BY <1>1, <1>2, <1>3, ReturnedAlways, PTL DEF StoreSpec

-----------------------------------------------------------------------------
(***************************************************************************)
(* Sales alone are the order book.  Of what a method of SalesService has   *)
(* found, written and moved, this must be known when it commits.           *)
(***************************************************************************)
Basket == {OrderItems(cart, rows) : cart \in SaleCarts, rows \in OpeningRows}

HoldsNoSale(s, h) == \A o \in SalesOrder : s.holder[o] # h

Still(moved) == \A p \in Product : moved[p] = 0

\* Before its first write: the cart, or the items of the order it has read.
Reads(r, lines, found, s, h) ==
  /\ HoldsNoSale(s, h)
  /\ r.at = "insertOrder" =>
       /\ r.key \in SalesOrder /\ lines \in SaleCarts
       /\ ProductsOf(lines) \subseteq DOMAIN found
  /\ r.at = "markCompleted" =>
       /\ r.key \in SalesOrder
       /\ s.committed[r.key].status # "NONE"
       /\ \A p \in Product :
            Pieces(lines, p) = Pieces(s.committed[r.key].items, p)

\* After it: the row, and which pieces have left the shelf.
Writes(r, lines, moved, s, h) ==
  LET old == s.committed[r.key]
      row == s.current[r.key]
  IN /\ r.key \in SalesOrder /\ s.holder[r.key] = h
     /\ \A o \in SalesOrder : s.holder[o] = h => o = r.key
     /\ old.status = "NONE" => row.items \in Basket
     /\ r.at = "shipLine" =>
          /\ row.status = "COMPLETED"
          /\ \A p \in Product :
               moved[p] + Pieces(row.items, p) = Pieces(lines, p)
     /\ r.at = "commit" =>
          /\ Still(moved)
          /\ \/ row.status = "PENDING" /\ old.status = "NONE"
             \/ row.status = "CANCELLED" /\ old.status = "PENDING"

Serves(r, lines, found, moved, s, h) ==
  /\ r.at \in {"idle", "insertOrder", "markCompleted"} =>
       Still(moved) /\ Reads(r, lines, found, s, h)
  /\ r.at \in {"shipLine", "commit"} => Writes(r, lines, moved, s, h)

Serving(h) == Serves(req[h], todo[h], productMap[h], posted[h], salesOrders, h)

\* An order that does not exist is nothing but its number.
Blank(s) ==
  \A o \in SalesOrder :
    /\ s.current[o].status = "NONE" => s.current[o] = NoSalesOrder
    /\ s.committed[o].status = "NONE" => s.committed[o] = NoSalesOrder

\* Sales leave the average costs as they found them.
CostsStand(rows) ==
  /\ \A p \in Product :
       /\ products.current[p].averageCost = rows[p].averageCost
       /\ products.committed[p].averageCost = rows[p].averageCost
  /\ \A h \in Handler : \A p \in DOMAIN productMap[h] :
       p \in Product /\ productMap[h][p].averageCost = rows[p].averageCost

SalesTables ==
  /\ salesOrders \in Table(SalesOrder, SalesOrderRow, Handler)
  /\ Consistent(salesOrders) /\ ItemsSettled(salesOrders) /\ Blank(salesOrders)
  /\ DOMAIN req = Handler /\ DOMAIN productMap = Handler
  /\ todo \in [Handler -> Seq(Line)]

SalesInv ==
  /\ StockInv
  /\ SalesTables
  /\ \E rows \in OpeningRows : CostsStand(rows)
  /\ \A h \in Handler : Serving(h)

\* What a step of h must do for the invariant, seen from h alone.
SalesKeeps(h) ==
  /\ [StockNext]_stockVars
  /\ SalesTables'
  /\ ItemsStay(salesOrders, salesOrders')
  /\ Keeps(salesOrders, salesOrders', h)
  /\ \A rows \in OpeningRows : CostsStand(rows) => CostsStand(rows)'
  /\ Serving(h)'
  /\ \A g \in Handler : g # h =>
       /\ req'[g] = req[g] /\ todo'[g] = todo[g]
       /\ productMap'[g] = productMap[g] /\ posted'[g] = posted[g]

\* A step of h need only be checked for h.
LEMMA SalesOfOthers ==
  ASSUME SalesInv, NEW h \in Handler, SalesKeeps(h)
  PROVE  SalesInv'
<1>1. StockInv'
  BY StockNextInv DEF SalesInv, SalesKeeps
<1>2. (\E rows \in OpeningRows : CostsStand(rows))'
  BY DEF SalesInv, SalesKeeps
<1>3. ASSUME NEW g \in Handler, g # h PROVE Serving(g)'
  <2>1. Serving(g) /\ g # NoOne
    BY OpeningAssumption DEF SalesInv
  <2>2. DOMAIN salesOrders.holder = SalesOrder
    BY DEF SalesInv, SalesTables, Table
  <2>3. \A o \in SalesOrder :
          /\ salesOrders'.holder[o] = g => salesOrders.holder[o] = g
          /\ salesOrders.holder[o] = g =>
               /\ salesOrders'.holder[o] = g
               /\ salesOrders'.current[o] = salesOrders.current[o]
               /\ salesOrders'.committed[o] = salesOrders.committed[o]
          /\ salesOrders.committed[o].status # "NONE" =>
               /\ salesOrders'.committed[o].status # "NONE"
               /\ salesOrders'.committed[o].items = salesOrders.committed[o].items
    BY <1>3, <2>1, <2>2 DEF SalesKeeps, Keeps, ItemsStay
  <2>4. Serves(req[g], todo[g], productMap[g], posted[g], salesOrders', g)
    BY <2>1, <2>3 DEF Serving, Serves, Reads, Writes, HoldsNoSale
  <2> QED BY <1>3, <2>4 DEF Serving, SalesKeeps
<1>4. SalesTables' /\ Serving(h)'
  BY DEF SalesKeeps
<1> QED BY <1>1, <1>2, <1>3, <1>4 DEF SalesInv

\* Lists that name the same products and quantities are for the same pieces.
LEMMA SamePieces ==
  ASSUME NEW a, NEW b, DOMAIN a = DOMAIN b,
         \A i \in DOMAIN a :
           a[i].product = b[i].product /\ a[i].quantity = b[i].quantity
  PROVE  \A p : Pieces(a, p) = Pieces(b, p)
<1> SUFFICES ASSUME NEW p PROVE Pieces(a, p) = Pieces(b, p)
  OBVIOUS
<1>1. [i \in DOMAIN a |-> a[i].quantity] = [i \in DOMAIN b |-> b[i].quantity]
  OBVIOUS
<1>2. {i \in DOMAIN a : a[i].product = p} = {i \in DOMAIN b : b[i].product = p}
  OBVIOUS
<1> QED BY <1>1, <1>2 DEF Pieces

\* The pieces of an order are numbers.
LEMMA PiecesOfOrder ==
  ASSUME NEW items \in Seq(OrderLine)
  PROVE  \A p : Pieces(items, p) \in Nat
<1>1. \A i \in DOMAIN items : items[i] \in OrderLine
  BY ElementOfSeq, LenProperties
<1>2. \A i \in DOMAIN items : items[i].quantity \in Nat
  BY <1>1 DEF OrderLine
<1> QED BY <1>2, PiecesNat

\* The items that InsertSalesOrder writes, whatever the costs it has found.
LEMMA ItemsOfCart ==
  ASSUME NEW lines \in SaleCarts, NEW rows \in OpeningRows, NEW found,
         ProductsOf(lines) \subseteq DOMAIN found,
         \A p \in DOMAIN found :
           p \in Product /\ found[p].averageCost = rows[p].averageCost
  PROVE  /\ OrderItems(lines, found) \in Basket
         /\ OrderItems(lines, found) \in Seq(OrderLine)
         /\ \A p : Pieces(OrderItems(lines, found), p) = Pieces(lines, p)
<1> DEFINE items == OrderItems(lines, found)
<1>1. /\ lines \in Seq(Line)
      /\ rows \in [Product -> ProductRow]
  BY SalesAssumption, OpeningAssumption
<1>2. Len(lines) \in Nat /\ DOMAIN lines = 1..Len(lines)
  BY <1>1, LenProperties
<1>3. \A i \in 1..Len(lines) :
        found[lines[i].product].averageCost = rows[lines[i].product].averageCost
  BY <1>2 DEF ProductsOf
<1>4. items = OrderItems(lines, rows)
  BY <1>3 DEF OrderItems
<1>5. items \in Basket
  BY <1>4 DEF Basket
<1>6. items \in Seq(OrderLine)
  <2>1. ProductsOf(lines) \subseteq DOMAIN rows
    BY <1>1
  <2>2. \A p \in DOMAIN rows : rows[p] \in ProductRow
    BY <1>1
  <2>3. OrderItems(lines, rows) \in Seq(OrderLine)
    BY <1>1, <2>1, <2>2, OrderItemsType
  <2> QED BY <1>4, <2>3
<1>7. \A p : Pieces(items, p) = Pieces(lines, p)
  <2>1. /\ DOMAIN items = DOMAIN lines
        /\ \A i \in DOMAIN items : /\ items[i].product = lines[i].product
                                    /\ items[i].quantity = lines[i].quantity
    BY <1>2 DEF OrderItems
  <2> HIDE DEF items
  <2> QED BY <2>1, SamePieces
<1> QED BY <1>5, <1>6, <1>7

\* A first statement that only reads.
LEMMA SalesRead ==
  ASSUME SalesInv, NEW h \in Handler, NEW r, NEW lines \in Seq(Line),
         UNCHANGED <<stockVars, salesVars>>, req[h].at = "idle",
         req' = [req EXCEPT ![h] = r], todo' = [todo EXCEPT ![h] = lines],
         DOMAIN productMap' = Handler,
         \A g \in Handler : g # h => productMap'[g] = productMap[g],
         \A p \in DOMAIN productMap'[h] :
           \/ p \in DOMAIN productMap[h] /\ productMap'[h][p] = productMap[h][p]
           \/ p \in Product /\ productMap'[h][p] = Visible(products, h, p),
         r.at \in {"insertOrder", "markCompleted"},
         r.key \in SalesOrder,
         r.at = "insertOrder" =>
           lines \in SaleCarts /\ ProductsOf(lines) \subseteq DOMAIN productMap'[h],
         r.at = "markCompleted" =>
           /\ salesOrders.committed[r.key].status # "NONE"
           /\ \A p \in Product :
                Pieces(lines, p) = Pieces(salesOrders.committed[r.key].items, p)
  PROVE  SalesKeeps(h)
<1>1. /\ salesOrders \in Table(SalesOrder, SalesOrderRow, Handler)
      /\ Consistent(salesOrders) /\ ItemsSettled(salesOrders) /\ Blank(salesOrders)
      /\ DOMAIN req = Handler /\ todo \in [Handler -> Seq(Line)]
  BY DEF SalesInv, SalesTables
<1>2. UNCHANGED <<salesOrders, products, posted>>
  BY DEF stockVars, salesVars
<1>3. SalesTables'
  BY <1>1, <1>2 DEF SalesTables, Consistent, ItemsSettled, Blank
<1>4. ItemsStay(salesOrders, salesOrders') /\ Keeps(salesOrders, salesOrders', h)
  BY <1>1, <1>2, ItemsLast, StatementsKeep
<1>5. ASSUME NEW rows \in OpeningRows, CostsStand(rows)
      PROVE  CostsStand(rows)'
  BY <1>2, <1>5 DEF CostsStand, Visible
<1>6. Serving(h)'
  <2>1. Still(posted[h]) /\ HoldsNoSale(salesOrders, h)
    BY DEF SalesInv, Serving, Serves, Reads
  <2>2. req'[h] = r /\ todo'[h] = lines
    BY <1>1
  <2>3. Serves(r, lines, productMap'[h], posted[h], salesOrders, h)
    BY <2>1 DEF Serves, Reads
  <2> QED BY <1>2, <2>2, <2>3 DEF Serving
<1>7. [StockNext]_stockVars
  OBVIOUS
<1> QED BY <1>1, <1>2, <1>3, <1>4, <1>5, <1>6, <1>7 DEF SalesKeeps

\* A first write, of the row the method is about.
LEMMA SalesWrite ==
  ASSUME SalesInv, NEW h \in Handler, NEW o \in SalesOrder,
         NEW row \in SalesOrderRow, NEW r,
         salesOrders' = Update(salesOrders, h, o, row),
         Free(salesOrders, h, o),
         UNCHANGED <<stockVars, todo, productMap>>,
         req' = [req EXCEPT ![h] = r], r.key = o,
         req[h].at \in {"idle", "insertOrder", "markCompleted"},
         row.status # "NONE",
         salesOrders.current[o].status # "NONE" =>
           row.items = salesOrders.current[o].items,
         salesOrders.committed[o].status = "NONE" => row.items \in Basket,
         \/ /\ r.at = "shipLine" /\ row.status = "COMPLETED"
            /\ \A p \in Product : Pieces(row.items, p) = Pieces(todo[h], p)
         \/ /\ r.at = "commit" /\ row.status = "PENDING"
            /\ salesOrders.committed[o].status = "NONE"
         \/ /\ r.at = "commit" /\ row.status = "CANCELLED"
            /\ salesOrders.committed[o].status = "PENDING"
  PROVE  SalesKeeps(h)
<1> DEFINE s == salesOrders
<1>1. /\ s \in Table(SalesOrder, SalesOrderRow, Handler)
      /\ Consistent(s) /\ ItemsSettled(s) /\ Blank(s)
      /\ DOMAIN req = Handler /\ DOMAIN productMap = Handler
      /\ todo \in [Handler -> Seq(Line)]
  BY DEF SalesInv, SalesTables
<1>2. UNCHANGED <<products, posted>> /\ req'[h] = r
  BY <1>1 DEF stockVars
<1>3. /\ s'.committed = s.committed /\ s'.current[o] = row /\ s'.holder[o] = h
      /\ \A x \in SalesOrder : x # o => s'.current[x] = s.current[x]
      /\ \A x \in SalesOrder : s'.holder[x] = h => x = o \/ s.holder[x] = h
  BY <1>1, Versions, Holders
<1>4. SalesTables'
  <2>1. s' \in Table(SalesOrder, SalesOrderRow, Handler)
    BY <1>1, UpdateType
  <2>2. Consistent(s') /\ ItemsSettled(s')
    BY <1>1, TablesStay, ItemsLast
  <2>3. Blank(s')
    BY <1>1, <1>3 DEF Blank
  <2> QED BY <1>1, <2>1, <2>2, <2>3 DEF SalesTables
<1>5. ItemsStay(s, s') /\ Keeps(s, s', h)
  BY <1>1, ItemsLast, StatementsKeep
<1>6. ASSUME NEW rows \in OpeningRows, CostsStand(rows)
      PROVE  CostsStand(rows)'
  BY <1>2, <1>6 DEF CostsStand
<1>7. Serving(h)'
  <2>1. Still(posted[h]) /\ HoldsNoSale(s, h)
    BY DEF SalesInv, Serving, Serves, Reads
  <2>2. \A p \in Product : posted[h][p] = 0
    BY <2>1 DEF Still
  <2>3. \A p : Pieces(row.items, p) \in Nat
    BY PiecesOfOrder DEF SalesOrderRow
  <2>4. Writes(r, todo[h], posted[h], s', h)
    BY <1>3, <2>1, <2>2, <2>3 DEF Writes, HoldsNoSale, Still
  <2>5. Serves(r, todo[h], productMap[h], posted[h], s', h)
    BY <2>4 DEF Serves
  <2> QED BY <1>2, <2>5 DEF Serving
<1>8. [StockNext]_stockVars
  OBVIOUS
<1> QED BY <1>1, <1>2, <1>4, <1>5, <1>6, <1>7, <1>8 DEF SalesKeeps

\* The requests, and the statements that write the order's row.
LEMMA SalesStatements ==
  ASSUME SalesInv, NEW h \in Handler,
         SalesRequest(h) \/ InsertSalesOrder(h) \/ MarkCompleted(h)
  PROVE  SalesKeeps(h)
<1> DEFINE s == salesOrders
<1>1. /\ s \in Table(SalesOrder, SalesOrderRow, Handler)
      /\ Consistent(s) /\ ItemsSettled(s) /\ Blank(s)
      /\ DOMAIN req = Handler /\ DOMAIN productMap = Handler
      /\ todo \in [Handler -> Seq(Line)]
      /\ Serves(req[h], todo[h], productMap[h], posted[h], s, h)
  BY DEF SalesInv, SalesTables, Serving
<1>2. ASSUME NEW o \in SalesOrder, NEW cart \in SaleCarts, NEW op,
             BuildOrderItems(h, op, o, cart)
      PROVE  SalesKeeps(h)
  <2> DEFINE r == [op |-> op, at |-> "insertOrder", key |-> o]
             found == FindProducts(h, cart)
  <2>1. /\ req[h].at = "idle" /\ req' = [req EXCEPT ![h] = r]
        /\ todo' = [todo EXCEPT ![h] = cart]
        /\ productMap' = [productMap EXCEPT ![h] = found]
        /\ UNCHANGED <<stockVars, salesVars>>
        /\ ProductsOf(cart) = DOMAIN found
    BY <1>2 DEF BuildOrderItems, Begin, IdleRequest
  <2>2. cart \in Seq(Line)
    BY SalesAssumption
  <2>3. ProductsOf(cart) \subseteq Product
    <3>1. \A i \in DOMAIN cart : cart[i] \in Line
      BY <2>2, ElementOfSeq, LenProperties
    <3> QED BY <3>1 DEF ProductsOf, Line
  <2>4. \A p \in DOMAIN found : p \in Product /\ found[p] = Visible(products, h, p)
    BY <2>3 DEF FindProducts
  <2>5. /\ DOMAIN productMap' = Handler /\ productMap'[h] = found
        /\ \A g \in Handler : g # h => productMap'[g] = productMap[g]
    BY <1>1, <2>1
  <2>6. r.at = "insertOrder" /\ r.key = o
    OBVIOUS
  <2> HIDE DEF found, r
  <2>7. /\ \A p \in DOMAIN productMap'[h] :
             p \in Product /\ productMap'[h][p] = Visible(products, h, p)
        /\ ProductsOf(cart) \subseteq DOMAIN productMap'[h]
    BY <2>1, <2>4, <2>5
  <2> QED BY <2>1, <2>2, <2>5, <2>6, <2>7, SalesRead
<1>3. ASSUME NEW o \in SalesOrder, FindPendingSalesOrder(h, o)
      PROVE  SalesKeeps(h)
  <2> DEFINE items == s.committed[o].items
             lines == [i \in 1..Len(items) |->
                         [product   |-> items[i].product,
                          quantity  |-> items[i].quantity,
                          unitPrice |-> items[i].unitPrice]]
             r == [op |-> "completeSalesOrder", at |-> "markCompleted", key |-> o]
  <2>1. /\ req[h].at = "idle" /\ req' = [req EXCEPT ![h] = r]
        /\ todo' = [todo EXCEPT ![h] = lines]
        /\ UNCHANGED <<stockVars, salesVars, productMap>>
        /\ s.committed[o].status = "PENDING"
    BY <1>3 DEF FindPendingSalesOrder, Begin, IdleRequest
  <2>2. items \in Seq(OrderLine)
    BY <1>1 DEF Table, SalesOrderRow
  <2>3. /\ Len(items) \in Nat /\ DOMAIN items = 1..Len(items)
        /\ \A i \in 1..Len(items) : items[i] \in OrderLine
    BY <2>2, LenProperties, ElementOfSeq
  <2>4. lines \in Seq(Line)
    <3>1. \A i \in 1..Len(items) :
            [product   |-> items[i].product,
             quantity  |-> items[i].quantity,
             unitPrice |-> items[i].unitPrice] \in Line
      BY <2>3 DEF OrderLine, Line
    <3> HIDE DEF items
    <3> QED BY <2>3, <3>1, IsASeq
  <2>5. \A p : Pieces(lines, p) = Pieces(items, p)
    <3>1. DOMAIN lines = DOMAIN items
      BY <2>3
    <3>2. \A i \in DOMAIN lines : /\ lines[i].product = items[i].product
                                  /\ lines[i].quantity = items[i].quantity
      OBVIOUS
    <3> HIDE DEF lines, items
    <3> QED BY <3>1, <3>2, SamePieces
  <2>6. r.at = "markCompleted" /\ r.key = o
    OBVIOUS
  <2>7. /\ DOMAIN productMap' = Handler
        /\ \A g \in Handler : productMap'[g] = productMap[g]
    BY <1>1, <2>1
  <2> HIDE DEF lines, r
  <2> QED BY <2>1, <2>4, <2>5, <2>6, <2>7, SalesRead
<1>4. ASSUME NEW o \in SalesOrder, CancelSalesOrder(h, o)
      PROVE  SalesKeeps(h)
  <2> DEFINE old == s.current[o]
             row == [old EXCEPT !.status = "CANCELLED"]
             r == [op |-> "cancelSalesOrder", at |-> "commit", key |-> o]
  <2>1. /\ req[h].at = "idle" /\ req' = [req EXCEPT ![h] = r]
        /\ Free(s, h, o) /\ old.status = "PENDING"
        /\ s' = Update(s, h, o, row)
        /\ UNCHANGED <<stockVars, todo, productMap>>
    BY <1>4 DEF CancelSalesOrder, Begin, IdleRequest
  <2>2. old = s.committed[o]
    BY <1>1, <2>1 DEF Serves, Reads, HoldsNoSale, Free, Consistent, Table
  <2>3. old \in SalesOrderRow
    BY <1>1 DEF Table
  <2>4. row \in SalesOrderRow /\ row.status = "CANCELLED" /\ row.items = old.items
    BY <2>3 DEF SalesOrderRow
  <2>5. r.at = "commit" /\ r.key = o
    OBVIOUS
  <2> HIDE DEF row, old, r
  <2> QED BY <2>1, <2>2, <2>4, <2>5, SalesWrite DEF old
<1>5. CASE InsertSalesOrder(h)
  <2> DEFINE o == req[h].key
             ships == req[h].op = "createSalesOrder"
             items == OrderItems(todo[h], productMap[h])
             row == [status |-> IF ships THEN "COMPLETED" ELSE "PENDING",
                     items |-> items, returnedCogs |-> 0, returnedProfit |-> 0]
             r == [req[h] EXCEPT !.at = IF ships THEN "shipLine" ELSE "commit"]
  <2>1. /\ req[h].at = "insertOrder" /\ req' = [req EXCEPT ![h] = r]
        /\ Free(s, h, o) /\ s.current[o].status = "NONE"
        /\ s' = Update(s, h, o, row)
        /\ UNCHANGED <<stockVars, todo, productMap>>
    BY <1>5 DEF InsertSalesOrder, At, Goto
  <2>2. /\ o \in SalesOrder /\ todo[h] \in SaleCarts
        /\ ProductsOf(todo[h]) \subseteq DOMAIN productMap[h]
        /\ HoldsNoSale(s, h)
    BY <1>1, <2>1 DEF Serves, Reads
  <2>3. s.committed[o].status = "NONE"
    BY <1>1, <2>1, <2>2 DEF HoldsNoSale, Free, Consistent, Table
  <2>4. /\ items \in Basket /\ items \in Seq(OrderLine)
        /\ \A p : Pieces(items, p) = Pieces(todo[h], p)
    <3>1. PICK rows \in OpeningRows : CostsStand(rows)
      BY DEF SalesInv
    <3>2. \A p \in DOMAIN productMap[h] :
            p \in Product /\ productMap[h][p].averageCost = rows[p].averageCost
      BY <3>1 DEF CostsStand
    <3> QED BY <2>2, <3>2, ItemsOfCart
  <2> HIDE DEF items
  <2>5. row \in SalesOrderRow /\ row.items = items
    BY <2>4 DEF SalesOrderRow
  <2>6. \/ r.at = "shipLine" /\ row.status = "COMPLETED"
        \/ r.at = "commit" /\ row.status = "PENDING"
    BY <2>1
  <2>7. req[h].key = o /\ r.key = o
    OBVIOUS
  <2> HIDE DEF row, r, o
  <2> QED BY <2>1, <2>2, <2>3, <2>4, <2>5, <2>6, <2>7, SalesWrite
<1>6. CASE MarkCompleted(h)
  <2> DEFINE o == req[h].key
             old == s.current[o]
             row == [old EXCEPT !.status = "COMPLETED"]
             r == [req[h] EXCEPT !.at = "shipLine"]
  <2>1. /\ req[h].at = "markCompleted" /\ req' = [req EXCEPT ![h] = r]
        /\ Free(s, h, o) /\ s' = Update(s, h, o, row)
        /\ UNCHANGED <<stockVars, todo, productMap>>
    BY <1>6 DEF MarkCompleted, At, Goto
  <2>2. /\ o \in SalesOrder /\ HoldsNoSale(s, h)
        /\ s.committed[o].status # "NONE"
        /\ \A p \in Product : Pieces(todo[h], p) = Pieces(s.committed[o].items, p)
    BY <1>1, <2>1 DEF Serves, Reads
  <2>3. old = s.committed[o] /\ old \in SalesOrderRow
    BY <1>1, <2>1, <2>2 DEF HoldsNoSale, Free, Consistent, Table
  <2>4. row \in SalesOrderRow /\ row.status = "COMPLETED" /\ row.items = old.items
    BY <2>3 DEF SalesOrderRow
  <2>5. r.at = "shipLine" /\ r.key = o
    BY <2>1
  <2>6. /\ row.items = s.current[o].items
        /\ \A p \in Product : Pieces(row.items, p) = Pieces(todo[h], p)
    BY <2>2, <2>3, <2>4
  <2> HIDE DEF row, r, o, old
  <2> QED BY <2>1, <2>2, <2>4, <2>5, <2>6, SalesWrite
<1> QED BY <1>2, <1>3, <1>4, <1>5, <1>6 DEF SalesRequest

\* An iteration of the loop takes off the shelf what it takes off the list.
LEMMA SalesShips ==
  ASSUME SalesInv, NEW h \in Handler, ShipLine(h)
  PROVE  SalesKeeps(h)
<1> DEFINE s == salesOrders
           lines == todo[h]
           p == Head(lines).product
           q == Head(lines).quantity
           cost == products.current[p].averageCost
<1>1. /\ s \in Table(SalesOrder, SalesOrderRow, Handler)
      /\ ItemsSettled(s) /\ todo \in [Handler -> Seq(Line)]
      /\ Serves(req[h], lines, productMap[h], posted[h], s, h)
      /\ posted \in [Handler -> [Product -> Int]]
      /\ products \in Table(Product, ProductRow, Handler)
  BY DEF SalesInv, SalesTables, Serving, StockInv, StockTypeOK
<1>2. /\ req[h].at = "shipLine" /\ lines # << >>
      /\ products.current[p].stockQuantity >= q
      /\ MoveStock(h, p, -q, cost)
      /\ todo' = [todo EXCEPT ![h] = Tail(lines)]
      /\ UNCHANGED <<req, productMap, salesOrders>>
  BY DEF ShipLine, At, InStock, salesVars
<1>3. /\ lines \in Seq(Line) /\ Head(lines) \in Line /\ Tail(lines) \in Seq(Line)
      /\ p \in Product /\ q \in Nat
  <2>1. lines \in Seq(Line) /\ Head(lines) \in Line /\ Tail(lines) \in Seq(Line)
    BY <1>1, <1>2, HeadTailProperties
  <2> HIDE DEF lines
  <2> QED BY <2>1 DEF Line
<1>4. cost \in Int /\ products.current[p].stockQuantity \in Int
  BY <1>3, ProductFigures DEF SalesInv
<1> HIDE DEF lines, p, q, cost
<1>5. [StockNext]_stockVars
  <2>1. -q \in Int /\ products.current[p].stockQuantity + (-q) >= 0
    BY <1>2, <1>3, <1>4
  <2> QED BY <1>2, <1>3, <1>4, <2>1, MoveIsStockStep
<1>6. SalesTables'
  <2>1. todo' \in [Handler -> Seq(Line)]
    BY <1>1, <1>2, <1>3
  <2> QED BY <1>2, <2>1 DEF SalesInv, SalesTables, Consistent, ItemsSettled, Blank
<1>7. ItemsStay(s, s') /\ Keeps(s, s', h)
  BY <1>1, <1>2, ItemsLast, StatementsKeep
<1>8. ASSUME NEW rows \in OpeningRows, CostsStand(rows)
      PROVE  CostsStand(rows)'
  <2>1. \A x \in Product :
          /\ products'.current[x].averageCost = products.current[x].averageCost
          /\ products'.committed[x].averageCost = products.committed[x].averageCost
    BY <1>1, <1>2, <1>3 DEF MoveStock, Update, Table, ProductRow, cost
  <2> QED BY <1>2, <1>8, <2>1 DEF CostsStand
<1>9. Serving(h)'
  <2>1. \A x \in Product : posted'[h][x] = posted[h][x] + (IF x = p THEN -q ELSE 0)
    BY <1>1, <1>2 DEF MoveStock
  <2>2. \A x \in Product :
          /\ Pieces(lines, x) = (IF p = x THEN q ELSE 0) + Pieces(Tail(lines), x)
          /\ Pieces(Tail(lines), x) \in Nat
    BY <1>2, <1>3, PiecesOfLines, PiecesTail DEF p, q
  <2>3. Writes(req[h], lines, posted[h], s, h)
    BY <1>1, <1>2 DEF Serves
  <2>4. \A x : Pieces(s.current[req[h].key].items, x) \in Nat
    <3>1. s.current[req[h].key] \in SalesOrderRow
      BY <1>1, <2>3 DEF Writes, Table
    <3> QED BY <3>1, PiecesOfOrder DEF SalesOrderRow
  <2>5. ASSUME NEW x \in Product
        PROVE  posted'[h][x] + Pieces(s.current[req[h].key].items, x)
                 = Pieces(Tail(lines), x)
    <3>1. posted[h][x] + Pieces(s.current[req[h].key].items, x) = Pieces(lines, x)
      BY <1>2, <2>3 DEF Writes
    <3>2. posted[h][x] \in Int
      BY <1>1
    <3> QED BY <1>3, <2>1, <2>2, <2>4, <3>1, <3>2
  <2>6. Writes(req[h], Tail(lines), posted'[h], s, h)
    BY <1>2, <2>3, <2>5 DEF Writes
  <2>7. Serves(req[h], Tail(lines), productMap[h], posted'[h], s, h)
    BY <1>2, <2>6 DEF Serves
  <2>8. todo'[h] = Tail(lines)
    BY <1>1, <1>2
  <2> QED BY <1>2, <2>7, <2>8 DEF Serving
<1>10. \A g \in Handler : g # h => todo'[g] = todo[g] /\ posted'[g] = posted[g]
  BY <1>1, <1>2 DEF MoveStock
<1> QED BY <1>2, <1>5, <1>6, <1>7, <1>8, <1>9, <1>10 DEF SalesKeeps

\* The end of a transaction, one way or the other.
LEMMA SalesEnds ==
  ASSUME SalesInv, NEW h \in Handler, CommitSale(h) \/ RollbackSale(h)
  PROVE  SalesKeeps(h)
<1> DEFINE s == salesOrders
<1>1. /\ s \in Table(SalesOrder, SalesOrderRow, Handler)
      /\ Consistent(s) /\ ItemsSettled(s) /\ Blank(s)
      /\ DOMAIN req = Handler /\ DOMAIN productMap = Handler
      /\ todo \in [Handler -> Seq(Line)]
      /\ posted \in [Handler -> [Product -> Int]]
      /\ products \in Table(Product, ProductRow, Handler)
  BY DEF SalesInv, SalesTables, StockInv, StockTypeOK
<1>2. /\ \/ s' = Commit(s, h) /\ products' = Commit(products, h)
         \/ s' = Rollback(s, h) /\ products' = Rollback(products, h)
      /\ posted' = [posted EXCEPT ![h] = NoRows]
      /\ Respond(h)
      /\ StockNext
  BY CommitIsStockStep, RollbackIsStockStep
     DEF CommitSale, RollbackSale, CommitStock, RollbackStock
<1>3. /\ s' \in Table(SalesOrder, SalesOrderRow, Handler)
      /\ Consistent(s') /\ ItemsSettled(s') /\ ItemsStay(s, s')
      /\ Keeps(s, s', h)
      /\ \A o \in SalesOrder : s'.holder[o] # h
  BY <1>1, <1>2, EndType, TablesStay, ItemsLast, StatementsKeep, Holders
<1>4. Blank(s')
  <2>1. \A o \in SalesOrder :
          /\ s'.current[o] \in {s.current[o], s.committed[o]}
          /\ s'.committed[o] \in {s.current[o], s.committed[o]}
    BY <1>1, <1>2, Versions
  <2> QED BY <1>1, <2>1 DEF Blank
<1>5. /\ req'[h].at = "idle" /\ todo' = [todo EXCEPT ![h] = << >>]
      /\ productMap'[h] = NothingFound
      /\ DOMAIN req' = Handler /\ DOMAIN productMap' = Handler
      /\ \A g \in Handler : g # h =>
           /\ req'[g] = req[g] /\ todo'[g] = todo[g]
           /\ productMap'[g] = productMap[g] /\ posted'[g] = posted[g]
      /\ posted'[h] = NoRows
  BY <1>1, <1>2 DEF Respond, IdleRequest
<1>6. SalesTables'
  <2>1. todo' \in [Handler -> Seq(Line)]
    BY <1>1, <1>5, EmptySeq
  <2> QED BY <1>3, <1>4, <1>5, <2>1 DEF SalesTables
<1>7. ASSUME NEW rows \in OpeningRows, CostsStand(rows)
      PROVE  CostsStand(rows)'
  <2>1. \A p \in Product :
          /\ products'.current[p] \in {products.current[p], products.committed[p]}
          /\ products'.committed[p] \in {products.current[p], products.committed[p]}
    BY <1>1, <1>2, Versions
  <2>2. \A p \in Product :
          /\ products'.current[p].averageCost = rows[p].averageCost
          /\ products'.committed[p].averageCost = rows[p].averageCost
    BY <1>7, <2>1 DEF CostsStand
  <2>3. DOMAIN productMap'[h] = {}
    BY <1>5 DEF NothingFound
  <2> QED BY <1>5, <1>7, <2>2, <2>3 DEF CostsStand
<1>8. Serving(h)'
  <2>1. Still(posted'[h]) /\ HoldsNoSale(s', h)
    BY <1>3, <1>5 DEF Still, NoRows, HoldsNoSale
  <2>2. Serves(req'[h], todo'[h], productMap'[h], posted'[h], s', h)
    BY <1>5, <2>1 DEF Serves, Reads
  <2> QED BY <2>2 DEF Serving
<1> QED BY <1>2, <1>3, <1>5, <1>6, <1>7, <1>8 DEF SalesKeeps

\* So every step keeps the invariant.
LEMMA SalesNextInv == SalesInv /\ [SalesNext]_salesOnlyVars => SalesInv'
<1> SUFFICES ASSUME SalesInv, [SalesNext]_salesOnlyVars PROVE SalesInv'
  OBVIOUS
<1>1. CASE UNCHANGED salesOnlyVars
  <2>1. /\ UNCHANGED stockVars
        /\ UNCHANGED <<products, posted, req, todo, productMap, salesOrders>>
    BY <1>1 DEF salesOnlyVars, requestVars, salesVars, stockVars
  <2>2. StockInv'
    BY <2>1, StockNextInv DEF SalesInv
  <2>3. SalesTables'
    BY <2>1 DEF SalesInv, SalesTables, Consistent, ItemsSettled, Blank
  <2>4. (\E rows \in OpeningRows : CostsStand(rows))'
    BY <2>1 DEF SalesInv, CostsStand
  <2>5. ASSUME NEW h \in Handler PROVE Serving(h)'
    BY <2>1 DEF SalesInv, Serving
  <2> QED BY <2>2, <2>3, <2>4, <2>5 DEF SalesInv
<1>2. ASSUME NEW h \in Handler, SalesRequest(h) \/ SalesStep(h)
      PROVE  SalesInv'
  <2>1. SalesKeeps(h)
    BY <1>2, SalesStatements, SalesShips, SalesEnds
       DEF SalesStep, RefuseOrderNumber, RefuseShortage, ExpireSale
  <2> QED BY <2>1, SalesOfOthers
<1> QED BY <1>1, <1>2 DEF SalesNext

\* Nothing is ordered and nothing moved when sales open.
LEMMA SalesInitInv == SalesOnlyInit => SalesInv
<1> SUFFICES ASSUME SalesOnlyInit PROVE SalesInv
  OBVIOUS
<1>1. PICK rows \in OpeningRows :
        products = NewTable(rows) /\ posted = [h \in Handler |-> NoRows]
  BY DEF SalesOnlyInit, StockInit
<1>2. /\ salesOrders = NewTable([o \in SalesOrder |-> NoSalesOrder])
      /\ req = [h \in Handler |-> IdleRequest]
      /\ todo = [h \in Handler |-> << >>]
      /\ productMap = [h \in Handler |-> NothingFound]
  BY DEF SalesOnlyInit, SalesInit, RequestsInit
<1>3. StockInv
  BY StockInitInv DEF SalesOnlyInit
<1>4. SalesTables
  <2>1. [o \in SalesOrder |-> NoSalesOrder] \in [SalesOrder -> SalesOrderRow]
    BY EmptySeq DEF NoSalesOrder, SalesOrderRow
  <2>2. /\ salesOrders \in Table(SalesOrder, SalesOrderRow, Handler)
        /\ Consistent(salesOrders)
    BY <1>2, <2>1, NewTableType
  <2>3. ItemsSettled(salesOrders) /\ Blank(salesOrders)
    BY <1>2 DEF ItemsSettled, Blank, NewTable, NoSalesOrder
  <2> QED BY <1>2, <2>2, <2>3, EmptySeq DEF SalesTables
<1>5. CostsStand(rows)
  BY <1>1, <1>2 DEF CostsStand, NewTable, NothingFound
<1>6. ASSUME NEW h \in Handler PROVE Serving(h)
  <2>1. /\ \A o \in SalesOrder : salesOrders.holder[o] # h
        /\ posted[h] = NoRows /\ req[h].at = "idle"
    BY <1>1, <1>2, OpeningAssumption DEF NewTable, IdleRequest
  <2>2. Still(posted[h]) /\ HoldsNoSale(salesOrders, h)
    BY <2>1 DEF Still, NoRows, HoldsNoSale
  <2> QED BY <2>1, <2>2 DEF Serving, Serves, Reads
<1> QED BY <1>3, <1>4, <1>5, <1>6 DEF SalesInv

\* So the invariant always holds.
LEMMA SalesAlways == SalesSpec => []SalesInv
<1> QED BY SalesInitInv, SalesNextInv, PTL DEF SalesSpec

(***************************************************************************)
(* The order book of the module OrderBook, as the database shows it.       *)
(***************************************************************************)
\* The order book counts pieces as the stock loop does.
LEMMA UnitsArePieces == \A items, p : Book!Units(items, p) = Pieces(items, p)
BY DEF Book!Units, Book!SumFunctionOnSet, Book!FoldFunctionOnSet,
       Book!MapThenFoldSet, Pieces, SumFunctionOnSet, FoldFunctionOnSet,
       MapThenFoldSet

\* At first the book is empty and the shelves are as they were found.
LEMMA BookOpens == SalesOnlyInit => Book!BookInit
<1> SUFFICES ASSUME SalesOnlyInit PROVE Book!BookInit
  OBVIOUS
<1>1. PICK rows \in OpeningRows : products = NewTable(rows)
  BY DEF SalesOnlyInit, StockInit
<1>2. salesOrders = NewTable([o \in SalesOrder |-> NoSalesOrder])
  BY DEF SalesOnlyInit, SalesInit
<1>3. [o \in SalesOrder |->
         [status |-> salesOrders.committed[o].status,
          items  |-> salesOrders.committed[o].items]]
        = [o \in SalesOrder |-> Book!NoOrder]
  BY <1>2 DEF NewTable, NoSalesOrder, Book!NoOrder
<1>4. [p \in Product |-> products.committed[p].stockQuantity]
        = [p \in Product |-> rows[p].stockQuantity]
  BY <1>1 DEF NewTable
<1> QED BY <1>1, <1>3, <1>4 DEF Book!BookInit

\* What is not committed is not in the book.
LEMMA BookStutters ==
  ASSUME salesOrders'.committed = salesOrders.committed,
         products'.committed = products.committed
  PROVE  UNCHANGED Book!bookVars
BY DEF Book!bookVars

\* What a commit publishes: the row that the method is about and the pieces
\* that have left the shelf.
LEMMA SaleCommits ==
  ASSUME SalesInv, NEW h \in Handler, CommitSale(h),
         NEW o, o = req[h].key
  PROVE  LET s == salesOrders
             old == s.committed[o]
             row == s.current[o]
         IN /\ o \in SalesOrder
            /\ Writes(req[h], todo[h], posted[h], s, h)
            /\ old.status # "NONE" => row.items = old.items
            /\ old.status = "NONE" => old = NoSalesOrder
            /\ old.status \in {"NONE", "PENDING", "COMPLETED", "CANCELLED"}
            /\ \A x \in SalesOrder :
                 s'.committed[x] = IF x = o THEN row ELSE s.committed[x]
            /\ \A p \in Product :
                 /\ Pieces(row.items, p) \in Nat
                 /\ posted[h][p] \in Int
                 /\ products.committed[p].stockQuantity \in Int
                 /\ products'.committed[p].stockQuantity
                      = products.committed[p].stockQuantity + posted[h][p]
                 /\ products'.committed[p].stockQuantity >= 0
<1> DEFINE s == salesOrders
<1>1. /\ s \in Table(SalesOrder, SalesOrderRow, Handler)
      /\ ItemsSettled(s) /\ Blank(s)
      /\ Serves(req[h], todo[h], productMap[h], posted[h], s, h)
      /\ posted \in [Handler -> [Product -> Int]]
      /\ products \in Table(Product, ProductRow, Handler)
  BY DEF SalesInv, SalesTables, Serving, StockInv, StockTypeOK
<1>2. /\ req[h].at \in {"shipLine", "commit"}
      /\ s' = Commit(s, h) /\ products' = Commit(products, h) /\ CommitStock(h)
  BY DEF CommitSale, CommitStock, At
<1>3. Writes(req[h], todo[h], posted[h], s, h)
  BY <1>1, <1>2 DEF Serves
<1>4. /\ o \in SalesOrder /\ s.holder[o] = h
      /\ \A x \in SalesOrder : s.holder[x] = h => x = o
  BY <1>3 DEF Writes
<1>5. \A x \in SalesOrder :
        s'.committed[x] = IF x = o THEN s.current[o] ELSE s.committed[x]
  BY <1>1, <1>2, <1>4 DEF Commit, Visible, Table
<1>6. /\ s.committed[o].status # "NONE" => s.current[o].items = s.committed[o].items
      /\ s.committed[o].status = "NONE" => s.committed[o] = NoSalesOrder
      /\ s.committed[o].status \in {"NONE", "PENDING", "COMPLETED", "CANCELLED"}
  BY <1>1, <1>4 DEF ItemsSettled, Blank, Table, SalesOrderRow
<1>7. \A p : Pieces(s.current[o].items, p) \in Nat
  <2>1. s.current[o] \in SalesOrderRow
    BY <1>1, <1>4 DEF Table
  <2> QED BY <2>1, PiecesOfOrder DEF SalesOrderRow
<1>8. ASSUME NEW p \in Product
      PROVE  /\ posted[h][p] \in Int
             /\ products.committed[p].stockQuantity \in Int
             /\ products'.committed[p].stockQuantity
                  = products.committed[p].stockQuantity + posted[h][p]
             /\ products'.committed[p].stockQuantity >= 0
  <2>1. posted[h][p] \in Int /\ products.committed[p].stockQuantity \in Int
    BY <1>1 DEF Table, ProductRow
  <2>2. IF products.holder[p] = h
          THEN products.current[p].stockQuantity
                 = products.committed[p].stockQuantity + posted[h][p]
          ELSE posted[h][p] = 0
    BY DEF SalesInv, StockInv, LedgerAccountsForStock
  <2>3. products'.committed[p] = IF products.holder[p] = h
                                   THEN products.current[p]
                                   ELSE products.committed[p]
    BY <1>1, <1>2 DEF Commit, Visible, Table
  <2>4. products'.committed[p].stockQuantity >= 0
    BY <2>3 DEF SalesInv, StockInv, StockNonNegative
  <2> QED BY <2>1, <2>2, <2>3, <2>4
<1> QED BY <1>3, <1>4, <1>5, <1>6, <1>7, <1>8

\* The steps of the book.
LEMMA BookActions ==
  \A x \in SalesOrder :
    /\ \A items \in Basket :
         Book!Place(x, items) \/ Book!Sell(x, items) => Book!BookNext
    /\ Book!Complete(x) \/ Book!Cancel(x) => Book!BookNext
<1> TAKE x \in SalesOrder
<1>1. ASSUME NEW items \in Basket PROVE Book!Place(x, items) => Book!BookNext
  BY <1>1 DEF Book!BookNext, Basket
<1>2. ASSUME NEW items \in Basket PROVE Book!Sell(x, items) => Book!BookNext
  BY <1>2 DEF Book!BookNext, Basket
<1>3. Book!Complete(x) => Book!BookNext
  BY DEF Book!BookNext
<1>4. Book!Cancel(x) => Book!BookNext
  BY DEF Book!BookNext
<1> QED BY <1>1, <1>2, <1>3, <1>4

\* A commit is one step of the book.
LEMMA BookSteps ==
  ASSUME SalesInv, NEW h \in Handler, CommitSale(h)
  PROVE  Book!BookNext
<1> DEFINE s == salesOrders
<1> SUFFICES ASSUME NEW o, o = req[h].key,
                    NEW old, old = s.committed[o],
                    NEW row, row = s.current[o]
             PROVE  Book!BookNext
  OBVIOUS
<1> DEFINE book == [x \in SalesOrder |->
                      [status |-> s.committed[x].status,
                       items  |-> s.committed[x].items]]
           stock == [p \in Product |-> products.committed[p].stockQuantity]
<1>1. /\ o \in SalesOrder
      /\ Writes(req[h], todo[h], posted[h], s, h)
      /\ old.status # "NONE" => row.items = old.items
      /\ old.status = "NONE" => old = NoSalesOrder
      /\ \A x \in SalesOrder :
           s'.committed[x] = IF x = o THEN row ELSE s.committed[x]
      /\ \A p \in Product :
           /\ Pieces(row.items, p) \in Nat
           /\ posted[h][p] \in Int
           /\ stock[p] \in Int
           /\ stock'[p] = stock[p] + posted[h][p]
           /\ stock'[p] >= 0
  BY SaleCommits
<1>2. book' = [book EXCEPT ![o] = [status |-> row.status, items |-> row.items]]
  BY <1>1
<1>3. /\ book[o] = [status |-> old.status, items |-> old.items]
      /\ old.status = "NONE" => book[o] = Book!NoOrder
      /\ old.status # "NONE" => book[o] # Book!NoOrder
  BY <1>1 DEF NoSalesOrder, Book!NoOrder
<1>4. /\ old.status = "NONE" => row.items \in Basket
      /\ req[h].at = "shipLine" =>
           /\ row.status = "COMPLETED"
           /\ \A p \in Product :
                posted[h][p] + Pieces(row.items, p) = Pieces(todo[h], p)
      /\ req[h].at = "commit" =>
           /\ \A p \in Product : posted[h][p] = 0
           /\ \/ row.status = "PENDING" /\ old.status = "NONE"
              \/ row.status = "CANCELLED" /\ old.status = "PENDING"
  BY <1>1 DEF Writes, Still
<1>5. \/ req[h].at = "shipLine" /\ todo[h] = << >>
      \/ req[h].at = "commit"
  BY DEF CommitSale, At
<1>6. CASE req[h].at = "shipLine" /\ todo[h] = << >>
  <2>1. row.status = "COMPLETED"
    BY <1>4, <1>6
  <2>2. \A p \in Product : posted[h][p] = - Pieces(row.items, p)
    BY <1>1, <1>4, <1>6, PiecesNone
  <2>3. Book!Take(row.items)
    <3>1. \A p \in Product : stock'[p] = stock[p] - Pieces(row.items, p)
      BY <1>1, <2>2
    <3>2. \A p \in Product : stock[p] >= Pieces(row.items, p)
      BY <1>1, <3>1
    <3>3. stock' = [p \in Product |-> stock[p] - Pieces(row.items, p)]
      BY <3>1
    <3> QED BY <3>2, <3>3, UnitsArePieces DEF Book!Take
  <2>4. CASE old.status = "NONE"
    <3>1. Book!Sell(o, row.items)
      BY <1>2, <1>3, <2>1, <2>3, <2>4 DEF Book!Sell
    <3> QED BY <1>1, <1>4, <2>4, <3>1, BookActions
  <2>5. CASE old.status # "NONE"
    <3>1. book[o].items = row.items
      BY <1>1, <1>3, <2>5
    <3>2. book' = [book EXCEPT ![o].status = "COMPLETED"]
      <4>1. [book[o] EXCEPT !.status = "COMPLETED"]
              = [status |-> row.status, items |-> row.items]
        BY <1>3, <2>1, <3>1
      <4> HIDE DEF book
      <4> QED BY <1>2, <4>1
    <3>3. Book!Complete(o)
      <4>1. book[o] # Book!NoOrder
        BY <1>3, <2>5
      <4>2. /\ \A p \in Product : stock[p] >= Book!Units(book[o].items, p)
            /\ stock' = [p \in Product |-> stock[p] - Book!Units(book[o].items, p)]
        BY <2>3, <3>1 DEF Book!Take
      <4> QED BY <3>2, <4>1, <4>2, Zenon DEF Book!Complete, Book!Take
    <3> QED BY <1>1, <3>3, BookActions
  <2> QED BY <2>4, <2>5
<1>7. CASE req[h].at = "commit"
  <2>1. stock' = stock
    BY <1>1, <1>4, <1>7
  <2>2. CASE row.status = "PENDING" /\ old.status = "NONE"
    <3>1. Book!Place(o, row.items)
      BY <1>2, <1>3, <2>1, <2>2 DEF Book!Place
    <3> QED BY <1>1, <1>4, <2>2, <3>1, BookActions
  <2>3. CASE row.status = "CANCELLED" /\ old.status = "PENDING"
    <3>1. book[o].items = row.items
      BY <1>1, <1>3, <2>3
    <3>2. book' = [book EXCEPT ![o].status = "CANCELLED"]
      <4>1. [book[o] EXCEPT !.status = "CANCELLED"]
              = [status |-> row.status, items |-> row.items]
        BY <1>3, <2>3, <3>1
      <4> HIDE DEF book
      <4> QED BY <1>2, <4>1
    <3>3. Book!Cancel(o)
      BY <1>3, <2>1, <2>3, <3>2 DEF Book!Cancel
    <3> QED BY <1>1, <3>3, BookActions
  <2> QED BY <1>4, <1>7, <2>2, <2>3
<1> QED BY <1>5, <1>6, <1>7

\* Every other step leaves the book as it is.
LEMMA BookStands ==
  ASSUME SalesInv, NEW h \in Handler, SalesRequest(h) \/ SalesStep(h),
         ~ CommitSale(h)
  PROVE  UNCHANGED Book!bookVars
<1>1. /\ salesOrders \in Table(SalesOrder, SalesOrderRow, Handler)
      /\ products \in Table(Product, ProductRow, Handler)
  BY DEF SalesInv, SalesTables, StockInv, StockTypeOK
<1>2. CASE RollbackSale(h)
  BY <1>1, <1>2, Versions, BookStutters DEF RollbackSale, RollbackStock
<1>3. CASE SalesRequest(h) \/ InsertSalesOrder(h) \/ MarkCompleted(h)
  <2>1. products' = products /\ salesOrders'.committed = salesOrders.committed
    BY <1>1, <1>3
       DEF SalesRequest, BuildOrderItems, FindPendingSalesOrder,
           CancelSalesOrder, InsertSalesOrder, MarkCompleted, Update, Table,
           stockVars, salesVars
  <2> QED BY <2>1, BookStutters
<1>4. CASE ShipLine(h)
  <2>1. salesOrders' = salesOrders /\ products'.committed = products.committed
    BY <1>1, <1>4 DEF ShipLine, MoveStock, Update, Table, salesVars
  <2> QED BY <2>1, BookStutters
<1> QED BY <1>2, <1>3, <1>4
        DEF SalesStep, RefuseOrderNumber, RefuseShortage, ExpireSale

(***************************************************************************)
(* What a reader sees of sales is the order book: however the statements   *)
(* of SalesService interleave, and whichever transactions are rolled back, *)
(* every committed order and the stock of all of its products change in    *)
(* one step, which is a Place, a Sell, a Complete or a Cancel.             *)
(***************************************************************************)
THEOREM SalesImplementOrderBook == SalesSpec => ImplementsOrderBook
<1>1. SalesInv /\ [SalesNext]_salesOnlyVars => [Book!BookNext]_(Book!bookVars)
  <2> SUFFICES ASSUME SalesInv, [SalesNext]_salesOnlyVars
               PROVE  Book!BookNext \/ UNCHANGED Book!bookVars
    OBVIOUS
  <2>1. CASE UNCHANGED salesOnlyVars
    <3>1. UNCHANGED <<salesOrders, products>>
      BY <2>1 DEF salesOnlyVars, salesVars, stockVars
    <3> QED BY <3>1, BookStutters
  <2>2. ASSUME NEW h \in Handler, SalesRequest(h) \/ SalesStep(h)
        PROVE  Book!BookNext \/ UNCHANGED Book!bookVars
    BY <2>2, BookSteps, BookStands
  <2> QED BY <2>1, <2>2 DEF SalesNext
<1> QED BY <1>1, BookOpens, SalesAlways, PTL
        DEF SalesSpec, ImplementsOrderBook, Book!BookSpec

=============================================================================
