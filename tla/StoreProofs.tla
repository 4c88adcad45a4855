----------------------------- MODULE StoreProofs -----------------------------
(***************************************************************************)
(* The store, for any number of handlers, products, orders and tenants:    *)
(* it implements the abstract stock keeper, so its stock is never negative *)
(* and its ledger always accounts for it; a finished request holds no lock;*)
(* a request writes rows of its own tenant only; and stock moves under the *)
(* number of an order, a purchase order or a return exactly when its row   *)
(* says that it may.                                                       *)
(***************************************************************************)
EXTENDS Store, SequenceTheorems, TLAPS

-----------------------------------------------------------------------------
(***************************************************************************)
(* The abstract stock keeper: StockSpec keeps stock non-negative and the   *)
(* ledger in step with it.                                                 *)
(***************************************************************************)

(***************************************************************************)
(* A table keeps its type: whatever a statement of h writes at k is a row, *)
(* if k is a key at all.                                                   *)
(***************************************************************************)
LEMMA UpdateType ==
  ASSUME NEW K, NEW R, NEW H, NEW t \in Table(K, R, H),
         NEW h \in H, NEW k, NEW row, k \in K => row \in R
  PROVE  Update(t, h, k, row) \in Table(K, R, H)
BY DEF Update, Table

(***************************************************************************)
(* Committing or rolling back leaves a table.                              *)
(***************************************************************************)
LEMMA EndType ==
  ASSUME NEW K, NEW R, NEW H, NEW t \in Table(K, R, H), NEW h \in H
  PROVE  /\ Commit(t, h) \in Table(K, R, H)
         /\ Rollback(t, h) \in Table(K, R, H)
BY DEF Commit, Rollback, Visible, Table

(***************************************************************************)
(* A statement outside a transaction leaves a table.                       *)
(***************************************************************************)
LEMMA OverwriteType ==
  ASSUME NEW K, NEW R, NEW H, NEW t \in Table(K, R, H),
         NEW k, NEW row, k \in K => row \in R
  PROVE  Overwrite(t, k, row) \in Table(K, R, H)
BY DEF Overwrite, Table

(***************************************************************************)
(* A new table has no locks and a single version of every row.             *)
(***************************************************************************)
LEMMA NewTableType ==
  ASSUME NEW K, NEW R, NEW H, NEW rows \in [K -> R]
  PROVE  /\ NewTable(rows) \in Table(K, R, H)
         /\ Consistent(NewTable(rows))
BY DEF NewTable, Table, Consistent

(***************************************************************************)
(* Writing a figure and a cost into a product row gives a product row.     *)
(***************************************************************************)
LEMMA RowType ==
  ASSUME NEW row \in ProductRow, NEW stock \in Int, NEW cost \in Int
  PROVE  /\ [row EXCEPT !.stockQuantity = stock, !.averageCost = cost]
              \in ProductRow
         /\ [row EXCEPT !.stockQuantity = stock, !.averageCost = cost]
              .stockQuantity = stock
BY DEF ProductRow

(***************************************************************************)
(* The inductive invariant.  Consistent is needed because a handler that   *)
(* takes a free row starts from its newest version, and that must be the   *)
(* committed one for the rows it has posted to explain the difference.     *)
(***************************************************************************)
StockInv ==
  /\ StockTypeOK
  /\ Consistent(products)
  /\ StockNonNegative
  /\ LedgerAccountsForStock

\* The opening stock is consistent, and no ledger row exists.
LEMMA StockInitInv == StockInit => StockInv
<1> SUFFICES ASSUME StockInit PROVE StockInv
  OBVIOUS
<1>1. PICK rows \in OpeningRows :
         /\ products = NewTable(rows)
         /\ base = [p \in Product |-> rows[p].stockQuantity]
  BY DEF StockInit
<1>2. /\ rows \in [Product -> ProductRow]
      /\ \A p \in Product : rows[p].stockQuantity >= 0
  BY OpeningAssumption
<1>3. /\ posted = [h \in Handler |-> NoRows]
      /\ ledger = NoRows
  BY DEF StockInit
<1>4. products \in Table(Product, ProductRow, Handler) /\ Consistent(products)
  BY <1>1, <1>2, NewTableType
<1>5. StockTypeOK
  BY <1>1, <1>2, <1>3, <1>4 DEF StockTypeOK, NoRows, ProductRow
<1>6. StockNonNegative
  BY <1>1, <1>2 DEF StockNonNegative, NewTable
<1>7. LedgerAccountsForStock
  BY <1>1, <1>2, <1>3, OpeningAssumption
     DEF LedgerAccountsForStock, NewTable, NoRows, ProductRow
<1> QED BY <1>4, <1>5, <1>6, <1>7 DEF StockInv

\* A movement that leaves the stock non-negative keeps the invariant.
LEMMA MoveStockInv ==
  ASSUME StockInv, NEW h \in Handler, NEW p \in Product,
         NEW change \in Int, NEW cost \in Int,
         products.current[p].stockQuantity + change >= 0,
         MoveStock(h, p, change, cost)
  PROVE  StockInv'
<1> DEFINE row == [products.current[p] EXCEPT
                     !.stockQuantity = products.current[p].stockQuantity + change,
                     !.averageCost = cost]
<1>1. /\ products \in Table(Product, ProductRow, Handler)
      /\ products.current[p] \in ProductRow
  BY DEF StockInv, StockTypeOK, Table
<1>2. row \in ProductRow
      /\ row.stockQuantity = products.current[p].stockQuantity + change
  <2>1. products.current[p].stockQuantity + change \in Int
    BY <1>1 DEF ProductRow
  <2> QED BY <1>1, <2>1, RowType
<1>3. products' = Update(products, h, p, row)
  BY DEF MoveStock
<1>4. products' \in Table(Product, ProductRow, Handler)
  BY <1>1, <1>2, <1>3, UpdateType
<1>5. /\ products'.committed = products.committed
      /\ products'.current = [products.current EXCEPT ![p] = row]
      /\ products'.holder = [products.holder EXCEPT ![p] = h]
  BY <1>1, <1>3 DEF Update, Table
<1>6. /\ posted' \in [Handler -> [Product -> Int]]
      /\ posted'[h][p] = posted[h][p] + change
      /\ \A g \in Handler, q \in Product :
            g # h \/ q # p => posted'[g][q] = posted[g][q]
  BY DEF MoveStock, StockInv, StockTypeOK
<1>7. UNCHANGED <<ledger, base>>
  BY DEF MoveStock
<1>8. StockTypeOK'
  BY <1>4, <1>6, <1>7 DEF StockTypeOK, StockInv
<1>9. Consistent(products)'
  BY <1>1, <1>5, OpeningAssumption DEF Consistent, StockInv, Table
<1>10. StockNonNegative'
  BY <1>1, <1>2, <1>5 DEF StockNonNegative, StockInv, Table
<1>11. LedgerAccountsForStock'
  <2> SUFFICES ASSUME NEW q \in Product, NEW g \in Handler
               PROVE  /\ products'.committed[q].stockQuantity = base'[q] + ledger'[q]
                      /\ IF products'.holder[q] = g
                           THEN products'.current[q].stockQuantity
                                  = products'.committed[q].stockQuantity + posted'[g][q]
                           ELSE posted'[g][q] = 0
    BY <1>5, <1>7 DEF LedgerAccountsForStock, StockInv
  <2>1. products'.committed[q].stockQuantity = base'[q] + ledger'[q]
    BY <1>5, <1>7 DEF LedgerAccountsForStock, StockInv
  <2>2. CASE q # p
    BY <1>1, <1>5, <1>6, <2>1, <2>2 DEF LedgerAccountsForStock, StockInv, Table
  <2>3. CASE q = p /\ g # h
    <3>1. products.holder[p] # g
      BY <2>3, OpeningAssumption DEF MoveStock, Free
    <3> QED BY <1>1, <1>5, <1>6, <2>1, <2>3, <3>1
            DEF LedgerAccountsForStock, StockInv, Table
  <2>4. CASE q = p /\ g = h
    <3>1. products.current[p].stockQuantity
            = products.committed[p].stockQuantity + posted[h][p]
      <4>1. CASE products.holder[p] = h
        BY <4>1 DEF LedgerAccountsForStock, StockInv
      <4>2. CASE products.holder[p] = NoOne
        <5>1. products.current[p] = products.committed[p]
          BY <1>1, <4>2 DEF Consistent, StockInv, Table
        <5>2. posted[h][p] = 0
          BY <4>2, OpeningAssumption DEF LedgerAccountsForStock, StockInv
        <5> QED BY <1>1, <5>1, <5>2 DEF ProductRow
      <4> QED BY <4>1, <4>2 DEF MoveStock, Free
    <3>2. /\ products.current[p].stockQuantity \in Int
          /\ products.committed[p].stockQuantity \in Int
          /\ posted[h][p] \in Int
      BY <1>1 DEF StockInv, StockTypeOK, Table, ProductRow
    <3>3. products'.current[p].stockQuantity
            = products.current[p].stockQuantity + change
      BY <1>1, <1>2, <1>5 DEF Table
    <3> QED BY <1>1, <1>5, <1>6, <2>1, <2>4, <3>1, <3>2, <3>3 DEF Table
  <2> QED BY <2>1, <2>2, <2>3, <2>4
<1> QED BY <1>8, <1>9, <1>10, <1>11 DEF StockInv

\* A commit moves the pending rows into the ledger with the stock.
LEMMA CommitStockInv ==
  ASSUME StockInv, NEW h \in Handler, CommitStock(h)
  PROVE  StockInv'
<1>1. products \in Table(Product, ProductRow, Handler)
  BY DEF StockInv, StockTypeOK
<1>2. products' \in Table(Product, ProductRow, Handler)
  BY <1>1, EndType DEF CommitStock
<1>3. /\ products'.current = products.current
      /\ products'.committed = [p \in Product |->
           IF products.holder[p] = h THEN products.current[p]
                                     ELSE products.committed[p]]
      /\ products'.holder = [p \in Product |->
           IF products.holder[p] = h THEN NoOne ELSE products.holder[p]]
  BY <1>1 DEF CommitStock, Commit, Visible, Table
<1>4. /\ ledger' = [p \in Product |-> ledger[p] + posted[h][p]]
      /\ posted' = [posted EXCEPT ![h] = NoRows]
      /\ base' = base
  BY DEF CommitStock
<1>5. StockTypeOK'
  BY <1>2, <1>4 DEF StockTypeOK, StockInv, NoRows
<1>6. Consistent(products)'
  BY <1>1, <1>3 DEF Consistent, StockInv, Table
<1>7. StockNonNegative'
  BY <1>1, <1>3 DEF StockNonNegative, StockInv, Table
<1>8. LedgerAccountsForStock'
  <2>1. ASSUME NEW q \in Product
        PROVE  products'.committed[q].stockQuantity = base'[q] + ledger'[q]
    <3>1. /\ products.current[q].stockQuantity \in Int
          /\ products.committed[q].stockQuantity \in Int
          /\ posted[h][q] \in Int /\ ledger[q] \in Int /\ base[q] \in Int
      BY <1>1 DEF StockInv, StockTypeOK, Table, ProductRow
    <3>2. CASE products.holder[q] = h
      BY <1>3, <1>4, <3>1, <3>2 DEF LedgerAccountsForStock, StockInv
    <3>3. CASE products.holder[q] # h
      BY <1>3, <1>4, <3>1, <3>3 DEF LedgerAccountsForStock, StockInv
    <3> QED BY <3>2, <3>3
  <2>2. ASSUME NEW q \in Product, NEW g \in Handler
        PROVE  IF products'.holder[q] = g
                 THEN products'.current[q].stockQuantity
                        = products'.committed[q].stockQuantity + posted'[g][q]
                 ELSE posted'[g][q] = 0
    <3>1. CASE g = h
      BY <1>3, <1>4, <3>1, OpeningAssumption DEF NoRows, StockInv, StockTypeOK
    <3>2. CASE g # h
      <4>1. posted'[g] = posted[g]
        BY <1>4, <3>2 DEF StockInv, StockTypeOK
      <4>2. products.holder[q] = g <=> products'.holder[q] = g
        BY <1>3, <3>2, OpeningAssumption
      <4>3. products.holder[q] = g =>
              products'.committed[q] = products.committed[q]
        BY <1>3, <3>2
      <4> QED BY <1>3, <4>1, <4>2, <4>3 DEF LedgerAccountsForStock, StockInv
    <3> QED BY <3>1, <3>2
  <2> QED BY <2>1, <2>2 DEF LedgerAccountsForStock
<1> QED BY <1>5, <1>6, <1>7, <1>8 DEF StockInv

\* A rollback undoes the movement and its rows together.
LEMMA RollbackStockInv ==
  ASSUME StockInv, NEW h \in Handler, RollbackStock(h)
  PROVE  StockInv'
<1>1. products \in Table(Product, ProductRow, Handler)
  BY DEF StockInv, StockTypeOK
<1>2. products' \in Table(Product, ProductRow, Handler)
  BY <1>1, EndType DEF RollbackStock
<1>3. /\ products'.committed = products.committed
      /\ products'.current = [p \in Product |->
           IF products.holder[p] = h THEN products.committed[p]
                                     ELSE products.current[p]]
      /\ products'.holder = [p \in Product |->
           IF products.holder[p] = h THEN NoOne ELSE products.holder[p]]
  BY <1>1 DEF RollbackStock, Rollback, Table
<1>4. /\ posted' = [posted EXCEPT ![h] = NoRows]
      /\ UNCHANGED <<ledger, base>>
  BY DEF RollbackStock
<1>5. StockTypeOK'
  BY <1>2, <1>4 DEF StockTypeOK, StockInv, NoRows
<1>6. Consistent(products)'
  BY <1>1, <1>3 DEF Consistent, StockInv, Table
<1>7. StockNonNegative'
  BY <1>1, <1>3 DEF StockNonNegative, StockInv, Table
<1>8. LedgerAccountsForStock'
  <2>1. ASSUME NEW q \in Product
        PROVE  products'.committed[q].stockQuantity = base'[q] + ledger'[q]
    BY <1>3, <1>4 DEF LedgerAccountsForStock, StockInv
  <2>2. ASSUME NEW q \in Product, NEW g \in Handler
        PROVE  IF products'.holder[q] = g
                 THEN products'.current[q].stockQuantity
                        = products'.committed[q].stockQuantity + posted'[g][q]
                 ELSE posted'[g][q] = 0
    <3>1. CASE g = h
      BY <1>3, <1>4, <3>1, OpeningAssumption DEF NoRows, StockInv, StockTypeOK
    <3>2. CASE g # h
      <4>1. posted'[g] = posted[g]
        BY <1>4, <3>2 DEF StockInv, StockTypeOK
      <4>2. products.holder[q] = g <=> products'.holder[q] = g
        BY <1>3, <3>2, OpeningAssumption
      <4>3. products.holder[q] = g =>
              products'.current[q] = products.current[q]
        BY <1>3, <3>2
      <4> QED BY <1>3, <4>1, <4>2, <4>3 DEF LedgerAccountsForStock, StockInv
    <3> QED BY <3>1, <3>2
  <2> QED BY <2>1, <2>2 DEF LedgerAccountsForStock
<1> QED BY <1>5, <1>6, <1>7, <1>8 DEF StockInv

\* An overwrite moves the base by as much as the stock.
LEMMA SetProductInv ==
  ASSUME StockInv, NEW p \in Product, NEW row \in ProductRow,
         row.stockQuantity >= 0, SetProduct(p, row)
  PROVE  StockInv'
<1>1. products \in Table(Product, ProductRow, Handler)
  BY DEF StockInv, StockTypeOK
<1>2. products' \in Table(Product, ProductRow, Handler)
  BY <1>1, OverwriteType DEF SetProduct
<1>3. /\ products'.committed = [products.committed EXCEPT ![p] = row]
      /\ products'.current = [products.current EXCEPT ![p] = row]
      /\ products'.holder = products.holder
      /\ products.holder[p] = NoOne
  BY <1>1 DEF SetProduct, Overwrite, Table
<1>4. /\ base' = [base EXCEPT ![p] = @ + row.stockQuantity
                                       - products.committed[p].stockQuantity]
      /\ UNCHANGED <<posted, ledger>>
  BY DEF SetProduct
<1>5. StockTypeOK'
  <2>1. /\ products.committed[p].stockQuantity \in Int
        /\ row.stockQuantity \in Int
    BY <1>1 DEF Table, ProductRow
  <2> QED BY <1>2, <1>4, <2>1 DEF StockTypeOK, StockInv
<1>6. Consistent(products)'
  BY <1>1, <1>3 DEF Consistent, StockInv, Table
<1>7. StockNonNegative'
  BY <1>1, <1>3 DEF StockNonNegative, StockInv, Table
<1>8. LedgerAccountsForStock'
  <2>1. ASSUME NEW q \in Product
        PROVE  products'.committed[q].stockQuantity = base'[q] + ledger'[q]
    <3>1. /\ products.committed[q].stockQuantity \in Int
          /\ row.stockQuantity \in Int
          /\ ledger[q] \in Int /\ base[q] \in Int
      BY <1>1 DEF StockInv, StockTypeOK, Table, ProductRow
    <3> QED BY <1>1, <1>3, <1>4, <3>1
            DEF LedgerAccountsForStock, StockInv, StockTypeOK, Table
  <2>2. ASSUME NEW q \in Product, NEW g \in Handler
        PROVE  IF products'.holder[q] = g
                 THEN products'.current[q].stockQuantity
                        = products'.committed[q].stockQuantity + posted'[g][q]
                 ELSE posted'[g][q] = 0
    BY <1>1, <1>3, <1>4, OpeningAssumption
       DEF LedgerAccountsForStock, StockInv, Table
  <2> QED BY <2>1, <2>2 DEF LedgerAccountsForStock
<1> QED BY <1>5, <1>6, <1>7, <1>8 DEF StockInv

(***************************************************************************)
(* Every step of the abstract stock keeper preserves the invariant.        *)
(***************************************************************************)
LEMMA StockNextInv == StockInv /\ [StockNext]_stockVars => StockInv'
<1> SUFFICES ASSUME StockInv, [StockNext]_stockVars PROVE StockInv'
  OBVIOUS
<1>1. CASE UNCHANGED stockVars
  BY <1>1 DEF stockVars, StockInv, StockTypeOK, Consistent, StockNonNegative,
              LedgerAccountsForStock
<1>2. ASSUME NEW p \in Product, NEW row \in ProductRow,
             row.stockQuantity >= 0, SetProduct(p, row)
      PROVE  StockInv'
  BY <1>2, SetProductInv
<1>3. ASSUME NEW h \in Handler, NEW p \in Product, NEW change \in Int,
             NEW cost \in Int,
             products.current[p].stockQuantity + change >= 0,
             MoveStock(h, p, change, cost)
      PROVE  StockInv'
  BY <1>3, MoveStockInv
<1>4. ASSUME NEW h \in Handler, CommitStock(h) PROVE StockInv'
  BY <1>4, CommitStockInv
<1>5. ASSUME NEW h \in Handler, RollbackStock(h) PROVE StockInv'
  BY <1>5, RollbackStockInv
<1> QED BY <1>1, <1>2, <1>3, <1>4, <1>5 DEF StockNext

(***************************************************************************)
(* The stock rules hold of anything that touches stock only by StockNext.  *)
(***************************************************************************)
THEOREM StockSafe == StockSpec => []StockInv
<1>1. StockInit => StockInv
  BY StockInitInv
<1>2. StockInv /\ [StockNext]_stockVars => StockInv'
  BY StockNextInv
<1> QED BY <1>1, <1>2, PTL DEF StockSpec

-----------------------------------------------------------------------------
(***************************************************************************)
(* The store implements it.                                                *)
(***************************************************************************)

(***************************************************************************)
(* What a handler carries from one statement to the next: an order being   *)
(* built has a row for each of its products, a return being restocked has  *)
(* an item left, a product edit is about a product.                        *)
(***************************************************************************)
CarriedLocals ==
  \A h \in Handler :
    /\ req[h].at = "insertOrder" =>
         ProductsOf(todo[h]) \subseteq DOMAIN productMap[h]
    /\ req[h].at = "restock" => claim[h].items # << >>
    /\ req[h].at = "writeProduct" => req[h].key \in Product

StoreInv == StockInv /\ StoreTypeOK /\ CarriedLocals

-----------------------------------------------------------------------------

(***************************************************************************)
(* The rows buildOrderItemsData prepares are order items.                  *)
(***************************************************************************)
LEMMA OrderItemsType ==
  ASSUME NEW lines \in Seq(Line), NEW found,
         \A p \in DOMAIN found : found[p] \in ProductRow,
         ProductsOf(lines) \subseteq DOMAIN found
  PROVE  OrderItems(lines, found) \in Seq(OrderLine)
<1>1. ASSUME NEW i \in 1..Len(lines)
      PROVE  [product   |-> lines[i].product,
              quantity  |-> lines[i].quantity,
              unitPrice |-> lines[i].unitPrice,
              cogs      |-> found[lines[i].product].averageCost
                              * lines[i].quantity] \in OrderLine
  <2>1. lines[i] \in Line /\ DOMAIN lines = 1..Len(lines)
    BY ElementOfSeq, LenProperties
  <2>2. lines[i].product \in DOMAIN found
    BY <2>1 DEF ProductsOf
  <2>3. found[lines[i].product].averageCost \in Int
    BY <2>2 DEF ProductRow
  <2>4. found[lines[i].product].averageCost * lines[i].quantity \in Int
    BY <2>1, <2>3 DEF Line
  <2> QED BY <2>1, <2>4 DEF Line, OrderLine
<1>2. Len(lines) \in Nat
  BY LenProperties
<1> QED BY <1>1, <1>2, IsASeq DEF OrderItems

(***************************************************************************)
(* The average cost after a receipt is a number.                           *)
(***************************************************************************)
LEMMA NewAverageCostType ==
  ASSUME NEW product \in ProductRow, NEW line \in Line
  PROVE  NewAverageCost(product, line) \in Int
<1> DEFINE old == product.averageCost * product.stockQuantity
           new == line.unitPrice * line.quantity
           total == product.stockQuantity + line.quantity
<1>1. old \in Int /\ new \in Int /\ total \in Int /\ line.unitPrice \in Int
  BY DEF ProductRow, Line
<1>2. total > 0 => RoundedQuotient(old + new, total) \in Int
  <2> HIDE DEF old, new, total
  <2>1. SUFFICES ASSUME total > 0
                 PROVE  RoundedQuotient(old + new, total) \in Int
    OBVIOUS
  <2>2. 2 * (old + new) + total \in Int /\ 2 * total \in Int /\ 2 * total > 0
    BY <1>1, <2>1
  <2> QED BY <2>2 DEF RoundedQuotient
<1> QED BY <1>1, <1>2 DEF NewAverageCost

(***************************************************************************)
(* What createReturn prepares for an item of a completed order.            *)
(***************************************************************************)
LEMMA ReturnLineType ==
  ASSUME NEW orderLine \in OrderLine,
         NEW pick \in [item : LineNo, quantity : Nat \ {0}]
  PROVE  ToReturnLine(orderLine, pick) \in ReturnLine
<1>1. /\ orderLine.unitPrice * pick.quantity \in Int
      /\ orderLine.cogs \div orderLine.quantity \in Int
  BY DEF OrderLine
<1>2. (orderLine.cogs \div orderLine.quantity) * pick.quantity \in Int
  BY <1>1
<1> QED BY <1>1, <1>2 DEF ToReturnLine, ReturnLine, OrderLine

-----------------------------------------------------------------------------
(***************************************************************************)
(* What each component does to stock is a step of the abstract keeper.     *)
(***************************************************************************)

\* The figures of a product's newest row.
LEMMA ProductFigures ==
  ASSUME StockInv, NEW p \in Product
  PROVE  /\ products.current[p] \in ProductRow
         /\ products.committed[p] \in ProductRow
         /\ products.current[p].averageCost \in Int
         /\ products.current[p].stockQuantity \in Int
         /\ products.current[p].stockQuantity >= 0
         /\ products.committed[p].stockQuantity >= 0
BY DEF StockInv, StockTypeOK, StockNonNegative, Table, ProductRow

\* A rollback is a step of the abstract stock specification.
LEMMA RollbackIsStockStep ==
  ASSUME NEW h \in Handler, RollbackStock(h)
  PROVE  StockNext
BY DEF StockNext

\* A commit is a step of the abstract stock specification.
LEMMA CommitIsStockStep ==
  ASSUME NEW h \in Handler, CommitStock(h)
  PROVE  StockNext
BY DEF StockNext

\* So is a movement that leaves the stock non-negative.
LEMMA MoveIsStockStep ==
  ASSUME NEW h \in Handler, NEW p \in Product, NEW change \in Int,
         NEW cost \in Int,
         products.current[p].stockQuantity + change >= 0,
         MoveStock(h, p, change, cost)
  PROVE  StockNext
BY DEF StockNext

\* Every action of SalesService is a stock step or leaves stock alone.
LEMMA SalesStock ==
  ASSUME StoreInv, NEW h \in Handler, SalesRequest(h) \/ SalesStep(h)
  PROVE  [StockNext]_stockVars
<1>1. CASE SalesRequest(h)
  BY <1>1 DEF SalesRequest, BuildOrderItems, FindPendingSalesOrder,
              CancelSalesOrder
<1>2. CASE InsertSalesOrder(h) \/ MarkCompleted(h)
  BY <1>2 DEF InsertSalesOrder, MarkCompleted
<1>3. CASE ShipLine(h)
  <2> DEFINE line == Head(todo[h])
             p == line.product
  <2>1. line \in Line
    BY <1>3, HeadTailProperties
       DEF ShipLine, StoreInv, StoreTypeOK, RequestsTypeOK
  <2>2. /\ p \in Product
        /\ line.quantity \in Nat
        /\ - line.quantity \in Int
    BY <2>1 DEF Line
  <2>3. products.current[p].averageCost \in Int
    BY <2>2, ProductFigures DEF StoreInv
  <2>4. products.current[p].stockQuantity + (- line.quantity) >= 0
    <3>1. products.current[p].stockQuantity >= line.quantity
      BY <1>3 DEF ShipLine, InStock
    <3>2. products.current[p].stockQuantity \in Int
      BY <2>2, ProductFigures DEF StoreInv
    <3> HIDE DEF line
    <3> QED BY <2>2, <3>1, <3>2
  <2>5. MoveStock(h, p, - line.quantity, products.current[p].averageCost)
    BY <1>3 DEF ShipLine
  <2> QED BY <2>2, <2>3, <2>4, <2>5, MoveIsStockStep
<1>4. CASE CommitSale(h)
  BY <1>4, CommitIsStockStep DEF CommitSale
<1>5. CASE RefuseOrderNumber(h) \/ RefuseShortage(h) \/ ExpireSale(h)
  BY <1>5, RollbackIsStockStep
     DEF RefuseOrderNumber, RefuseShortage, ExpireSale, RollbackSale
<1> QED BY <1>1, <1>2, <1>3, <1>4, <1>5 DEF SalesStep

\* Every action of createReturn is a stock step or leaves stock alone.
LEMMA ReturnsStock ==
  ASSUME StoreInv, NEW h \in Handler, ReturnsRequest(h) \/ ReturnsStep(h)
  PROVE  [StockNext]_stockVars
<1>1. CASE ReturnsRequest(h)
  BY <1>1 DEF ReturnsRequest, CheckReturn
<1>2. CASE InsertSalesReturn(h) \/ IncrementReturned(h) \/ ReduceTotals(h)
  BY <1>2 DEF InsertSalesReturn, IncrementReturned, ReduceTotals
<1>3. CASE Restock(h)
  <2> DEFINE line == Head(claim[h].items)
             p == line.product
  <2>1. claim[h].items \in Seq(ReturnLine) /\ claim[h].items # << >>
    BY <1>3 DEF Restock, At, StoreInv, StoreTypeOK, ReturnsTypeOK, CarriedLocals
  <2>2. line \in ReturnLine
    BY <2>1, HeadTailProperties
  <2>3. p \in Product /\ line.quantity \in Nat /\ line.quantity \in Int
    BY <2>2 DEF ReturnLine
  <2>4. products.current[p].averageCost \in Int
    BY <2>3, ProductFigures DEF StoreInv
  <2>5. products.current[p].stockQuantity + line.quantity >= 0
    BY <2>3, ProductFigures DEF StoreInv
  <2>6. MoveStock(h, p, line.quantity, products.current[p].averageCost)
    BY <1>3 DEF Restock
  <2> QED BY <2>3, <2>4, <2>5, <2>6, MoveIsStockStep
<1>4. CASE CommitReturn(h)
  BY <1>4, CommitIsStockStep DEF CommitReturn
<1>5. CASE RefuseReturnNumber(h) \/ ExpireReturn(h)
  BY <1>5, RollbackIsStockStep
     DEF RefuseReturnNumber, ExpireReturn, RollbackReturn
<1> QED BY <1>1, <1>2, <1>3, <1>4, <1>5 DEF ReturnsStep

\* Every action of PurchaseService is a stock step or leaves stock alone.
LEMMA PurchaseStock ==
  ASSUME StoreInv, NEW h \in Handler, PurchaseRequest(h) \/ PurchaseStep(h)
  PROVE  [StockNext]_stockVars
<1>1. CASE PurchaseRequest(h)
  BY <1>1 DEF PurchaseRequest, InsertPurchaseOrder, FindPurchaseOrder,
              CancelPurchaseOrder
<1>2. CASE MarkReceived(h) \/ FindReceivedProducts(h)
  BY <1>2 DEF MarkReceived, FindReceivedProducts
<1>3. CASE ReceiveLine(h)
  <2> DEFINE line == Head(todo[h])
             p == line.product
             cost == NewAverageCost(productMap[h][p], line)
  <2>1. line \in Line
    BY <1>3, HeadTailProperties
       DEF ReceiveLine, StoreInv, StoreTypeOK, RequestsTypeOK
  <2>2. p \in Product /\ line.quantity \in Nat /\ line.quantity \in Int
    BY <2>1 DEF Line
  <2>3. productMap[h][p] \in ProductRow
    BY <1>3 DEF ReceiveLine, StoreInv, StoreTypeOK, RequestsTypeOK
  <2>4. cost \in Int
    BY <2>1, <2>3, NewAverageCostType
  <2>5. products.current[p].stockQuantity + line.quantity >= 0
    BY <2>2, ProductFigures DEF StoreInv
  <2>6. MoveStock(h, p, line.quantity, cost)
    BY <1>3 DEF ReceiveLine
  <2> HIDE DEF line, cost
  <2> QED BY <2>2, <2>4, <2>5, <2>6, MoveIsStockStep
<1>4. CASE CommitPurchase(h)
  BY <1>4, CommitIsStockStep DEF CommitPurchase
<1>5. CASE RefuseForeignProduct(h) \/ ExpirePurchase(h)
  BY <1>5, RollbackIsStockStep
     DEF RefuseForeignProduct, ExpirePurchase, RollbackPurchase
<1> QED BY <1>1, <1>2, <1>3, <1>4, <1>5 DEF PurchaseStep

\* Every adjustment, PATCH and DELETE is a stock step or leaves stock alone.
LEMMA InventoryStock ==
  ASSUME StoreInv, NEW h \in Handler, InventoryRequest(h) \/ InventoryStep(h)
  PROVE  [StockNext]_stockVars
<1>1. ASSUME NEW p \in Product, NEW change \in QuantityChanges,
             NEW type \in TransactionType, AdjustStock(h, p, change, type)
      PROVE  StockNext
  <2> DEFINE moved == StockChange(change, type)
  <2>1. moved \in Int
    BY InventoryAssumption DEF StockChange, Abs, TransactionType
  <2>2. moved < 0 => products.current[p].stockQuantity >= - moved
    BY <1>1 DEF AdjustStock
  <2>3. MoveStock(h, p, moved, products.current[p].averageCost)
    BY <1>1 DEF AdjustStock
  <2> HIDE DEF moved
  <2>4. products.current[p].stockQuantity + moved >= 0
    BY <2>1, <2>2, ProductFigures DEF StoreInv
  <2>5. products.current[p].averageCost \in Int
    BY ProductFigures DEF StoreInv
  <2> QED BY <2>1, <2>3, <2>4, <2>5, MoveIsStockStep
<1>2. ASSUME NEW p \in Product, NEW op, FindProduct(h, op, p)
      PROVE  UNCHANGED stockVars
  BY <1>2 DEF FindProduct
<1>3. CASE CommitAdjustment(h)
  BY <1>3, CommitIsStockStep DEF CommitAdjustment
<1>4. ASSUME NEW stock \in PatchedStocks, UpdateProduct(h, stock)
      PROVE  StockNext
  <2> DEFINE p == req[h].key
             row == [products.committed[p] EXCEPT !.stockQuantity = stock]
  <2>1. p \in Product
    BY <1>4 DEF UpdateProduct, At, StoreInv, CarriedLocals
  <2>2. row \in ProductRow /\ row.stockQuantity >= 0
    BY <2>1, ProductFigures, InventoryAssumption DEF StoreInv, ProductRow
  <2> QED BY <1>4, <2>1, <2>2 DEF UpdateProduct, StockNext
<1>5. CASE RemoveProduct(h)
  <2> DEFINE p == req[h].key
             row == [products.committed[p] EXCEPT !.deletedAt = "set"]
  <2>1. p \in Product
    BY <1>5 DEF RemoveProduct, At, StoreInv, CarriedLocals
  <2>2. row \in ProductRow /\ row.stockQuantity >= 0
    BY <2>1, ProductFigures DEF StoreInv, ProductRow
  <2> QED BY <1>5, <2>1, <2>2 DEF RemoveProduct, StockNext
<1>6. CASE ExpireInventory(h)
  BY <1>6, RollbackIsStockStep DEF ExpireInventory
<1> QED BY <1>1, <1>2, <1>3, <1>4, <1>5, <1>6
        DEF InventoryRequest, InventoryStep

-----------------------------------------------------------------------------
(***************************************************************************)
(* Types.  A step of handler h changes the locals of h only, so what it    *)
(* leaves in them is all there is to check.                                *)
(***************************************************************************)
LEMMA LocalsTyped ==
  ASSUME StoreInv, NEW h \in Handler,
         NEW r \in Request, NEW lines \in Seq(Line), NEW found,
         DOMAIN found \subseteq Product,
         \A p \in DOMAIN found : found[p] \in ProductRow,
         req' = [req EXCEPT ![h] = r],
         todo' = [todo EXCEPT ![h] = lines],
         DOMAIN productMap' = DOMAIN productMap,
         productMap'[h] = found,
         \A g \in Handler : g # h => productMap'[g] = productMap[g],
         \A g \in Handler : g # h => claim'[g] = claim[g],
         r.at = "insertOrder" => ProductsOf(lines) \subseteq DOMAIN found,
         r.at = "restock" => claim'[h].items # << >>,
         r.at = "writeProduct" => r.key \in Product
  PROVE  RequestsTypeOK' /\ CarriedLocals'
<1>1. RequestsTypeOK /\ CarriedLocals
  BY DEF StoreInv, StoreTypeOK
<1>2. /\ req' \in [Handler -> Request]
      /\ todo' \in [Handler -> Seq(Line)]
      /\ DOMAIN productMap' = Handler
  BY <1>1 DEF RequestsTypeOK
<1>3. /\ req'[h] = r /\ todo'[h] = lines /\ productMap'[h] = found
      /\ \A g \in Handler : g # h => /\ req'[g] = req[g]
                                     /\ todo'[g] = todo[g]
                                     /\ productMap'[g] = productMap[g]
  BY <1>1 DEF RequestsTypeOK
<1>4. RequestsTypeOK'
  <2> SUFFICES ASSUME NEW g \in Handler
               PROVE  /\ DOMAIN productMap'[g] \subseteq Product
                      /\ \A p \in DOMAIN productMap'[g] :
                            productMap'[g][p] \in ProductRow
    BY <1>2 DEF RequestsTypeOK, Request, ProductRow, Line
  <2>1. CASE g = h
    BY <1>3, <2>1
  <2>2. CASE g # h
    BY <1>1, <1>3, <2>2 DEF RequestsTypeOK
  <2> QED BY <2>1, <2>2
<1>5. CarriedLocals'
  <2> SUFFICES ASSUME NEW g \in Handler
               PROVE  /\ req'[g].at = "insertOrder" =>
                           ProductsOf(todo'[g]) \subseteq DOMAIN productMap'[g]
                      /\ req'[g].at = "restock" => claim'[g].items # << >>
                      /\ req'[g].at = "writeProduct" => req'[g].key \in Product
    BY DEF CarriedLocals, ProductsOf
  <2>1. CASE g = h
    BY <1>3, <2>1
  <2>2. CASE g # h
    BY <1>1, <1>3, <2>2 DEF CarriedLocals
  <2> QED BY <2>1, <2>2
<1> QED BY <1>4, <1>5

\* The locals of a handler as they are now, and the ones of an idle handler.
LEMMA LocalFacts ==
  ASSUME StoreInv, NEW h \in Handler
  PROVE  /\ req[h] \in Request
         /\ todo[h] \in Seq(Line)
         /\ DOMAIN productMap[h] \subseteq Product
         /\ \A p \in DOMAIN productMap[h] : productMap[h][p] \in ProductRow
         /\ req = [req EXCEPT ![h] = req[h]]
         /\ todo = [todo EXCEPT ![h] = todo[h]]
         /\ claim \in [Handler ->
              [order : SalesOrder \cup {NoKey}, items : Seq(ReturnLine),
               returnedCogs : Int, returnedProfit : Int]]
         /\ IdleRequest \in Request
         /\ << >> \in Seq(Line)
         /\ DOMAIN NothingFound = {}
BY EmptySeq DEF StoreInv, StoreTypeOK, RequestsTypeOK, ReturnsTypeOK,
                IdleRequest, Request, Statement, NothingFound

\* The response clears the locals and keeps their types.
LEMMA RespondTyped ==
  ASSUME StoreInv, NEW h \in Handler, Respond(h),
         \A g \in Handler : g # h => claim'[g] = claim[g]
  PROVE  RequestsTypeOK' /\ CarriedLocals'
<1>1. /\ DOMAIN productMap' = DOMAIN productMap
      /\ productMap'[h] = NothingFound
      /\ \A g \in Handler : g # h => productMap'[g] = productMap[g]
  BY DEF Respond, StoreInv, StoreTypeOK, RequestsTypeOK
<1>2. IdleRequest.at = "idle"
  BY DEF IdleRequest
<1> QED BY <1>1, <1>2, LocalFacts, LocalsTyped DEF Respond

\* Moving on to the next statement keeps the types of the locals.
LEMMA GotoTyped ==
  ASSUME StoreInv, NEW h \in Handler, NEW statement \in Statement,
         Goto(h, statement), UNCHANGED <<todo, productMap, claim>>,
         statement \notin {"insertOrder", "restock", "writeProduct"}
  PROVE  RequestsTypeOK' /\ CarriedLocals'
<1> DEFINE r == [req[h] EXCEPT !.at = statement]
<1>1. r \in Request /\ r.at = statement
  BY LocalFacts DEF Request
<1>2. req' = [req EXCEPT ![h] = r]
  BY DEF Goto
<1> HIDE DEF r
<1> QED BY <1>1, <1>2, LocalFacts, LocalsTyped

\* A new request has well-typed locals.
LEMMA BeginTyped ==
  ASSUME StoreInv, NEW h \in Handler, NEW op \in Op, NEW key \in Key,
         NEW statement \in Statement,
         Begin(h, op, key, statement),
         NEW lines \in Seq(Line), todo' = [todo EXCEPT ![h] = lines],
         UNCHANGED productMap,
         \A g \in Handler : g # h => claim'[g] = claim[g],
         statement \notin {"insertOrder", "restock"},
         statement = "writeProduct" => key \in Product
  PROVE  RequestsTypeOK' /\ CarriedLocals'
<1> DEFINE r == [op |-> op, at |-> statement, key |-> key]
<1>1. r \in Request /\ r.at = statement /\ r.key = key
  BY DEF Request
<1>2. req' = [req EXCEPT ![h] = r]
  BY DEF Begin
<1> HIDE DEF r
<1> QED BY <1>1, <1>2, LocalFacts, LocalsTyped

(***************************************************************************)
(* findMany returns product rows, whichever ids it is asked for.           *)
(***************************************************************************)
LEMMA FindProductsType ==
  ASSUME StoreInv, NEW h \in Handler, NEW lines \in Seq(Line)
  PROVE  /\ DOMAIN FindProducts(h, lines) \subseteq Product
         /\ \A p \in DOMAIN FindProducts(h, lines) :
               FindProducts(h, lines)[p] \in ProductRow
<1>1. ProductsOf(lines) \subseteq Product
  <2> SUFFICES ASSUME NEW i \in DOMAIN lines PROVE lines[i].product \in Product
    BY DEF ProductsOf
  <2>1. DOMAIN lines = 1..Len(lines)
    BY LenProperties
  <2>2. lines[i] \in Line
    BY <2>1, ElementOfSeq
  <2> QED BY <2>2 DEF Line
<1>2. \A p \in Product : Visible(products, h, p) \in ProductRow
  BY ProductFigures DEF StoreInv, Visible
<1> QED BY <1>1, <1>2 DEF FindProducts

\* A step of one component leaves the others as they are.
LEMMA OthersTyped ==
  ASSUME StoreInv
  PROVE  /\ UNCHANGED salesVars => SalesTypeOK'
         /\ UNCHANGED returnsVars => ReturnsTypeOK'
         /\ UNCHANGED purchaseVars => PurchaseTypeOK'
BY DEF StoreInv, StoreTypeOK, SalesTypeOK, ReturnsTypeOK, PurchaseTypeOK,
       salesVars, returnsVars, purchaseVars

ComponentTypes ==
  RequestsTypeOK /\ SalesTypeOK /\ ReturnsTypeOK /\ PurchaseTypeOK
    /\ CarriedLocals

\* The actions of Inventory keep the types of the request state.
LEMMA InventoryTypes ==
  ASSUME StoreInv, NEW h \in Handler, InventoryRequest(h) \/ InventoryStep(h),
         UNCHANGED <<salesVars, returnsVars, purchaseVars>>
  PROVE  ComponentTypes'
<1>1. UNCHANGED claim /\ \A g \in Handler : g # h => claim'[g] = claim[g]
  BY DEF returnsVars
<1>2. SalesTypeOK' /\ ReturnsTypeOK' /\ PurchaseTypeOK'
  BY OthersTyped
<1>3. CASE InventoryRequest(h)
  <2>1. ASSUME NEW p \in Product, NEW change \in QuantityChanges,
               NEW type \in TransactionType, AdjustStock(h, p, change, type)
        PROVE  RequestsTypeOK' /\ CarriedLocals'
    <3>1. /\ Begin(h, "adjustStock", p, "commit")
          /\ todo' = [todo EXCEPT ![h] = todo[h]]
          /\ UNCHANGED productMap
      BY <2>1, LocalFacts DEF AdjustStock
    <3>2. /\ "adjustStock" \in Op
          /\ "commit" \in Statement
          /\ p \in Key
          /\ todo[h] \in Seq(Line)
      BY LocalFacts, InventoryAssumption DEF Op, InventoryOp, Statement
    <3> QED BY <1>1, <3>1, <3>2, BeginTyped
  <2>2. ASSUME NEW p \in Product, NEW op \in {"updateProduct", "removeProduct"},
               FindProduct(h, op, p)
        PROVE  RequestsTypeOK' /\ CarriedLocals'
    <3>1. /\ Begin(h, op, p, "writeProduct")
          /\ todo' = [todo EXCEPT ![h] = todo[h]]
          /\ UNCHANGED productMap
      BY <2>2, LocalFacts DEF FindProduct
    <3>2. /\ op \in Op
          /\ "writeProduct" \in Statement
          /\ p \in Key
          /\ todo[h] \in Seq(Line)
      BY LocalFacts, InventoryAssumption DEF Op, InventoryOp, Statement
    <3> QED BY <1>1, <3>1, <3>2, BeginTyped
  <2> QED BY <1>2, <1>3, <2>1, <2>2 DEF InventoryRequest, ComponentTypes
<1>4. CASE InventoryStep(h)
  <2>1. Respond(h)
    BY <1>4 DEF InventoryStep, CommitAdjustment, UpdateProduct, RemoveProduct,
                ExpireInventory
  <2> QED BY <1>1, <1>2, <2>1, RespondTyped DEF ComponentTypes
<1> QED BY <1>3, <1>4

(***************************************************************************)
(* A tally per number and product stays one when rows are added to it or   *)
(* taken off.                                                              *)
(***************************************************************************)
LEMMA TallyType ==
  ASSUME NEW K, NEW tally \in [K -> [Product -> Int]],
         NEW rows \in [Product -> Int], NEW k
  PROVE  /\ [tally EXCEPT ![k] = [p \in Product |-> @[p] + rows[p]]]
              \in [K -> [Product -> Int]]
         /\ [tally EXCEPT ![k] = [p \in Product |-> @[p] - rows[p]]]
              \in [K -> [Product -> Int]]
<1>1. CASE k \in K
  <2>1. /\ [p \in Product |-> tally[k][p] + rows[p]] \in [Product -> Int]
        /\ [p \in Product |-> tally[k][p] - rows[p]] \in [Product -> Int]
    BY <1>1
  <2> QED BY <2>1
<1>2. CASE k \notin K
  BY <1>2
<1> QED BY <1>1, <1>2

\* The purchase order rows that handlers read are well typed.
LEMMA PurchaseRows ==
  ASSUME StoreInv
  PROVE  /\ purchaseOrders \in Table(PurchaseOrder, PurchaseOrderRow, Handler)
         /\ \A o \in PurchaseOrder :
              /\ purchaseOrders.current[o] \in PurchaseOrderRow
              /\ purchaseOrders.committed[o].items \in Seq(Line)
              /\ [purchaseOrders.current[o] EXCEPT !.status = "RECEIVED"]
                   \in PurchaseOrderRow
              /\ [purchaseOrders.current[o] EXCEPT !.status = "CANCELLED"]
                   \in PurchaseOrderRow
         /\ arrived \in [PurchaseOrder -> [Product -> Int]]
         /\ posted \in [Handler -> [Product -> Int]]
<1>1. /\ purchaseOrders \in Table(PurchaseOrder, PurchaseOrderRow, Handler)
      /\ arrived \in [PurchaseOrder -> [Product -> Int]]
      /\ posted \in [Handler -> [Product -> Int]]
  BY DEF StoreInv, StoreTypeOK, StockTypeOK, PurchaseTypeOK
<1>2. \A o \in PurchaseOrder :
         /\ purchaseOrders.current[o] \in PurchaseOrderRow
         /\ purchaseOrders.committed[o] \in PurchaseOrderRow
  BY <1>1 DEF Table
<1>3. \A row \in PurchaseOrderRow :
         /\ row.items \in Seq(Line)
         /\ [row EXCEPT !.status = "RECEIVED"] \in PurchaseOrderRow
         /\ [row EXCEPT !.status = "CANCELLED"] \in PurchaseOrderRow
  BY DEF PurchaseOrderRow
<1> QED BY <1>1, <1>2, <1>3

\* The actions of Purchase keep every type.
LEMMA PurchaseTypes ==
  ASSUME StoreInv, NEW h \in Handler, PurchaseRequest(h) \/ PurchaseStep(h),
         UNCHANGED <<salesVars, returnsVars>>
  PROVE  ComponentTypes'
<1> DEFINE Types == RequestsTypeOK /\ PurchaseTypeOK /\ CarriedLocals
<1>1. UNCHANGED claim /\ \A g \in Handler : g # h => claim'[g] = claim[g]
  BY DEF returnsVars
<1>2. SalesTypeOK' /\ ReturnsTypeOK'
  BY OthersTyped
<1> SUFFICES Types'
  BY <1>2 DEF ComponentTypes
<1>3. ASSUME NEW o \in PurchaseOrder, NEW cart \in PurchaseCarts,
             NEW op \in {"createPurchaseOrder", "createPendingPurchaseOrder"},
             InsertPurchaseOrder(h, op, o, cart)
      PROVE  Types'
  <2> DEFINE arrives == op = "createPurchaseOrder"
             at == IF arrives THEN "findProducts" ELSE "commit"
             lines == IF arrives THEN cart ELSE << >>
             row == [status |-> IF arrives THEN "RECEIVED" ELSE "PENDING",
                     items |-> cart]
  <2>1. /\ Begin(h, op, o, at)
        /\ todo' = [todo EXCEPT ![h] = lines]
        /\ purchaseOrders' = Update(purchaseOrders, h, o, row)
        /\ UNCHANGED <<productMap, arrived>>
    BY <1>3 DEF InsertPurchaseOrder
  <2>2. /\ op \in Op /\ o \in Key /\ at \in Statement
        /\ at \notin {"insertOrder", "restock", "writeProduct"}
        /\ cart \in Seq(Line) /\ lines \in Seq(Line)
    BY PurchaseAssumption, LocalFacts DEF Op, PurchaseOp, Statement
  <2>3. row \in PurchaseOrderRow
    BY <2>2 DEF PurchaseOrderRow
  <2> HIDE DEF at, lines, row
  <2>4. RequestsTypeOK' /\ CarriedLocals'
    BY <1>1, <2>1, <2>2, BeginTyped
  <2>5. PurchaseTypeOK'
    BY <2>1, <2>3, PurchaseRows, UpdateType DEF PurchaseTypeOK
  <2> QED BY <2>4, <2>5
<1>4. ASSUME NEW o \in PurchaseOrder, FindPurchaseOrder(h, o)
      PROVE  Types'
  <2>1. /\ Begin(h, "receivePurchaseOrder", o, "markReceived")
        /\ todo' = [todo EXCEPT ![h] = purchaseOrders.committed[o].items]
        /\ UNCHANGED <<productMap, purchaseVars>>
    BY <1>4 DEF FindPurchaseOrder
  <2>2. /\ "receivePurchaseOrder" \in Op /\ o \in Key
        /\ "markReceived" \in Statement
        /\ "markReceived" \notin {"insertOrder", "restock", "writeProduct"}
        /\ purchaseOrders.committed[o].items \in Seq(Line)
    BY PurchaseAssumption, PurchaseRows DEF Op, PurchaseOp, Statement
  <2>3. RequestsTypeOK' /\ CarriedLocals'
    BY <1>1, <2>1, <2>2, BeginTyped
  <2> QED BY <2>1, <2>3, OthersTyped
<1>5. ASSUME NEW o \in PurchaseOrder, CancelPurchaseOrder(h, o)
      PROVE  Types'
  <2>1. /\ Begin(h, "cancelPurchaseOrder", o, "commit")
        /\ todo' = [todo EXCEPT ![h] = todo[h]]
        /\ purchaseOrders' = Update(purchaseOrders, h, o,
              [purchaseOrders.current[o] EXCEPT !.status = "CANCELLED"])
        /\ UNCHANGED <<productMap, arrived>>
    BY <1>5, LocalFacts DEF CancelPurchaseOrder
  <2>2. /\ "cancelPurchaseOrder" \in Op /\ o \in Key /\ "commit" \in Statement
        /\ "commit" \notin {"insertOrder", "restock", "writeProduct"}
        /\ todo[h] \in Seq(Line)
    BY PurchaseAssumption, LocalFacts DEF Op, PurchaseOp, Statement
  <2>3. RequestsTypeOK' /\ CarriedLocals'
    BY <1>1, <2>1, <2>2, BeginTyped
  <2>4. PurchaseTypeOK'
    BY <2>1, PurchaseRows, UpdateType DEF PurchaseTypeOK
  <2> QED BY <2>3, <2>4
<1>6. CASE MarkReceived(h)
  <2> DEFINE o == req[h].key
  <2>1. /\ Goto(h, "findProducts")
        /\ purchaseOrders' = Update(purchaseOrders, h, o,
              [purchaseOrders.current[o] EXCEPT !.status = "RECEIVED"])
        /\ UNCHANGED <<todo, productMap, arrived>>
    BY <1>6 DEF MarkReceived
  <2>2. "findProducts" \in Statement
    BY DEF Statement
  <2>3. RequestsTypeOK' /\ CarriedLocals'
    BY <1>1, <2>1, <2>2, GotoTyped
  <2>4. PurchaseTypeOK'
    BY <2>1, PurchaseRows, UpdateType DEF PurchaseTypeOK
  <2> QED BY <2>3, <2>4
<1>7. CASE FindReceivedProducts(h)
  <2> DEFINE r == [req[h] EXCEPT !.at = "receiveLine"]
             found == FindProducts(h, todo[h])
  <2>1. r \in Request /\ r.at = "receiveLine"
    BY LocalFacts DEF Request, Statement
  <2>2. /\ req' = [req EXCEPT ![h] = r]
        /\ todo' = [todo EXCEPT ![h] = todo[h]]
        /\ DOMAIN productMap' = DOMAIN productMap
        /\ productMap'[h] = found
        /\ \A g \in Handler : g # h => productMap'[g] = productMap[g]
        /\ UNCHANGED purchaseVars
    BY <1>7, LocalFacts
       DEF FindReceivedProducts, Goto, StoreInv, StoreTypeOK, RequestsTypeOK
  <2>3. /\ todo[h] \in Seq(Line)
        /\ DOMAIN found \subseteq Product
        /\ \A p \in DOMAIN found : found[p] \in ProductRow
    BY LocalFacts, FindProductsType
  <2> HIDE DEF r, found
  <2>4. RequestsTypeOK' /\ CarriedLocals'
    BY <1>1, <2>1, <2>2, <2>3, LocalsTyped
  <2> QED BY <2>2, <2>4, OthersTyped
<1>8. CASE ReceiveLine(h)
  <2>1. /\ req' = [req EXCEPT ![h] = req[h]]
        /\ todo' = [todo EXCEPT ![h] = Tail(todo[h])]
        /\ todo[h] # << >>
        /\ req[h].at = "receiveLine"
        /\ UNCHANGED <<productMap, purchaseVars>>
    BY <1>8, LocalFacts DEF ReceiveLine, At
  <2>2. Tail(todo[h]) \in Seq(Line)
    BY <2>1, LocalFacts, HeadTailProperties
  <2>3. RequestsTypeOK' /\ CarriedLocals'
    BY <1>1, <2>1, <2>2, LocalFacts, LocalsTyped
  <2> QED BY <2>1, <2>3, OthersTyped
<1>9. CASE CommitPurchase(h)
  <2>1. RequestsTypeOK' /\ CarriedLocals'
    BY <1>1, <1>9, RespondTyped DEF CommitPurchase
  <2>2. PurchaseTypeOK'
    <3>1. purchaseOrders' \in Table(PurchaseOrder, PurchaseOrderRow, Handler)
      BY <1>9, PurchaseRows, EndType DEF CommitPurchase
    <3> DEFINE rows == posted[h]
               o == req[h].key
    <3>2. /\ arrived' = [arrived EXCEPT ![o] =
                            [p \in Product |-> @[p] + rows[p]]]
          /\ arrived \in [PurchaseOrder -> [Product -> Int]]
          /\ rows \in [Product -> Int]
      BY <1>9, PurchaseRows DEF CommitPurchase
    <3> HIDE DEF rows, o
    <3>3. arrived' \in [PurchaseOrder -> [Product -> Int]]
      BY <3>2, TallyType
    <3> QED BY <3>1, <3>3 DEF PurchaseTypeOK
  <2> QED BY <2>1, <2>2
<1>10. CASE RefuseForeignProduct(h) \/ ExpirePurchase(h)
  <2>1. RollbackPurchase(h)
    BY <1>10 DEF RefuseForeignProduct, ExpirePurchase
  <2>2. RequestsTypeOK' /\ CarriedLocals'
    BY <1>1, <2>1, RespondTyped DEF RollbackPurchase
  <2>3. PurchaseTypeOK'
    BY <2>1, PurchaseRows, EndType DEF RollbackPurchase, PurchaseTypeOK
  <2> QED BY <2>2, <2>3
<1> HIDE DEF Types
<1>11. CASE PurchaseRequest(h)
  BY <1>3, <1>4, <1>5, <1>11 DEF PurchaseRequest
<1>12. CASE PurchaseStep(h)
  BY <1>6, <1>7, <1>8, <1>9, <1>10, <1>12 DEF PurchaseStep
<1> QED BY <1>11, <1>12

\* The sales order rows that handlers read are well typed.
LEMMA SalesRows ==
  ASSUME StoreInv
  PROVE  /\ salesOrders \in Table(SalesOrder, SalesOrderRow, Handler)
         /\ \A o \in SalesOrder :
              /\ salesOrders.current[o] \in SalesOrderRow
              /\ salesOrders.committed[o].items \in Seq(OrderLine)
              /\ [salesOrders.current[o] EXCEPT !.status = "COMPLETED"]
                   \in SalesOrderRow
              /\ [salesOrders.current[o] EXCEPT !.status = "CANCELLED"]
                   \in SalesOrderRow
         /\ shipped \in [SalesOrder -> [Product -> Int]]
         /\ posted \in [Handler -> [Product -> Int]]
<1>1. /\ salesOrders \in Table(SalesOrder, SalesOrderRow, Handler)
      /\ shipped \in [SalesOrder -> [Product -> Int]]
      /\ posted \in [Handler -> [Product -> Int]]
  BY DEF StoreInv, StoreTypeOK, StockTypeOK, SalesTypeOK
<1>2. \A o \in SalesOrder :
         /\ salesOrders.current[o] \in SalesOrderRow
         /\ salesOrders.committed[o] \in SalesOrderRow
  BY <1>1 DEF Table
<1>3. \A row \in SalesOrderRow :
         /\ row.items \in Seq(OrderLine)
         /\ [row EXCEPT !.status = "COMPLETED"] \in SalesOrderRow
         /\ [row EXCEPT !.status = "CANCELLED"] \in SalesOrderRow
  BY DEF SalesOrderRow
<1> QED BY <1>1, <1>2, <1>3

\* The actions of Sales keep every type.
LEMMA SalesTypes ==
  ASSUME StoreInv, NEW h \in Handler, SalesRequest(h) \/ SalesStep(h),
         UNCHANGED <<returnsVars, purchaseVars>>
  PROVE  ComponentTypes'
<1> DEFINE Types == RequestsTypeOK /\ SalesTypeOK /\ CarriedLocals
<1>1. UNCHANGED claim /\ \A g \in Handler : g # h => claim'[g] = claim[g]
  BY DEF returnsVars
<1>2. PurchaseTypeOK' /\ ReturnsTypeOK'
  BY OthersTyped
<1> SUFFICES Types'
  BY <1>2 DEF ComponentTypes
<1>3. ASSUME NEW o \in SalesOrder, NEW cart \in SaleCarts,
             NEW op \in {"createSalesOrder", "createPendingSalesOrder"},
             BuildOrderItems(h, op, o, cart)
      PROVE  Types'
  <2> DEFINE r == [op |-> op, at |-> "insertOrder", key |-> o]
             found == FindProducts(h, cart)
  <2>1. /\ req' = [req EXCEPT ![h] = r]
        /\ todo' = [todo EXCEPT ![h] = cart]
        /\ DOMAIN productMap' = DOMAIN productMap
        /\ productMap'[h] = found
        /\ \A g \in Handler : g # h => productMap'[g] = productMap[g]
        /\ ProductsOf(cart) \subseteq DOMAIN found
        /\ UNCHANGED salesVars
    BY <1>3 DEF BuildOrderItems, Begin, StoreInv, StoreTypeOK, RequestsTypeOK
  <2>2. r \in Request /\ r.at = "insertOrder" /\ cart \in Seq(Line)
    BY SalesAssumption DEF Request, Op, SalesOp, Statement
  <2>3. /\ DOMAIN found \subseteq Product
        /\ \A p \in DOMAIN found : found[p] \in ProductRow
    BY <2>2, FindProductsType
  <2> HIDE DEF r, found
  <2>4. RequestsTypeOK' /\ CarriedLocals'
    BY <1>1, <2>1, <2>2, <2>3, LocalsTyped
  <2> QED BY <2>1, <2>4, OthersTyped
<1>4. CASE InsertSalesOrder(h)
  <2> DEFINE o == req[h].key
             at == IF req[h].op = "createSalesOrder" THEN "shipLine" ELSE "commit"
             items == OrderItems(todo[h], productMap[h])
             row == [status |-> IF req[h].op = "createSalesOrder"
                                  THEN "COMPLETED" ELSE "PENDING",
                     items |-> items, returnedCogs |-> 0, returnedProfit |-> 0]
  <2>1. /\ req[h].at = "insertOrder"
        /\ Goto(h, at)
        /\ salesOrders' = Update(salesOrders, h, o, row)
        /\ UNCHANGED <<todo, productMap, shipped>>
    BY <1>4 DEF InsertSalesOrder, At
  <2>2. /\ at \in Statement
        /\ at \notin {"insertOrder", "restock", "writeProduct"}
    BY DEF Statement
  <2>3. items \in Seq(OrderLine)
    <3>1. ProductsOf(todo[h]) \subseteq DOMAIN productMap[h]
      BY <2>1 DEF StoreInv, CarriedLocals
    <3> QED BY <3>1, LocalFacts, OrderItemsType
  <2> HIDE DEF items, at
  <2>4. row \in SalesOrderRow
    BY <2>3 DEF SalesOrderRow
  <2> HIDE DEF row
  <2>5. RequestsTypeOK' /\ CarriedLocals'
    BY <1>1, <2>1, <2>2, GotoTyped
  <2>6. SalesTypeOK'
    BY <2>1, <2>4, SalesRows, UpdateType DEF SalesTypeOK
  <2> QED BY <2>5, <2>6
<1>5. ASSUME NEW o \in SalesOrder, FindPendingSalesOrder(h, o)
      PROVE  Types'
  <2> DEFINE items == salesOrders.committed[o].items
             lines == [i \in 1..Len(items) |->
                         [product   |-> items[i].product,
                          quantity  |-> items[i].quantity,
                          unitPrice |-> items[i].unitPrice]]
  <2>1. /\ Begin(h, "completeSalesOrder", o, "markCompleted")
        /\ todo' = [todo EXCEPT ![h] = lines]
        /\ UNCHANGED <<productMap, salesVars>>
    BY <1>5 DEF FindPendingSalesOrder
  <2>2. lines \in Seq(Line)
    <3>1. items \in Seq(OrderLine) /\ Len(items) \in Nat
      BY SalesRows, LenProperties
    <3>2. ASSUME NEW i \in 1..Len(items)
          PROVE  [product   |-> items[i].product,
                  quantity  |-> items[i].quantity,
                  unitPrice |-> items[i].unitPrice] \in Line
      <4>1. items[i] \in OrderLine
        BY <3>1, ElementOfSeq
      <4> QED BY <4>1 DEF OrderLine, Line
    <3> HIDE DEF items
    <3> QED BY <3>1, <3>2, IsASeq
  <2>3. /\ "completeSalesOrder" \in Op /\ o \in Key
        /\ "markCompleted" \in Statement
        /\ "markCompleted" \notin {"insertOrder", "restock", "writeProduct"}
    BY SalesAssumption DEF Op, SalesOp, Statement
  <2> HIDE DEF lines
  <2>4. RequestsTypeOK' /\ CarriedLocals'
    BY <1>1, <2>1, <2>2, <2>3, BeginTyped
  <2> QED BY <2>1, <2>4, OthersTyped
<1>6. ASSUME NEW o \in SalesOrder, CancelSalesOrder(h, o)
      PROVE  Types'
  <2>1. /\ Begin(h, "cancelSalesOrder", o, "commit")
        /\ todo' = [todo EXCEPT ![h] = todo[h]]
        /\ salesOrders' = Update(salesOrders, h, o,
              [salesOrders.current[o] EXCEPT !.status = "CANCELLED"])
        /\ UNCHANGED <<productMap, shipped>>
    BY <1>6, LocalFacts DEF CancelSalesOrder
  <2>2. /\ "cancelSalesOrder" \in Op /\ o \in Key /\ "commit" \in Statement
        /\ "commit" \notin {"insertOrder", "restock", "writeProduct"}
        /\ todo[h] \in Seq(Line)
    BY SalesAssumption, LocalFacts DEF Op, SalesOp, Statement
  <2>3. RequestsTypeOK' /\ CarriedLocals'
    BY <1>1, <2>1, <2>2, BeginTyped
  <2>4. SalesTypeOK'
    BY <2>1, SalesRows, UpdateType DEF SalesTypeOK
  <2> QED BY <2>3, <2>4
<1>7. CASE MarkCompleted(h)
  <2> DEFINE o == req[h].key
  <2>1. /\ Goto(h, "shipLine")
        /\ salesOrders' = Update(salesOrders, h, o,
              [salesOrders.current[o] EXCEPT !.status = "COMPLETED"])
        /\ UNCHANGED <<todo, productMap, shipped>>
    BY <1>7 DEF MarkCompleted
  <2>2. "shipLine" \in Statement
    BY DEF Statement
  <2>3. RequestsTypeOK' /\ CarriedLocals'
    BY <1>1, <2>1, <2>2, GotoTyped
  <2>4. SalesTypeOK'
    BY <2>1, SalesRows, UpdateType DEF SalesTypeOK
  <2> QED BY <2>3, <2>4
<1>8. CASE ShipLine(h)
  <2>1. /\ req' = [req EXCEPT ![h] = req[h]]
        /\ todo' = [todo EXCEPT ![h] = Tail(todo[h])]
        /\ todo[h] # << >>
        /\ req[h].at = "shipLine"
        /\ UNCHANGED <<productMap, salesVars>>
    BY <1>8, LocalFacts DEF ShipLine, At
  <2>2. Tail(todo[h]) \in Seq(Line)
    BY <2>1, LocalFacts, HeadTailProperties
  <2>3. RequestsTypeOK' /\ CarriedLocals'
    BY <1>1, <2>1, <2>2, LocalFacts, LocalsTyped
  <2> QED BY <2>1, <2>3, OthersTyped
<1>9. CASE CommitSale(h)
  <2>1. RequestsTypeOK' /\ CarriedLocals'
    BY <1>1, <1>9, RespondTyped DEF CommitSale
  <2>2. salesOrders' \in Table(SalesOrder, SalesOrderRow, Handler)
    BY <1>9, SalesRows, EndType DEF CommitSale
  <2>3. shipped' \in [SalesOrder -> [Product -> Int]]
    <3> DEFINE rows == posted[h]
               o == req[h].key
    <3>1. /\ shipped' = [shipped EXCEPT ![o] =
                            [p \in Product |-> @[p] - rows[p]]]
          /\ shipped \in [SalesOrder -> [Product -> Int]]
          /\ rows \in [Product -> Int]
      BY <1>9, SalesRows DEF CommitSale
    <3> HIDE DEF rows, o
    <3> QED BY <3>1, TallyType
  <2> QED BY <2>1, <2>2, <2>3 DEF SalesTypeOK
<1>10. CASE RefuseOrderNumber(h) \/ RefuseShortage(h) \/ ExpireSale(h)
  <2>1. RollbackSale(h)
    BY <1>10 DEF RefuseOrderNumber, RefuseShortage, ExpireSale
  <2>2. RequestsTypeOK' /\ CarriedLocals'
    BY <1>1, <2>1, RespondTyped DEF RollbackSale
  <2>3. SalesTypeOK'
    BY <2>1, SalesRows, EndType DEF RollbackSale, SalesTypeOK
  <2> QED BY <2>2, <2>3
<1> HIDE DEF Types
<1>11. CASE SalesRequest(h)
  BY <1>3, <1>5, <1>6, <1>11 DEF SalesRequest
<1>12. CASE SalesStep(h)
  BY <1>4, <1>7, <1>8, <1>9, <1>10, <1>12 DEF SalesStep
<1> QED BY <1>11, <1>12

\* The claims and return rows that handlers read are well typed.
LEMMA ReturnsRows ==
  ASSUME StoreInv
  PROVE  /\ salesReturns \in Table(SalesReturn,
              [order : SalesOrder \cup {NoKey}, items : Seq(ReturnLine)],
              Handler)
         /\ orderItems \in Table(SalesOrder \X LineNo, Nat, Handler)
         /\ \A k \in SalesOrder \X LineNo : orderItems.current[k] \in Nat
         /\ \A h \in Handler :
              /\ claim[h].order \in SalesOrder \cup {NoKey}
              /\ claim[h].items \in Seq(ReturnLine)
              /\ claim[h].returnedCogs \in Int
              /\ claim[h].returnedProfit \in Int
         /\ DOMAIN claim = Handler
BY DEF StoreInv, StoreTypeOK, ReturnsTypeOK, Table

\* The actions of Returns keep every type.
LEMMA ReturnsTypes ==
  ASSUME StoreInv, NEW h \in Handler, ReturnsRequest(h) \/ ReturnsStep(h),
         UNCHANGED purchaseVars
  PROVE  ComponentTypes'
<1> DEFINE Types == RequestsTypeOK /\ SalesTypeOK /\ ReturnsTypeOK /\ CarriedLocals
           Claim == [order : SalesOrder \cup {NoKey}, items : Seq(ReturnLine),
                     returnedCogs : Int, returnedProfit : Int]
<1>1. claim \in [Handler -> Claim]
  BY DEF StoreInv, StoreTypeOK, ReturnsTypeOK
<1> SUFFICES Types'
  BY OthersTyped DEF ComponentTypes
<1>2. ASSUME NEW r \in SalesReturn, NEW o \in SalesOrder,
             NEW picks \in ReturnPicks, CheckReturn(h, r, o, picks)
      PROVE  Types'
  <2> DEFINE items == salesOrders.committed[o].items
             lines == [i \in 1..Len(picks) |->
                         ToReturnLine(items[picks[i].item], picks[i])]
             made == [order |-> o, items |-> lines,
                      returnedCogs |-> 0, returnedProfit |-> 0]
  <2>1. /\ Begin(h, "createReturn", r, "insertReturn")
        /\ \A i \in DOMAIN picks : picks[i].item \in DOMAIN items
        /\ claim' = [claim EXCEPT ![h] = made]
        /\ todo' = [todo EXCEPT ![h] = todo[h]]
        /\ UNCHANGED <<productMap, salesVars, salesReturns, orderItems>>
    BY <1>2, LocalFacts DEF CheckReturn, Returnable
  <2>2. lines \in Seq(ReturnLine)
    <3>1. /\ items \in Seq(OrderLine)
          /\ DOMAIN items = 1..Len(items)
          /\ picks \in Seq([item : LineNo, quantity : Nat \ {0}])
          /\ Len(picks) \in Nat
          /\ DOMAIN picks = 1..Len(picks)
      BY SalesRows, ReturnsAssumption, LenProperties
    <3>2. ASSUME NEW i \in 1..Len(picks)
          PROVE  ToReturnLine(items[picks[i].item], picks[i]) \in ReturnLine
      <4>1. picks[i] \in [item : LineNo, quantity : Nat \ {0}]
        BY <3>1, ElementOfSeq
      <4>2. items[picks[i].item] \in OrderLine
        BY <2>1, <3>1, ElementOfSeq
      <4> QED BY <4>1, <4>2, ReturnLineType
    <3> HIDE DEF items
    <3> QED BY <3>1, <3>2, IsASeq
  <2> HIDE DEF lines
  <2>3. made \in Claim
    BY <2>2
  <2> HIDE DEF made
  <2>4. /\ "createReturn" \in Op /\ r \in Key /\ "insertReturn" \in Statement
        /\ "insertReturn" \notin {"insertOrder", "restock", "writeProduct"}
        /\ todo[h] \in Seq(Line)
    BY ReturnsAssumption, LocalFacts DEF Op, ReturnsOp, Statement
  <2>5. \A g \in Handler : g # h => claim'[g] = claim[g]
    BY <1>1, <2>1
  <2>6. RequestsTypeOK' /\ CarriedLocals'
    BY <2>1, <2>4, <2>5, BeginTyped
  <2>7. claim' \in [Handler -> Claim]
    BY <1>1, <2>1, <2>3
  <2>8. ReturnsTypeOK'
    BY <2>1, <2>7, ReturnsRows DEF ReturnsTypeOK
  <2> QED BY <2>1, <2>6, <2>8, OthersTyped
<1>3. CASE InsertSalesReturn(h)
  <2> DEFINE r == req[h].key
             row == [order |-> claim[h].order, items |-> claim[h].items]
  <2>1. /\ Goto(h, "returnItem")
        /\ salesReturns' = Update(salesReturns, h, r, row)
        /\ UNCHANGED <<todo, productMap, claim, salesVars, orderItems>>
    BY <1>3 DEF InsertSalesReturn
  <2>2. /\ "returnItem" \in Statement
        /\ row \in [order : SalesOrder \cup {NoKey}, items : Seq(ReturnLine)]
    BY ReturnsRows DEF Statement
  <2> HIDE DEF row
  <2>3. RequestsTypeOK' /\ CarriedLocals'
    BY <2>1, <2>2, GotoTyped
  <2>4. salesReturns' \in Table(SalesReturn,
           [order : SalesOrder \cup {NoKey}, items : Seq(ReturnLine)], Handler)
    BY <2>1, <2>2, ReturnsRows, UpdateType
  <2>5. ReturnsTypeOK'
    BY <1>1, <2>1, <2>4, ReturnsRows DEF ReturnsTypeOK
  <2> QED BY <2>1, <2>3, <2>5, OthersTyped
<1>4. CASE IncrementReturned(h)
  <2> DEFINE line == Head(claim[h].items)
             k == <<claim[h].order, line.item>>
             r == [req[h] EXCEPT !.at = "restock"]
  <2>1. /\ claim[h].items # << >>
        /\ Goto(h, "restock")
        /\ orderItems' = Update(orderItems, h, k,
                                orderItems.current[k] + line.quantity)
        /\ todo' = [todo EXCEPT ![h] = todo[h]]
        /\ UNCHANGED <<productMap, claim, salesVars, salesReturns>>
    BY <1>4, LocalFacts DEF IncrementReturned
  <2>2. line \in ReturnLine
    BY <2>1, ReturnsRows, HeadTailProperties
  <2>3. k \in SalesOrder \X LineNo =>
          orderItems.current[k] + line.quantity \in Nat
    BY <2>2, ReturnsRows DEF ReturnLine
  <2> HIDE DEF k
  <2>4. orderItems' \in Table(SalesOrder \X LineNo, Nat, Handler)
    BY <2>1, <2>3, ReturnsRows, UpdateType
  <2>5. r \in Request /\ r.at = "restock"
    BY LocalFacts DEF Request, Statement
  <2>6. req' = [req EXCEPT ![h] = r]
    BY <2>1 DEF Goto
  <2> HIDE DEF r
  <2>7. RequestsTypeOK' /\ CarriedLocals'
    BY <2>1, <2>5, <2>6, LocalFacts, LocalsTyped
  <2>8. ReturnsTypeOK'
    BY <1>1, <2>1, <2>4, ReturnsRows DEF ReturnsTypeOK
  <2> QED BY <2>1, <2>7, <2>8, OthersTyped
<1>5. CASE Restock(h)
  <2> DEFINE line == Head(claim[h].items)
             made == [order          |-> claim[h].order,
                      items          |-> Tail(claim[h].items),
                      returnedCogs   |-> claim[h].returnedCogs + line.returnedCogs,
                      returnedProfit |-> claim[h].returnedProfit
                                           + (line.refundAmount - line.returnedCogs)]
             r == [req[h] EXCEPT !.at = "returnItem"]
  <2>1. /\ req[h].at = "restock"
        /\ Goto(h, "returnItem")
        /\ claim' = [claim EXCEPT ![h] = made]
        /\ todo' = [todo EXCEPT ![h] = todo[h]]
        /\ UNCHANGED <<productMap, salesVars, salesReturns, orderItems>>
    BY <1>5, LocalFacts DEF Restock, At
  <2>2. claim[h].items # << >>
    BY <2>1 DEF StoreInv, CarriedLocals
  <2>3. line \in ReturnLine /\ Tail(claim[h].items) \in Seq(ReturnLine)
    BY <2>2, ReturnsRows, HeadTailProperties
  <2>4. line.returnedCogs \in Int /\ line.refundAmount \in Int
    BY <2>3 DEF ReturnLine
  <2>5. made \in Claim
    BY <2>3, <2>4, ReturnsRows
  <2> HIDE DEF made
  <2>6. /\ claim' \in [Handler -> Claim]
        /\ \A g \in Handler : g # h => claim'[g] = claim[g]
    BY <1>1, <2>1, <2>5
  <2>7. r \in Request /\ r.at = "returnItem"
    BY LocalFacts DEF Request, Statement
  <2>8. req' = [req EXCEPT ![h] = r]
    BY <2>1 DEF Goto
  <2> HIDE DEF r
  <2>9. RequestsTypeOK' /\ CarriedLocals'
    BY <2>1, <2>6, <2>7, <2>8, LocalFacts, LocalsTyped
  <2>10. ReturnsTypeOK'
    BY <2>1, <2>6, ReturnsRows DEF ReturnsTypeOK
  <2> QED BY <2>1, <2>9, <2>10, OthersTyped
<1>6. CASE ReduceTotals(h)
  <2> DEFINE o == claim[h].order
             row == [salesOrders.current[o] EXCEPT
                       !.returnedCogs = @ + claim[h].returnedCogs,
                       !.returnedProfit = @ + claim[h].returnedProfit]
  <2>1. /\ Goto(h, "commit")
        /\ salesOrders' = Update(salesOrders, h, o, row)
        /\ UNCHANGED <<todo, productMap, shipped, returnsVars>>
    BY <1>6 DEF ReduceTotals, returnsVars
  <2>2. ASSUME o \in SalesOrder PROVE row \in SalesOrderRow
    <3>1. salesOrders.current[o] \in SalesOrderRow
      BY <2>2, SalesRows
    <3>2. /\ salesOrders.current[o].returnedCogs + claim[h].returnedCogs \in Int
          /\ salesOrders.current[o].returnedProfit + claim[h].returnedProfit \in Int
      BY <3>1, ReturnsRows DEF SalesOrderRow
    <3> QED BY <3>1, <3>2 DEF SalesOrderRow
  <2> HIDE DEF row
  <2>3. "commit" \in Statement /\ UNCHANGED claim
    BY <2>1 DEF Statement, returnsVars
  <2>4. RequestsTypeOK' /\ CarriedLocals'
    BY <2>1, <2>3, GotoTyped
  <2>5. SalesTypeOK'
    BY <2>1, <2>2, SalesRows, UpdateType DEF SalesTypeOK
  <2> QED BY <2>1, <2>4, <2>5, OthersTyped
<1>7. NoClaim \in Claim
  BY EmptySeq DEF NoClaim
<1>8. CASE CommitReturn(h)
  <2>1. claim' = [claim EXCEPT ![h] = NoClaim] /\ Respond(h) /\ UNCHANGED shipped
    BY <1>8 DEF CommitReturn
  <2>2. /\ claim' \in [Handler -> Claim]
        /\ \A g \in Handler : g # h => claim'[g] = claim[g]
    BY <1>1, <1>7, <2>1
  <2>3. RequestsTypeOK' /\ CarriedLocals'
    BY <2>1, <2>2, RespondTyped
  <2>4. SalesTypeOK'
    BY <1>8, <2>1, SalesRows, EndType DEF CommitReturn, SalesTypeOK
  <2>5. ReturnsTypeOK'
    BY <1>8, <2>2, ReturnsRows, EndType DEF CommitReturn, ReturnsTypeOK
  <2> QED BY <2>3, <2>4, <2>5
<1>9. CASE RefuseReturnNumber(h) \/ ExpireReturn(h)
  <2>1. RollbackReturn(h)
    BY <1>9 DEF RefuseReturnNumber, ExpireReturn
  <2>2. claim' = [claim EXCEPT ![h] = NoClaim] /\ Respond(h) /\ UNCHANGED shipped
    BY <2>1 DEF RollbackReturn
  <2>3. /\ claim' \in [Handler -> Claim]
        /\ \A g \in Handler : g # h => claim'[g] = claim[g]
    BY <1>1, <1>7, <2>2
  <2>4. RequestsTypeOK' /\ CarriedLocals'
    BY <2>2, <2>3, RespondTyped
  <2>5. SalesTypeOK'
    BY <2>1, <2>2, SalesRows, EndType DEF RollbackReturn, SalesTypeOK
  <2>6. ReturnsTypeOK'
    BY <2>1, <2>3, ReturnsRows, EndType DEF RollbackReturn, ReturnsTypeOK
  <2> QED BY <2>4, <2>5, <2>6
<1> HIDE DEF Types
<1>10. CASE ReturnsRequest(h)
  BY <1>2, <1>10 DEF ReturnsRequest
<1>11. CASE ReturnsStep(h)
  BY <1>3, <1>4, <1>5, <1>6, <1>8, <1>9, <1>11 DEF ReturnsStep
<1> QED BY <1>10, <1>11

-----------------------------------------------------------------------------

\* The store starts in the invariant.
LEMMA StoreInitInv == StoreInit => StoreInv
<1> SUFFICES ASSUME StoreInit PROVE StoreInv
  OBVIOUS
<1>1. StockInv
  BY StockInitInv DEF StoreInit
<1>2. RequestsTypeOK
  BY EmptySeq DEF StoreInit, RequestsInit, RequestsTypeOK, IdleRequest,
                  Request, Statement, NothingFound
<1>3. SalesTypeOK
  <2>1. NoSalesOrder \in SalesOrderRow
    BY EmptySeq DEF NoSalesOrder, SalesOrderRow
  <2>2. [o \in SalesOrder |-> NoSalesOrder] \in [SalesOrder -> SalesOrderRow]
    BY <2>1
  <2>3. salesOrders \in Table(SalesOrder, SalesOrderRow, Handler)
    BY <2>2, NewTableType DEF StoreInit, SalesInit
  <2> QED BY <2>3 DEF StoreInit, SalesInit, SalesTypeOK, NoRows
<1>4. PurchaseTypeOK
  <2>1. NoPurchaseOrder \in PurchaseOrderRow
    BY EmptySeq DEF NoPurchaseOrder, PurchaseOrderRow
  <2>2. [o \in PurchaseOrder |-> NoPurchaseOrder]
          \in [PurchaseOrder -> PurchaseOrderRow]
    BY <2>1
  <2>3. purchaseOrders \in Table(PurchaseOrder, PurchaseOrderRow, Handler)
    BY <2>2, NewTableType DEF StoreInit, PurchaseInit
  <2> QED BY <2>3 DEF StoreInit, PurchaseInit, PurchaseTypeOK, NoRows
<1>5. ReturnsTypeOK
  <2> DEFINE Row == [order : SalesOrder \cup {NoKey}, items : Seq(ReturnLine)]
  <2>1. [r \in SalesReturn |-> NoSalesReturn] \in [SalesReturn -> Row]
    BY EmptySeq DEF NoSalesReturn
  <2>2. salesReturns \in Table(SalesReturn, Row, Handler)
    BY <2>1, NewTableType DEF StoreInit, ReturnsInit
  <2>3. [k \in SalesOrder \X LineNo |-> 0] \in [SalesOrder \X LineNo -> Nat]
    OBVIOUS
  <2>4. orderItems \in Table(SalesOrder \X LineNo, Nat, Handler)
    BY <2>3, NewTableType DEF StoreInit, ReturnsInit
  <2> QED BY <2>2, <2>4, EmptySeq
          DEF StoreInit, ReturnsInit, ReturnsTypeOK, NoClaim
<1>6. CarriedLocals
  BY DEF StoreInit, RequestsInit, CarriedLocals, IdleRequest
<1> QED BY <1>1, <1>2, <1>3, <1>4, <1>5, <1>6
        DEF StoreInv, StoreTypeOK, StockInv

(***************************************************************************)
(* Every step of the store is a step of the stock keeper or leaves the     *)
(* stock alone.                                                            *)
(***************************************************************************)
LEMMA StoreStepIsStockStep ==
  StoreInv /\ [StoreNext]_storeVars => [StockNext]_stockVars
<1> SUFFICES ASSUME StoreInv, [StoreNext]_storeVars PROVE [StockNext]_stockVars
  OBVIOUS
<1>1. CASE UNCHANGED storeVars
  BY <1>1 DEF storeVars
<1>2. ASSUME NEW h \in Handler, StoreRequest(h) \/ StoreStep(h)
      PROVE  [StockNext]_stockVars
  BY <1>2, SalesStock, ReturnsStock, PurchaseStock, InventoryStock
     DEF StoreRequest, StoreStep
<1> QED BY <1>1, <1>2 DEF StoreNext

\* Every step of every request keeps the invariant.
LEMMA StoreNextInv == StoreInv /\ [StoreNext]_storeVars => StoreInv'
<1> SUFFICES ASSUME StoreInv, [StoreNext]_storeVars PROVE StoreInv'
  OBVIOUS
<1>1. StockInv'
  BY StoreStepIsStockStep, StockNextInv DEF StoreInv
<1>2. CASE UNCHANGED storeVars
  <2>1. /\ UNCHANGED <<req, todo, productMap, claim>>
        /\ UNCHANGED <<salesVars, returnsVars, purchaseVars>>
    BY <1>2 DEF storeVars, requestVars, returnsVars
  <2>2. RequestsTypeOK' /\ CarriedLocals'
    BY <2>1 DEF StoreInv, StoreTypeOK, RequestsTypeOK, CarriedLocals
  <2> QED BY <1>1, <2>1, <2>2, OthersTyped DEF StoreInv, StoreTypeOK, StockInv
<1>3. ASSUME NEW h \in Handler, StoreRequest(h) \/ StoreStep(h)
      PROVE  ComponentTypes'
  BY <1>3, SalesTypes, ReturnsTypes, PurchaseTypes, InventoryTypes
     DEF StoreRequest, StoreStep
<1> QED BY <1>1, <1>2, <1>3
        DEF StoreNext, StoreInv, StoreTypeOK, StockInv, ComponentTypes

\* The invariant holds for ever.
LEMMA StoreAlways == StoreSpec => []StoreInv
<1>1. StoreInit => StoreInv
  BY StoreInitInv
<1>2. StoreInv /\ [StoreNext]_storeVars => StoreInv'
  BY StoreNextInv
<1> QED BY <1>1, <1>2, PTL DEF StoreSpec

(***************************************************************************)
(* Every variable of the store keeps its type: tables stay tables, totals  *)
(* stay numbers, what a handler carries stays what its code expects.       *)
(***************************************************************************)
THEOREM StoreTyped == StoreSpec => []StoreTypeOK
<1>1. StoreInv => StoreTypeOK
  BY DEF StoreInv
<1> QED BY <1>1, StoreAlways, PTL

(***************************************************************************)
(* The store implements the abstract stock keeper: sales, purchases,       *)
(* returns and adjustments touch stock only in the ways StockNext allows.  *)
(***************************************************************************)
THEOREM StoreImplementsStock == StoreSpec => StockSpec
<1>1. StoreInit => StockInit
  BY DEF StoreInit
<1>2. StoreInv /\ [StoreNext]_storeVars => [StockNext]_stockVars
  BY StoreStepIsStockStep
<1> QED BY <1>1, <1>2, StoreAlways, PTL DEF StoreSpec, StockSpec

(***************************************************************************)
(* No product ever has negative stock, however many requests run at once.  *)
(***************************************************************************)
THEOREM StoreNeverOversells == StoreSpec => []StockNonNegative
<1>1. StockInv => StockNonNegative
  BY DEF StockInv
<1> QED BY <1>1, StoreImplementsStock, StockSafe, PTL

(***************************************************************************)
(* The stock_transactions rows account for every product's stock.          *)
(***************************************************************************)
THEOREM StoreLedgerIsComplete == StoreSpec => []LedgerAccountsForStock
<1>1. StockInv => LedgerAccountsForStock
  BY DEF StockInv
<1> QED BY <1>1, StoreImplementsStock, StockSafe, PTL

-----------------------------------------------------------------------------
(***************************************************************************)
(* Locks, tenants and orders.                                              *)
(***************************************************************************)

(***************************************************************************)
(* What a step of h from table t to table u leaves alone: it takes locks   *)
(* for h and gives up locks of h, and it neither rewrites nor unlocks a    *)
(* row that another handler is writing.                                    *)
(***************************************************************************)
Keeps(t, u, h) ==
  \A k \in DOMAIN t.holder :
    /\ u.holder[k] \in {t.holder[k], h, NoOne}
    /\ t.holder[k] \notin {h, NoOne} =>
         /\ u.holder[k] = t.holder[k]
         /\ u.current[k] = t.current[k]
         /\ u.committed[k] = t.committed[k]

OthersKeep(h) ==
  /\ Keeps(products, products', h)
  /\ Keeps(salesOrders, salesOrders', h)
  /\ Keeps(purchaseOrders, purchaseOrders', h)
  /\ Keeps(salesReturns, salesReturns', h)
  /\ Keeps(orderItems, orderItems', h)
  /\ \A g \in Handler : g # h =>
       /\ req'[g] = req[g]
       /\ productMap'[g] = productMap[g]
       /\ claim'[g] = claim[g]

(***************************************************************************)
(* Every kind of statement leaves the rows of the other handlers alone: a  *)
(* writing statement because it waits until the row is free.               *)
(***************************************************************************)
LEMMA StatementsKeep ==
  ASSUME NEW K, NEW R, NEW t \in Table(K, R, Handler), NEW h \in Handler
  PROVE  /\ Keeps(t, t, h)
         /\ Keeps(t, Commit(t, h), h)
         /\ Keeps(t, Rollback(t, h), h)
         /\ \A k, row : Free(t, h, k) => Keeps(t, Update(t, h, k, row), h)
         /\ \A k, row : t.holder[k] = NoOne => Keeps(t, Overwrite(t, k, row), h)
<1>1. DOMAIN t.holder = K /\ DOMAIN t.current = K
  BY DEF Table
<1>2. Keeps(t, t, h) /\ Keeps(t, Commit(t, h), h) /\ Keeps(t, Rollback(t, h), h)
  BY <1>1 DEF Keeps, Commit, Rollback, Visible, Table
<1>3. ASSUME NEW k, NEW row, Free(t, h, k)
      PROVE  Keeps(t, Update(t, h, k, row), h)
  BY <1>1, <1>3 DEF Keeps, Update, Free, Table
<1>4. ASSUME NEW k, NEW row, t.holder[k] = NoOne
      PROVE  Keeps(t, Overwrite(t, k, row), h)
  BY <1>1, <1>4 DEF Keeps, Overwrite, Table
<1> QED BY <1>2, <1>3, <1>4

\* The five tables of the store, with their keys and rows.
ReturnRowType == [order : SalesOrder \cup {NoKey}, items : Seq(ReturnLine)]

\* The tables of the store are tables.
LEMMA StoreTables ==
  ASSUME StoreInv
  PROVE  /\ products \in Table(Product, ProductRow, Handler)
         /\ salesOrders \in Table(SalesOrder, SalesOrderRow, Handler)
         /\ purchaseOrders \in Table(PurchaseOrder, PurchaseOrderRow, Handler)
         /\ salesReturns \in Table(SalesReturn, ReturnRowType, Handler)
         /\ orderItems \in Table(SalesOrder \X LineNo, Nat, Handler)
BY DEF StoreInv, StoreTypeOK, StockTypeOK, SalesTypeOK, PurchaseTypeOK,
       ReturnsTypeOK, ReturnRowType

\* A table that a step does not write keeps everything.
LEMMA QuietTablesKeep ==
  ASSUME StoreInv, NEW h \in Handler
  PROVE  /\ Keeps(products, products, h)
         /\ Keeps(salesOrders, salesOrders, h)
         /\ Keeps(purchaseOrders, purchaseOrders, h)
         /\ Keeps(salesReturns, salesReturns, h)
         /\ Keeps(orderItems, orderItems, h)
BY StoreTables, StatementsKeep

\* So does the end of a transaction.
LEMMA EndsKeep ==
  ASSUME StoreInv, NEW h \in Handler
  PROVE  /\ Keeps(products, Commit(products, h), h)
         /\ Keeps(products, Rollback(products, h), h)
         /\ Keeps(salesOrders, Commit(salesOrders, h), h)
         /\ Keeps(salesOrders, Rollback(salesOrders, h), h)
         /\ Keeps(purchaseOrders, Commit(purchaseOrders, h), h)
         /\ Keeps(purchaseOrders, Rollback(purchaseOrders, h), h)
         /\ Keeps(salesReturns, Commit(salesReturns, h), h)
         /\ Keeps(salesReturns, Rollback(salesReturns, h), h)
         /\ Keeps(orderItems, Commit(orderItems, h), h)
         /\ Keeps(orderItems, Rollback(orderItems, h), h)
BY StoreTables, StatementsKeep

\* And so does a movement of stock.
LEMMA MoveKeeps ==
  ASSUME StoreInv, NEW h \in Handler, NEW p, NEW change, NEW cost,
         MoveStock(h, p, change, cost)
  PROVE  Keeps(products, products', h)
BY StoreTables, StatementsKeep DEF MoveStock

\* A response touches the locals of its own handler only.
LEMMA RespondKeeps ==
  ASSUME StoreInv, NEW h \in Handler, Respond(h)
  PROVE  \A g \in Handler : g # h =>
           req'[g] = req[g] /\ productMap'[g] = productMap[g]
BY DEF Respond, StoreInv, StoreTypeOK, RequestsTypeOK

\* The handlers beside h notice nothing of a step of SalesService.
LEMMA SalesKeep ==
  ASSUME StoreInv, NEW h \in Handler, SalesRequest(h) \/ SalesStep(h),
         UNCHANGED <<returnsVars, purchaseVars>>
  PROVE  OthersKeep(h)
<1>1. /\ UNCHANGED <<purchaseOrders, salesReturns, orderItems, claim>>
      /\ \A g \in Handler : g # h => claim'[g] = claim[g]
  BY DEF returnsVars, purchaseVars
<1> SUFFICES /\ Keeps(products, products', h)
             /\ Keeps(salesOrders, salesOrders', h)
             /\ \A g \in Handler : g # h =>
                  req'[g] = req[g] /\ productMap'[g] = productMap[g]
  BY <1>1, QuietTablesKeep DEF OthersKeep
<1>2. DOMAIN req = Handler /\ DOMAIN productMap = Handler
  BY DEF StoreInv, StoreTypeOK, RequestsTypeOK
<1>3. ASSUME NEW o \in SalesOrder, NEW cart \in SaleCarts, NEW op,
             BuildOrderItems(h, op, o, cart)
      PROVE  /\ UNCHANGED <<products, salesOrders>>
             /\ \A g \in Handler : g # h =>
                  req'[g] = req[g] /\ productMap'[g] = productMap[g]
  BY <1>2, <1>3 DEF BuildOrderItems, Begin, stockVars, salesVars
<1>4. ASSUME NEW o \in SalesOrder, FindPendingSalesOrder(h, o)
      PROVE  /\ UNCHANGED <<products, salesOrders, productMap>>
             /\ \A g \in Handler : g # h => req'[g] = req[g]
  BY <1>2, <1>4 DEF FindPendingSalesOrder, Begin, stockVars, salesVars
<1>5. ASSUME NEW o \in SalesOrder, CancelSalesOrder(h, o)
      PROVE  /\ UNCHANGED <<products, productMap>>
             /\ Keeps(salesOrders, salesOrders', h)
             /\ \A g \in Handler : g # h => req'[g] = req[g]
  BY <1>2, <1>5, StoreTables, StatementsKeep
     DEF CancelSalesOrder, Begin, stockVars
<1>6. CASE SalesRequest(h)
  BY <1>3, <1>4, <1>5, <1>6, QuietTablesKeep DEF SalesRequest
<1>7. CASE InsertSalesOrder(h)
  BY <1>2, <1>7, StoreTables, StatementsKeep, QuietTablesKeep
     DEF InsertSalesOrder, Goto, stockVars
<1>8. CASE MarkCompleted(h)
  BY <1>2, <1>8, StoreTables, StatementsKeep, QuietTablesKeep
     DEF MarkCompleted, Goto, stockVars
<1>9. CASE ShipLine(h)
  BY <1>9, MoveKeeps, QuietTablesKeep DEF ShipLine, salesVars
<1>10. CASE CommitSale(h)
  BY <1>10, EndsKeep, RespondKeeps DEF CommitSale, CommitStock
<1>11. CASE RollbackSale(h)
  BY <1>11, EndsKeep, RespondKeeps DEF RollbackSale, RollbackStock
<1>12. CASE SalesStep(h)
  BY <1>7, <1>8, <1>9, <1>10, <1>11, <1>12
     DEF SalesStep, RefuseOrderNumber, RefuseShortage, ExpireSale
<1> QED BY <1>6, <1>12

\* Nor do they of a step of ReturnsService.
LEMMA ReturnsKeep ==
  ASSUME StoreInv, NEW h \in Handler, ReturnsRequest(h) \/ ReturnsStep(h),
         UNCHANGED purchaseVars
  PROVE  OthersKeep(h)
<1>1. /\ DOMAIN req = Handler /\ DOMAIN productMap = Handler
      /\ DOMAIN claim = Handler
      /\ UNCHANGED purchaseOrders
  BY DEF StoreInv, StoreTypeOK, RequestsTypeOK, ReturnsTypeOK, purchaseVars
<1>2. ASSUME NEW r \in SalesReturn, NEW o \in SalesOrder, NEW picks,
             CheckReturn(h, r, o, picks)
      PROVE  OthersKeep(h)
  <2>1. /\ UNCHANGED <<products, salesOrders, salesReturns, orderItems, productMap>>
        /\ \A g \in Handler : g # h => req'[g] = req[g] /\ claim'[g] = claim[g]
    BY <1>1, <1>2 DEF CheckReturn, Begin, stockVars, salesVars
  <2> QED BY <1>1, <2>1, QuietTablesKeep DEF OthersKeep
<1>3. CASE InsertSalesReturn(h)
  <2>1. /\ UNCHANGED <<products, salesOrders, orderItems, productMap, claim>>
        /\ Keeps(salesReturns, salesReturns', h)
        /\ \A g \in Handler : g # h => req'[g] = req[g]
    BY <1>1, <1>3, StoreTables, StatementsKeep
       DEF InsertSalesReturn, Goto, stockVars, salesVars
  <2> QED BY <1>1, <2>1, QuietTablesKeep DEF OthersKeep
<1>4. CASE IncrementReturned(h)
  <2>1. /\ UNCHANGED <<products, salesOrders, salesReturns, productMap, claim>>
        /\ Keeps(orderItems, orderItems', h)
        /\ \A g \in Handler : g # h => req'[g] = req[g]
    BY <1>1, <1>4, StoreTables, StatementsKeep
       DEF IncrementReturned, Goto, stockVars, salesVars
  <2> QED BY <1>1, <2>1, QuietTablesKeep DEF OthersKeep
<1>5. CASE Restock(h)
  <2>1. /\ UNCHANGED <<salesOrders, salesReturns, orderItems, productMap>>
        /\ \A g \in Handler : g # h => req'[g] = req[g] /\ claim'[g] = claim[g]
    BY <1>1, <1>5 DEF Restock, Goto, salesVars
  <2>2. Keeps(products, products', h)
    BY <1>5, MoveKeeps DEF Restock
  <2> QED BY <1>1, <2>1, <2>2, QuietTablesKeep DEF OthersKeep
<1>6. CASE ReduceTotals(h)
  <2>1. /\ UNCHANGED <<products, salesReturns, orderItems, productMap, claim>>
        /\ Keeps(salesOrders, salesOrders', h)
        /\ \A g \in Handler : g # h => req'[g] = req[g]
    BY <1>1, <1>6, StoreTables, StatementsKeep DEF ReduceTotals, Goto, stockVars
  <2> QED BY <1>1, <2>1, QuietTablesKeep DEF OthersKeep
<1>7. CASE CommitReturn(h)
  <2>1. \A g \in Handler : g # h => claim'[g] = claim[g]
    BY <1>1, <1>7 DEF CommitReturn
  <2> QED BY <1>1, <1>7, <2>1, EndsKeep, RespondKeeps, QuietTablesKeep
          DEF OthersKeep, CommitReturn, CommitStock
<1>8. CASE RollbackReturn(h)
  <2>1. \A g \in Handler : g # h => claim'[g] = claim[g]
    BY <1>1, <1>8 DEF RollbackReturn
  <2> QED BY <1>1, <1>8, <2>1, EndsKeep, RespondKeeps, QuietTablesKeep
          DEF OthersKeep, RollbackReturn, RollbackStock
<1>9. CASE ReturnsRequest(h)
  BY <1>2, <1>9 DEF ReturnsRequest
<1>10. CASE ReturnsStep(h)
  BY <1>3, <1>4, <1>5, <1>6, <1>7, <1>8, <1>10
     DEF ReturnsStep, RefuseReturnNumber, ExpireReturn
<1> QED BY <1>9, <1>10

\* Nor of a step of PurchaseService.
LEMMA PurchaseKeep ==
  ASSUME StoreInv, NEW h \in Handler, PurchaseRequest(h) \/ PurchaseStep(h),
         UNCHANGED <<salesVars, returnsVars>>
  PROVE  OthersKeep(h)
<1>1. /\ UNCHANGED <<salesOrders, salesReturns, orderItems, claim>>
      /\ \A g \in Handler : g # h => claim'[g] = claim[g]
  BY DEF salesVars, returnsVars
<1> SUFFICES /\ Keeps(products, products', h)
             /\ Keeps(purchaseOrders, purchaseOrders', h)
             /\ \A g \in Handler : g # h =>
                  req'[g] = req[g] /\ productMap'[g] = productMap[g]
  BY <1>1, QuietTablesKeep DEF OthersKeep
<1>2. DOMAIN req = Handler /\ DOMAIN productMap = Handler
  BY DEF StoreInv, StoreTypeOK, RequestsTypeOK
<1>3. ASSUME NEW o \in PurchaseOrder, NEW cart, NEW op,
             InsertPurchaseOrder(h, op, o, cart)
      PROVE  /\ UNCHANGED <<products, productMap>>
             /\ Keeps(purchaseOrders, purchaseOrders', h)
             /\ \A g \in Handler : g # h => req'[g] = req[g]
  BY <1>2, <1>3, StoreTables, StatementsKeep
     DEF InsertPurchaseOrder, Begin, stockVars
<1>4. ASSUME NEW o \in PurchaseOrder, FindPurchaseOrder(h, o)
      PROVE  /\ UNCHANGED <<products, purchaseOrders, productMap>>
             /\ \A g \in Handler : g # h => req'[g] = req[g]
  BY <1>2, <1>4 DEF FindPurchaseOrder, Begin, stockVars, purchaseVars
<1>5. ASSUME NEW o \in PurchaseOrder, CancelPurchaseOrder(h, o)
      PROVE  /\ UNCHANGED <<products, productMap>>
             /\ Keeps(purchaseOrders, purchaseOrders', h)
             /\ \A g \in Handler : g # h => req'[g] = req[g]
  BY <1>2, <1>5, StoreTables, StatementsKeep
     DEF CancelPurchaseOrder, Begin, stockVars
<1>6. CASE PurchaseRequest(h)
  BY <1>3, <1>4, <1>5, <1>6, QuietTablesKeep DEF PurchaseRequest
<1>7. CASE MarkReceived(h)
  BY <1>2, <1>7, StoreTables, StatementsKeep, QuietTablesKeep
     DEF MarkReceived, Goto, stockVars
<1>8. CASE FindReceivedProducts(h)
  BY <1>2, <1>8, QuietTablesKeep
     DEF FindReceivedProducts, Goto, stockVars, purchaseVars
<1>9. CASE ReceiveLine(h)
  BY <1>9, MoveKeeps, QuietTablesKeep DEF ReceiveLine, purchaseVars
<1>10. CASE CommitPurchase(h)
  BY <1>10, EndsKeep, RespondKeeps DEF CommitPurchase, CommitStock
<1>11. CASE RollbackPurchase(h)
  BY <1>11, EndsKeep, RespondKeeps DEF RollbackPurchase, RollbackStock
<1>12. CASE PurchaseStep(h)
  BY <1>7, <1>8, <1>9, <1>10, <1>11, <1>12
     DEF PurchaseStep, RefuseForeignProduct, ExpirePurchase
<1> QED BY <1>6, <1>12

\* Nor of an adjustment, a PATCH or a DELETE of a product.
LEMMA InventoryKeep ==
  ASSUME StoreInv, NEW h \in Handler, InventoryRequest(h) \/ InventoryStep(h),
         UNCHANGED <<salesVars, returnsVars, purchaseVars>>
  PROVE  OthersKeep(h)
<1>1. /\ UNCHANGED <<salesOrders, purchaseOrders, salesReturns, orderItems, claim>>
      /\ \A g \in Handler : g # h => claim'[g] = claim[g]
  BY DEF salesVars, returnsVars, purchaseVars
<1> SUFFICES /\ Keeps(products, products', h)
             /\ \A g \in Handler : g # h =>
                  req'[g] = req[g] /\ productMap'[g] = productMap[g]
  BY <1>1, QuietTablesKeep DEF OthersKeep
<1>2. DOMAIN req = Handler /\ DOMAIN productMap = Handler
  BY DEF StoreInv, StoreTypeOK, RequestsTypeOK
<1>3. ASSUME NEW p \in Product, NEW change, NEW type, AdjustStock(h, p, change, type)
      PROVE  /\ Keeps(products, products', h) /\ UNCHANGED productMap
             /\ \A g \in Handler : g # h => req'[g] = req[g]
  BY <1>2, <1>3, MoveKeeps DEF AdjustStock, Begin
<1>4. ASSUME NEW p \in Product, NEW op, FindProduct(h, op, p)
      PROVE  /\ UNCHANGED <<products, productMap>>
             /\ \A g \in Handler : g # h => req'[g] = req[g]
  BY <1>2, <1>4 DEF FindProduct, Begin, stockVars
<1>5. CASE InventoryRequest(h)
  BY <1>3, <1>4, <1>5, QuietTablesKeep DEF InventoryRequest
<1>6. CASE CommitAdjustment(h)
  BY <1>6, EndsKeep, RespondKeeps DEF CommitAdjustment, CommitStock
<1>7. ASSUME NEW stock, UpdateProduct(h, stock)
      PROVE  Keeps(products, products', h) /\ Respond(h)
  BY <1>7, StoreTables, StatementsKeep DEF UpdateProduct, SetProduct
<1>8. CASE RemoveProduct(h)
  <2>1. Keeps(products, products', h) /\ Respond(h)
    BY <1>8, StoreTables, StatementsKeep DEF RemoveProduct, SetProduct
  <2> QED BY <2>1, RespondKeeps
<1>9. CASE ExpireInventory(h)
  BY <1>9, EndsKeep, RespondKeeps DEF ExpireInventory, RollbackStock
<1>10. CASE InventoryStep(h)
  BY <1>6, <1>7, <1>8, <1>9, <1>10, RespondKeeps DEF InventoryStep
<1> QED BY <1>5, <1>10

(***************************************************************************)
(* No step of a handler rewrites or unlocks what another one is writing,   *)
(* or changes its locals.                                                  *)
(***************************************************************************)
LEMMA StepKeepsOthers ==
  ASSUME StoreInv, NEW h \in Handler, StoreRequest(h) \/ StoreStep(h)
  PROVE  OthersKeep(h)
BY SalesKeep, ReturnsKeep, PurchaseKeep, InventoryKeep
   DEF StoreRequest, StoreStep

-----------------------------------------------------------------------------
(***************************************************************************)
(* What handler h holds and knows.  Before its first write a request holds *)
(* no lock; after it, its locks are on rows of its own tenant, and on      *)
(* tables that its service writes; the ids it carries from one statement   *)
(* to the next have passed a tenant filter.                                *)
(***************************************************************************)
BeforeWrite == {"idle", "insertOrder", "markCompleted", "markReceived",
                "insertReturn", "writeProduct"}

Writing(h, op) == req[h].op \in op /\ req[h].at \notin BeforeWrite

HandlerLocks(h) ==
  /\ \A p \in Product :
       products.holder[p] = h => Sees(h, p) /\ Writing(h, Op)
  /\ \A o \in SalesOrder :
       salesOrders.holder[o] = h =>
         Sees(h, o) /\ Writing(h, SalesOp \cup ReturnsOp)
  /\ \A o \in PurchaseOrder :
       purchaseOrders.holder[o] = h => Sees(h, o) /\ Writing(h, PurchaseOp)
  /\ \A r \in SalesReturn :
       salesReturns.holder[r] = h => Sees(h, r) /\ Writing(h, ReturnsOp)
  /\ \A k \in SalesOrder \X LineNo :
       orderItems.holder[k] = h => Writing(h, ReturnsOp)
  /\ req[h].op # "none" => Sees(h, req[h].key)
  /\ \A p \in DOMAIN productMap[h] : Sees(h, p)

LockInv == \A h \in Handler : HandlerLocks(h)

(***************************************************************************)
(* A step of h need only be checked for h.                                 *)
(***************************************************************************)
LEMMA LocksOfOthers ==
  ASSUME StoreInv, LockInv, NEW h \in Handler, OthersKeep(h),
         HandlerLocks(h)'
  PROVE  LockInv'
<1> SUFFICES ASSUME NEW g \in Handler, g # h PROVE HandlerLocks(g)'
  BY DEF LockInv
<1>1. HandlerLocks(g) /\ g # NoOne
  BY OpeningAssumption DEF LockInv
<1>2. req'[g] = req[g] /\ productMap'[g] = productMap[g]
  BY DEF OthersKeep
<1>3. /\ DOMAIN products.holder = Product
      /\ DOMAIN salesOrders.holder = SalesOrder
      /\ DOMAIN purchaseOrders.holder = PurchaseOrder
      /\ DOMAIN salesReturns.holder = SalesReturn
      /\ DOMAIN orderItems.holder = SalesOrder \X LineNo
  BY StoreTables DEF Table
<1>4. /\ \A p \in Product : products'.holder[p] = g => products.holder[p] = g
      /\ \A o \in SalesOrder :
           salesOrders'.holder[o] = g => salesOrders.holder[o] = g
      /\ \A o \in PurchaseOrder :
           purchaseOrders'.holder[o] = g => purchaseOrders.holder[o] = g
      /\ \A r \in SalesReturn :
           salesReturns'.holder[r] = g => salesReturns.holder[r] = g
      /\ \A k \in SalesOrder \X LineNo :
           orderItems'.holder[k] = g => orderItems.holder[k] = g
  BY <1>1, <1>3 DEF OthersKeep, Keeps
<1> QED BY <1>1, <1>2, <1>4 DEF HandlerLocks, Writing, Sees

\* A handler that has not written yet holds nothing.
LEMMA NothingYet ==
  ASSUME LockInv, NEW h \in Handler, req[h].at \in BeforeWrite
  PROVE  /\ \A p \in Product : products.holder[p] # h
         /\ \A o \in SalesOrder : salesOrders.holder[o] # h
         /\ \A o \in PurchaseOrder : purchaseOrders.holder[o] # h
         /\ \A r \in SalesReturn : salesReturns.holder[r] # h
         /\ \A k \in SalesOrder \X LineNo : orderItems.holder[k] # h
BY DEF LockInv, HandlerLocks, Writing

\* A lock tells which service its handler is running.
LEMMA ServiceOfLock ==
  ASSUME LockInv, NEW h \in Handler
  PROVE  /\ req[h].op \in PurchaseOp \cup InventoryOp =>
              /\ \A o \in SalesOrder : salesOrders.holder[o] # h
              /\ \A r \in SalesReturn : salesReturns.holder[r] # h
              /\ \A k \in SalesOrder \X LineNo : orderItems.holder[k] # h
         /\ req[h].op \in SalesOp \cup InventoryOp \cup ReturnsOp =>
              \A o \in PurchaseOrder : purchaseOrders.holder[o] # h
         /\ req[h].op \in SalesOp =>
              /\ \A r \in SalesReturn : salesReturns.holder[r] # h
              /\ \A k \in SalesOrder \X LineNo : orderItems.holder[k] # h
BY DEF LockInv, HandlerLocks, Writing, SalesOp, PurchaseOp, ReturnsOp,
       InventoryOp

\* Who holds what after a write, and after the end of a transaction.
LEMMA Holders ==
  ASSUME NEW K, NEW R, NEW t \in Table(K, R, Handler), NEW h \in Handler
  PROVE  /\ \A k, row : \A j \in K :
              Update(t, h, k, row).holder[j] = h => j = k \/ t.holder[j] = h
         /\ \A j \in K : Commit(t, h).holder[j] # h
         /\ \A j \in K : Rollback(t, h).holder[j] # h
         /\ \A k, row : Overwrite(t, k, row).holder = t.holder
<1>1. h # NoOne
  BY OpeningAssumption
<1> QED BY <1>1 DEF Update, Commit, Rollback, Overwrite, Table

\* A response leaves the handler with nothing, if its transaction has ended
\* in every table that its service writes.
LEMMA RespondLocks ==
  ASSUME StoreInv, LockInv, NEW h \in Handler, Respond(h),
         \A p \in Product : products'.holder[p] # h,
         \A o \in SalesOrder : salesOrders'.holder[o] # h,
         \A o \in PurchaseOrder : purchaseOrders'.holder[o] # h,
         \A r \in SalesReturn : salesReturns'.holder[r] # h,
         \A k \in SalesOrder \X LineNo : orderItems'.holder[k] # h
  PROVE  HandlerLocks(h)'
<1>1. req'[h] = IdleRequest /\ productMap'[h] = NothingFound
  BY DEF Respond, StoreInv, StoreTypeOK, RequestsTypeOK
<1> QED BY <1>1 DEF HandlerLocks, IdleRequest, NothingFound

\* The next statement of a request that has begun to write, or is about to.
LEMMA GotoFacts ==
  ASSUME StoreInv, NEW h \in Handler, NEW at, Goto(h, at)
  PROVE  req'[h].op = req[h].op /\ req'[h].key = req[h].key /\ req'[h].at = at
BY LocalFacts DEF Goto, StoreInv, StoreTypeOK, RequestsTypeOK, Request

\* A request that has just begun.
LEMMA BeginFacts ==
  ASSUME StoreInv, NEW h \in Handler, NEW op, NEW key, NEW at,
         Begin(h, op, key, at)
  PROVE  /\ req'[h].op = op /\ req'[h].key = key /\ req'[h].at = at
         /\ req[h].at \in BeforeWrite /\ req[h].op = "none"
BY DEF Begin, StoreInv, StoreTypeOK, RequestsTypeOK, BeforeWrite, IdleRequest

\* Where a response leaves its handler.
LEMMA RespondFacts ==
  ASSUME StoreInv, NEW h \in Handler, Respond(h)
  PROVE  req'[h].at = "idle" /\ req'[h].op = "none" /\ req'[h].key = NoKey
BY DEF Respond, StoreInv, StoreTypeOK, RequestsTypeOK, IdleRequest

\* A handler that runs, ran or is about to run a method of one service runs
\* none of another one, and its next statement is one of that service.
Running(ops, statements, h) ==
  /\ req[h].op \in ops \cup {"none"}
  /\ req'[h].op \in ops \cup {"none"}
  /\ req'[h].at \in statements \cup {"idle", "commit"}

\* A step of SalesService is one of its own methods.
LEMMA SalesMoves ==
  ASSUME StoreInv, NEW h \in Handler, SalesRequest(h) \/ SalesStep(h)
  PROVE  Running(SalesOp, {"insertOrder", "markCompleted", "shipLine"}, h)
<1>1. ASSUME NEW o \in SalesOrder, NEW cart, NEW op \in SalesOp,
             \/ BuildOrderItems(h, op, o, cart)
             \/ FindPendingSalesOrder(h, o)
             \/ CancelSalesOrder(h, o)
      PROVE  /\ req'[h].op \in SalesOp /\ req[h].op = "none"
             /\ req'[h].at \in {"insertOrder", "commit", "markCompleted"}
  BY <1>1, BeginFacts
     DEF BuildOrderItems, FindPendingSalesOrder, CancelSalesOrder, SalesOp
<1>2. CASE SalesRequest(h)
  BY <1>1, <1>2 DEF SalesRequest, SalesOp, Running
<1>3. CASE InsertSalesOrder(h) \/ MarkCompleted(h)
  BY <1>3, GotoFacts DEF InsertSalesOrder, MarkCompleted, At, SalesOp, Running
<1>4. CASE ShipLine(h)
  BY <1>4 DEF ShipLine, At, Running
<1>5. CASE Respond(h) /\ req[h].op \in SalesOp
  BY <1>5, RespondFacts DEF Running
<1>6. CASE SalesStep(h)
  BY <1>3, <1>4, <1>5, <1>6
     DEF SalesStep, CommitSale, RefuseOrderNumber, RefuseShortage, ExpireSale,
         RollbackSale, At, SalesOp
<1> QED BY <1>2, <1>6

\* So is a step of PurchaseService,
LEMMA PurchaseMoves ==
  ASSUME StoreInv, NEW h \in Handler, PurchaseRequest(h) \/ PurchaseStep(h)
  PROVE  Running(PurchaseOp, {"markReceived", "findProducts", "receiveLine"}, h)
<1>1. ASSUME NEW o \in PurchaseOrder, NEW cart, NEW op \in PurchaseOp,
             \/ InsertPurchaseOrder(h, op, o, cart)
             \/ FindPurchaseOrder(h, o)
             \/ CancelPurchaseOrder(h, o)
      PROVE  /\ req'[h].op \in PurchaseOp /\ req[h].op = "none"
             /\ req'[h].at \in {"findProducts", "commit", "markReceived"}
  BY <1>1, BeginFacts
     DEF InsertPurchaseOrder, FindPurchaseOrder, CancelPurchaseOrder, PurchaseOp
<1>2. CASE PurchaseRequest(h)
  BY <1>1, <1>2 DEF PurchaseRequest, PurchaseOp, Running
<1>3. CASE MarkReceived(h) \/ FindReceivedProducts(h)
  BY <1>3, GotoFacts
     DEF MarkReceived, FindReceivedProducts, At, PurchaseOp, Running
<1>4. CASE ReceiveLine(h)
  BY <1>4 DEF ReceiveLine, At, Running
<1>5. CASE Respond(h) /\ req[h].op \in PurchaseOp
  BY <1>5, RespondFacts DEF Running
<1>6. CASE PurchaseStep(h)
  BY <1>3, <1>4, <1>5, <1>6
     DEF PurchaseStep, CommitPurchase, RefuseForeignProduct, ExpirePurchase,
         RollbackPurchase, At
<1> QED BY <1>2, <1>6

\* a step of ReturnsService,
LEMMA ReturnsMoves ==
  ASSUME StoreInv, NEW h \in Handler, ReturnsRequest(h) \/ ReturnsStep(h)
  PROVE  Running(ReturnsOp, {"insertReturn", "returnItem", "restock"}, h)
<1>1. CASE ReturnsRequest(h)
  BY <1>1, BeginFacts DEF ReturnsRequest, CheckReturn, ReturnsOp, Running
<1>2. CASE \/ InsertSalesReturn(h) \/ IncrementReturned(h) \/ Restock(h)
           \/ ReduceTotals(h)
  BY <1>2, GotoFacts
     DEF InsertSalesReturn, IncrementReturned, Restock, ReduceTotals, At, Running
<1>3. CASE Respond(h) /\ req[h].op \in ReturnsOp
  BY <1>3, RespondFacts DEF Running
<1>4. CASE ReturnsStep(h)
  BY <1>2, <1>3, <1>4
     DEF ReturnsStep, CommitReturn, RefuseReturnNumber, ExpireReturn,
         RollbackReturn, At
<1> QED BY <1>1, <1>4

\* and an adjustment, a PATCH or a DELETE of a product.
LEMMA InventoryMoves ==
  ASSUME StoreInv, NEW h \in Handler, InventoryRequest(h) \/ InventoryStep(h)
  PROVE  Running(InventoryOp, {"writeProduct"}, h)
<1>1. ASSUME NEW p \in Product, NEW change, NEW type, NEW op \in InventoryOp,
             AdjustStock(h, p, change, type) \/ FindProduct(h, op, p)
      PROVE  /\ req'[h].op \in InventoryOp /\ req[h].op = "none"
             /\ req'[h].at \in {"commit", "writeProduct"}
  BY <1>1, BeginFacts DEF AdjustStock, FindProduct, InventoryOp
<1>2. CASE InventoryRequest(h)
  BY <1>1, <1>2 DEF InventoryRequest, InventoryOp, Running
<1>3. CASE InventoryStep(h)
  BY <1>3, RespondFacts
     DEF InventoryStep, CommitAdjustment, UpdateProduct, RemoveProduct,
         ExpireInventory, At, InventoryOp, Running
<1> QED BY <1>2, <1>3

\* Where a stock loop is, its product is a product.
LEMMA MoveHolder ==
  ASSUME StoreInv, NEW h \in Handler, NEW p, NEW change, NEW cost,
         MoveStock(h, p, change, cost)
  PROVE  \A q \in Product :
           products'.holder[q] = h => q = p \/ products.holder[q] = h
BY StoreTables, Holders DEF MoveStock

\* Steps of SalesService keep the lock invariant.
LEMMA SalesLocks ==
  ASSUME StoreInv, LockInv, NEW h \in Handler,
         SalesRequest(h) \/ SalesStep(h),
         UNCHANGED <<returnsVars, purchaseVars>>
  PROVE  HandlerLocks(h)'
<1>1. UNCHANGED <<purchaseOrders, salesReturns, orderItems>>
  BY DEF returnsVars, purchaseVars
<1>2. HandlerLocks(h)
  BY DEF LockInv
<1>3. DOMAIN productMap = Handler
  BY DEF StoreInv, StoreTypeOK, RequestsTypeOK
<1>4. ASSUME NEW o \in SalesOrder, NEW cart \in SaleCarts,
             NEW op \in {"createSalesOrder", "createPendingSalesOrder"},
             BuildOrderItems(h, op, o, cart)
      PROVE  HandlerLocks(h)'
  <2>1. req'[h].key = o /\ req[h].at \in BeforeWrite
    BY <1>4, BeginFacts DEF BuildOrderItems
  <2>2. UNCHANGED <<products, salesOrders>> /\ Sees(h, o)
    BY <1>4 DEF BuildOrderItems, stockVars, salesVars
  <2>3. productMap'[h] = FindProducts(h, cart)
    BY <1>3, <1>4 DEF BuildOrderItems
  <2>4. \A p \in DOMAIN productMap'[h] : Sees(h, p)
    BY <2>3 DEF FindProducts
  <2> QED BY <1>1, <2>1, <2>2, <2>4, NothingYet DEF HandlerLocks, Sees
<1>5. ASSUME NEW o \in SalesOrder, FindPendingSalesOrder(h, o)
      PROVE  HandlerLocks(h)'
  <2>1. req'[h].key = o /\ req[h].at \in BeforeWrite
    BY <1>5, BeginFacts DEF FindPendingSalesOrder
  <2>2. UNCHANGED <<products, salesOrders, productMap>> /\ Sees(h, o)
    BY <1>5 DEF FindPendingSalesOrder, stockVars, salesVars
  <2> QED BY <1>1, <1>2, <2>1, <2>2, NothingYet DEF HandlerLocks, Sees
<1>6. ASSUME NEW o \in SalesOrder, CancelSalesOrder(h, o)
      PROVE  HandlerLocks(h)'
  <2>1. /\ req'[h].op = "cancelSalesOrder" /\ req'[h].key = o
        /\ req'[h].at = "commit" /\ req[h].at \in BeforeWrite
    BY <1>6, BeginFacts DEF CancelSalesOrder
  <2>2. /\ UNCHANGED <<products, productMap>> /\ Sees(h, o)
        /\ \A x \in SalesOrder : salesOrders'.holder[x] = h =>
             x = o \/ salesOrders.holder[x] = h
    BY <1>6, StoreTables, Holders DEF CancelSalesOrder, stockVars
  <2>3. Writing(h, SalesOp \cup ReturnsOp)'
    BY <2>1 DEF Writing, SalesOp, BeforeWrite
  <2> QED BY <1>1, <1>2, <2>1, <2>2, <2>3, NothingYet DEF HandlerLocks, Sees
<1>7. CASE InsertSalesOrder(h) \/ MarkCompleted(h)
  <2>1. /\ req[h].op \in SalesOp /\ req[h].at \in BeforeWrite
        /\ req'[h].op = req[h].op /\ req'[h].key = req[h].key
        /\ req'[h].at \in {"shipLine", "commit"}
    BY <1>7, GotoFacts DEF InsertSalesOrder, MarkCompleted, At, SalesOp, BeforeWrite
  <2>2. /\ UNCHANGED <<products, productMap>>
        /\ \A x \in SalesOrder : salesOrders'.holder[x] = h =>
             x = req[h].key \/ salesOrders.holder[x] = h
    BY <1>7, StoreTables, Holders DEF InsertSalesOrder, MarkCompleted, stockVars
  <2>3. Sees(h, req[h].key)
    BY <1>2, <2>1 DEF HandlerLocks, SalesOp
  <2>4. Writing(h, SalesOp \cup ReturnsOp)'
    BY <2>1 DEF Writing, BeforeWrite
  <2> QED BY <1>1, <1>2, <2>1, <2>2, <2>3, <2>4, NothingYet
          DEF HandlerLocks, Sees
<1>8. CASE ShipLine(h)
  <2>1. /\ UNCHANGED <<req, productMap, salesOrders>>
        /\ Sees(h, Head(todo[h]).product)
        /\ req[h].op \in SalesOp /\ req[h].at = "shipLine"
    BY <1>8 DEF ShipLine, InStock, salesVars, At
  <2>2. \A q \in Product : products'.holder[q] = h =>
          q = Head(todo[h]).product \/ products.holder[q] = h
    BY <1>8, MoveHolder DEF ShipLine
  <2>3. Writing(h, Op)
    BY <2>1 DEF Writing, Op, BeforeWrite
  <2> QED BY <1>1, <1>2, <2>1, <2>2, <2>3 DEF HandlerLocks, Sees, Writing
<1>9. CASE CommitSale(h) \/ (req[h].op \in SalesOp /\ RollbackSale(h))
  <2>1. req[h].op \in SalesOp /\ Respond(h)
    BY <1>9 DEF CommitSale, RollbackSale, At
  <2>2. /\ \A p \in Product : products'.holder[p] # h
        /\ \A o \in SalesOrder : salesOrders'.holder[o] # h
    BY <1>9, StoreTables, Holders
       DEF CommitSale, CommitStock, RollbackSale, RollbackStock
  <2> QED BY <1>1, <2>1, <2>2, ServiceOfLock, RespondLocks
<1>10. CASE SalesRequest(h)
  BY <1>4, <1>5, <1>6, <1>10 DEF SalesRequest
<1>11. CASE SalesStep(h)
  <2>1. \/ InsertSalesOrder(h) \/ MarkCompleted(h) \/ ShipLine(h)
        \/ CommitSale(h) \/ (req[h].op \in SalesOp /\ RollbackSale(h))
    BY <1>11 DEF SalesStep, RefuseOrderNumber, RefuseShortage, ExpireSale, At,
                 SalesOp
  <2> QED BY <1>7, <1>8, <1>9, <2>1
<1> QED BY <1>10, <1>11

\* Steps of ReturnsService keep the lock invariant.
LEMMA ReturnsLocks ==
  ASSUME StoreInv, LockInv, NEW h \in Handler,
         ReturnsRequest(h) \/ ReturnsStep(h),
         UNCHANGED purchaseVars
  PROVE  HandlerLocks(h)'
<1>1. UNCHANGED purchaseOrders
  BY DEF purchaseVars
<1>2. HandlerLocks(h)
  BY DEF LockInv
<1>3. ASSUME NEW r \in SalesReturn, NEW o \in SalesOrder, NEW picks,
             CheckReturn(h, r, o, picks)
      PROVE  HandlerLocks(h)'
  <2>1. req'[h].key = r /\ req[h].at \in BeforeWrite
    BY <1>3, BeginFacts DEF CheckReturn
  <2>2. /\ UNCHANGED <<products, salesOrders, salesReturns, orderItems, productMap>>
        /\ Sees(h, r)
    BY <1>3 DEF CheckReturn, stockVars, salesVars
  <2> QED BY <1>1, <1>2, <2>1, <2>2, NothingYet DEF HandlerLocks, Sees
<1>4. ASSUME req[h].op \in ReturnsOp, req'[h].op = req[h].op,
             req'[h].key = req[h].key,
             req'[h].at \in {"returnItem", "restock", "commit"}
      PROVE  /\ Writing(h, ReturnsOp)' /\ Writing(h, SalesOp \cup ReturnsOp)'
             /\ Writing(h, Op)'
             /\ req'[h].op # "none" => Sees(h, req'[h].key)
  BY <1>2, <1>4 DEF Writing, HandlerLocks, Op, BeforeWrite
<1>5. CASE InsertSalesReturn(h)
  <2>1. /\ req[h].op \in ReturnsOp /\ req[h].at \in BeforeWrite
        /\ req'[h].op = req[h].op /\ req'[h].key = req[h].key
        /\ req'[h].at = "returnItem"
    BY <1>5, GotoFacts DEF InsertSalesReturn, At, BeforeWrite
  <2>2. /\ UNCHANGED <<products, salesOrders, orderItems, productMap>>
        /\ \A x \in SalesReturn : salesReturns'.holder[x] = h =>
             x = req[h].key \/ salesReturns.holder[x] = h
    BY <1>5, StoreTables, Holders DEF InsertSalesReturn, stockVars, salesVars
  <2>3. Sees(h, req[h].key)
    BY <1>2, <2>1 DEF HandlerLocks, ReturnsOp
  <2> QED BY <1>1, <1>2, <1>4, <2>1, <2>2, <2>3, NothingYet
          DEF HandlerLocks, Sees
<1>6. CASE IncrementReturned(h)
  <2>1. /\ req[h].op \in ReturnsOp
        /\ req'[h].op = req[h].op /\ req'[h].key = req[h].key
        /\ req'[h].at = "restock"
    BY <1>6, GotoFacts DEF IncrementReturned, At
  <2>2. UNCHANGED <<products, salesOrders, salesReturns, productMap>>
    BY <1>6 DEF IncrementReturned, stockVars, salesVars
  <2> QED BY <1>1, <1>2, <1>4, <2>1, <2>2, ServiceOfLock DEF HandlerLocks, Sees
<1>7. CASE Restock(h)
  <2>1. /\ req[h].op \in ReturnsOp /\ Sees(h, Head(claim[h].items).product)
        /\ req'[h].op = req[h].op /\ req'[h].key = req[h].key
        /\ req'[h].at = "returnItem"
    BY <1>7, GotoFacts DEF Restock, At
  <2>2. UNCHANGED <<salesOrders, salesReturns, orderItems, productMap>>
    BY <1>7 DEF Restock, salesVars
  <2>3. \A q \in Product : products'.holder[q] = h =>
          q = Head(claim[h].items).product \/ products.holder[q] = h
    BY <1>7, MoveHolder DEF Restock
  <2> QED BY <1>1, <1>2, <1>4, <2>1, <2>2, <2>3, ServiceOfLock
          DEF HandlerLocks, Sees
<1>8. CASE ReduceTotals(h)
  <2>1. /\ req[h].op \in ReturnsOp /\ Sees(h, claim[h].order)
        /\ req'[h].op = req[h].op /\ req'[h].key = req[h].key
        /\ req'[h].at = "commit"
    BY <1>8, GotoFacts DEF ReduceTotals, At
  <2>2. /\ UNCHANGED <<products, salesReturns, orderItems, productMap>>
        /\ \A x \in SalesOrder : salesOrders'.holder[x] = h =>
             x = claim[h].order \/ salesOrders.holder[x] = h
    BY <1>8, StoreTables, Holders DEF ReduceTotals, stockVars
  <2> QED BY <1>1, <1>2, <1>4, <2>1, <2>2, ServiceOfLock DEF HandlerLocks, Sees
<1>9. CASE CommitReturn(h) \/ (req[h].op \in ReturnsOp /\ RollbackReturn(h))
  <2>1. req[h].op \in ReturnsOp /\ Respond(h)
    BY <1>9 DEF CommitReturn, RollbackReturn, At
  <2>2. /\ \A p \in Product : products'.holder[p] # h
        /\ \A o \in SalesOrder : salesOrders'.holder[o] # h
        /\ \A r \in SalesReturn : salesReturns'.holder[r] # h
        /\ \A k \in SalesOrder \X LineNo : orderItems'.holder[k] # h
    BY <1>9, StoreTables, Holders
       DEF CommitReturn, CommitStock, RollbackReturn, RollbackStock
  <2> QED BY <1>1, <2>1, <2>2, ServiceOfLock, RespondLocks
<1>10. CASE ReturnsRequest(h)
  BY <1>3, <1>10 DEF ReturnsRequest
<1>11. CASE ReturnsStep(h)
  <2>1. \/ InsertSalesReturn(h) \/ IncrementReturned(h) \/ Restock(h)
        \/ ReduceTotals(h) \/ CommitReturn(h)
        \/ (req[h].op \in ReturnsOp /\ RollbackReturn(h))
    BY <1>11 DEF ReturnsStep, RefuseReturnNumber, ExpireReturn, At
  <2> QED BY <1>5, <1>6, <1>7, <1>8, <1>9, <2>1
<1> QED BY <1>10, <1>11

\* Steps of PurchaseService keep the lock invariant.
LEMMA PurchaseLocks ==
  ASSUME StoreInv, LockInv, NEW h \in Handler,
         PurchaseRequest(h) \/ PurchaseStep(h),
         UNCHANGED <<salesVars, returnsVars>>
  PROVE  HandlerLocks(h)'
<1>1. UNCHANGED <<salesOrders, salesReturns, orderItems>>
  BY DEF salesVars, returnsVars
<1>2. HandlerLocks(h)
  BY DEF LockInv
<1>3. ASSUME NEW o \in PurchaseOrder, NEW cart, NEW op \in PurchaseOp,
             InsertPurchaseOrder(h, op, o, cart) \/ CancelPurchaseOrder(h, o)
      PROVE  HandlerLocks(h)'
  <2>1. /\ req'[h].op \in PurchaseOp /\ req'[h].key = o
        /\ req'[h].at \in {"findProducts", "commit"}
        /\ req[h].at \in BeforeWrite
    BY <1>3, BeginFacts DEF InsertPurchaseOrder, CancelPurchaseOrder, PurchaseOp
  <2>2. /\ UNCHANGED <<products, productMap>> /\ Sees(h, o)
        /\ \A x \in PurchaseOrder : purchaseOrders'.holder[x] = h =>
             x = o \/ purchaseOrders.holder[x] = h
    BY <1>3, StoreTables, Holders
       DEF InsertPurchaseOrder, CancelPurchaseOrder, stockVars
  <2>3. Writing(h, PurchaseOp)'
    BY <2>1 DEF Writing, BeforeWrite
  <2> QED BY <1>1, <1>2, <2>1, <2>2, <2>3, NothingYet DEF HandlerLocks, Sees
<1>4. ASSUME NEW o \in PurchaseOrder, FindPurchaseOrder(h, o)
      PROVE  HandlerLocks(h)'
  <2>1. req'[h].key = o /\ req[h].at \in BeforeWrite
    BY <1>4, BeginFacts DEF FindPurchaseOrder
  <2>2. UNCHANGED <<products, purchaseOrders, productMap>> /\ Sees(h, o)
    BY <1>4 DEF FindPurchaseOrder, stockVars, purchaseVars
  <2> QED BY <1>1, <1>2, <2>1, <2>2, NothingYet DEF HandlerLocks, Sees
<1>5. CASE MarkReceived(h)
  <2>1. /\ req[h].op \in PurchaseOp /\ req[h].at \in BeforeWrite
        /\ req'[h].op = req[h].op /\ req'[h].key = req[h].key
        /\ req'[h].at = "findProducts"
    BY <1>5, GotoFacts DEF MarkReceived, At, PurchaseOp, BeforeWrite
  <2>2. /\ UNCHANGED <<products, productMap>>
        /\ \A x \in PurchaseOrder : purchaseOrders'.holder[x] = h =>
             x = req[h].key \/ purchaseOrders.holder[x] = h
    BY <1>5, StoreTables, Holders DEF MarkReceived, stockVars
  <2>3. Sees(h, req[h].key)
    BY <1>2, <2>1 DEF HandlerLocks, PurchaseOp
  <2>4. Writing(h, PurchaseOp)'
    BY <2>1 DEF Writing, BeforeWrite
  <2> QED BY <1>1, <1>2, <2>1, <2>2, <2>3, <2>4, NothingYet
          DEF HandlerLocks, Sees
<1>6. CASE FindReceivedProducts(h)
  <2>1. /\ req[h].op \in PurchaseOp
        /\ req'[h].op = req[h].op /\ req'[h].key = req[h].key
        /\ req'[h].at = "receiveLine"
    BY <1>6, GotoFacts DEF FindReceivedProducts, At
  <2>2. /\ UNCHANGED <<products, purchaseOrders>>
        /\ productMap'[h] = FindProducts(h, todo[h])
    BY <1>6 DEF FindReceivedProducts, stockVars, purchaseVars, StoreInv,
                StoreTypeOK, RequestsTypeOK
  <2>3. \A p \in DOMAIN productMap'[h] : Sees(h, p)
    BY <2>2 DEF FindProducts
  <2>4. Writing(h, PurchaseOp)' /\ Writing(h, Op)'
    BY <2>1 DEF Writing, BeforeWrite, Op
  <2> QED BY <1>1, <1>2, <2>1, <2>2, <2>3, <2>4, ServiceOfLock
          DEF HandlerLocks, Sees
<1>7. CASE ReceiveLine(h)
  <2>1. /\ UNCHANGED <<req, productMap, purchaseOrders>>
        /\ Head(todo[h]).product \in DOMAIN productMap[h]
        /\ req[h].op \in PurchaseOp /\ req[h].at = "receiveLine"
    BY <1>7 DEF ReceiveLine, purchaseVars, At
  <2>2. \A q \in Product : products'.holder[q] = h =>
          q = Head(todo[h]).product \/ products.holder[q] = h
    BY <1>7, MoveHolder DEF ReceiveLine
  <2>3. Writing(h, Op)
    BY <2>1 DEF Writing, Op, BeforeWrite
  <2> QED BY <1>1, <1>2, <2>1, <2>2, <2>3 DEF HandlerLocks, Sees, Writing
<1>8. CASE CommitPurchase(h) \/ (req[h].op \in PurchaseOp /\ RollbackPurchase(h))
  <2>1. req[h].op \in PurchaseOp /\ Respond(h)
    BY <1>8 DEF CommitPurchase, RollbackPurchase, At
  <2>2. /\ \A p \in Product : products'.holder[p] # h
        /\ \A o \in PurchaseOrder : purchaseOrders'.holder[o] # h
    BY <1>8, StoreTables, Holders
       DEF CommitPurchase, CommitStock, RollbackPurchase, RollbackStock
  <2> QED BY <1>1, <2>1, <2>2, ServiceOfLock, RespondLocks
<1>9. CASE PurchaseRequest(h)
  BY <1>3, <1>4, <1>9 DEF PurchaseRequest, PurchaseOp
<1>10. CASE PurchaseStep(h)
  <2>1. \/ MarkReceived(h) \/ FindReceivedProducts(h) \/ ReceiveLine(h)
        \/ CommitPurchase(h)
        \/ (req[h].op \in PurchaseOp /\ RollbackPurchase(h))
    BY <1>10 DEF PurchaseStep, RefuseForeignProduct, ExpirePurchase, At
  <2> QED BY <1>5, <1>6, <1>7, <1>8, <2>1
<1> QED BY <1>9, <1>10

\* Steps of InventoryService and product edits keep the lock invariant.
LEMMA InventoryLocks ==
  ASSUME StoreInv, LockInv, NEW h \in Handler,
         InventoryRequest(h) \/ InventoryStep(h),
         UNCHANGED <<salesVars, returnsVars, purchaseVars>>
  PROVE  HandlerLocks(h)'
<1>1. UNCHANGED <<salesOrders, purchaseOrders, salesReturns, orderItems>>
  BY DEF salesVars, returnsVars, purchaseVars
<1>2. HandlerLocks(h)
  BY DEF LockInv
<1>3. ASSUME NEW p \in Product, NEW change, NEW type,
             AdjustStock(h, p, change, type)
      PROVE  HandlerLocks(h)'
  <2>1. /\ req'[h].op = "adjustStock" /\ req'[h].key = p
        /\ req'[h].at = "commit" /\ req[h].at \in BeforeWrite
    BY <1>3, BeginFacts DEF AdjustStock
  <2>2. UNCHANGED productMap /\ Sees(h, p)
    BY <1>3 DEF AdjustStock
  <2>3. \A q \in Product :
          products'.holder[q] = h => q = p \/ products.holder[q] = h
    BY <1>3, MoveHolder DEF AdjustStock
  <2>4. Writing(h, Op)'
    BY <2>1 DEF Writing, Op, InventoryOp, BeforeWrite
  <2> QED BY <1>1, <1>2, <2>1, <2>2, <2>3, <2>4, NothingYet
          DEF HandlerLocks, Sees
<1>4. ASSUME NEW p \in Product, NEW op, FindProduct(h, op, p)
      PROVE  HandlerLocks(h)'
  <2>1. req'[h].key = p /\ req[h].at \in BeforeWrite
    BY <1>4, BeginFacts DEF FindProduct
  <2>2. UNCHANGED <<products, productMap>> /\ Sees(h, p)
    BY <1>4 DEF FindProduct, stockVars
  <2> QED BY <1>1, <1>2, <2>1, <2>2, NothingYet DEF HandlerLocks, Sees
<1>5. CASE CommitAdjustment(h) \/ ExpireInventory(h)
  <2>1. req[h].op \in InventoryOp /\ Respond(h)
    BY <1>5 DEF CommitAdjustment, ExpireInventory, At, InventoryOp
  <2>2. \A p \in Product : products'.holder[p] # h
    BY <1>5, StoreTables, Holders
       DEF CommitAdjustment, CommitStock, ExpireInventory, RollbackStock
  <2> QED BY <1>1, <2>1, <2>2, ServiceOfLock, RespondLocks
<1>6. ASSUME NEW stock, UpdateProduct(h, stock)
      PROVE  HandlerLocks(h)'
  <2>1. req[h].at \in BeforeWrite /\ Respond(h)
    BY <1>6 DEF UpdateProduct, At, BeforeWrite
  <2>2. products'.holder = products.holder
    BY <1>6, StoreTables, Holders DEF UpdateProduct, SetProduct
  <2> QED BY <1>1, <2>1, <2>2, NothingYet, RespondLocks
<1>7. CASE RemoveProduct(h)
  <2>1. req[h].at \in BeforeWrite /\ Respond(h)
    BY <1>7 DEF RemoveProduct, At, BeforeWrite
  <2>2. products'.holder = products.holder
    BY <1>7, StoreTables, Holders DEF RemoveProduct, SetProduct
  <2> QED BY <1>1, <2>1, <2>2, NothingYet, RespondLocks
<1>8. CASE InventoryRequest(h)
  BY <1>3, <1>4, <1>8 DEF InventoryRequest
<1>9. CASE InventoryStep(h)
  BY <1>5, <1>6, <1>7, <1>9 DEF InventoryStep
<1> QED BY <1>8, <1>9

\* No lock is held when the store opens.
LEMMA LockInitInv == StoreInit => LockInv
<1> SUFFICES ASSUME StoreInit, NEW h \in Handler PROVE HandlerLocks(h)
  BY DEF LockInv
<1>1. h # NoOne
  BY OpeningAssumption
<1>2. req[h] = IdleRequest /\ productMap[h] = NothingFound
  BY DEF StoreInit, RequestsInit
<1>3. PICK rows \in OpeningRows : products = NewTable(rows)
  BY DEF StoreInit, StockInit
<1>4. DOMAIN rows = Product
  BY <1>3, OpeningAssumption
<1>5. /\ \A p \in Product : products.holder[p] = NoOne
      /\ \A o \in SalesOrder : salesOrders.holder[o] = NoOne
      /\ \A o \in PurchaseOrder : purchaseOrders.holder[o] = NoOne
      /\ \A r \in SalesReturn : salesReturns.holder[r] = NoOne
      /\ \A k \in SalesOrder \X LineNo : orderItems.holder[k] = NoOne
  BY <1>3, <1>4 DEF StoreInit, SalesInit, PurchaseInit, ReturnsInit, NewTable
<1> QED BY <1>1, <1>2, <1>5 DEF HandlerLocks, IdleRequest, NothingFound

\* Every step keeps the lock invariant.
LEMMA LockNextInv ==
  StoreInv /\ LockInv /\ [StoreNext]_storeVars => LockInv'
<1> SUFFICES ASSUME StoreInv, LockInv, [StoreNext]_storeVars PROVE LockInv'
  OBVIOUS
<1>1. CASE UNCHANGED storeVars
  BY <1>1 DEF storeVars, stockVars, requestVars, salesVars, returnsVars,
              purchaseVars, LockInv, HandlerLocks, Writing, Sees
<1>2. ASSUME NEW h \in Handler, StoreRequest(h) \/ StoreStep(h)
      PROVE  LockInv'
  <2>1. HandlerLocks(h)'
    BY <1>2, SalesLocks, ReturnsLocks, PurchaseLocks, InventoryLocks
       DEF StoreRequest, StoreStep
  <2>2. OthersKeep(h)
    BY <1>2, StepKeepsOthers
  <2> QED BY <2>1, <2>2, LocksOfOthers
<1> QED BY <1>1, <1>2 DEF StoreNext

\* The lock invariant holds for ever.
LEMMA LocksAlways == StoreSpec => [](StoreInv /\ LockInv)
<1>1. StoreInit => LockInv
  BY LockInitInv
<1>2. StoreInv /\ LockInv /\ [StoreNext]_storeVars => LockInv'
  BY LockNextInv
<1> QED BY <1>1, <1>2, StoreAlways, PTL DEF StoreSpec

(***************************************************************************)
(* A handler between two requests holds no row lock and has no ledger rows *)
(* waiting, for any number of concurrent requests: no method ends without  *)
(* ending its transaction in every table it wrote.                         *)
(***************************************************************************)
THEOREM FinishedRequestsHoldNothing == StoreSpec => []IdleHoldsNothing
<1>1. StoreInv /\ LockInv => IdleHoldsNothing
  <2> SUFFICES ASSUME StoreInv, LockInv, NEW h \in Handler, req[h] = IdleRequest
               PROVE  /\ HoldsNothing(products, h)
                      /\ HoldsNothing(salesOrders, h)
                      /\ HoldsNothing(salesReturns, h)
                      /\ HoldsNothing(orderItems, h)
                      /\ HoldsNothing(purchaseOrders, h)
                      /\ posted[h] = NoRows
    BY DEF IdleHoldsNothing
  <2>1. req[h].at \in BeforeWrite
    BY DEF IdleRequest, BeforeWrite
  <2>2. \A p \in Product : products.holder[p] # h
    BY <2>1, NothingYet
  <2>3. posted[h] \in [Product -> Int] /\ \A p \in Product : posted[h][p] = 0
    BY <2>2 DEF StoreInv, StockInv, StockTypeOK, LedgerAccountsForStock
  <2>4. posted[h] = NoRows
    BY <2>3 DEF NoRows
  <2> QED BY <2>1, <2>4, NothingYet, StoreTables DEF HoldsNothing, Table
<1> QED BY <1>1, LocksAlways, PTL

-----------------------------------------------------------------------------
(***************************************************************************)
(* What a step of h may do to a table: rows that h's user cannot see stay  *)
(* as they are.                                                            *)
(***************************************************************************)
Confined(t, u, h) ==
  \A k \in DOMAIN t.current : ~ Sees(h, k) => u.current[k] = t.current[k]

\* A write of a row of the tenant is confined, and so is the end of a
\* transaction whose locks are all on such rows.
LEMMA WritesConfined ==
  ASSUME NEW K, NEW R, NEW t \in Table(K, R, Handler), NEW h \in Handler
  PROVE  /\ Confined(t, t, h)
         /\ Confined(t, Commit(t, h), h)
         /\ (\A k \in K : t.holder[k] = h => Sees(h, k)) =>
              Confined(t, Rollback(t, h), h)
         /\ \A k, row : Sees(h, k) =>
              /\ Confined(t, Update(t, h, k, row), h)
              /\ Confined(t, Overwrite(t, k, row), h)
BY DEF Confined, Commit, Rollback, Update, Overwrite, Table

\* The locks of h are on rows that its user can see.
LEMMA LocksAreSeen ==
  ASSUME LockInv, NEW h \in Handler
  PROVE  /\ \A p \in Product : products.holder[p] = h => Sees(h, p)
         /\ \A o \in SalesOrder : salesOrders.holder[o] = h => Sees(h, o)
         /\ \A o \in PurchaseOrder :
              purchaseOrders.holder[o] = h => Sees(h, o)
         /\ \A r \in SalesReturn : salesReturns.holder[r] = h => Sees(h, r)
         /\ req[h].op # "none" => Sees(h, req[h].key)
         /\ \A p \in DOMAIN productMap[h] : Sees(h, p)
BY DEF LockInv, HandlerLocks

StepConfined(h) ==
  /\ Confined(products, products', h)
  /\ Confined(salesOrders, salesOrders', h)
  /\ Confined(purchaseOrders, purchaseOrders', h)
  /\ Confined(salesReturns, salesReturns', h)

\* What is left alone is confined, and what a transaction ends, too.
LEMMA QuietConfined ==
  ASSUME StoreInv, LockInv, NEW h \in Handler
  PROVE  /\ Confined(products, products, h)
         /\ Confined(products, Commit(products, h), h)
         /\ Confined(products, Rollback(products, h), h)
         /\ Confined(salesOrders, salesOrders, h)
         /\ Confined(salesOrders, Commit(salesOrders, h), h)
         /\ Confined(salesOrders, Rollback(salesOrders, h), h)
         /\ Confined(purchaseOrders, purchaseOrders, h)
         /\ Confined(purchaseOrders, Commit(purchaseOrders, h), h)
         /\ Confined(purchaseOrders, Rollback(purchaseOrders, h), h)
         /\ Confined(salesReturns, salesReturns, h)
         /\ Confined(salesReturns, Commit(salesReturns, h), h)
         /\ Confined(salesReturns, Rollback(salesReturns, h), h)
BY StoreTables, LocksAreSeen, WritesConfined

\* Steps of SalesService are confined.
LEMMA SalesConfined ==
  ASSUME StoreInv, LockInv, NEW h \in Handler,
         SalesRequest(h) \/ SalesStep(h),
         UNCHANGED <<returnsVars, purchaseVars>>
  PROVE  StepConfined(h)
<1>1. UNCHANGED <<purchaseOrders, salesReturns>>
  BY DEF returnsVars, purchaseVars
<1> SUFFICES Confined(products, products', h) /\ Confined(salesOrders, salesOrders', h)
  BY <1>1, QuietConfined DEF StepConfined
<1>2. CASE SalesRequest(h)
  BY <1>2, StoreTables, WritesConfined, QuietConfined
     DEF SalesRequest, BuildOrderItems, FindPendingSalesOrder,
         CancelSalesOrder, stockVars, salesVars
<1>3. CASE InsertSalesOrder(h) \/ MarkCompleted(h)
  <2>1. req[h].op # "none"
    BY <1>3 DEF InsertSalesOrder, MarkCompleted, At
  <2> QED BY <1>3, <2>1, StoreTables, LocksAreSeen, WritesConfined, QuietConfined
          DEF InsertSalesOrder, MarkCompleted, stockVars
<1>4. CASE ShipLine(h)
  BY <1>4, StoreTables, WritesConfined, QuietConfined
     DEF ShipLine, InStock, MoveStock, salesVars
<1>5. CASE CommitSale(h) \/ RollbackSale(h)
  BY <1>5, QuietConfined
     DEF CommitSale, CommitStock, RollbackSale, RollbackStock
<1> QED BY <1>2, <1>3, <1>4, <1>5
        DEF SalesStep, RefuseOrderNumber, RefuseShortage, ExpireSale

\* Steps of ReturnsService are confined.
LEMMA ReturnsConfined ==
  ASSUME StoreInv, LockInv, NEW h \in Handler,
         ReturnsRequest(h) \/ ReturnsStep(h), UNCHANGED purchaseVars
  PROVE  StepConfined(h)
<1>1. UNCHANGED purchaseOrders
  BY DEF purchaseVars
<1>2. CASE ReturnsRequest(h)
  BY <1>1, <1>2, QuietConfined
     DEF StepConfined, ReturnsRequest, CheckReturn, stockVars, salesVars
<1>3. CASE InsertSalesReturn(h)
  <2>1. Sees(h, req[h].key)
    BY <1>3, LocksAreSeen DEF InsertSalesReturn, At, ReturnsOp
  <2> QED BY <1>1, <1>3, <2>1, StoreTables, WritesConfined, QuietConfined
          DEF StepConfined, InsertSalesReturn, stockVars, salesVars
<1>4. CASE IncrementReturned(h)
  BY <1>1, <1>4, QuietConfined
     DEF StepConfined, IncrementReturned, stockVars, salesVars
<1>5. CASE Restock(h)
  BY <1>1, <1>5, StoreTables, WritesConfined, QuietConfined
     DEF StepConfined, Restock, MoveStock, salesVars
<1>6. CASE ReduceTotals(h)
  BY <1>1, <1>6, StoreTables, WritesConfined, QuietConfined
     DEF StepConfined, ReduceTotals, stockVars
<1>7. CASE CommitReturn(h) \/ RollbackReturn(h)
  BY <1>1, <1>7, QuietConfined
     DEF StepConfined, CommitReturn, CommitStock, RollbackReturn, RollbackStock
<1> QED BY <1>2, <1>3, <1>4, <1>5, <1>6, <1>7
        DEF ReturnsStep, RefuseReturnNumber, ExpireReturn

\* Steps of PurchaseService are confined: an order may name products of
\* another tenant, but only a product that findMany returned is written.
LEMMA PurchaseConfined ==
  ASSUME StoreInv, LockInv, NEW h \in Handler,
         PurchaseRequest(h) \/ PurchaseStep(h),
         UNCHANGED <<salesVars, returnsVars>>
  PROVE  StepConfined(h)
<1>1. UNCHANGED <<salesOrders, salesReturns>>
  BY DEF salesVars, returnsVars
<1> SUFFICES /\ Confined(products, products', h)
             /\ Confined(purchaseOrders, purchaseOrders', h)
  BY <1>1, QuietConfined DEF StepConfined
<1>2. CASE PurchaseRequest(h)
  <2>1. ASSUME NEW o \in PurchaseOrder, NEW cart, NEW op,
               InsertPurchaseOrder(h, op, o, cart) \/ CancelPurchaseOrder(h, o)
        PROVE  UNCHANGED products /\ Confined(purchaseOrders, purchaseOrders', h)
    BY <2>1, StoreTables, WritesConfined
       DEF InsertPurchaseOrder, CancelPurchaseOrder, stockVars
  <2>2. ASSUME NEW o \in PurchaseOrder, FindPurchaseOrder(h, o)
        PROVE  UNCHANGED <<products, purchaseOrders>>
    BY <2>2 DEF FindPurchaseOrder, stockVars, purchaseVars
  <2> QED BY <1>2, <2>1, <2>2, QuietConfined DEF PurchaseRequest
<1>3. CASE MarkReceived(h)
  <2>1. Sees(h, req[h].key)
    BY <1>3, LocksAreSeen DEF MarkReceived, At
  <2> QED BY <1>3, <2>1, StoreTables, WritesConfined, QuietConfined
          DEF MarkReceived, stockVars
<1>4. CASE FindReceivedProducts(h)
  BY <1>4, QuietConfined DEF FindReceivedProducts, stockVars, purchaseVars
<1>5. CASE ReceiveLine(h)
  <2>1. Sees(h, Head(todo[h]).product)
    BY <1>5, LocksAreSeen DEF ReceiveLine
  <2> QED BY <1>5, <2>1, StoreTables, WritesConfined, QuietConfined
          DEF ReceiveLine, MoveStock, purchaseVars
<1>6. CASE CommitPurchase(h) \/ RollbackPurchase(h)
  BY <1>6, QuietConfined
     DEF CommitPurchase, CommitStock, RollbackPurchase, RollbackStock
<1> QED BY <1>2, <1>3, <1>4, <1>5, <1>6
        DEF PurchaseStep, RefuseForeignProduct, ExpirePurchase

\* Adjustments, PATCHes and DELETEs of products are confined.
LEMMA InventoryConfined ==
  ASSUME StoreInv, LockInv, NEW h \in Handler,
         InventoryRequest(h) \/ InventoryStep(h),
         UNCHANGED <<salesVars, returnsVars, purchaseVars>>
  PROVE  StepConfined(h)
<1>1. UNCHANGED <<salesOrders, purchaseOrders, salesReturns>>
  BY DEF salesVars, returnsVars, purchaseVars
<1> SUFFICES Confined(products, products', h)
  BY <1>1, QuietConfined DEF StepConfined
<1>2. ASSUME NEW p \in Product, NEW change, NEW type,
             AdjustStock(h, p, change, type)
      PROVE  Confined(products, products', h)
  BY <1>2, StoreTables, WritesConfined DEF AdjustStock, MoveStock
<1>3. ASSUME NEW p \in Product, NEW op, FindProduct(h, op, p)
      PROVE  Confined(products, products', h)
  BY <1>3, QuietConfined DEF FindProduct, stockVars
<1>4. ASSUME NEW stock, UpdateProduct(h, stock)
      PROVE  Confined(products, products', h)
  <2>1. Sees(h, req[h].key)
    BY <1>4, LocksAreSeen DEF UpdateProduct, At
  <2> QED BY <1>4, <2>1, StoreTables, WritesConfined DEF UpdateProduct, SetProduct
<1>5. CASE RemoveProduct(h)
  <2>1. Sees(h, req[h].key)
    BY <1>5, LocksAreSeen DEF RemoveProduct, At
  <2> QED BY <1>5, <2>1, StoreTables, WritesConfined DEF RemoveProduct, SetProduct
<1>6. CASE CommitAdjustment(h) \/ ExpireInventory(h)
  BY <1>6, QuietConfined
     DEF CommitAdjustment, CommitStock, ExpireInventory, RollbackStock
<1>7. CASE InventoryRequest(h)
  BY <1>2, <1>3, <1>7 DEF InventoryRequest
<1>8. CASE InventoryStep(h)
  BY <1>4, <1>5, <1>6, <1>8 DEF InventoryStep
<1> QED BY <1>7, <1>8

(***************************************************************************)
(* No step of a request changes a product, an order, a purchase order or a *)
(* return of another tenant, for any number of tenants, whatever ids the   *)
(* request names.                                                          *)
(***************************************************************************)
THEOREM TenantsAreIsolated == StoreSpec => TenantIsolation
<1> DEFINE Isolated ==
      \A h \in Handler :
        \/ /\ \A p \in Product :
                ~ Sees(h, p) => products'.current[p] = products.current[p]
           /\ \A o \in SalesOrder :
                ~ Sees(h, o) => salesOrders'.current[o] = salesOrders.current[o]
           /\ \A o \in PurchaseOrder :
                ~ Sees(h, o) =>
                  purchaseOrders'.current[o] = purchaseOrders.current[o]
           /\ \A r \in SalesReturn :
                ~ Sees(h, r) =>
                  salesReturns'.current[r] = salesReturns.current[r]
        \/ ~ (StoreRequest(h) \/ StoreStep(h))
<1>1. StoreInv /\ LockInv => Isolated
  <2> SUFFICES ASSUME StoreInv, LockInv, NEW h \in Handler,
                      StoreRequest(h) \/ StoreStep(h)
               PROVE  StepConfined(h)
    BY StoreTables DEF StepConfined, Confined, Table
  <2> QED BY SalesConfined, ReturnsConfined, PurchaseConfined, InventoryConfined
          DEF StoreRequest, StoreStep
<1>2. [][Isolated]_storeVars => TenantIsolation
  BY DEF TenantIsolation
<1> HIDE DEF Isolated
<1> QED BY <1>1, <1>2, LocksAlways, PTL

-----------------------------------------------------------------------------
(***************************************************************************)
(* Statuses.  A row whose committed status is s is not being given another *)
(* one, hence a committed status s stays.                                  *)
(***************************************************************************)
Lasting(t, s) ==
  \A k \in DOMAIN t.holder :
     t.committed[k].status = s => t.current[k].status = s

Stays(t, u, s) ==
  \A k \in DOMAIN t.holder :
     t.committed[k].status = s => u.committed[k].status = s

\* The statements that keep a status: all but a write of another status over
\* it.
LEMMA StatusLasts ==
  ASSUME NEW K, NEW R, NEW t \in Table(K, R, Handler), NEW h \in Handler,
         NEW s, Lasting(t, s)
  PROVE  /\ Stays(t, t, s)
         /\ Lasting(Commit(t, h), s) /\ Stays(t, Commit(t, h), s)
         /\ Lasting(Rollback(t, h), s) /\ Stays(t, Rollback(t, h), s)
         /\ \A k \in K : \A row : (t.current[k].status = s => row.status = s) =>
              /\ Lasting(Update(t, h, k, row), s)
              /\ Stays(t, Update(t, h, k, row), s)
BY DEF Lasting, Stays, Commit, Rollback, Visible, Update, Table

\* What Update leaves in a table, and what Commit and Rollback commit.
LEMMA Versions ==
  ASSUME NEW K, NEW R, NEW t \in Table(K, R, Handler), NEW h \in Handler
  PROVE  /\ \A k \in K : \A row :
              /\ Update(t, h, k, row).committed = t.committed
              /\ Update(t, h, k, row).current[k] = row
              /\ Update(t, h, k, row).holder[k] = h
              /\ \A j \in K : j # k =>
                   Update(t, h, k, row).current[j] = t.current[j]
         /\ \A k \in K : t.holder[k] = h =>
              Commit(t, h).committed[k] = t.current[k]
         /\ \A k \in K : Commit(t, h).committed[k] \in {t.committed[k], t.current[k]}
         /\ \A k \in K : Commit(t, h).current[k] = t.current[k]
         /\ Rollback(t, h).committed = t.committed
         /\ \A k \in K : Rollback(t, h).current[k] \in {t.committed[k], t.current[k]}
BY DEF Update, Commit, Rollback, Visible, Table

(***************************************************************************)
(* The method of a shipment has made its order COMPLETED before the stock  *)
(* loop, and holds the row; a method that commits without a stock loop has *)
(* moved no stock.                                                         *)
(***************************************************************************)
ShipsOwn(h) ==
  /\ req[h].at = "shipLine" =>
       \A o \in SalesOrder : req[h].key = o =>
         salesOrders.holder[o] = h /\ salesOrders.current[o].status = "COMPLETED"
  /\ req[h].op \in SalesOp /\ req[h].at = "commit" =>
       \A p \in Product : products.holder[p] # h

SoldInv ==
  /\ OnlyCompletedShips
  /\ Lasting(salesOrders, "COMPLETED")
  /\ \A h \in Handler : ShipsOwn(h)

SoldStep(h) ==
  /\ OnlyCompletedShips'
  /\ Lasting(salesOrders', "COMPLETED")
  /\ Stays(salesOrders, salesOrders', "COMPLETED")
  /\ ShipsOwn(h)'

\* A step of h need only be checked for h.
LEMMA SoldOfOthers ==
  ASSUME StoreInv, SoldInv, NEW h \in Handler, OthersKeep(h), SoldStep(h)
  PROVE  SoldInv'
<1> SUFFICES ASSUME NEW g \in Handler, g # h PROVE ShipsOwn(g)'
  BY DEF SoldInv, SoldStep
<1>1. ShipsOwn(g) /\ g # NoOne
  BY OpeningAssumption DEF SoldInv
<1>2. req'[g] = req[g]
  BY DEF OthersKeep
<1>3. DOMAIN products.holder = Product /\ DOMAIN salesOrders.holder = SalesOrder
  BY StoreTables DEF Table
<1>4. /\ \A p \in Product : products'.holder[p] = g => products.holder[p] = g
      /\ \A o \in SalesOrder : salesOrders.holder[o] = g =>
           /\ salesOrders'.holder[o] = g
           /\ salesOrders'.current[o] = salesOrders.current[o]
  BY <1>1, <1>3 DEF OthersKeep, Keeps
<1> QED BY <1>1, <1>2, <1>4 DEF ShipsOwn

\* A step that leaves sales orders alone, of a method that does not ship.
LEMMA SoldQuietly ==
  ASSUME StoreInv, SoldInv, NEW h \in Handler,
         UNCHANGED <<salesOrders, shipped>>,
         req'[h].at # "shipLine", ~ (req'[h].op \in SalesOp /\ req'[h].at = "commit")
  PROVE  SoldStep(h)
BY StoreTables, StatusLasts DEF SoldInv, SoldStep, ShipsOwn, OnlyCompletedShips

\* The end of a transaction that adds nothing to what was shipped.
LEMMA SoldAtEnd ==
  ASSUME StoreInv, SoldInv, NEW h \in Handler, Respond(h),
         \/ salesOrders' = Commit(salesOrders, h)
         \/ salesOrders' = Rollback(salesOrders, h),
         UNCHANGED shipped
  PROVE  SoldStep(h)
<1>1. req'[h] = IdleRequest
  BY DEF Respond, StoreInv, StoreTypeOK, RequestsTypeOK
<1>2. ShipsOwn(h)'
  BY <1>1 DEF ShipsOwn, IdleRequest
<1>3. Lasting(salesOrders', "COMPLETED") /\ Stays(salesOrders, salesOrders', "COMPLETED")
  BY StoreTables, StatusLasts DEF SoldInv
<1>4. OnlyCompletedShips'
  BY <1>3, StoreTables DEF SoldInv, OnlyCompletedShips, Stays, Table
<1> QED BY <1>2, <1>3, <1>4 DEF SoldStep

\* A handler that holds no product has inserted no ledger row.
LEMMA NothingPosted ==
  ASSUME StoreInv, NEW h \in Handler, \A p \in Product : products.holder[p] # h
  PROVE  \A p \in Product : posted[h][p] = 0
BY DEF StoreInv, StockInv, LedgerAccountsForStock

\* Steps of SalesService keep the invariant.
LEMMA SalesSold ==
  ASSUME StoreInv, LockInv, SoldInv, NEW h \in Handler,
         SalesRequest(h) \/ SalesStep(h)
  PROVE  SoldStep(h)
<1>1. /\ salesOrders \in Table(SalesOrder, SalesOrderRow, Handler)
      /\ DOMAIN salesOrders.holder = SalesOrder
      /\ shipped \in [SalesOrder -> [Product -> Int]]
  BY StoreTables, SalesRows DEF Table
<1>2. ShipsOwn(h) /\ Lasting(salesOrders, "COMPLETED") /\ OnlyCompletedShips
  BY DEF SoldInv
<1>3. ASSUME NEW o \in SalesOrder, NEW cart, NEW op, BuildOrderItems(h, op, o, cart)
      PROVE  SoldStep(h)
  <2>1. req'[h].at = "insertOrder" /\ UNCHANGED <<salesOrders, shipped>>
    BY <1>3, BeginFacts DEF BuildOrderItems, salesVars
  <2> QED BY <2>1, SoldQuietly
<1>4. ASSUME NEW o \in SalesOrder, FindPendingSalesOrder(h, o)
      PROVE  SoldStep(h)
  <2>1. req'[h].at = "markCompleted" /\ UNCHANGED <<salesOrders, shipped>>
    BY <1>4, BeginFacts DEF FindPendingSalesOrder, salesVars
  <2> QED BY <2>1, SoldQuietly
<1>5. ASSUME NEW o \in SalesOrder, NEW row,
             salesOrders' = Update(salesOrders, h, o, row),
             salesOrders.current[o].status = "COMPLETED" => row.status = "COMPLETED",
             UNCHANGED shipped
      PROVE  /\ OnlyCompletedShips'
             /\ Lasting(salesOrders', "COMPLETED")
             /\ Stays(salesOrders, salesOrders', "COMPLETED")
  <2>1. /\ Lasting(salesOrders', "COMPLETED")
        /\ Stays(salesOrders, salesOrders', "COMPLETED")
    BY <1>1, <1>2, <1>5, StatusLasts
  <2>2. salesOrders'.committed = salesOrders.committed
    BY <1>1, <1>5, Versions
  <2> QED BY <1>2, <1>5, <2>1, <2>2 DEF OnlyCompletedShips
<1>6. ASSUME NEW o \in SalesOrder, CancelSalesOrder(h, o)
      PROVE  SoldStep(h)
  <2> DEFINE row == [salesOrders.current[o] EXCEPT !.status = "CANCELLED"]
  <2>1. /\ req'[h].at = "commit" /\ req[h].at \in BeforeWrite
        /\ UNCHANGED products
    BY <1>6, BeginFacts DEF CancelSalesOrder, stockVars
  <2>2. /\ salesOrders' = Update(salesOrders, h, o, row)
        /\ salesOrders.current[o].status # "COMPLETED"
        /\ UNCHANGED shipped
    BY <1>6 DEF CancelSalesOrder
  <2>3. ShipsOwn(h)'
    BY <2>1, NothingYet DEF ShipsOwn
  <2> HIDE DEF row
  <2> QED BY <1>5, <2>2, <2>3 DEF SoldStep
<1>7. ASSUME NEW row, row.status \in {"COMPLETED", "PENDING"},
             req[h].key \in SalesOrder,
             salesOrders' = Update(salesOrders, h, req[h].key, row),
             salesOrders.current[req[h].key].status = "COMPLETED"
               => row.status = "COMPLETED",
             UNCHANGED <<shipped, products>>,
             req[h].at \in BeforeWrite, req'[h].key = req[h].key,
             req'[h].at = IF row.status = "COMPLETED" THEN "shipLine" ELSE "commit"
      PROVE  SoldStep(h)
  <2>1. /\ salesOrders'.holder[req[h].key] = h
        /\ salesOrders'.current[req[h].key] = row
    BY <1>1, <1>7, Versions
  <2>2. \A p \in Product : products'.holder[p] # h
    BY <1>7, NothingYet
  <2>3. ShipsOwn(h)'
    BY <1>7, <2>1, <2>2 DEF ShipsOwn
  <2> QED BY <1>5, <1>7, <2>3 DEF SoldStep
<1>8. ASSUME req[h].key \notin SalesOrder, NEW row,
             salesOrders' = Update(salesOrders, h, req[h].key, row),
             UNCHANGED <<shipped, products>>,
             req[h].at \in BeforeWrite, req'[h].key = req[h].key
      PROVE  SoldStep(h)
  <2>1. /\ salesOrders'.committed = salesOrders.committed
        /\ salesOrders'.current = salesOrders.current
        /\ salesOrders'.holder = salesOrders.holder
    BY <1>1, <1>8 DEF Update, Table
  <2>2. ShipsOwn(h)'
    BY <1>8, NothingYet DEF ShipsOwn
  <2> QED BY <1>1, <1>2, <1>8, <2>1, <2>2
          DEF SoldStep, OnlyCompletedShips, Lasting, Stays
<1>9. CASE InsertSalesOrder(h)
  <2> DEFINE ships == req[h].op = "createSalesOrder"
             row == [status |-> IF ships THEN "COMPLETED" ELSE "PENDING",
                     items |-> OrderItems(todo[h], productMap[h]),
                     returnedCogs |-> 0, returnedProfit |-> 0]
  <2>1. /\ req[h].at \in BeforeWrite
        /\ salesOrders' = Update(salesOrders, h, req[h].key, row)
        /\ salesOrders.current[req[h].key].status # "COMPLETED"
        /\ UNCHANGED <<shipped, products>>
    BY <1>9 DEF InsertSalesOrder, At, BeforeWrite, stockVars
  <2>2. /\ row.status \in {"COMPLETED", "PENDING"}
        /\ row.status = "COMPLETED" <=> ships
    OBVIOUS
  <2>3. /\ req'[h].key = req[h].key
        /\ req'[h].at = IF ships THEN "shipLine" ELSE "commit"
    BY <1>9, GotoFacts DEF InsertSalesOrder
  <2> HIDE DEF row, ships
  <2> QED BY <1>7, <1>8, <2>1, <2>2, <2>3
<1>10. CASE MarkCompleted(h)
  <2> DEFINE row == [salesOrders.current[req[h].key] EXCEPT !.status = "COMPLETED"]
  <2>1. /\ req[h].at \in BeforeWrite
        /\ salesOrders' = Update(salesOrders, h, req[h].key, row)
        /\ UNCHANGED <<shipped, products>>
    BY <1>10 DEF MarkCompleted, At, BeforeWrite, stockVars
  <2>2. req[h].key \in SalesOrder => row.status = "COMPLETED"
    BY SalesRows DEF SalesOrderRow
  <2>3. /\ req'[h].key = req[h].key
        /\ req'[h].at = "shipLine"
    BY <1>10, GotoFacts DEF MarkCompleted
  <2> HIDE DEF row
  <2> QED BY <1>7, <1>8, <2>1, <2>2, <2>3
<1>11. CASE ShipLine(h)
  <2>1. UNCHANGED <<req, salesOrders, shipped>> /\ req[h].at = "shipLine"
    BY <1>11 DEF ShipLine, salesVars, At
  <2>2. ShipsOwn(h)'
    BY <1>2, <2>1 DEF ShipsOwn
  <2> QED BY <1>1, <1>2, <2>1, <2>2, StatusLasts
          DEF SoldStep, OnlyCompletedShips
<1>12. CASE CommitSale(h)
  <2> DEFINE key == req[h].key
  <2>1. /\ Respond(h)
        /\ salesOrders' = Commit(salesOrders, h)
        /\ shipped' = [shipped EXCEPT
             ![key] = [p \in Product |-> @[p] - posted[h][p]]]
        /\ req[h].at = "shipLine" \/ (req[h].op \in SalesOp /\ req[h].at = "commit")
    BY <1>12 DEF CommitSale, At
  <2>2. CASE req[h].op \in SalesOp /\ req[h].at = "commit"
    <3>1. \A p \in Product : posted[h][p] = 0
      BY <1>2, <2>2, NothingPosted DEF ShipsOwn
    <3>2. ASSUME NEW o \in SalesOrder
          PROVE  [p \in Product |-> shipped[o][p] - posted[h][p]] = shipped[o]
      <4>1. shipped[o] \in [Product -> Int]
        BY <1>1
      <4> QED BY <3>1, <4>1
    <3>3. shipped' = shipped
      BY <1>1, <2>1, <3>2
    <3> QED BY <2>1, <3>3, SoldAtEnd
  <2>3. CASE req[h].at = "shipLine"
    <3>1. /\ Lasting(salesOrders', "COMPLETED")
          /\ Stays(salesOrders, salesOrders', "COMPLETED")
      BY <1>1, <1>2, <2>1, StatusLasts
    <3>2. ASSUME NEW o \in SalesOrder, salesOrders'.committed[o].status # "COMPLETED"
          PROVE  shipped'[o] = NoRows
      <4>1. o # key
        BY <1>1, <1>2, <2>1, <2>3, <3>2, Versions DEF ShipsOwn
      <4>2. shipped'[o] = shipped[o]
        BY <1>1, <2>1, <4>1
      <4> QED BY <1>1, <1>2, <3>1, <3>2, <4>2 DEF OnlyCompletedShips, Stays
    <3>3. req'[h] = IdleRequest
      BY <2>1 DEF Respond, StoreInv, StoreTypeOK, RequestsTypeOK
    <3>4. ShipsOwn(h)'
      BY <3>3 DEF ShipsOwn, IdleRequest
    <3>5. NoRows' = NoRows
      BY DEF NoRows
    <3> QED BY <3>1, <3>2, <3>4, <3>5 DEF SoldStep, OnlyCompletedShips
  <2> QED BY <2>1, <2>2, <2>3
<1>13. CASE RollbackSale(h)
  BY <1>13, SoldAtEnd DEF RollbackSale
<1>14. CASE SalesRequest(h)
  BY <1>3, <1>4, <1>6, <1>14 DEF SalesRequest
<1>15. CASE SalesStep(h)
  BY <1>9, <1>10, <1>11, <1>12, <1>13, <1>15
     DEF SalesStep, RefuseOrderNumber, RefuseShortage, ExpireSale
<1> QED BY <1>14, <1>15

\* Steps of ReturnsService keep the invariant: they take amounts off an
\* order's totals and leave its status.
LEMMA ReturnsSold ==
  ASSUME StoreInv, SoldInv, NEW h \in Handler,
         ReturnsRequest(h) \/ ReturnsStep(h)
  PROVE  SoldStep(h)
<1>1. ASSUME NEW r \in SalesReturn, NEW o \in SalesOrder, NEW picks,
             CheckReturn(h, r, o, picks)
      PROVE  SoldStep(h)
  <2>1. req'[h].at = "insertReturn" /\ UNCHANGED <<salesOrders, shipped>>
    BY <1>1, BeginFacts DEF CheckReturn, salesVars
  <2> QED BY <2>1, SoldQuietly
<1>2. CASE InsertSalesReturn(h) \/ IncrementReturned(h) \/ Restock(h)
  <2>1. /\ req'[h].at \in {"returnItem", "restock"}
        /\ UNCHANGED <<salesOrders, shipped>>
    BY <1>2, GotoFacts DEF InsertSalesReturn, IncrementReturned, Restock, salesVars
  <2> QED BY <2>1, SoldQuietly
<1>3. CASE ReduceTotals(h)
  <2> DEFINE o == claim[h].order
             row == [salesOrders.current[o] EXCEPT
                       !.returnedCogs = @ + claim[h].returnedCogs,
                       !.returnedProfit = @ + claim[h].returnedProfit]
  <2>1. /\ salesOrders' = Update(salesOrders, h, o, row)
        /\ UNCHANGED shipped
        /\ req[h].op \in ReturnsOp /\ req'[h].op = req[h].op
        /\ req'[h].at = "commit"
    BY <1>3, GotoFacts DEF ReduceTotals, At
  <2>2. ShipsOwn(h)'
    BY <2>1 DEF ShipsOwn, ReturnsOp, SalesOp
  <2>3. o \in SalesOrder => row.status = salesOrders.current[o].status
    BY SalesRows DEF SalesOrderRow
  <2>4. /\ salesOrders \in Table(SalesOrder, SalesOrderRow, Handler)
        /\ Lasting(salesOrders, "COMPLETED") /\ OnlyCompletedShips
    BY StoreTables DEF SoldInv
  <2> HIDE DEF o, row
  <2>5. CASE o \in SalesOrder
    <3>1. /\ Lasting(salesOrders', "COMPLETED")
          /\ Stays(salesOrders, salesOrders', "COMPLETED")
      BY <2>1, <2>3, <2>4, <2>5, StatusLasts
    <3>2. salesOrders'.committed = salesOrders.committed
      BY <2>1, <2>4, <2>5, Versions
    <3> QED BY <2>1, <2>2, <2>4, <3>1, <3>2 DEF SoldStep, OnlyCompletedShips
  <2>6. CASE o \notin SalesOrder
    <3>1. /\ salesOrders'.committed = salesOrders.committed
          /\ salesOrders'.current = salesOrders.current
          /\ DOMAIN salesOrders'.holder = DOMAIN salesOrders.holder
      BY <2>1, <2>4, <2>6 DEF Update, Table
    <3> QED BY <2>1, <2>2, <2>4, <3>1
            DEF SoldStep, OnlyCompletedShips, Lasting, Stays
  <2> QED BY <2>5, <2>6
<1>4. CASE CommitReturn(h) \/ RollbackReturn(h)
  BY <1>4, SoldAtEnd DEF CommitReturn, RollbackReturn
<1>5. CASE ReturnsRequest(h)
  BY <1>1, <1>5 DEF ReturnsRequest
<1>6. CASE ReturnsStep(h)
  BY <1>2, <1>3, <1>4, <1>6 DEF ReturnsStep, RefuseReturnNumber, ExpireReturn
<1> QED BY <1>5, <1>6

\* The other services do not touch sales orders.
LEMMA OthersSold ==
  ASSUME StoreInv, SoldInv, NEW h \in Handler,
         \/ PurchaseRequest(h) \/ PurchaseStep(h)
         \/ InventoryRequest(h) \/ InventoryStep(h),
         UNCHANGED salesVars
  PROVE  SoldStep(h)
<1>1. UNCHANGED <<salesOrders, shipped>>
  BY DEF salesVars
<1>2. /\ req'[h].at # "shipLine"
      /\ ~ (req'[h].op \in SalesOp /\ req'[h].at = "commit")
  BY PurchaseMoves, InventoryMoves DEF Running, SalesOp, PurchaseOp, InventoryOp
<1> QED BY <1>1, <1>2, SoldQuietly

\* Every step of the store.
LEMMA StepSold ==
  ASSUME StoreInv, LockInv, SoldInv, NEW h \in Handler,
         StoreRequest(h) \/ StoreStep(h)
  PROVE  SoldStep(h)
BY SalesSold, ReturnsSold, OthersSold DEF StoreRequest, StoreStep

\* Every step keeps the invariant, and every COMPLETED order.
LEMMA SoldNextInv ==
  StoreInv /\ LockInv /\ SoldInv /\ [StoreNext]_storeVars =>
    SoldInv' /\ Stays(salesOrders, salesOrders', "COMPLETED")
<1> SUFFICES ASSUME StoreInv, LockInv, SoldInv, [StoreNext]_storeVars
             PROVE  SoldInv' /\ Stays(salesOrders, salesOrders', "COMPLETED")
  OBVIOUS
<1>1. CASE UNCHANGED storeVars
  BY <1>1 DEF storeVars, stockVars, requestVars, salesVars, SoldInv,
              OnlyCompletedShips, ShipsOwn, Lasting, Stays
<1>2. ASSUME NEW h \in Handler, StoreRequest(h) \/ StoreStep(h)
      PROVE  SoldInv' /\ Stays(salesOrders, salesOrders', "COMPLETED")
  <2>1. SoldStep(h)
    BY <1>2, StepSold
  <2>2. OthersKeep(h)
    BY <1>2, StepKeepsOthers
  <2> QED BY <2>1, <2>2, SoldOfOthers DEF SoldStep
<1> QED BY <1>1, <1>2 DEF StoreNext

\* Nothing has been sold when the store opens.
LEMMA SoldInitInv == StoreInit => SoldInv
<1> SUFFICES ASSUME StoreInit PROVE SoldInv
  OBVIOUS
<1>1. /\ salesOrders = NewTable([o \in SalesOrder |-> NoSalesOrder])
      /\ shipped = [o \in SalesOrder |-> NoRows]
      /\ \A h \in Handler : req[h] = IdleRequest
  BY DEF StoreInit, SalesInit, RequestsInit
<1> QED BY <1>1 DEF SoldInv, OnlyCompletedShips, ShipsOwn, Lasting, NewTable,
                    NoSalesOrder, IdleRequest

\* The invariant holds for ever.
LEMMA SoldAlways == StoreSpec => [](StoreInv /\ LockInv /\ SoldInv)
<1>1. StoreInit => SoldInv
  BY SoldInitInv
<1>2. StoreInv /\ LockInv /\ SoldInv /\ [StoreNext]_storeVars => SoldInv'
  BY SoldNextInv
<1> QED BY <1>1, <1>2, LocksAlways, PTL DEF StoreSpec

(***************************************************************************)
(* An order that is not COMPLETED has taken nothing out of stock, for any  *)
(* number of concurrent sales, completions, cancellations, returns and     *)
(* failures of all of them.                                                *)
(***************************************************************************)
THEOREM OnlyCompletedOrdersShip == StoreSpec => []OnlyCompletedShips
<1>1. SoldInv => OnlyCompletedShips
  BY DEF SoldInv
<1> QED BY <1>1, SoldAlways, PTL

-----------------------------------------------------------------------------
(***************************************************************************)
(* The same for purchase orders: a receipt has made its order RECEIVED     *)
(* before it moves stock, and holds the row; a method that commits without *)
(* a stock loop has moved none.                                            *)
(***************************************************************************)
ReceivesOwn(h) ==
  /\ req[h].at \in {"findProducts", "receiveLine"} =>
       \A o \in PurchaseOrder : req[h].key = o =>
         /\ purchaseOrders.holder[o] = h
         /\ purchaseOrders.current[o].status = "RECEIVED"
  /\ req[h].op \in PurchaseOp /\ req[h].at = "commit" =>
       \A p \in Product : products.holder[p] # h

BoughtInv ==
  /\ OnlyReceivedArrives
  /\ Lasting(purchaseOrders, "RECEIVED")
  /\ \A h \in Handler : ReceivesOwn(h)

BoughtStep(h) ==
  /\ OnlyReceivedArrives'
  /\ Lasting(purchaseOrders', "RECEIVED")
  /\ ReceivesOwn(h)'

\* A step of h need only be checked for h.
LEMMA BoughtOfOthers ==
  ASSUME StoreInv, BoughtInv, NEW h \in Handler, OthersKeep(h), BoughtStep(h)
  PROVE  BoughtInv'
<1> SUFFICES ASSUME NEW g \in Handler, g # h PROVE ReceivesOwn(g)'
  BY DEF BoughtInv, BoughtStep
<1>1. ReceivesOwn(g) /\ g # NoOne
  BY OpeningAssumption DEF BoughtInv
<1>2. req'[g] = req[g]
  BY DEF OthersKeep
<1>3. /\ DOMAIN products.holder = Product
      /\ DOMAIN purchaseOrders.holder = PurchaseOrder
  BY StoreTables DEF Table
<1>4. /\ \A p \in Product : products'.holder[p] = g => products.holder[p] = g
      /\ \A o \in PurchaseOrder : purchaseOrders.holder[o] = g =>
           /\ purchaseOrders'.holder[o] = g
           /\ purchaseOrders'.current[o] = purchaseOrders.current[o]
  BY <1>1, <1>3 DEF OthersKeep, Keeps
<1> QED BY <1>1, <1>2, <1>4 DEF ReceivesOwn

\* A step that leaves purchase orders alone, of a method that does not
\* receive.
LEMMA BoughtQuietly ==
  ASSUME StoreInv, BoughtInv, NEW h \in Handler,
         UNCHANGED <<purchaseOrders, arrived>>,
         req'[h].at \notin {"findProducts", "receiveLine"},
         ~ (req'[h].op \in PurchaseOp /\ req'[h].at = "commit")
  PROVE  BoughtStep(h)
BY DEF BoughtInv, BoughtStep, ReceivesOwn, OnlyReceivedArrives, Lasting

\* A write of a purchase order that does not take RECEIVED away.
LEMMA BoughtByUpdate ==
  ASSUME StoreInv, BoughtInv, NEW h \in Handler, NEW o, NEW row,
         purchaseOrders' = Update(purchaseOrders, h, o, row),
         o \in PurchaseOrder /\ purchaseOrders.current[o].status = "RECEIVED"
           => row.status = "RECEIVED",
         UNCHANGED arrived
  PROVE  OnlyReceivedArrives' /\ Lasting(purchaseOrders', "RECEIVED")
<1>1. /\ purchaseOrders \in Table(PurchaseOrder, PurchaseOrderRow, Handler)
      /\ Lasting(purchaseOrders, "RECEIVED") /\ OnlyReceivedArrives
  BY StoreTables DEF BoughtInv
<1>2. CASE o \in PurchaseOrder
  <2>1. Lasting(purchaseOrders', "RECEIVED")
    BY <1>1, <1>2, StatusLasts
  <2>2. purchaseOrders'.committed = purchaseOrders.committed
    BY <1>1, <1>2, Versions
  <2> QED BY <1>1, <2>1, <2>2 DEF OnlyReceivedArrives
<1>3. CASE o \notin PurchaseOrder
  <2>1. /\ purchaseOrders'.committed = purchaseOrders.committed
        /\ purchaseOrders'.current = purchaseOrders.current
        /\ DOMAIN purchaseOrders'.holder = DOMAIN purchaseOrders.holder
    BY <1>1, <1>3 DEF Update, Table
  <2> QED BY <1>1, <2>1 DEF OnlyReceivedArrives, Lasting
<1> QED BY <1>2, <1>3

\* Steps of PurchaseService keep the invariant.
LEMMA PurchaseBought ==
  ASSUME StoreInv, LockInv, BoughtInv, NEW h \in Handler,
         PurchaseRequest(h) \/ PurchaseStep(h)
  PROVE  BoughtStep(h)
<1>1. /\ purchaseOrders \in Table(PurchaseOrder, PurchaseOrderRow, Handler)
      /\ DOMAIN purchaseOrders.holder = PurchaseOrder
      /\ arrived \in [PurchaseOrder -> [Product -> Int]]
  BY StoreTables, PurchaseRows DEF Table
<1>2. ReceivesOwn(h) /\ Lasting(purchaseOrders, "RECEIVED") /\ OnlyReceivedArrives
  BY DEF BoughtInv
<1>3. ASSUME NEW o \in PurchaseOrder, NEW cart, NEW op,
             InsertPurchaseOrder(h, op, o, cart)
      PROVE  BoughtStep(h)
  <2> DEFINE arrives == op = "createPurchaseOrder"
             row == [status |-> IF arrives THEN "RECEIVED" ELSE "PENDING",
                     items |-> cart]
  <2>1. /\ req'[h].key = o /\ req[h].at \in BeforeWrite
        /\ req'[h].at = IF arrives THEN "findProducts" ELSE "commit"
        /\ UNCHANGED <<products, arrived>>
        /\ purchaseOrders' = Update(purchaseOrders, h, o, row)
        /\ purchaseOrders.current[o].status # "RECEIVED"
    BY <1>3, BeginFacts DEF InsertPurchaseOrder, stockVars
  <2>2. arrives => row.status = "RECEIVED"
    OBVIOUS
  <2> HIDE DEF row
  <2>3. /\ purchaseOrders'.holder[o] = h
        /\ purchaseOrders'.current[o] = row
    BY <1>1, <2>1, Versions
  <2>4. ReceivesOwn(h)'
    BY <2>1, <2>2, <2>3, NothingYet DEF ReceivesOwn
  <2> QED BY <2>1, <2>4, BoughtByUpdate DEF BoughtStep
<1>4. ASSUME NEW o \in PurchaseOrder, FindPurchaseOrder(h, o)
      PROVE  BoughtStep(h)
  <2>1. req'[h].at = "markReceived" /\ UNCHANGED <<purchaseOrders, arrived>>
    BY <1>4, BeginFacts DEF FindPurchaseOrder, purchaseVars
  <2> QED BY <2>1, BoughtQuietly
<1>5. ASSUME NEW o \in PurchaseOrder, CancelPurchaseOrder(h, o)
      PROVE  BoughtStep(h)
  <2> DEFINE row == [purchaseOrders.current[o] EXCEPT !.status = "CANCELLED"]
  <2>1. /\ req'[h].at = "commit" /\ req[h].at \in BeforeWrite
        /\ UNCHANGED products
    BY <1>5, BeginFacts DEF CancelPurchaseOrder, stockVars
  <2>2. /\ purchaseOrders' = Update(purchaseOrders, h, o, row)
        /\ purchaseOrders.current[o].status # "RECEIVED"
        /\ UNCHANGED arrived
    BY <1>5 DEF CancelPurchaseOrder
  <2>3. ReceivesOwn(h)'
    BY <2>1, NothingYet DEF ReceivesOwn
  <2> HIDE DEF row
  <2> QED BY <2>2, <2>3, BoughtByUpdate DEF BoughtStep
<1>6. CASE MarkReceived(h)
  <2> DEFINE o == req[h].key
             row == [purchaseOrders.current[o] EXCEPT !.status = "RECEIVED"]
  <2>1. /\ purchaseOrders' = Update(purchaseOrders, h, o, row)
        /\ UNCHANGED arrived
        /\ req'[h].key = o /\ req'[h].at = "findProducts"
    BY <1>6, GotoFacts DEF MarkReceived
  <2>2. o \in PurchaseOrder => row.status = "RECEIVED"
    BY PurchaseRows DEF PurchaseOrderRow
  <2> HIDE DEF row
  <2>3. o \in PurchaseOrder =>
          purchaseOrders'.holder[o] = h /\ purchaseOrders'.current[o] = row
    BY <1>1, <2>1, Versions
  <2>4. ReceivesOwn(h)'
    BY <2>1, <2>2, <2>3 DEF ReceivesOwn
  <2> QED BY <2>1, <2>2, <2>4, BoughtByUpdate DEF BoughtStep
<1>7. CASE FindReceivedProducts(h) \/ ReceiveLine(h)
  <2>1. /\ UNCHANGED <<purchaseOrders, arrived>>
        /\ req[h].at \in {"findProducts", "receiveLine"}
        /\ req'[h].at = "receiveLine" /\ req'[h].key = req[h].key
    BY <1>7, GotoFacts DEF FindReceivedProducts, ReceiveLine, At, purchaseVars
  <2>2. ReceivesOwn(h)'
    BY <1>2, <2>1 DEF ReceivesOwn
  <2> QED BY <1>2, <2>1, <2>2 DEF BoughtStep, OnlyReceivedArrives, Lasting
<1>8. CASE CommitPurchase(h)
  <2> DEFINE key == req[h].key
  <2>1. /\ Respond(h)
        /\ purchaseOrders' = Commit(purchaseOrders, h)
        /\ arrived' = [arrived EXCEPT
             ![key] = [p \in Product |-> @[p] + posted[h][p]]]
        /\ \/ req[h].at = "receiveLine"
           \/ req[h].op \in PurchaseOp /\ req[h].at = "commit"
    BY <1>8 DEF CommitPurchase, At
  <2>2. Lasting(purchaseOrders', "RECEIVED")
    BY <1>1, <1>2, <2>1, StatusLasts
  <2>3. Stays(purchaseOrders, purchaseOrders', "RECEIVED")
    BY <1>1, <1>2, <2>1, StatusLasts
  <2>4. ReceivesOwn(h)'
    BY <2>1, RespondFacts DEF ReceivesOwn
  <2>5. ASSUME NEW o \in PurchaseOrder,
               purchaseOrders'.committed[o].status # "RECEIVED"
        PROVE  arrived'[o] = NoRows
    <3>1. arrived[o] = NoRows
      BY <1>1, <1>2, <2>3, <2>5 DEF OnlyReceivedArrives, Stays
    <3>2. CASE o # key
      BY <1>1, <2>1, <3>1, <3>2
    <3>3. CASE o = key /\ req[h].at = "receiveLine"
      BY <1>1, <1>2, <2>1, <2>5, <3>3, Versions DEF ReceivesOwn
    <3>4. CASE o = key /\ req[h].op \in PurchaseOp /\ req[h].at = "commit"
      <4>1. \A p \in Product : posted[h][p] = 0
        BY <1>2, <3>4, NothingPosted DEF ReceivesOwn
      <4>2. arrived'[o] = [p \in Product |-> arrived[o][p] + posted[h][p]]
        BY <1>1, <2>1, <3>4
      <4> QED BY <3>1, <4>1, <4>2 DEF NoRows
    <3> QED BY <2>1, <3>2, <3>3, <3>4
  <2>6. OnlyReceivedArrives'
    <3>1. NoRows' = NoRows
      BY DEF NoRows
    <3> QED BY <2>5, <3>1 DEF OnlyReceivedArrives
  <2> QED BY <2>2, <2>4, <2>6 DEF BoughtStep
<1>9. CASE RollbackPurchase(h)
  <2>1. /\ Respond(h) /\ UNCHANGED arrived
        /\ purchaseOrders' = Rollback(purchaseOrders, h)
    BY <1>9 DEF RollbackPurchase
  <2>2. /\ Lasting(purchaseOrders', "RECEIVED")
        /\ purchaseOrders'.committed = purchaseOrders.committed
    BY <1>1, <1>2, <2>1, StatusLasts, Versions
  <2>3. ReceivesOwn(h)'
    BY <2>1, RespondFacts DEF ReceivesOwn
  <2> QED BY <1>2, <2>1, <2>2, <2>3 DEF BoughtStep, OnlyReceivedArrives
<1>10. CASE PurchaseRequest(h)
  BY <1>3, <1>4, <1>5, <1>10 DEF PurchaseRequest
<1>11. CASE PurchaseStep(h)
  BY <1>6, <1>7, <1>8, <1>9, <1>11
     DEF PurchaseStep, RefuseForeignProduct, ExpirePurchase
<1> QED BY <1>10, <1>11

\* The other services do not touch purchase orders.
LEMMA OthersBought ==
  ASSUME StoreInv, BoughtInv, NEW h \in Handler,
         \/ SalesRequest(h) \/ SalesStep(h)
         \/ ReturnsRequest(h) \/ ReturnsStep(h)
         \/ InventoryRequest(h) \/ InventoryStep(h),
         UNCHANGED purchaseVars
  PROVE  BoughtStep(h)
<1>1. UNCHANGED <<purchaseOrders, arrived>>
  BY DEF purchaseVars
<1>2. /\ req'[h].at \notin {"findProducts", "receiveLine"}
      /\ ~ (req'[h].op \in PurchaseOp /\ req'[h].at = "commit")
  BY SalesMoves, ReturnsMoves, InventoryMoves
     DEF Running, SalesOp, PurchaseOp, ReturnsOp, InventoryOp
<1> QED BY <1>1, <1>2, BoughtQuietly

\* Every step keeps the invariant.
LEMMA BoughtNextInv ==
  StoreInv /\ LockInv /\ BoughtInv /\ [StoreNext]_storeVars => BoughtInv'
<1> SUFFICES ASSUME StoreInv, LockInv, BoughtInv, [StoreNext]_storeVars
             PROVE  BoughtInv'
  OBVIOUS
<1>1. CASE UNCHANGED storeVars
  BY <1>1 DEF storeVars, stockVars, requestVars, purchaseVars, BoughtInv,
              OnlyReceivedArrives, ReceivesOwn, Lasting
<1>2. ASSUME NEW h \in Handler, StoreRequest(h) \/ StoreStep(h)
      PROVE  BoughtInv'
  <2>1. BoughtStep(h)
    BY <1>2, PurchaseBought, OthersBought DEF StoreRequest, StoreStep
  <2>2. OthersKeep(h)
    BY <1>2, StepKeepsOthers
  <2> QED BY <2>1, <2>2, BoughtOfOthers
<1> QED BY <1>1, <1>2 DEF StoreNext

\* Nothing has arrived when the store opens.
LEMMA BoughtInitInv == StoreInit => BoughtInv
<1> SUFFICES ASSUME StoreInit PROVE BoughtInv
  OBVIOUS
<1>1. /\ purchaseOrders = NewTable([o \in PurchaseOrder |-> NoPurchaseOrder])
      /\ arrived = [o \in PurchaseOrder |-> NoRows]
      /\ \A h \in Handler : req[h] = IdleRequest
  BY DEF StoreInit, PurchaseInit, RequestsInit
<1> QED BY <1>1 DEF BoughtInv, OnlyReceivedArrives, ReceivesOwn, Lasting,
                    NewTable, NoPurchaseOrder, IdleRequest

(***************************************************************************)
(* Nothing enters the stock under the number of a purchase order that is   *)
(* not RECEIVED, for any number of concurrent receipts, cancellations and  *)
(* failures.                                                               *)
(***************************************************************************)
THEOREM OnlyReceivedOrdersArrive == StoreSpec => []OnlyReceivedArrives
<1>1. StoreInit => BoughtInv
  BY BoughtInitInv
<1>2. StoreInv /\ LockInv /\ BoughtInv /\ [StoreNext]_storeVars => BoughtInv'
  BY BoughtNextInv
<1>3. BoughtInv => OnlyReceivedArrives
  BY DEF BoughtInv
<1> QED BY <1>1, <1>2, <1>3, LocksAlways, PTL DEF StoreSpec

-----------------------------------------------------------------------------
(***************************************************************************)
(* Returns.  The order a return names was COMPLETED when it was read, and  *)
(* a COMPLETED order stays so: the check cannot go stale.                  *)
(***************************************************************************)
OfCompleted(o) ==
  o \in SalesOrder /\ salesOrders.committed[o].status = "COMPLETED"

ReturnInv ==
  /\ \A r \in SalesReturn :
       /\ salesReturns.current[r] # NoSalesReturn =>
            OfCompleted(salesReturns.current[r].order)
       /\ salesReturns.committed[r] # NoSalesReturn =>
            OfCompleted(salesReturns.committed[r].order)
  /\ \A h \in Handler : req[h].op \in ReturnsOp => OfCompleted(claim[h].order)

\* A return row is new in a step only if it is the claim of that handler.
LEMMA NewReturnRows ==
  ASSUME StoreInv, NEW h \in Handler, StoreRequest(h) \/ StoreStep(h),
         NEW r \in SalesReturn
  PROVE  /\ \/ salesReturns'.current[r] \in
                 {salesReturns.current[r], salesReturns.committed[r]}
            \/ /\ req[h].op \in ReturnsOp
               /\ salesReturns'.current[r].order = claim[h].order
         /\ salesReturns'.committed[r] \in
              {salesReturns.current[r], salesReturns.committed[r]}
<1>1. salesReturns \in Table(SalesReturn, ReturnRowType, Handler)
  BY StoreTables
<1>2. CASE InsertSalesReturn(h)
  <2>1. /\ salesReturns' = Update(salesReturns, h, req[h].key,
             [order |-> claim[h].order, items |-> claim[h].items])
        /\ req[h].op \in ReturnsOp
    BY <1>2 DEF InsertSalesReturn, At
  <2> QED BY <1>1, <2>1 DEF Update, Table
<1>3. CASE CommitReturn(h) \/ RollbackReturn(h)
  BY <1>1, <1>3, Versions DEF CommitReturn, RollbackReturn
<1>4. CASE UNCHANGED salesReturns
  BY <1>4
<1>5. CASE ReturnsRequest(h)
  BY <1>4, <1>5 DEF ReturnsRequest, CheckReturn
<1>6. CASE ReturnsStep(h)
  BY <1>2, <1>3, <1>4, <1>6
     DEF ReturnsStep, IncrementReturned, Restock, ReduceTotals,
         RefuseReturnNumber, ExpireReturn
<1> QED BY <1>4, <1>5, <1>6 DEF StoreRequest, StoreStep, returnsVars

\* A request that returns goods has read a COMPLETED order.
LEMMA ClaimsOfStep ==
  ASSUME StoreInv, ReturnInv, NEW h \in Handler, StoreRequest(h) \/ StoreStep(h),
         req'[h].op \in ReturnsOp
  PROVE  OfCompleted(claim'[h].order)
<1>1. DOMAIN claim = Handler /\ DOMAIN req = Handler
  BY DEF StoreInv, StoreTypeOK, ReturnsTypeOK, RequestsTypeOK
<1>2. ASSUME NEW r \in SalesReturn, NEW o \in SalesOrder, NEW picks,
             CheckReturn(h, r, o, picks)
      PROVE  OfCompleted(claim'[h].order)
  BY <1>1, <1>2 DEF CheckReturn, OfCompleted
<1>3. CASE UNCHANGED <<claim, req>>
  BY <1>3 DEF ReturnInv
<1>4. CASE \/ InsertSalesReturn(h) \/ IncrementReturned(h) \/ Restock(h)
           \/ ReduceTotals(h)
  <2>1. req[h].op \in ReturnsOp
    BY <1>4 DEF InsertSalesReturn, IncrementReturned, Restock, ReduceTotals, At
  <2>2. claim'[h].order = claim[h].order
    BY <1>1, <1>4
       DEF InsertSalesReturn, IncrementReturned, Restock, ReduceTotals
  <2> QED BY <2>1, <2>2 DEF ReturnInv
<1>5. CASE Respond(h)
  BY <1>5, RespondFacts DEF ReturnsOp
<1>6. CASE ReturnsRequest(h)
  BY <1>2, <1>6 DEF ReturnsRequest
<1>7. CASE ReturnsStep(h)
  BY <1>4, <1>5, <1>7
     DEF ReturnsStep, CommitReturn, RefuseReturnNumber, ExpireReturn,
         RollbackReturn
<1>8. CASE ~ (ReturnsRequest(h) \/ ReturnsStep(h))
  <2>1. req'[h].op \notin ReturnsOp
    BY <1>8, SalesMoves, PurchaseMoves, InventoryMoves
       DEF StoreRequest, StoreStep, Running, SalesOp, PurchaseOp, ReturnsOp,
           InventoryOp
  <2> QED BY <2>1
<1> QED BY <1>6, <1>7, <1>8

\* Every step keeps the invariant, because COMPLETED orders stay COMPLETED.
LEMMA ReturnNextInv ==
  /\ StoreInv /\ LockInv /\ SoldInv /\ ReturnInv
  /\ [StoreNext]_storeVars
  => ReturnInv'
<1> SUFFICES ASSUME StoreInv, LockInv, SoldInv, ReturnInv,
                    [StoreNext]_storeVars
             PROVE  ReturnInv'
  OBVIOUS
<1>1. CASE UNCHANGED storeVars
  BY <1>1 DEF storeVars, requestVars, salesVars, returnsVars, ReturnInv,
              OfCompleted
<1>2. ASSUME NEW h \in Handler, StoreRequest(h) \/ StoreStep(h)
      PROVE  ReturnInv'
  <2>1. Stays(salesOrders, salesOrders', "COMPLETED")
    BY SoldNextInv
  <2>3. ASSUME NEW r \in SalesReturn
        PROVE  /\ salesReturns'.current[r] # NoSalesReturn =>
                    OfCompleted(salesReturns'.current[r].order)
               /\ salesReturns'.committed[r] # NoSalesReturn =>
                    OfCompleted(salesReturns'.committed[r].order)
    BY <1>2, NewReturnRows DEF ReturnInv
  <2>4. ASSUME NEW g \in Handler, req'[g].op \in ReturnsOp
        PROVE  OfCompleted(claim'[g].order)
    <3>1. CASE g = h
      BY <1>2, <2>4, <3>1, ClaimsOfStep
    <3>2. CASE g # h
      <4>1. req'[g] = req[g] /\ claim'[g] = claim[g]
        BY <1>2, <3>2, StepKeepsOthers DEF OthersKeep
      <4> QED BY <2>4, <4>1 DEF ReturnInv
    <3> QED BY <3>1, <3>2
  <2>2. \A o : OfCompleted(o) =>
          o \in SalesOrder /\ salesOrders'.committed[o].status = "COMPLETED"
    BY <2>1, StoreTables DEF OfCompleted, Stays, Table
  <2> QED BY <2>2, <2>3, <2>4 DEF ReturnInv, OfCompleted, NoSalesReturn, ReturnsOp
<1> QED BY <1>1, <1>2 DEF StoreNext

\* Nothing has been returned when the store opens.
LEMMA ReturnInitInv == StoreInit => ReturnInv
<1> SUFFICES ASSUME StoreInit PROVE ReturnInv
  OBVIOUS
<1>1. /\ salesReturns = NewTable([r \in SalesReturn |-> NoSalesReturn])
      /\ \A h \in Handler : req[h] = IdleRequest
  BY DEF StoreInit, ReturnsInit, RequestsInit
<1> QED BY <1>1 DEF ReturnInv, NewTable, IdleRequest, ReturnsOp

(***************************************************************************)
(* Every committed return is of a COMPLETED order, although createReturn   *)
(* reads the status before its transaction: no interleaving takes COMPLETED*)
(* away from an order.                                                     *)
(***************************************************************************)
THEOREM OnlyCompletedOrdersReturn == StoreSpec => []ReturnsAreOfCompleted
<1>1. StoreInit => ReturnInv
  BY ReturnInitInv
<1>2. /\ StoreInv /\ LockInv /\ SoldInv /\ ReturnInv
      /\ [StoreNext]_storeVars
      => ReturnInv'
  BY ReturnNextInv
<1>3. ReturnInv => ReturnsAreOfCompleted
  BY DEF ReturnInv, OfCompleted, ReturnsAreOfCompleted
<1> QED BY <1>1, <1>2, <1>3, SoldAlways, PTL DEF StoreSpec

=============================================================================
