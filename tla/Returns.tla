------------------------------ MODULE Returns ------------------------------
(***************************************************************************)
(* ReturnsService.createReturn: items of a completed order go back to the  *)
(* shelf and their cost and profit leave the order's totals.  The order is *)
(* read and the quantities are checked before the transaction opens.       *)
(***************************************************************************)
EXTENDS Sales, Functions

CONSTANTS
  SalesReturn,  \* return numbers of all tenants
  MaxLines,     \* no order has more items than this
  ReturnPicks   \* the item lists that clients send: [item, quantity] records

LineNo == 1..MaxLines

ASSUME ReturnsAssumption ==
  /\ SalesReturn \subseteq Key
  /\ MaxLines \in Nat
  /\ \A cart \in SaleCarts : Len(cart) <= MaxLines
  /\ ReturnPicks \subseteq Seq([item : LineNo, quantity : Nat \ {0}])

VARIABLES
  salesReturns, \* the sales_returns table and its sales_return_items
  orderItems,   \* the column returnedQuantity of the order_items table
  claim         \* the locals of createReturn, per handler

returnsVars == <<salesReturns, orderItems, claim>>

ReturnLine == [item : LineNo, quantity : Nat \ {0}, product : Product,
               refundAmount : Int, returnedCogs : Int]

NoSalesReturn == [order |-> NoKey, items |-> << >>]

NoClaim == [order |-> NoKey, items |-> << >>, returnedCogs |-> 0,
            returnedProfit |-> 0]

ReturnsInit ==
  /\ salesReturns = NewTable([r \in SalesReturn |-> NoSalesReturn])
  /\ orderItems = NewTable([k \in SalesOrder \X LineNo |-> 0])
  /\ claim = [h \in Handler |-> NoClaim]

-----------------------------------------------------------------------------

\* Mutant: the cogs of the whole order item come back with any part of it.
ToReturnWholeCogs(orderLine, pick) ==
  [item         |-> pick.item,
   quantity     |-> pick.quantity,
   product      |-> orderLine.product,
   refundAmount |-> orderLine.unitPrice * pick.quantity,
   returnedCogs |-> orderLine.cogs]

\* What the service prepares for one item of the request: the refund at the
\* price paid, and the share of the item's cogs that comes back.
ToReturnLine(orderLine, pick) ==
  [item         |-> pick.item,
   quantity     |-> pick.quantity,
   product      |-> orderLine.product,
   refundAmount |-> orderLine.unitPrice * pick.quantity,
   returnedCogs |-> (orderLine.cogs \div orderLine.quantity) * pick.quantity]

\* Each item of the request is checked by itself, against what the order
\* item row said when it was read.
Returnable(o, items, pick) ==
  /\ pick.item \in DOMAIN items
  /\ pick.quantity
       <= items[pick.item].quantity - orderItems.committed[<<o, pick.item>>]

CheckReturn(h, r, o, picks) ==
  LET items == salesOrders.committed[o].items IN
  /\ Begin(h, "createReturn", r, "insertReturn")
  /\ Sees(h, r)
  /\ Sees(h, o)
  /\ salesOrders.committed[o].status = "COMPLETED"
  /\ \A i \in DOMAIN picks : Returnable(o, items, picks[i])
  /\ claim' = [claim EXCEPT ![h] =
       [order          |-> o,
        items          |-> [i \in 1..Len(picks) |->
                              ToReturnLine(items[picks[i].item], picks[i])],
        returnedCogs   |-> 0,
        returnedProfit |-> 0]]
  /\ UNCHANGED <<stockVars, todo, productMap, salesVars, salesReturns,
                 orderItems>>

InsertSalesReturn(h) ==
  LET r == req[h].key IN
  /\ At(h, ReturnsOp, "insertReturn")
  /\ Free(salesReturns, h, r)
  /\ salesReturns.current[r] = NoSalesReturn
  /\ salesReturns' = Update(salesReturns, h, r,
       [order |-> claim[h].order, items |-> claim[h].items])
  /\ Goto(h, "returnItem")
  /\ UNCHANGED <<stockVars, todo, productMap, salesVars, orderItems, claim>>

\* Mutant: the counter goes down, like the quantity that is left to return.
DecrementReturned(h) ==
  LET line == Head(claim[h].items)
      k == <<claim[h].order, line.item>> IN
  /\ At(h, ReturnsOp, "returnItem")
  /\ claim[h].items # << >>
  /\ Free(orderItems, h, k)
  /\ orderItems' = Update(orderItems, h, k,
                          orderItems.current[k] - line.quantity)
  /\ Goto(h, "restock")
  /\ UNCHANGED <<stockVars, todo, productMap, salesVars, salesReturns, claim>>

\* First statement of an iteration: orderItem.update by id, an unconditional
\* increment of returnedQuantity.
IncrementReturned(h) ==
  LET line == Head(claim[h].items)
      k == <<claim[h].order, line.item>> IN
  /\ At(h, ReturnsOp, "returnItem")
  /\ claim[h].items # << >>
  /\ Free(orderItems, h, k)
  /\ orderItems' = Update(orderItems, h, k,
                          orderItems.current[k] + line.quantity)
  /\ Goto(h, "restock")
  /\ UNCHANGED <<stockVars, todo, productMap, salesVars, salesReturns, claim>>

\* Second and third: the product's stock and the RETURN row.  The amounts
\* to take off the order's totals are summed up on the way.
Restock(h) ==
  LET line == Head(claim[h].items) IN
  /\ At(h, ReturnsOp, "restock")
  /\ Sees(h, line.product)
  /\ MoveStock(h, line.product, line.quantity,
               products.current[line.product].averageCost)
  /\ claim' = [claim EXCEPT ![h] =
       [order          |-> @.order,
        items          |-> Tail(@.items),
        returnedCogs   |-> @.returnedCogs + line.returnedCogs,
        returnedProfit |-> @.returnedProfit
                             + (line.refundAmount - line.returnedCogs)]]
  /\ Goto(h, "returnItem")
  /\ UNCHANGED <<todo, productMap, salesVars, salesReturns, orderItems>>

\* The last statement decrements totalCogs and totalProfit of the order.
ReduceTotals(h) ==
  LET o == claim[h].order IN
  /\ At(h, ReturnsOp, "returnItem")
  /\ claim[h].items = << >>
  /\ Sees(h, o)
  /\ Free(salesOrders, h, o)
  /\ salesOrders' = Update(salesOrders, h, o,
       [salesOrders.current[o] EXCEPT
          !.returnedCogs = @ + claim[h].returnedCogs,
          !.returnedProfit = @ + claim[h].returnedProfit])
  /\ Goto(h, "commit")
  /\ UNCHANGED <<stockVars, todo, productMap, shipped, salesReturns,
                 orderItems, claim>>

CommitReturn(h) ==
  /\ At(h, ReturnsOp, "commit")
  /\ CommitStock(h)
  /\ salesOrders' = Commit(salesOrders, h)
  /\ salesReturns' = Commit(salesReturns, h)
  /\ orderItems' = Commit(orderItems, h)
  /\ claim' = [claim EXCEPT ![h] = NoClaim]
  /\ UNCHANGED shipped
  /\ Respond(h)

RollbackReturn(h) ==
  /\ RollbackStock(h)
  /\ salesOrders' = Rollback(salesOrders, h)
  /\ salesReturns' = Rollback(salesReturns, h)
  /\ orderItems' = Rollback(orderItems, h)
  /\ claim' = [claim EXCEPT ![h] = NoClaim]
  /\ UNCHANGED shipped
  /\ Respond(h)

\* Unique violation (P2002) on (tenantId, returnNumber).
RefuseReturnNumber(h) ==
  /\ At(h, ReturnsOp, "insertReturn")
  /\ Free(salesReturns, h, req[h].key)
  /\ salesReturns.current[req[h].key] # NoSalesReturn
  /\ RollbackReturn(h)

\* The database or Prisma ends a transaction that is still open (a deadlock,
\* the timeout, a lost connection), or the process dies.
ExpireReturn(h) == req[h].op \in ReturnsOp /\ RollbackReturn(h)

ReturnsStep(h) ==
  \/ InsertSalesReturn(h)
  \/ RefuseReturnNumber(h)
  \/ IncrementReturned(h)
  \/ Restock(h)
  \/ ReduceTotals(h)
  \/ CommitReturn(h)
  \/ ExpireReturn(h)

ReturnsRequest(h) ==
  \E r \in SalesReturn, o \in SalesOrder, picks \in ReturnPicks :
     CheckReturn(h, r, o, picks)

-----------------------------------------------------------------------------

ReturnsTypeOK ==
  /\ salesReturns \in Table(SalesReturn,
       [order : SalesOrder \cup {NoKey}, items : Seq(ReturnLine)], Handler)
  /\ orderItems \in Table(SalesOrder \X LineNo, Nat, Handler)
  /\ claim \in [Handler ->
       [order : SalesOrder \cup {NoKey}, items : Seq(ReturnLine),
        returnedCogs : Int, returnedProfit : Int]]

\* The committed return items of order o, as pairs of a return and a position.
ReturnRows(o) ==
  UNION {{r} \X DOMAIN salesReturns.committed[r].items :
           r \in {x \in SalesReturn : salesReturns.committed[x].order = o}}

ReturnRow(x) == salesReturns.committed[x[1]].items[x[2]]

(***************************************************************************)
(* Only items of completed orders come back: the order of every committed  *)
(* return is COMPLETED, although its status was read before the            *)
(* transaction that returned the items was opened.                         *)
(***************************************************************************)
ReturnsAreOfCompleted ==
  \A r \in SalesReturn :
     salesReturns.committed[r] # NoSalesReturn =>
       salesOrders.committed[salesReturns.committed[r].order].status
         = "COMPLETED"

(***************************************************************************)
(* The counter on the order item agrees with the return rows: concurrent   *)
(* returns of one item, rolled back or committed, lose no increment.       *)
(***************************************************************************)
ReturnedMatchesRows ==
  \A o \in SalesOrder, i \in LineNo :
     orderItems.committed[<<o, i>>] =
       SumFunctionOnSet(
         [x \in ReturnRows(o) |-> ReturnRow(x).quantity],
         {x \in ReturnRows(o) : ReturnRow(x).item = i})

(***************************************************************************)
(* The books balance: the price of an order less all its refunds is what   *)
(* its totals still show as cost and as profit, and the cost they show is  *)
(* the cost of the pieces the customer kept.  (totalPrice is never         *)
(* reduced; totalCogs and totalProfit are, by every return, in a statement *)
(* of its own after the loop over the items.)                              *)
(***************************************************************************)
BooksBalance ==
  \A o \in SalesOrder :
    LET row == salesOrders.committed[o]
        totalPrice == SumFunction([i \in DOMAIN row.items |->
                        row.items[i].unitPrice * row.items[i].quantity])
        totalCogs == SumFunction([i \in DOMAIN row.items |->
                        row.items[i].cogs]) - row.returnedCogs
        totalProfit == SumFunction([i \in DOMAIN row.items |->
                        row.items[i].unitPrice * row.items[i].quantity
                          - row.items[i].cogs]) - row.returnedProfit
        refunds == SumFunction([x \in ReturnRows(o) |->
                        ReturnRow(x).refundAmount])
        keptCogs == SumFunction([i \in DOMAIN row.items |->
                        (row.items[i].cogs \div row.items[i].quantity)
                          * (row.items[i].quantity
                               - orderItems.committed[<<o, i>>])])
    IN /\ totalPrice - refunds = totalCogs + totalProfit
       /\ totalCogs = keptCogs

(***************************************************************************)
(* "Quantity retur tidak boleh melebihi quantity yang dibeli": no more of  *)
(* an item comes back than was bought.  (Two returns that both read the    *)
(* same returnedQuantity, or one that names an item twice, break it.)      *)
(***************************************************************************)
NotOverReturned ==
  \A o \in SalesOrder, i \in LineNo :
     i \in DOMAIN salesOrders.committed[o].items =>
       orderItems.committed[<<o, i>>]
         <= salesOrders.committed[o].items[i].quantity
=============================================================================
