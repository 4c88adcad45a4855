------------------------------ MODULE StockDb ------------------------------
(***************************************************************************)
(* What every service does to stock, and all it may do: the products table *)
(* together with the stock_transactions ledger.                            *)
(*                                                                         *)
(* Sales, Purchase, Returns and Inventory are written with the actions of  *)
(* this module; StockSpec, which lets them happen in any order and with    *)
(* any amount, is the abstract specification those components implement.   *)
(*                                                                         *)
(* A handler is one HTTP request in flight in the Node process; it has at  *)
(* most one database transaction open.  Rows of stock_transactions are     *)
(* insert-only and invisible until their transaction commits, so they are  *)
(* kept as sums: posted[h][p] is the net quantity of the rows for p that   *)
(* the open transaction of h has inserted, ledger[p] that of the committed *)
(* ones.                                                                   *)
(***************************************************************************)
EXTENDS Integers, Sequences, RowStore

CONSTANTS
  Handler,      \* requests that can be in flight at the same time
  Product,      \* products of all tenants
  OpeningRows   \* the possible contents of the products table to start from

ProductRow == [stockQuantity : Int, averageCost : Int, deletedAt : {"null", "set"}]

ASSUME OpeningAssumption ==
  /\ NoOne \notin Handler
  /\ OpeningRows \subseteq
        [Product -> {r \in ProductRow : r.stockQuantity >= 0}]

VARIABLES
  products,     \* the products table
  posted,       \* uncommitted stock_transactions rows, net, per handler
  ledger,       \* committed stock_transactions rows, net, per product
  base          \* stock that was set, not moved: at creation or by a PATCH

stockVars == <<products, posted, ledger, base>>

NoRows == [p \in Product |-> 0]

StockInit ==
  \E rows \in OpeningRows :
     /\ products = NewTable(rows)
     /\ posted = [h \in Handler |-> NoRows]
     /\ ledger = NoRows
     /\ base = [p \in Product |-> rows[p].stockQuantity]

\* Mutant: the stockTransaction.create is missing.
MoveStockWithoutRow(h, p, change, cost) ==
  /\ Free(products, h, p)
  /\ products' =
       LET row == products.current[p] IN
       Update(products, h, p,
              [row EXCEPT !.stockQuantity = row.stockQuantity + change,
                          !.averageCost = cost])
  /\ UNCHANGED <<posted, ledger, base>>

(***************************************************************************)
(* One iteration of a stock loop: product.update with an increment or a    *)
(* decrement of stockQuantity (and, on a purchase, a new averageCost) and  *)
(* stockTransaction.create.                                                *)
(***************************************************************************)
MoveStock(h, p, change, cost) ==
  /\ Free(products, h, p)
  /\ products' =
       LET row == products.current[p] IN
       Update(products, h, p,
              [row EXCEPT !.stockQuantity = row.stockQuantity + change,
                          !.averageCost = cost])
  /\ posted' = [posted EXCEPT ![h][p] = @ + change]
  /\ UNCHANGED <<ledger, base>>

CommitStock(h) ==
  /\ products' = Commit(products, h)
  /\ ledger' = [p \in Product |-> ledger[p] + posted[h][p]]
  /\ posted' = [posted EXCEPT ![h] = NoRows]
  /\ UNCHANGED base

\* Mutant: an error path that does not end the transaction.
LeaveStockOpen(h) == h \in Handler /\ UNCHANGED stockVars

RollbackStock(h) ==
  /\ products' = Rollback(products, h)
  /\ posted' = [posted EXCEPT ![h] = NoRows]
  /\ UNCHANGED <<ledger, base>>

(***************************************************************************)
(* A statement outside any transaction that overwrites a product row:      *)
(* PATCH or DELETE of a product.  It commits at once and writes no ledger  *)
(* row.                                                                    *)
(***************************************************************************)
SetProduct(p, row) ==
  /\ products.holder[p] = NoOne
  /\ products' = Overwrite(products, p, row)
  /\ base' = [base EXCEPT
                ![p] = @ + row.stockQuantity
                         - products.committed[p].stockQuantity]
  /\ UNCHANGED <<posted, ledger>>

(***************************************************************************)
(* Stock may move by any amount that leaves it non-negative.               *)
(***************************************************************************)
StockNext ==
  \/ \E p \in Product, row \in ProductRow :
       /\ row.stockQuantity >= 0
       /\ SetProduct(p, row)
  \/ \E h \in Handler :
    \/ \E p \in Product, change \in Int, cost \in Int :
         /\ products.current[p].stockQuantity + change >= 0
         /\ MoveStock(h, p, change, cost)
    \/ CommitStock(h)
    \/ RollbackStock(h)

StockSpec == StockInit /\ [][StockNext]_stockVars

-----------------------------------------------------------------------------

StockTypeOK ==
  /\ products \in Table(Product, ProductRow, Handler)
  /\ posted \in [Handler -> [Product -> Int]]
  /\ ledger \in [Product -> Int]
  /\ base \in [Product -> Int]

(***************************************************************************)
(* No product row, committed or being written, ever shows negative stock,  *)
(* whatever the interleaving of sales, purchases, returns and adjustments: *)
(* every decrement is an UPDATE conditional on stockQuantity >= quantity.  *)
(***************************************************************************)
StockNonNegative ==
  \A p \in Product :
     /\ products.committed[p].stockQuantity >= 0
     /\ products.current[p].stockQuantity >= 0

(***************************************************************************)
(* The ledger accounts for the stock: what is on the shelf is what was set *)
(* plus what the committed stock_transactions rows moved, and a row being  *)
(* written differs from the committed one by exactly the rows its holder   *)
(* has inserted and not yet committed.  So no movement is without its row, *)
(* no row without its movement, and no rollback leaves one behind.         *)
(***************************************************************************)
LedgerAccountsForStock ==
  \A p \in Product :
     /\ products.committed[p].stockQuantity = base[p] + ledger[p]
     /\ \A h \in Handler :
          IF products.holder[p] = h
            THEN products.current[p].stockQuantity
                   = products.committed[p].stockQuantity + posted[h][p]
            ELSE posted[h][p] = 0
=============================================================================
