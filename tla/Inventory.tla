----------------------------- MODULE Inventory -----------------------------
(***************************************************************************)
(* InventoryService.adjustStock, the manual correction of a stock figure,  *)
(* and the product edits that touch the same row: PATCH and DELETE of      *)
(* ProductsService.                                                        *)
(***************************************************************************)
EXTENDS Requests

CONSTANTS
  QuantityChanges, \* the changes that clients send, of either sign
  PatchedStocks,   \* the stock figures that clients PATCH a product with
  MaxAdjusted      \* bound: adjustments keep stock and ledger within this

TransactionType == {"IN", "OUT", "ADJUSTMENT", "RETURN"}

ASSUME InventoryAssumption ==
  /\ Product \subseteq Key
  /\ QuantityChanges \subseteq Int \ {0}
  /\ PatchedStocks \subseteq Nat
  /\ MaxAdjusted \in Nat

Abs(n) == IF n < 0 THEN -n ELSE n

\* Whether the change is added or taken off: the type decides first, the
\* sign of the change only for the types that are neither IN nor OUT.
StockChange(change, type) ==
  CASE type = "OUT" -> - Abs(change)
    [] type = "IN"  -> Abs(change)
    [] OTHER        -> change

\* A mutant: the check follows the sign that was sent, not the one applied.
AdjustStockAsSent(h, p, change, type) ==
  LET moved == StockChange(change, type)
      row == products.current[p] IN
  /\ Begin(h, "adjustStock", p, "commit")
  /\ Sees(h, p)
  /\ change < 0 => row.stockQuantity >= Abs(change)
  /\ row.stockQuantity + moved <= MaxAdjusted
  /\ Abs(ledger[p] + moved) <= MaxAdjusted
  /\ MoveStock(h, p, moved, row.averageCost)
  /\ UNCHANGED <<todo, productMap>>

\* The product row the service reads before the transaction is not used.
AdjustStock(h, p, change, type) ==
  LET moved == StockChange(change, type)
      row == products.current[p] IN
  /\ Begin(h, "adjustStock", p, "commit")
  /\ Sees(h, p)
  /\ moved < 0 => row.stockQuantity >= - moved
  /\ row.stockQuantity + moved <= MaxAdjusted
  /\ Abs(ledger[p] + moved) <= MaxAdjusted
  /\ MoveStock(h, p, moved, row.averageCost)
  /\ UNCHANGED <<todo, productMap>>

CommitAdjustment(h) ==
  /\ At(h, {"adjustStock"}, "commit")
  /\ CommitStock(h)
  /\ Respond(h)

\* ProductsService.findOne: the tenant filter and the soft-delete filter.
FindProduct(h, op, p) ==
  /\ Begin(h, op, p, "writeProduct")
  /\ Sees(h, p)
  /\ products.committed[p].deletedAt = "null"
  /\ UNCHANGED <<stockVars, todo, productMap>>

\* The UPDATE that follows has the tenant filter only.
UpdateProduct(h, stock) ==
  LET p == req[h].key IN
  /\ At(h, {"updateProduct"}, "writeProduct")
  /\ SetProduct(p,
       [products.committed[p] EXCEPT !.stockQuantity = stock])
  /\ Respond(h)

RemoveProduct(h) ==
  LET p == req[h].key IN
  /\ At(h, {"removeProduct"}, "writeProduct")
  /\ SetProduct(p, [products.committed[p] EXCEPT !.deletedAt = "set"])
  /\ Respond(h)

\* The database, Prisma or a crash ends the request.
ExpireInventory(h) ==
  /\ req[h].op \in InventoryOp
  /\ RollbackStock(h)
  /\ Respond(h)

InventoryStep(h) ==
  \/ CommitAdjustment(h)
  \/ \E stock \in PatchedStocks : UpdateProduct(h, stock)
  \/ RemoveProduct(h)
  \/ ExpireInventory(h)

InventoryRequest(h) ==
  \E p \in Product :
    \/ \E change \in QuantityChanges, type \in TransactionType :
         AdjustStock(h, p, change, type)
    \/ \E op \in {"updateProduct", "removeProduct"} : FindProduct(h, op, p)
=============================================================================
