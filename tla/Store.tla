------------------------------- MODULE Store -------------------------------
(***************************************************************************)
(* The whole stock-keeping side of the application: requests to the sales, *)
(* purchase, returns, inventory and products controllers, of one or of     *)
(* several tenants, served concurrently over one database.                 *)
(***************************************************************************)
EXTENDS Returns, Purchase, Inventory

storeVars == <<stockVars, requestVars, salesVars, returnsVars, purchaseVars>>

StoreInit ==
  /\ StockInit
  /\ RequestsInit
  /\ SalesInit
  /\ ReturnsInit
  /\ PurchaseInit

StoreRequest(h) ==
  \/ SalesRequest(h) /\ UNCHANGED <<returnsVars, purchaseVars>>
  \/ ReturnsRequest(h) /\ UNCHANGED purchaseVars
  \/ PurchaseRequest(h) /\ UNCHANGED <<salesVars, returnsVars>>
  \/ InventoryRequest(h) /\ UNCHANGED <<salesVars, returnsVars, purchaseVars>>

StoreStep(h) ==
  \/ SalesStep(h) /\ UNCHANGED <<returnsVars, purchaseVars>>
  \/ ReturnsStep(h) /\ UNCHANGED purchaseVars
  \/ PurchaseStep(h) /\ UNCHANGED <<salesVars, returnsVars>>
  \/ InventoryStep(h) /\ UNCHANGED <<salesVars, returnsVars, purchaseVars>>

StoreNext == \E h \in Handler : StoreRequest(h) \/ StoreStep(h)

(***************************************************************************)
(* Nothing makes clients send requests.  Node runs every callback that is  *)
(* ready, PostgreSQL grants a lock that is free, and a transaction that    *)
(* stays open is ended by Prisma's timeout: a request in flight does not   *)
(* stop half way for ever.                                                 *)
(***************************************************************************)
StoreSpec ==
  /\ StoreInit
  /\ [][StoreNext]_storeVars
  /\ \A h \in Handler : WF_storeVars(StoreStep(h))

-----------------------------------------------------------------------------

StoreTypeOK ==
  /\ StockTypeOK
  /\ RequestsTypeOK
  /\ SalesTypeOK
  /\ ReturnsTypeOK
  /\ PurchaseTypeOK

(***************************************************************************)
(* A handler between two requests holds no row lock of any table and has   *)
(* no ledger rows waiting for a commit: a request that failed half way     *)
(* blocks nobody and leaves nothing for the next one to commit.            *)
(***************************************************************************)
IdleHoldsNothing ==
  \A h \in Handler :
    req[h] = IdleRequest =>
      /\ HoldsNothing(products, h)
      /\ HoldsNothing(salesOrders, h)
      /\ HoldsNothing(salesReturns, h)
      /\ HoldsNothing(orderItems, h)
      /\ HoldsNothing(purchaseOrders, h)
      /\ posted[h] = NoRows

(***************************************************************************)
(* A request changes rows of its own user's tenant only: not a product,    *)
(* an order, a purchase order or a return of another one, whatever ids its *)
(* path and body name, and although some UPDATEs are by id alone.          *)
(***************************************************************************)
TenantIsolation ==
  [][\A h \in Handler :
       \/ /\ \A p \in Product :
               ~ Sees(h, p) => products'.current[p] = products.current[p]
          /\ \A o \in SalesOrder :
               ~ Sees(h, o) => salesOrders'.current[o] = salesOrders.current[o]
          /\ \A o \in PurchaseOrder :
               ~ Sees(h, o) =>
                 purchaseOrders'.current[o] = purchaseOrders.current[o]
          /\ \A r \in SalesReturn :
               ~ Sees(h, r) =>
                 salesReturns'.current[r] = salesReturns.current[r]
       \/ ~ (StoreRequest(h) \/ StoreStep(h))
    ]_storeVars
=============================================================================
