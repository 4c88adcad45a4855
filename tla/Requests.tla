------------------------------ MODULE Requests ------------------------------
(***************************************************************************)
(* The requests in flight: which service method each handler is running,   *)
(* the statement it will send next and the local variables it carries from *)
(* one await to the next.  Between two awaits of one handler any other     *)
(* handler may run.                                                        *)
(*                                                                         *)
(* A request that is refused before its first write (a NotFoundException,  *)
(* a BadRequestException, a unique violation of the first statement)       *)
(* changes nothing, so it is not a step.                                   *)
(***************************************************************************)
EXTENDS StockDb

CONSTANTS
  Key,          \* order, purchase order and return numbers, product ids
  NoKey,
  TenantOf      \* the tenant of every handler's user, product and order

Line == [product : Product, quantity : Nat \ {0}, unitPrice : Nat]

ASSUME TenantAssumption ==
  /\ NoKey \notin Key
  /\ Handler \cup Product \cup Key \subseteq DOMAIN TenantOf

VARIABLES
  req,          \* the method, the next statement and the row it is about
  todo,         \* the items the loop over the order's items has still to do
  productMap    \* the product rows that the request's findMany returned

requestVars == <<req, todo, productMap>>

SalesOp == {"createSalesOrder", "createPendingSalesOrder",
            "completeSalesOrder", "cancelSalesOrder"}
PurchaseOp == {"createPurchaseOrder", "createPendingPurchaseOrder",
               "receivePurchaseOrder", "cancelPurchaseOrder"}
ReturnsOp == {"createReturn"}
InventoryOp == {"adjustStock", "updateProduct", "removeProduct"}

Statement == {"idle",
              "insertOrder", "markCompleted", "shipLine",
              "markReceived", "findProducts", "receiveLine",
              "insertReturn", "returnItem", "restock",
              "writeProduct",
              "commit"}

Op == SalesOp \cup PurchaseOp \cup ReturnsOp \cup InventoryOp

Request ==
  [op  : Op \cup {"none"},
   at  : Statement,
   key : Key \cup {NoKey}]

IdleRequest == [op |-> "none", at |-> "idle", key |-> NoKey]

NothingFound == [p \in {} |-> 0]

RequestsInit ==
  /\ req = [h \in Handler |-> IdleRequest]
  /\ todo = [h \in Handler |-> << >>]
  /\ productMap = [h \in Handler |-> NothingFound]

At(h, op, statement) == req[h].op \in op /\ req[h].at = statement

\* Handler h takes a new request and has run its first statement.
Begin(h, op, key, statement) ==
  /\ req[h] = IdleRequest
  /\ req' = [req EXCEPT ![h] = [op |-> op, at |-> statement, key |-> key]]

Goto(h, statement) == req' = [req EXCEPT ![h] = [@ EXCEPT !.at = statement]]

\* The response is sent, or the error: the handler's locals are gone.
Respond(h) ==
  /\ req' = [req EXCEPT ![h] = IdleRequest]
  /\ todo' = [todo EXCEPT ![h] = << >>]
  /\ productMap' = [productMap EXCEPT ![h] = NothingFound]

\* The clause `tenantId` of a WHERE: row k belongs to the tenant of h's user.
Sees(h, k) == TenantOf[k] = TenantOf[h]

ProductsOf(lines) == {lines[i].product : i \in DOMAIN lines}

\* product.findMany({ where: { id: { in: productIds }, tenantId } })
FindProducts(h, lines) ==
  [p \in {q \in ProductsOf(lines) : Sees(h, q)} |-> Visible(products, h, p)]

RequestsTypeOK ==
  /\ req \in [Handler -> Request]
  /\ todo \in [Handler -> Seq(Line)]
  /\ DOMAIN productMap = Handler
  /\ \A h \in Handler :
        /\ DOMAIN productMap[h] \subseteq Product
        /\ \A p \in DOMAIN productMap[h] : productMap[h][p] \in ProductRow

(***************************************************************************)
(* Every request is answered: no handler waits for ever, although two      *)
(* transactions may well wait for each other's row locks.                  *)
(***************************************************************************)
EveryRequestEnds == \A h \in Handler : req[h].at # "idle" ~> req[h].at = "idle"
=============================================================================
