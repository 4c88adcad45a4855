------------------------------ MODULE MCShifts ------------------------------
(***************************************************************************)
(* The store on four instances at once: a behaviour is a shift, in which   *)
(* three requests at a time are at the counter (one sale and its returns), *)
(* in the warehouse (deliveries), or some at either; or one of them and    *)
(* one of the neighbours, another tenant, ask for anything there is.       *)
(***************************************************************************)
EXTENDS Store, TLC

CONSTANTS h1, p1, p2, o1, o2, b1, b2, b3, r1, r2, r3, t1, t2,
  guest, foreign   \* a handler and a product of the second tenant

VARIABLE shift

Ops == [counter    |-> SalesOp \cup ReturnsOp,
        warehouse  |-> PurchaseOp,
        both       |-> {"createPurchaseOrder", "createPendingSalesOrder",
                        "completeSalesOrder"},
        neighbours |-> Op]

\* The numbers and products that requests are about: those of an order,
\* a return and one of two products are the neighbours' own.
Keys == [counter    |-> {o1, r1, r2},
         warehouse  |-> {b1, b2},
         both       |-> {o1, b1, b2},
         neighbours |-> {o2, b3, r3, p1, foreign}]

OpeningStock == [counter |-> {2}, warehouse |-> {0, 1}, both |-> {1},
                 neighbours |-> {1}]

MCOpeningRows ==
  {[p \in Product |-> [stockQuantity |-> n, averageCost |-> 4,
                       deletedAt |-> "null"]] : n \in 0..2}

MCKey == Product \cup SalesOrder \cup PurchaseOrder \cup SalesReturn

MCTenantOf == [k \in Handler \cup MCKey |->
                 IF k \in {guest, foreign, o2, r3} THEN t2 ELSE t1]

MCLine(p, n, price) == [product |-> p, quantity |-> n, unitPrice |-> price]

\* One line of two pieces and one of one: part of it can come back.
OneSale == {<<MCLine(p1, 2, 7), MCLine(p2, 1, 9)>>}

\* A product on two lines, one of another tenant's, no lines.
Deliveries == {<< >>,
               <<MCLine(p1, 1, 6), MCLine(p2, 2, 5)>>,
               <<MCLine(p2, 1, 8), MCLine(p1, 1, 9)>>,
               <<MCLine(p1, 1, 6), MCLine(p1, 2, 9)>>,
               <<MCLine(p1, 1, 6), MCLine(foreign, 1, 6)>>}

\* Each tenant names the other one's product too.
MixedLists == {<<MCLine(p1, 1, 6)>>, <<MCLine(foreign, 1, 6)>>}

Lists == [counter |-> OneSale, warehouse |-> Deliveries,
          both |-> OneSale \cup Deliveries, neighbours |-> MixedLists]

MCSaleCarts == OneSale \cup MixedLists

MCPurchaseCarts == Deliveries \cup MixedLists

\* Returns of a piece of item 1, of items 1 and 2 in either order.
MCReturnPicks == {<<[item |-> 1, quantity |-> 1]>>,
                  <<[item |-> 1, quantity |-> 2], [item |-> 2, quantity |-> 1]>>,
                  <<[item |-> 2, quantity |-> 1], [item |-> 1, quantity |-> 1]>>}

\* The type of an adjustment may contradict either.
EitherWay == {-1, 1}

\* Of the neighbours' shift, no two states are alike: h1 alone is in it.
Symmetric == Permutations(Handler \ {guest}) \cup Permutations({b1, b2})
               \cup Permutations({r1, r2})

ShiftsInit ==
  /\ StoreInit
  /\ shift \in DOMAIN Ops
  /\ \E n \in OpeningStock[shift] :
       \A p \in Product : products.committed[p].stockQuantity = n

\* Three of the store, or one of each tenant.
OnDuty == IF shift = "neighbours" THEN {h1, guest} ELSE Handler \ {guest}

Asks(h) ==
  /\ StoreRequest(h)
  /\ req'[h].op \in Ops[shift]
  /\ req'[h].key \in Keys[shift]
  /\ todo'[h] \in Lists[shift] \cup {<< >>}
  /\ \A o \in PurchaseOrder :
       purchaseOrders'.current[o].items \in Lists[shift] \cup {<< >>}

ShiftsNext ==
  /\ \E h \in OnDuty : Asks(h) \/ StoreStep(h)
  /\ UNCHANGED shift

ShiftsSpec == ShiftsInit /\ [][ShiftsNext]_<<storeVars, shift>>
=============================================================================
