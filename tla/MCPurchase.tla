----------------------------- MODULE MCPurchase -----------------------------
(***************************************************************************)
(* Purchase on a small instance: two products, a third of another tenant   *)
(* that an order names all the same, a product on two lines, no lines.     *)
(***************************************************************************)
EXTENDS Purchase, TLC

CONSTANTS p1, p2, foreign, b1, b2, t1, t2

MCLine(p, n, price) == [product |-> p, quantity |-> n, unitPrice |-> price]

MCOpeningRows ==
  {[p \in Product |-> [stockQuantity |-> n, averageCost |-> 4,
                       deletedAt |-> "null"]] : n \in {0, 1}}

MCKey == {b1, b2}

MCTenantOf == [k \in Handler \cup Product \cup MCKey |->
                 IF k = foreign THEN t2 ELSE t1]

MCPurchaseCarts == {<< >>,
                    <<MCLine(p1, 1, 6), MCLine(p2, 2, 5)>>,
                    <<MCLine(p2, 1, 8), MCLine(p1, 1, 9)>>,
                    <<MCLine(p1, 1, 6), MCLine(p1, 2, 9)>>,
                    <<MCLine(p1, 1, 6), MCLine(foreign, 1, 6)>>}

Symmetric == Permutations(Handler) \cup Permutations(PurchaseOrder)
=============================================================================
