------------------------------ MODULE MCSales ------------------------------
(***************************************************************************)
(* Sales on a small instance: one tenant's two products, of which there    *)
(* are too few for all the orders, carts that take them in opposite orders *)
(* and one that names a product twice.                                     *)
(***************************************************************************)
EXTENDS Sales, TLC

CONSTANTS p1, p2, o1, o2, t1

MCLine(p, n) == [product |-> p, quantity |-> n, unitPrice |-> 3]

MCOpeningRows ==
  {[p \in Product |-> [stockQuantity |-> 2, averageCost |-> 2,
                       deletedAt |-> "null"]]}

MCKey == {o1, o2}

MCTenantOf == [k \in Handler \cup Product \cup MCKey |-> t1]

MCSaleCarts == {<<MCLine(p1, 1), MCLine(p2, 1)>>,
                <<MCLine(p2, 1), MCLine(p1, 1)>>,
                <<MCLine(p1, 1), MCLine(p1, 1)>>}

Symmetric == Permutations(Handler) \cup Permutations(SalesOrder)
=============================================================================
