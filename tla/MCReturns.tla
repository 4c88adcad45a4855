----------------------------- MODULE MCReturns -----------------------------
(***************************************************************************)
(* One order of two items and its returns, in a store where nothing else   *)
(* is asked for: its other tables and inputs are empty.                    *)
(***************************************************************************)
EXTENDS Store, TLC

CONSTANTS t1, p1, p2

MCOpeningRows ==
  {[p \in Product |-> [stockQuantity |-> 2, averageCost |-> 4,
                       deletedAt |-> "null"]]}

MCKey == Product \cup SalesOrder \cup SalesReturn

OneTenant == [k \in Handler \cup MCKey |-> t1]

Nothing == {}

MCLine(p, n, price) == [product |-> p, quantity |-> n, unitPrice |-> price]

\* One line of two pieces and one of one: part of it can come back.
OneSale == {<<MCLine(p1, 2, 7), MCLine(p2, 1, 9)>>}

\* Returns of a piece of item 1, of items 1 and 2 in either order.
SomeReturns == {<<[item |-> 1, quantity |-> 1]>>,
                <<[item |-> 1, quantity |-> 2], [item |-> 2, quantity |-> 1]>>,
                <<[item |-> 2, quantity |-> 1], [item |-> 1, quantity |-> 1]>>}
=============================================================================
