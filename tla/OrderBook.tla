----------------------------- MODULE OrderBook -----------------------------
(***************************************************************************)
(* What a reader of the database sees of sales: orders appear, and are     *)
(* completed or cancelled, in single steps, and an order's goods leave the *)
(* shelf in the step that makes it COMPLETED, all of them or none.         *)
(*                                                                         *)
(* The one thing this specification does not promise is that only PENDING  *)
(* orders are completed: a completion acts on what it read before, so any  *)
(* order that exists may be shipped, again or although it was cancelled.   *)
(***************************************************************************)
EXTENDS Integers, Sequences, Functions

CONSTANTS
  Order, Product,
  Baskets,      \* the item lists that orders are made of
  Shelves       \* the stock to start from

VARIABLES
  book,         \* per order number: its status and its items
  stock         \* per product: the units on the shelf

bookVars == <<book, stock>>

NoOrder == [status |-> "NONE", items |-> << >>]

\* How many units of p the items are for.
Units(items, p) ==
  SumFunctionOnSet([i \in DOMAIN items |-> items[i].quantity],
                   {i \in DOMAIN items : items[i].product = p})

\* The goods leave the shelf, which must hold them.
Take(items) ==
  /\ \A p \in Product : stock[p] >= Units(items, p)
  /\ stock' = [p \in Product |-> stock[p] - Units(items, p)]

BookInit ==
  /\ book = [o \in Order |-> NoOrder]
  /\ stock \in Shelves

\* An order that waits.
Place(o, items) ==
  /\ book[o] = NoOrder
  /\ book' = [book EXCEPT ![o] = [status |-> "PENDING", items |-> items]]
  /\ UNCHANGED stock

\* An order that ships at once.
Sell(o, items) ==
  /\ book[o] = NoOrder
  /\ Take(items)
  /\ book' = [book EXCEPT ![o] = [status |-> "COMPLETED", items |-> items]]

Complete(o) ==
  /\ book[o] # NoOrder
  /\ Take(book[o].items)
  /\ book' = [book EXCEPT ![o].status = "COMPLETED"]

Cancel(o) ==
  /\ book[o].status = "PENDING"
  /\ book' = [book EXCEPT ![o].status = "CANCELLED"]
  /\ UNCHANGED stock

BookNext ==
  \E o \in Order :
    \/ \E items \in Baskets : Place(o, items) \/ Sell(o, items)
    \/ Complete(o)
    \/ Cancel(o)

BookSpec == BookInit /\ [][BookNext]_bookVars
=============================================================================
