------------------------------ MODULE RowStore ------------------------------
(***************************************************************************)
(* PostgreSQL at READ COMMITTED, as the services of this repository use it *)
(* through Prisma ($transaction with the default isolation level).         *)
(*                                                                         *)
(* A table maps every key to one row.  A statement that writes a row takes *)
(* the row lock and keeps it until the transaction ends, so a row has at   *)
(* most two versions: the committed one and the one its holder is writing. *)
(* An UPDATE ... WHERE or a unique INSERT that meets a row held by another *)
(* transaction waits for the lock and then evaluates its WHERE clause on   *)
(* the newest version; a SELECT never waits and reads its transaction's    *)
(* own writes, or else the committed version at the time of the statement. *)
(*                                                                         *)
(* The operators are pure: a table is a record, held in some variable of   *)
(* the modules that use them.                                              *)
(***************************************************************************)
CONSTANT NoOne          \* the holder of a row that no transaction has locked

Table(Keys, Rows, Holders) ==
  [committed : [Keys -> Rows],
   current   : [Keys -> Rows],
   holder    : [Keys -> Holders \cup {NoOne}]]

NewTable(rows) ==
  [committed |-> rows,
   current   |-> rows,
   holder    |-> [k \in DOMAIN rows |-> NoOne]]

\* What a SELECT of transaction h returns for row k.
Visible(t, h, k) == IF t.holder[k] = h THEN t.current[k] ELSE t.committed[k]

\* A writing statement of h on row k need not wait (any more).
Free(t, h, k) == t.holder[k] \in {h, NoOne}

\* The effect of a writing statement of h on row k, once the lock is granted.
Update(t, h, k, row) ==
  [t EXCEPT !.current[k] = row, !.holder[k] = h]

\* A writing statement outside any transaction commits at once.
Overwrite(t, k, row) ==
  [t EXCEPT !.committed[k] = row, !.current[k] = row]

Commit(t, h) ==
  [committed |-> [k \in DOMAIN t.holder |-> Visible(t, h, k)],
   current   |-> t.current,
   holder    |-> [k \in DOMAIN t.holder |->
                    IF t.holder[k] = h THEN NoOne ELSE t.holder[k]]]

Rollback(t, h) ==
  [committed |-> t.committed,
   current   |-> [k \in DOMAIN t.holder |->
                    IF t.holder[k] = h THEN t.committed[k] ELSE t.current[k]],
   holder    |-> [k \in DOMAIN t.holder |->
                    IF t.holder[k] = h THEN NoOne ELSE t.holder[k]]]

\* An unlocked row has a single version.
Consistent(t) ==
  \A k \in DOMAIN t.holder :
     t.holder[k] = NoOne => t.current[k] = t.committed[k]

\* h holds no lock of t.
HoldsNothing(t, h) == \A k \in DOMAIN t.holder : t.holder[k] # h
=============================================================================
