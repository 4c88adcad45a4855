----------------------------- MODULE SoftRows -----------------------------
(***************************************************************************)
(* What the application promises of a table whose rows are soft-deleted:   *)
(* a row appears once, belongs to one owner for good, and once it is       *)
(* removed it stays removed.  Several rows of one owner may be removed at  *)
(* once, when the owner goes.                                              *)
(***************************************************************************)
CONSTANTS Row, Owner, Nobody

VARIABLES life, owner

Init ==
  /\ life = [k \in Row |-> "none"]
  /\ owner = [k \in Row |-> Nobody]

Insert(k, o) ==
  /\ life[k] = "none"
  /\ life' = [life EXCEPT ![k] = "live"]
  /\ owner' = [owner EXCEPT ![k] = o]

Remove(rows, o) ==
  /\ rows # {}
  /\ rows \subseteq {k \in Row : life[k] = "live" /\ owner[k] = o}
  /\ life' = [k \in Row |-> IF k \in rows THEN "removed" ELSE life[k]]
  /\ UNCHANGED owner

Next ==
  \E o \in Owner :
    \/ \E k \in Row : Insert(k, o)
    \/ \E rows \in SUBSET {k \in Row : owner[k] = o} : Remove(rows, o)

Spec == Init /\ [][Next]_<<life, owner>>
=============================================================================
