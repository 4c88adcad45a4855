----------------------------- MODULE MCSessions -----------------------------
(***************************************************************************)
(* Sessions on small instances: a few tokens, a good and a bad password,   *)
(* two failed attempts to a lock and a clock that outlives one.            *)
(***************************************************************************)
EXTENDS Sessions, TLC

Symmetric == Permutations(Handler) \cup Permutations(User)
               \cup Permutations(Token)
=============================================================================
