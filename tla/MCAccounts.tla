----------------------------- MODULE MCAccounts -----------------------------
(***************************************************************************)
(* Accounts on a small instance: three requests at a time, with two e-mail *)
(* addresses and two user names, which compete for the same store.         *)
(***************************************************************************)
EXTENDS Accounts, TLC

Symmetric == Permutations(Handler) \cup Permutations(Email)
               \cup Permutations(Store) \cup Permutations(Username)
=============================================================================
