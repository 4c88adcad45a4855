----------------------------- MODULE MCCatalog -----------------------------
(***************************************************************************)
(* Catalog on a small instance: two requests at a time, of two stores and  *)
(* of super admins, two names and batches that repeat a name.              *)
(***************************************************************************)
EXTENDS Catalog, TLC

CONSTANTS t1, t2

MCCaller == {[tenantId |-> t1, role |-> "ADMIN"],
             [tenantId |-> t2, role |-> "STAFF"],
             [tenantId |-> NoTenant, role |-> "SUPER_ADMIN"]}

MCItem(sku, category, supplier) ==
  [sku |-> sku, name |-> [Category |-> category, Supplier |-> supplier]]

\* A product with a category, then one without.
MCBatches ==
  {<<MCItem(k[1], n, Nothing), MCItem(k[2], Nothing, Nothing)>> :
     n \in Name, k \in {l \in Sku \X Sku : l[1] # l[2]}}

Symmetric ==
  Permutations(Handler) \cup Permutations(Sku) \cup Permutations(Product)
    \cup Permutations(Category)
=============================================================================
