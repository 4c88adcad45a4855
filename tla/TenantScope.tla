---------------------------- MODULE TenantScope ----------------------------
(***************************************************************************)
(* The Prisma extension that every getClient(tenantId) client carries: it  *)
(* rewrites the `where` of an operation before the query is sent.  A where *)
(* is a function from the fields it constrains to the values they must     *)
(* have; an absent field is JavaScript's undefined.                        *)
(***************************************************************************)
CONSTANTS
  Tenant,
  NoTenant      \* the tenantId '' of super admins: the client is unfiltered

ASSUME TenantScopeAssumption == NoTenant \notin Tenant

TENANT_SOFT_DELETE_MODELS ==
  {"Product", "Category", "Supplier", "SalesOrder", "PurchaseOrder", "TenantUser"}

SOFT_DELETE_ONLY_MODELS == {"PlatformAdmin", "PlatformUser", "Tenant"}

TENANT_ONLY_MODELS == {"SalesReturn", "StockTransaction"}

SoftDeleteModels == TENANT_SOFT_DELETE_MODELS \cup SOFT_DELETE_ONLY_MODELS

TenantModels == TENANT_SOFT_DELETE_MODELS \cup TENANT_ONLY_MODELS

Reads == {"findMany", "findFirst", "count", "aggregate", "groupBy"}

Writes == {"update", "updateMany", "upsert"}

Deletions == {"delete", "deleteMany"}

\* An explicit condition of the caller is kept.
AddFilter(where, field, value) ==
  IF field \in DOMAIN where
    THEN where
    ELSE [f \in DOMAIN where \cup {field} |->
            IF f = field THEN value ELSE where[f]]

ApplySoftDelete(model, where) ==
  IF model \in SoftDeleteModels
    THEN AddFilter(where, "deletedAt", "null")
    ELSE where

\* Mutant: the tenant filter is never applied.
ApplyNoTenantFilter(model, where, t) == where

ApplyTenantFilter(model, where, t) ==
  IF t # NoTenant /\ model \in TenantModels
    THEN AddFilter(where, "tenantId", t)
    ELSE where

(***************************************************************************)
(* The where that reaches the database.  findUnique and create go through  *)
(* as they are; a deletion is filtered only where it becomes an update of  *)
(* deletedAt.                                                              *)
(***************************************************************************)
Rewrite(operation, model, where, t) ==
  CASE operation \in Reads  -> ApplyTenantFilter(model, ApplySoftDelete(model, where), t)
    [] operation \in Writes -> ApplyTenantFilter(model, where, t)
    [] operation \in Deletions /\ model \in SoftDeleteModels ->
                               ApplyTenantFilter(model, where, t)
    [] OTHER                -> where

\* What is left of a deletion: rows of these models are only ever marked.
Executed(operation, model) ==
  CASE operation = "delete" /\ model \in SoftDeleteModels     -> "update"
    [] operation = "deleteMany" /\ model \in SoftDeleteModels -> "updateMany"
    [] OTHER                                                  -> operation

Matches(row, where) == \A f \in DOMAIN where : row[f] = where[f]
=============================================================================
