------------------------------ MODULE Catalog ------------------------------
(***************************************************************************)
(* CategoriesService, SuppliersService and ProductsService, the bulk input *)
(* of products of InventoryService (aiProductInput), the removal of a      *)
(* store's catalog by AdminService, and AuditLogInterceptor around them.   *)
(*                                                                         *)
(* The three tables are one function over the ids of their rows.  A row    *)
(* keeps its name (of a product, its sku), which is unique within tenant   *)
(* and table, removed rows included.  Every statement goes through the     *)
(* client of the user's tenant, whose where clauses TenantScope rewrites.  *)
(***************************************************************************)
EXTENDS Sequences, RowStore, TenantScope

CONSTANTS
  Handler,      \* requests that can be in flight at the same time
  Category, Supplier, Product,   \* the ids a row may get
  Name, Sku,    \* names of categories and suppliers, skus of products
  Nothing,      \* an undefined value
  Caller,       \* the users that send requests
  Batches       \* the lists of products that bulk inputs bring

Id == Category \cup Supplier \cup Product

Ids(model) == CASE model = "Category" -> Category
                [] model = "Supplier" -> Supplier
                [] model = "Product"  -> Product

Names(model) == IF model = "Product" THEN Sku ELSE Name

ModelOf(k) == CASE k \in Category -> "Category"
                [] k \in Supplier -> "Supplier"
                [] OTHER          -> "Product"

Refs == [Category : Category \cup {Nothing}, Supplier : Supplier \cup {Nothing}]

NoRefs == [Category |-> Nothing, Supplier |-> Nothing]

Item == [sku : Sku, name : [Category : Name \cup {Nothing},
                             Supplier : Name \cup {Nothing}]]

User == [tenantId : Tenant, role : {"ADMIN", "STAFF"}]
          \cup [tenantId : {NoTenant}, role : {"SUPER_ADMIN"}]

ASSUME CatalogAssumption ==
  /\ NoOne \notin Handler
  /\ Nothing \notin Id \cup Name \cup Sku
  /\ Category \cap Supplier = {}
  /\ Product \cap (Category \cup Supplier) = {}
  /\ Batches \subseteq Seq(Item)
  /\ Caller \subseteq User

VARIABLES
  catalog,      \* the categories, suppliers and products tables
  request,      \* per handler: the user, the method, its next statement
  closed        \* tenants whose row is marked as removed

catalogVars == <<catalog, request, closed>>

\* deletedAt is "none" where there is no row.
Row == [deletedAt : {"none", "null", "set"}, tenantId : Tenant \cup {NoTenant},
        name : Name \cup Sku \cup {Nothing}, refs : Refs]

NoRow == [deletedAt |-> "none", tenantId |-> NoTenant, name |-> Nothing,
          refs |-> NoRefs]

Nobody == [tenantId |-> NoTenant, role |-> "none"]

Method == {"none", "create", "update", "remove", "aiProductInput", "removeTenant"}

Statement == {"idle", "write", "findSku", "upsert", "insert", "audit",
              "updateMany", "commit"}

Request == [user : User \cup {Nobody}, op : Method, at : Statement,
            id : Id \cup {Nothing},
            model : {"Category", "Supplier", "Product"},
            items : Seq(Item), refs : Refs, store : Tenant \cup {NoTenant}]

Idle == [user |-> Nobody, op |-> "none", at |-> "idle", id |-> Nothing,
         model |-> "Product", items |-> << >>, refs |-> NoRefs,
         store |-> NoTenant]

CatalogInit ==
  /\ catalog = NewTable([k \in Id |-> NoRow])
  /\ request = [h \in Handler |-> Idle]
  /\ closed = {}

-----------------------------------------------------------------------------

Exists(row) == row.deletedAt # "none"

\* Another row of the table has the name: the unique index, which waits for
\* no transaction, as none of them changes a name.
Taken(model, t, n) ==
  \E k \in Ids(model) :
    /\ Exists(catalog.current[k])
    /\ catalog.current[k].tenantId = t
    /\ catalog.current[k].name = n

\* Where on a row of its table, through the client of tenant t.
Finds(operation, row, k, t) ==
  /\ Exists(row)
  /\ Matches(row, Rewrite(operation, ModelOf(k), << >>, t))

\* WHERE tenantId = t AND name = n, as findUnique and upsert ask.
FindNamed(operation, model, t, n) ==
  {k \in Ids(model) :
     /\ Exists(catalog.committed[k])
     /\ Matches(catalog.committed[k],
                Rewrite(operation, model, [tenantId |-> t, name |-> n], t))}

\* Ids a client of tenant t has been given: rows of its own, removed or not.
Known(model, t) ==
  {k \in Ids(model) : catalog.committed[k].tenantId = t} \cup {Nothing}

\* JwtStrategy finds no live user in a store that is closed.
MayAsk(u) == u.tenantId \notin closed

Administrator(u) == u.role \in {"ADMIN", "SUPER_ADMIN"}

Begin(h, new) ==
  /\ request[h] = Idle
  /\ MayAsk(new.user)
  /\ request' = [request EXCEPT ![h] = new]

Respond(h) == request' = [request EXCEPT ![h] = Idle]

\* The response is sent; if the user has a tenant, the interceptor's task is
\* still to come.
Succeed(h) ==
  IF request[h].user.tenantId = NoTenant
    THEN Respond(h)
    ELSE request' = [request EXCEPT ![h].at = "audit"]

At(h, op, statement) == request[h].op \in op /\ request[h].at = statement

-----------------------------------------------------------------------------

\* create of the three services, and the loop of aiProductInput (which has no
\* @Roles): the guards have let the request in.
Ask(h, u) ==
  /\ \/ /\ Administrator(u)
        /\ \E m \in {"Category", "Supplier", "Product"} :
             Begin(h, [Idle EXCEPT !.user = u, !.op = "create", !.at = "insert",
                                   !.model = m])
     \/ \E items \in Batches :
          Begin(h, [Idle EXCEPT !.user = u, !.op = "aiProductInput",
                                !.at = "findSku", !.items = items])
  /\ UNCHANGED <<catalog, closed>>

\* INSERT outside any transaction; the tenant must exist.
InsertRow(model, t, n, refs, k) ==
  /\ t \in Tenant
  /\ k \in Ids(model)
  /\ n \in Names(model)
  /\ ~ Exists(catalog.current[k])
  /\ ~ Taken(model, t, n)
  /\ catalog' = Overwrite(catalog, k,
       [deletedAt |-> "null", tenantId |-> t, name |-> n, refs |-> refs])

\* Nothing asks whose categoryId and supplierId a client sends, or whether
\* they are removed; clients know the ids of their own store.
Create(h, n, refs, k) ==
  LET u == request[h].user IN
  /\ At(h, {"create"}, "insert")
  /\ IF request[h].model = "Product"
       THEN \A m \in DOMAIN refs : refs[m] \in Known(m, u.tenantId)
       ELSE refs = NoRefs
  /\ InsertRow(request[h].model, u.tenantId, n, refs, k)
  /\ Succeed(h)
  /\ UNCHANGED closed

-----------------------------------------------------------------------------

\* update and remove of the three services: first a findOne ...
FindOne(h, u, op, k) ==
  /\ Administrator(u)
  /\ Finds("findFirst", catalog.committed[k], k, u.tenantId)
  /\ Begin(h, [Idle EXCEPT !.user = u, !.op = op, !.at = "write", !.id = k])
  /\ UNCHANGED <<catalog, closed>>

\* ... then an UPDATE by id and tenant of the columns that were sent, whatever
\* has become of the row.
Write(h, row) ==
  LET k == request[h].id IN
  /\ request[h].at = "write"
  /\ Free(catalog, h, k)
  /\ Finds("update", catalog.current[k], k, request[h].user.tenantId)
  /\ catalog' = Overwrite(catalog, k, row)
  /\ Succeed(h)
  /\ UNCHANGED closed

UpdateRow(h, n, refs) ==
  LET k == request[h].id
      row == catalog.current[k] IN
  /\ At(h, {"update"}, "write")
  /\ n \in Names(ModelOf(k))
  /\ n = row.name \/ ~ Taken(ModelOf(k), row.tenantId, n)
  /\ \A m \in DOMAIN refs :
       \/ refs[m] = row.refs[m]
       \/ ModelOf(k) = "Product" /\ refs[m] \in Known(m, row.tenantId)
  /\ Write(h, [row EXCEPT !.name = n, !.refs = refs])

\* Mutant: the row is deleted.
DeleteRow(h) == At(h, {"remove"}, "write") /\ Write(h, NoRow)

RemoveRow(h) ==
  /\ At(h, {"remove"}, "write")
  /\ Write(h, [catalog.current[request[h].id] EXCEPT !.deletedAt = "set"])

-----------------------------------------------------------------------------

\* aiProductInput: for each item, is the sku taken, live or removed?
FindSku(h) ==
  LET item == Head(request[h].items) IN
  /\ request[h].at = "findSku"
  /\ request[h].items # << >>
  /\ request' = [request EXCEPT ![h] =
       IF FindNamed("findUnique", "Product", request[h].user.tenantId, item.sku) # {}
         THEN [@ EXCEPT !.items = Tail(request[h].items)]
         ELSE [@ EXCEPT !.at = "upsert", !.model = "Category"]]
  /\ UNCHANGED <<catalog, closed>>

\* Mutant: the id of the category is kept as that of the supplier.
CarrySwapped(h, k) ==
  request' = [request EXCEPT ![h] =
    IF @.model = "Category"
      THEN [@ EXCEPT !.refs.Supplier = k,
                     !.at = "upsert", !.model = "Supplier"]
      ELSE [@ EXCEPT !.refs.Category = k,
                     !.at = "insert", !.model = "Product"]]

\* The category is done with, then the supplier; the product carries their ids.
Carry(h, k) ==
  request' = [request EXCEPT ![h] =
    IF @.model = "Category"
      THEN [@ EXCEPT !.refs.Category = k,
                     !.at = "upsert", !.model = "Supplier"]
      ELSE [@ EXCEPT !.refs.Supplier = k,
                     !.at = "insert", !.model = "Product"]]

\* Mutant: the upsert revives a removed row.
FindOrRevive(h) ==
  LET n == Head(request[h].items).name[request[h].model]
      found == FindNamed("upsert", request[h].model, request[h].user.tenantId, n) IN
  /\ request[h].at = "upsert"
  /\ n # Nothing
  /\ \E k \in found :
       /\ Carry(h, k)
       /\ catalog' = Overwrite(catalog, k,
            [catalog.committed[k] EXCEPT !.deletedAt = "null"])
  /\ UNCHANGED closed

\* The SELECT of an upsert whose update is empty: it finds removed rows too.
FindName(h) ==
  LET n == Head(request[h].items).name[request[h].model]
      found == FindNamed("upsert", request[h].model, request[h].user.tenantId, n) IN
  /\ request[h].at = "upsert"
  /\ \/ n = Nothing /\ Carry(h, Nothing)
     \/ n # Nothing /\ \E k \in found : Carry(h, k)
     \/ /\ n # Nothing /\ found = {}
        /\ request' = [request EXCEPT ![h].at = "insert"]
  /\ UNCHANGED <<catalog, closed>>

\* The INSERT of the upsert.
InsertName(h, k) ==
  LET m == request[h].model IN
  /\ At(h, {"aiProductInput"}, "insert")
  /\ m # "Product"
  /\ InsertRow(m, request[h].user.tenantId, Head(request[h].items).name[m], NoRefs, k)
  /\ Carry(h, k)
  /\ UNCHANGED closed

\* Mutant: categoryId and supplierId are declared outside the loop.
InsertProductKeepingRefs(h, k) ==
  /\ At(h, {"aiProductInput"}, "insert")
  /\ request[h].model = "Product"
  /\ InsertRow("Product", request[h].user.tenantId, Head(request[h].items).sku,
               request[h].refs, k)
  /\ request' = [request EXCEPT ![h].at = "findSku", ![h].items = Tail(@)]
  /\ UNCHANGED closed

InsertProduct(h, k) ==
  /\ At(h, {"aiProductInput"}, "insert")
  /\ request[h].model = "Product"
  /\ InsertRow("Product", request[h].user.tenantId, Head(request[h].items).sku,
               request[h].refs, k)
  /\ request' = [request EXCEPT ![h].at = "findSku", ![h].items = Tail(@),
                                ![h].refs = NoRefs]
  /\ UNCHANGED closed

AnswerInput(h) ==
  /\ request[h].at = "findSku"
  /\ request[h].items = << >>
  /\ Succeed(h)
  /\ UNCHANGED <<catalog, closed>>

-----------------------------------------------------------------------------

\* AdminService.removeTenant: in one transaction, after the users, the rows of
\* one table after the other, and in the end the tenant's.
RemoveTenant(h, u, t) ==
  /\ u.role = "SUPER_ADMIN"
  /\ t \notin closed
  /\ Begin(h, [Idle EXCEPT !.user = u, !.op = "removeTenant", !.at = "updateMany",
                           !.store = t])
  /\ UNCHANGED <<catalog, closed>>

AfterTable == [Product |-> "Category", Category |-> "Supplier"]

\* Mutant: the statements are sent outside the transaction.
RemoveRowsAlone(h) ==
  LET m == request[h].model
      rows == {k \in Ids(m) : /\ Exists(catalog.current[k])
                              /\ catalog.current[k].tenantId = request[h].store}
      removed == [k \in Id |-> IF k \in rows
                                 THEN [catalog.current[k] EXCEPT !.deletedAt = "set"]
                                 ELSE catalog.current[k]] IN
  /\ request[h].at = "updateMany"
  /\ catalog' = [catalog EXCEPT !.current = removed, !.committed = removed]
  /\ request' = [request EXCEPT ![h] =
       IF m \in DOMAIN AfterTable
         THEN [@ EXCEPT !.model = AfterTable[m]]
         ELSE [@ EXCEPT !.at = "commit"]]
  /\ UNCHANGED closed

RemoveRows(h) ==
  LET m == request[h].model
      rows == {k \in Ids(m) : /\ Exists(catalog.current[k])
                              /\ catalog.current[k].tenantId = request[h].store} IN
  /\ request[h].at = "updateMany"
  /\ \A k \in rows : Free(catalog, h, k)
  /\ catalog' =
       [catalog EXCEPT
          !.current = [k \in Id |->
            IF k \in rows THEN [@[k] EXCEPT !.deletedAt = "set"] ELSE @[k]],
          !.holder = [k \in Id |-> IF k \in rows THEN h ELSE @[k]]]
  /\ request' = [request EXCEPT ![h] =
       IF m \in DOMAIN AfterTable
         THEN [@ EXCEPT !.model = AfterTable[m]]
         ELSE [@ EXCEPT !.at = "commit"]]
  /\ UNCHANGED closed

CommitRemoval(h) ==
  /\ request[h].at = "commit"
  /\ catalog' = Commit(catalog, h)
  /\ closed' = closed \cup {request[h].store}
  /\ Respond(h)

-----------------------------------------------------------------------------

\* The task of the interceptor, after the handler: captureBeforeState reads
\* the row of a PATCH or DELETE by id, through the unfiltered client, and the
\* log row is inserted.
CapturedBeforeState(h) == catalog.committed[request[h].id]

InsertLog(h) ==
  /\ request[h].at = "audit"
  /\ Respond(h)
  /\ UNCHANGED <<catalog, closed>>

\* A NotFoundException, a unique violation, a timeout, a lost connection or a
\* crash: an open transaction rolls back, statements that ran outside one
\* stay, and a log row that could not be written is forgotten.
Fail(h) ==
  /\ request[h] # Idle
  /\ catalog' = Rollback(catalog, h)
  /\ Respond(h)
  /\ UNCHANGED closed

CatalogStep(h) ==
  \/ \E n \in Name \cup Sku, refs \in Refs :
       UpdateRow(h, n, refs) \/ \E k \in Id : Create(h, n, refs, k)
  \/ RemoveRow(h)
  \/ FindSku(h)
  \/ FindName(h)
  \/ \E k \in Id : InsertName(h, k) \/ InsertProduct(h, k)
  \/ AnswerInput(h)
  \/ RemoveRows(h)
  \/ CommitRemoval(h)
  \/ InsertLog(h)
  \/ Fail(h)

CatalogRequest(h) ==
  \E u \in Caller :
    \/ Ask(h, u)
    \/ \E op \in {"update", "remove"}, k \in Id : FindOne(h, u, op, k)
    \/ \E t \in Tenant : RemoveTenant(h, u, t)

CatalogNext == \E h \in Handler : CatalogRequest(h) \/ CatalogStep(h)

CatalogSpec == CatalogInit /\ [][CatalogNext]_catalogVars

-----------------------------------------------------------------------------

(***************************************************************************)
(* The rows, the requests in flight and the closed stores have their types *)
(* at every await of the three services: in particular a product's         *)
(* reference to a category is never the id of a supplier.                  *)
(***************************************************************************)
CatalogTypeOK ==
  /\ catalog \in Table(Id, Row, Handler)
  /\ request \in [Handler -> Request]
  /\ closed \subseteq Tenant

(***************************************************************************)
(* The ids that a bulk input carries from one await to the next are those  *)
(* of rows of its own store, and it never carries one that its item did    *)
(* not ask for: not the category of the item before, nor, when two inputs  *)
(* race for a name, the row of nobody.                                     *)
(***************************************************************************)
CarriedRefsAreOwn ==
  \A h \in Handler : \A m \in {"Category", "Supplier"} :
    LET k == request[h].refs[m] IN
    k # Nothing =>
      /\ Exists(catalog.committed[k])
      /\ catalog.committed[k].tenantId = request[h].user.tenantId
      /\ Head(request[h].items).name[m] # Nothing

(***************************************************************************)
(* What the log of a PATCH or DELETE calls "before" is a row of the user's *)
(* own store, whatever id the path named and whoever else is at it; but it *)
(* is read after the handler, so that of a DELETE shows the row removed.   *)
(***************************************************************************)
LogFollowsWrite ==
  \A h \in Handler :
    At(h, {"update", "remove"}, "audit") =>
      /\ Exists(CapturedBeforeState(h))
      /\ CapturedBeforeState(h).tenantId = request[h].user.tenantId
      /\ request[h].op = "remove" => CapturedBeforeState(h).deletedAt = "set"

(***************************************************************************)
(* A user of a store changes rows of that store only, and staff, who may   *)
(* send bulk inputs, only add rows: an input never touches a row that      *)
(* exists, even if it finds its sku, category or supplier taken.         *)
(***************************************************************************)
CatalogIsolation ==
  [][\A h \in Handler, k \in Id :
       LET u == request[h].user
           row == catalog.current[k] IN
       /\ u.tenantId # NoTenant
       /\ request'[h] # request[h]
       /\ catalog'.current[k] # row
       => /\ catalog'.current[k].tenantId = u.tenantId
          /\ Exists(row) =>
               /\ row.tenantId = u.tenantId
               /\ u.role # "STAFF"
               /\ request[h].op # "aiProductInput"]_catalogVars

(***************************************************************************)
(* The tables are soft-deleted tables: no interleaving of an update, a     *)
(* removal, a bulk input and the removal of the store revives a row, or    *)
(* makes it change hands.                                                  *)
(***************************************************************************)
Rows == INSTANCE SoftRows WITH
  Row <- Id, Owner <- Tenant, Nobody <- NoTenant,
  life <- [k \in Id |-> CASE catalog.committed[k].deletedAt = "none" -> "none"
                          [] catalog.committed[k].deletedAt = "null" -> "live"
                          [] OTHER                                   -> "removed"],
  owner <- [k \in Id |-> catalog.committed[k].tenantId]

ImplementsSoftRows == Rows!Spec

(***************************************************************************)
(* "Soft delete tenant beserta semua data terkait": a removal that fails,  *)
(* at whichever table, has removed nothing, and one that succeeds leaves   *)
(* of the rows that were there when it came to their table none.           *)
(***************************************************************************)
RemovalIsAtomic ==
  [][\A h \in Handler :
       request[h].op = "removeTenant" /\ request'[h] # request[h] =>
         \/ catalog'.committed = catalog.committed
         \/ /\ request[h].at = "commit"
            /\ request[h].store \in closed'
            /\ \A k \in Id : catalog.holder[k] = h =>
                 catalog'.committed[k].deletedAt = "set"]_catalogVars
=============================================================================
