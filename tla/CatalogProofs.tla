---------------------------- MODULE CatalogProofs ----------------------------
(***************************************************************************)
(* The scope of a tenant's client, and Catalog for any number of requests, *)
(* stores, rows and names: types, what the requests in flight still know   *)
(* of the rows, and the refinement of SoftRows.                            *)
(***************************************************************************)
EXTENDS Catalog, TLAPS

\* No operation is of two kinds.
LEMMA KindsDiffer ==
  /\ Reads \cap Writes = {}
  /\ Reads \cap Deletions = {}
  /\ Writes \cap Deletions = {}
BY DEF Reads, Writes, Deletions

\* A where that names no tenant gets the client's.
LEMMA FilterConfines ==
  ASSUME NEW where, "tenantId" \notin DOMAIN where, NEW t, NEW row,
         Matches(row, AddFilter(where, "tenantId", t))
  PROVE  row.tenantId = t
BY DEF Matches, AddFilter

(***************************************************************************)
(* Every statement but findUnique and create that a tenant's client sends  *)
(* about a model with tenants is confined to the tenant, unless the code   *)
(* that wrote it named a tenant itself.                                    *)
(***************************************************************************)
THEOREM ClientsAreConfined ==
  ASSUME NEW t \in Tenant, NEW model \in TenantModels, NEW where,
         "tenantId" \notin DOMAIN where, NEW row,
         NEW operation,
         \/ operation \in Reads \cup Writes
         \/ operation \in Deletions /\ model \in SoftDeleteModels,
         Matches(row, Rewrite(operation, model, where, t))
  PROVE  row.tenantId = t
<1>1. t # NoTenant
  BY TenantScopeAssumption
<1>2. "tenantId" \notin DOMAIN ApplySoftDelete(model, where)
  BY DEF ApplySoftDelete, AddFilter
<1>3. CASE operation \in Reads
  <2>1. Rewrite(operation, model, where, t)
          = AddFilter(ApplySoftDelete(model, where), "tenantId", t)
    <3>1. Rewrite(operation, model, where, t)
            = ApplyTenantFilter(model, ApplySoftDelete(model, where), t)
      BY <1>3, KindsDiffer DEF Rewrite
    <3> QED BY <1>1, <3>1 DEF ApplyTenantFilter
  <2> QED BY <1>2, <2>1, FilterConfines
<1>4. CASE operation \notin Reads
  <2>1. Rewrite(operation, model, where, t) = ApplyTenantFilter(model, where, t)
    <3>1. CASE operation \in Writes
      BY <1>4, <3>1, KindsDiffer DEF Rewrite
    <3>2. CASE operation \notin Writes /\ operation \in Deletions /\ model \in SoftDeleteModels
      BY <1>4, <3>2, KindsDiffer DEF Rewrite
    <3> QED BY <1>4, <3>1, <3>2
  <2>2. ApplyTenantFilter(model, where, t) = AddFilter(where, "tenantId", t)
    BY <1>1 DEF ApplyTenantFilter
  <2> QED BY <2>1, <2>2, FilterConfines
<1> QED BY <1>3, <1>4

(***************************************************************************)
(* What a client reads of a model that is soft-deleted has not been        *)
(* removed, unless the code asked for removed rows; and no deletion of     *)
(* such a model reaches the database as one.                               *)
(***************************************************************************)
THEOREM RemovedRowsAreHidden ==
  ASSUME NEW t \in Tenant \cup {NoTenant}, NEW model \in SoftDeleteModels, NEW where,
         "deletedAt" \notin DOMAIN where, NEW row
  PROVE  /\ \A operation \in Reads :
              Matches(row, Rewrite(operation, model, where, t)) => row.deletedAt = "null"
         /\ \A operation \in Deletions : Executed(operation, model) \in Writes
<1>1. ASSUME NEW operation \in Reads,
             Matches(row, Rewrite(operation, model, where, t))
      PROVE  row.deletedAt = "null"
  <2> DEFINE soft == AddFilter(where, "deletedAt", "null")
             full == AddFilter(soft, "tenantId", t)
  <2>1. ApplySoftDelete(model, where) = soft
    BY DEF ApplySoftDelete
  <2>2. Rewrite(operation, model, where, t) \in {soft, full}
    <3>1. Rewrite(operation, model, where, t) = ApplyTenantFilter(model, soft, t)
      BY <2>1, KindsDiffer DEF Rewrite
    <3> HIDE DEF soft
    <3> QED BY <3>1 DEF ApplyTenantFilter
  <2>3. "deletedAt" \in DOMAIN soft /\ soft["deletedAt"] = "null"
    BY DEF AddFilter
  <2>4. "deletedAt" \in DOMAIN full /\ full["deletedAt"] = "null"
    <3> HIDE DEF soft
    <3> QED BY <2>3 DEF AddFilter
  <2> HIDE DEF soft, full
  <2> QED BY <1>1, <2>2, <2>3, <2>4 DEF Matches
<1>2. \A operation \in Deletions : Executed(operation, model) \in Writes
  BY DEF Executed, Deletions, Writes
<1> QED BY <1>1, <1>2

-----------------------------------------------------------------------------

\* What a request has to carry to send the statement it is at.
Carries(c) ==
  /\ c.op = "removeTenant" => /\ c.at \in {"updateMany", "commit"}
                              /\ c.user.tenantId = NoTenant
                              /\ c.store \in Tenant
  /\ c.at \in {"updateMany", "commit"} => c.op = "removeTenant"
  /\ c.at = "write" => c.id \in Id /\ c.op # "aiProductInput" /\ Administrator(c.user)
  /\ c.at = "upsert" => /\ c.op = "aiProductInput"
                        /\ c.items # << >>
                        /\ c.model \in {"Category", "Supplier"}
  /\ c.at = "findSku" => c.op = "aiProductInput" /\ c.refs = NoRefs
  /\ c.at = "insert" /\ c.op = "aiProductInput" => c.items # << >>

\* The ids that request c carries are those of rows of table t, of its store.
RefsOwn(c, t) ==
  \A m \in {"Category", "Supplier"} :
    c.refs[m] # Nothing => /\ Exists(t.committed[c.refs[m]])
                           /\ t.committed[c.refs[m]].tenantId = c.user.tenantId
                           /\ Head(c.items).name[m] # Nothing

LogOwn(c, t) ==
  c.op \in {"update", "remove"} /\ c.at = "audit" =>
    /\ c.id \in Id
    /\ Exists(t.committed[c.id])
    /\ t.committed[c.id].tenantId = c.user.tenantId
    /\ c.op = "remove" => t.committed[c.id].deletedAt = "set"

RequestInv(c, t) == c \in Request /\ Carries(c) /\ RefsOwn(c, t) /\ LogOwn(c, t)

\* A row that nobody holds has one version, one that is held is being removed.
TableInv(t) ==
  /\ t \in Table(Id, Row, Handler)
  /\ \A k \in Id : Exists(t.committed[k]) => t.committed[k].tenantId \in Tenant
  /\ \A k \in Id : t.holder[k] = NoOne => t.current[k] = t.committed[k]
  /\ \A k \in Id : t.holder[k] # NoOne =>
       /\ t.current[k].deletedAt = "set"
       /\ Exists(t.committed[k])
       /\ t.current[k].tenantId = t.committed[k].tenantId

\* Only the removal of a store holds rows, and rows of that store.
Holding(t, r) ==
  \A h \in Handler, k \in Id :
    t.holder[k] = h => r[h].op = "removeTenant" /\ t.current[k].tenantId = r[h].store

CatalogInv ==
  /\ TableInv(catalog)
  /\ request \in [Handler -> Request]
  /\ \A h \in Handler : RequestInv(request[h], catalog)
  /\ Holding(catalog, request)
  /\ closed \subseteq Tenant

\* How the committed rows of table u differ from those of t.
Same(t, u, k) == /\ u.committed[k].deletedAt = t.committed[k].deletedAt
                 /\ u.committed[k].tenantId = t.committed[k].tenantId

Inserted(t, u) ==
  \E k \in Id :
    /\ t.committed[k].deletedAt = "none"
    /\ u.committed[k].deletedAt = "null"
    /\ u.committed[k].tenantId \in Tenant
    /\ \A l \in Id \ {k} : Same(t, u, l)

Removed(t, u) ==
  \E rows \in SUBSET Id, o \in Tenant :
    /\ rows # {}
    /\ \A k \in rows : /\ t.committed[k].deletedAt = "null"
                       /\ t.committed[k].tenantId = o
                       /\ u.committed[k].deletedAt = "set"
                       /\ u.committed[k].tenantId = o
    /\ \A k \in Id \ rows : Same(t, u, k)

SoftStep(t, u) == Inserted(t, u) \/ Removed(t, u) \/ \A k \in Id : Same(t, u, k)

\* CatalogIsolation and RemovalIsAtomic, for the request that takes the step.
Isolated(h) ==
  \A k \in Id :
    LET u == request[h].user
        row == catalog.current[k] IN
    u.tenantId # NoTenant /\ catalog'.current[k] # row
    => /\ catalog'.current[k].tenantId = u.tenantId
       /\ Exists(row) => /\ row.tenantId = u.tenantId
                         /\ u.role # "STAFF"
                         /\ request[h].op # "aiProductInput"

Atomic(h) ==
  request[h].op = "removeTenant" =>
    \/ catalog'.committed = catalog.committed
    \/ /\ request[h].at = "commit"
       /\ request[h].store \in closed'
       /\ \A k \in Id : catalog.holder[k] = h => catalog'.committed[k].deletedAt = "set"

Kept(h) == /\ CatalogInv'
           /\ SoftStep(catalog, catalog')
           /\ Isolated(h)
           /\ Atomic(h)
           /\ \A g \in Handler \ {h} : request'[g] = request[g]

-----------------------------------------------------------------------------

\* Rows last, and keep their store.
LEMMA RowsLast ==
  ASSUME NEW t, NEW u, SoftStep(t, u), NEW k \in Id, Exists(t.committed[k])
  PROVE  /\ Exists(u.committed[k])
         /\ u.committed[k].tenantId = t.committed[k].tenantId
         /\ t.committed[k].deletedAt = "set" => u.committed[k].deletedAt = "set"
BY DEF SoftStep, Inserted, Removed, Same, Exists

\* What a request knows of the rows stays true while others write them.
LEMMA KnowledgeLasts ==
  ASSUME NEW t, NEW u, SoftStep(t, u), NEW c, RequestInv(c, t)
  PROVE  RequestInv(c, u)
<1>1. RefsOwn(c, u)
  <2> SUFFICES ASSUME NEW m \in {"Category", "Supplier"}, c.refs[m] # Nothing
               PROVE  /\ Exists(u.committed[c.refs[m]])
                      /\ u.committed[c.refs[m]].tenantId = c.user.tenantId
                      /\ Head(c.items).name[m] # Nothing
    BY DEF RefsOwn
  <2>1. c.refs[m] \in Id
    BY DEF RequestInv, Request, Refs, Id
  <2>2. Exists(t.committed[c.refs[m]]) /\ t.committed[c.refs[m]].tenantId = c.user.tenantId
        /\ Head(c.items).name[m] # Nothing
    BY DEF RequestInv, RefsOwn
  <2> QED BY <2>1, <2>2, RowsLast
<1>2. LogOwn(c, u)
  BY RowsLast DEF RequestInv, LogOwn
<1> QED BY <1>1, <1>2 DEF RequestInv

\* A step of request h is complete if it goes on as c, which owns what it
\* carries, and if nobody holds a row for another purpose than its removal.
LEMMA StepKeeps ==
  ASSUME CatalogInv, NEW h \in Handler, NEW c,
         request' = [request EXCEPT ![h] = c],
         RequestInv(c, catalog'), TableInv(catalog'),
         SoftStep(catalog, catalog'), Holding(catalog', request'),
         closed' \subseteq Tenant, Isolated(h), Atomic(h)
  PROVE  Kept(h)
<1>1. request' \in [Handler -> Request]
  BY DEF CatalogInv, RequestInv
<1>2. ASSUME NEW g \in Handler PROVE RequestInv(request'[g], catalog')
  <2>1. CASE g = h
    BY <2>1 DEF CatalogInv
  <2>2. CASE g # h
    <3>1. request'[g] = request[g] /\ RequestInv(request[g], catalog)
      BY <2>2 DEF CatalogInv
    <3> QED BY <3>1, KnowledgeLasts
  <2> QED BY <2>1, <2>2
<1>3. CatalogInv'
  BY <1>1, <1>2 DEF CatalogInv, RequestInv, RefsOwn, LogOwn, Carries, Holding, TableInv
<1> QED BY <1>3 DEF Kept, CatalogInv

\* The invariant holds before the first request.
LEMMA CatalogInitInv == CatalogInit => CatalogInv
<1> SUFFICES ASSUME CatalogInit PROVE CatalogInv
  OBVIOUS
<1>1. NoRow \in Row
  BY DEF NoRow, Row, NoRefs, Refs
<1>2. TableInv(catalog)
  BY <1>1 DEF CatalogInit, TableInv, NewTable, Table, Exists, NoRow
<1>3. Idle \in Request
  BY DEF Idle, Request, Method, Statement, NoRefs, Refs
<1>4. RequestInv(Idle, catalog)
  BY <1>3 DEF RequestInv, Carries, RefsOwn, LogOwn, Idle, NoRefs
<1>5. Holding(catalog, request)
  BY CatalogAssumption DEF Holding, CatalogInit, NewTable
<1> QED BY <1>2, <1>3, <1>4, <1>5 DEF CatalogInit, CatalogInv

\* Steps that write nothing.
LEMMA QuietStep ==
  ASSUME CatalogInv, NEW h \in Handler, NEW c,
         request' = [request EXCEPT ![h] = c], RequestInv(c, catalog),
         request[h].op # "removeTenant",
         UNCHANGED <<catalog, closed>>
  PROVE  Kept(h)
<1>1. SoftStep(catalog, catalog') /\ Isolated(h) /\ Atomic(h)
  BY DEF SoftStep, Same, Isolated, Atomic
<1>2. RequestInv(c, catalog') /\ TableInv(catalog')
  BY DEF CatalogInv
<1>3. Holding(catalog', request')
  BY DEF CatalogInv, Holding
<1>4. closed' \subseteq Tenant
  BY DEF CatalogInv
<1> QED BY <1>1, <1>2, <1>3, <1>4, StepKeeps

\* A statement of a request that is not the removal of a store, which writes
\* one row nobody holds.
LEMMA OverwriteKeeps ==
  ASSUME CatalogInv, NEW h \in Handler, NEW c, NEW k \in Id, NEW row \in Row,
         request' = [request EXCEPT ![h] = c],
         catalog' = Overwrite(catalog, k, row),
         SoftStep(catalog, catalog') => RequestInv(c, catalog'),
         request[h].op # "removeTenant",
         catalog.holder[k] = NoOne,
         row.tenantId \in Tenant,
         \/ ~ Exists(catalog.current[k]) /\ row.deletedAt = "null"
            /\ row.tenantId = request[h].user.tenantId
         \/ /\ Exists(catalog.current[k])
            /\ row.tenantId = catalog.current[k].tenantId
            /\ row.deletedAt \in {catalog.current[k].deletedAt, "set"}
            /\ request[h].user.tenantId # NoTenant =>
                 /\ row.tenantId = request[h].user.tenantId
                 /\ request[h].user.role # "STAFF"
                 /\ request[h].op # "aiProductInput",
         UNCHANGED closed
  PROVE  Kept(h)
<1>1. catalog \in Table(Id, Row, Handler) /\ catalog.committed[k] = catalog.current[k]
      /\ catalog.current[k] \in Row
  BY DEF CatalogInv, TableInv, Table
<1>2. /\ catalog'.committed = [catalog.committed EXCEPT ![k] = row]
      /\ catalog'.current = [catalog.current EXCEPT ![k] = row]
      /\ catalog'.holder = catalog.holder
      /\ catalog' \in Table(Id, Row, Handler)
  BY <1>1 DEF Table, Overwrite
<1>3. \A l \in Id : /\ catalog'.committed[l] = IF l = k THEN row ELSE catalog.committed[l]
                    /\ catalog'.current[l] = IF l = k THEN row ELSE catalog.current[l]
  BY <1>1, <1>2 DEF Table
<1>4. TableInv(catalog')
  BY <1>1, <1>2, <1>3 DEF CatalogInv, TableInv
<1>5. SoftStep(catalog, catalog')
  <2>1. CASE ~ Exists(catalog.current[k])
    <3>1. catalog.committed[k].deletedAt = "none"
      BY <1>1, <2>1 DEF Exists
    <3>2. catalog'.committed[k].deletedAt = "null" /\ catalog'.committed[k].tenantId \in Tenant
      BY <1>3, <2>1
    <3>3. \A l \in Id \ {k} : Same(catalog, catalog', l)
      BY <1>3 DEF Same
    <3> QED BY <3>1, <3>2, <3>3 DEF SoftStep, Inserted
  <2>2. CASE Exists(catalog.current[k]) /\ row.deletedAt = catalog.current[k].deletedAt
    BY <1>1, <1>3, <2>2 DEF SoftStep, Same
  <2>3. CASE Exists(catalog.current[k]) /\ row.deletedAt # catalog.current[k].deletedAt
    <3>1. catalog.committed[k].deletedAt = "null" /\ row.deletedAt = "set"
          /\ row.tenantId = catalog.committed[k].tenantId
      BY <1>1, <2>3 DEF Exists, Row
    <3> DEFINE rows == {k}
    <3>2. rows \in SUBSET Id /\ rows # {}
      OBVIOUS
    <3>3. \A l \in rows : /\ catalog.committed[l].deletedAt = "null"
                          /\ catalog.committed[l].tenantId = row.tenantId
                          /\ catalog'.committed[l].deletedAt = "set"
                          /\ catalog'.committed[l].tenantId = row.tenantId
      BY <1>3, <3>1
    <3>4. \A l \in Id \ rows : Same(catalog, catalog', l)
      BY <1>3 DEF Same
    <3> HIDE DEF rows
    <3>5. Removed(catalog, catalog')
      BY <3>2, <3>3, <3>4 DEF Removed
    <3> QED BY <3>5 DEF SoftStep
  <2> QED BY <2>1, <2>2, <2>3
<1>6. Holding(catalog', request')
  <2> SUFFICES ASSUME NEW g \in Handler, NEW l \in Id, catalog.holder[l] = g
               PROVE  request'[g].op = "removeTenant"
                      /\ catalog'.current[l].tenantId = request'[g].store
    BY <1>2 DEF Holding
  <2>1. l # k
    BY CatalogAssumption
  <2>2. request[g].op = "removeTenant" /\ catalog.current[l].tenantId = request[g].store
    BY DEF CatalogInv, Holding
  <2> QED BY <1>3, <2>1, <2>2 DEF CatalogInv
<1>7. Isolated(h) /\ Atomic(h)
  BY <1>3 DEF Isolated, Atomic
<1>8. closed' \subseteq Tenant
  BY DEF CatalogInv
<1> QED BY <1>4, <1>5, <1>6, <1>7, <1>8, StepKeeps


-----------------------------------------------------------------------------

\* A request that has answered.
LEMMA IdleKnows == ASSUME NEW t PROVE RequestInv(Idle, t)
<1>1. Idle \in Request
  BY DEF Idle, Request, Method, Statement, NoRefs, Refs
<1> QED BY <1>1 DEF RequestInv, Carries, RefsOwn, LogOwn, Idle, NoRefs

\* The removal of a store marks rows it alone may then write.
LEMMA RemoveRowsKeeps ==
  ASSUME CatalogInv, NEW h \in Handler, RemoveRows(h)
  PROVE  Kept(h)
<1> DEFINE c == request[h]
           m == c.model
           rows == {k \in Ids(m) : /\ Exists(catalog.current[k])
                                   /\ catalog.current[k].tenantId = c.store}
           d == IF m \in DOMAIN AfterTable THEN [c EXCEPT !.model = AfterTable[m]]
                                           ELSE [c EXCEPT !.at = "commit"]
<1>1. catalog \in Table(Id, Row, Handler) /\ c \in Request /\ Carries(c)
      /\ c.at = "updateMany" /\ c.op = "removeTenant"
  BY DEF CatalogInv, TableInv, RequestInv, RemoveRows, Carries
<1>2. rows \subseteq Id /\ \A k \in rows : Free(catalog, h, k)
  BY <1>1 DEF RemoveRows, Ids, Id, Request
<1>3. request' = [request EXCEPT ![h] = d]
  BY DEF RemoveRows
<1>4. /\ \A k \in Id : /\ catalog'.current[k] = IF k \in rows
                            THEN [catalog.current[k] EXCEPT !.deletedAt = "set"]
                            ELSE catalog.current[k]
                       /\ catalog'.holder[k] = IF k \in rows THEN h ELSE catalog.holder[k]
      /\ catalog'.committed = catalog.committed
      /\ catalog' \in Table(Id, Row, Handler)
  <2> HIDE DEF d
  <2> DEFINE f == [k \in Id |-> IF k \in rows
                     THEN [catalog.current[k] EXCEPT !.deletedAt = "set"]
                     ELSE catalog.current[k]]
             g == [k \in Id |-> IF k \in rows THEN h ELSE catalog.holder[k]]
  <2>1. catalog' = [catalog EXCEPT !.current = f, !.holder = g]
    BY DEF RemoveRows
  <2>2. \A r \in Row : [r EXCEPT !.deletedAt = "set"] \in Row
    BY DEF Row
  <2>3. f \in [Id -> Row]
    BY <1>1, <2>2 DEF Table
  <2>4. g \in [Id -> Handler \cup {NoOne}]
    BY <1>1 DEF Table
  <2>5. /\ \A k \in Id : /\ f[k] = IF k \in rows
                               THEN [catalog.current[k] EXCEPT !.deletedAt = "set"]
                               ELSE catalog.current[k]
                         /\ g[k] = IF k \in rows THEN h ELSE catalog.holder[k]
    OBVIOUS
  <2> HIDE DEF f, g, rows
  <2>6. catalog'.current = f /\ catalog'.holder = g
        /\ catalog'.committed = catalog.committed /\ catalog' \in Table(Id, Row, Handler)
    BY <1>1, <2>1, <2>3, <2>4 DEF Table
  <2> QED BY <2>5, <2>6
<1>5. \A k \in rows : /\ Exists(catalog.committed[k])
                      /\ catalog'.current[k].deletedAt = "set"
                      /\ catalog'.current[k].tenantId = catalog.committed[k].tenantId
                      /\ catalog'.current[k].tenantId = c.store
  <2> TAKE k \in rows
  <2>1. catalog'.current[k] = [catalog.current[k] EXCEPT !.deletedAt = "set"]
        /\ catalog.current[k] \in Row /\ catalog.current[k].tenantId = c.store
        /\ Exists(catalog.current[k])
    BY <1>1, <1>2, <1>4 DEF Table
  <2>2. Exists(catalog.committed[k])
        /\ catalog.committed[k].tenantId = catalog.current[k].tenantId
    BY <1>2, <2>1 DEF CatalogInv, TableInv
  <2> QED BY <2>1, <2>2 DEF Row
<1>6. TableInv(catalog')
  <2> HIDE DEF rows, c
  <2>1. h # NoOne
    BY CatalogAssumption
  <2> QED BY <1>2, <1>4, <1>5, <2>1 DEF CatalogInv, TableInv
<1>7. SoftStep(catalog, catalog') /\ Atomic(h)
  BY <1>4 DEF SoftStep, Same, Atomic
<1>8. Isolated(h)
  BY <1>1 DEF Isolated, Carries
<1>9. d \in Request /\ d.op = "removeTenant" /\ d.at \in {"updateMany", "commit"}
      /\ d.user = c.user /\ d.store = c.store /\ d.refs = c.refs /\ d.items = c.items
  <2>1. CASE m \in DOMAIN AfterTable
    BY <1>1, <2>1 DEF Request, Statement, AfterTable
  <2>2. CASE m \notin DOMAIN AfterTable
    BY <1>1, <2>2 DEF Request, Statement
  <2> QED BY <2>1, <2>2
<1>10. RequestInv(d, catalog')
  <2>1. RefsOwn(c, catalog)
    BY DEF CatalogInv, RequestInv
  <2> HIDE DEF c, d
  <2>2. RefsOwn(d, catalog')
    BY <1>4, <1>9, <2>1 DEF RefsOwn
  <2> QED BY <1>1, <1>9, <2>2 DEF RequestInv, Carries, LogOwn
<1>11. Holding(catalog', request')
  <2> SUFFICES ASSUME NEW g \in Handler, NEW k \in Id, catalog'.holder[k] = g
               PROVE  request'[g].op = "removeTenant"
                      /\ catalog'.current[k].tenantId = request'[g].store
    BY DEF Holding
  <2> HIDE DEF d
  <2>0. request'[h] = d /\ (g # h => request'[g] = request[g])
    BY <1>3 DEF CatalogInv
  <2>1. CASE k \in rows
    <3>1. g = h
      BY <1>2, <1>4, <2>1
    <3> QED BY <1>5, <1>9, <2>0, <2>1, <3>1
  <2>2. CASE k \notin rows
    <3>1. catalog.holder[k] = g /\ catalog'.current[k] = catalog.current[k]
      BY <1>4, <2>2
    <3>2. request[g].op = "removeTenant" /\ catalog.current[k].tenantId = request[g].store
      BY <3>1 DEF CatalogInv, Holding
    <3> QED BY <1>9, <2>0, <3>1, <3>2
  <2> QED BY <2>1, <2>2
<1>12. closed' \subseteq Tenant
  BY DEF CatalogInv, RemoveRows
<1> QED BY <1>3, <1>6, <1>7, <1>8, <1>10, <1>11, <1>12, StepKeeps


\* In the end the marked rows are removed together.
LEMMA CommitKeeps ==
  ASSUME CatalogInv, NEW h \in Handler, CommitRemoval(h)
  PROVE  Kept(h)
<1> DEFINE c == request[h]
           mine == {k \in Id : catalog.holder[k] = h}
<1>1. catalog \in Table(Id, Row, Handler) /\ c \in Request /\ Carries(c)
      /\ c.at = "commit" /\ c.op = "removeTenant" /\ c.store \in Tenant
  BY DEF CatalogInv, TableInv, RequestInv, CommitRemoval, Carries
<1>2. catalog.holder \in [Id -> Handler \cup {NoOne}] /\ DOMAIN catalog.holder = Id
      /\ catalog.committed \in [Id -> Row] /\ catalog.current \in [Id -> Row]
  BY <1>1 DEF Table
<1>3. /\ \A k \in Id : /\ catalog'.committed[k] = IF k \in mine THEN catalog.current[k]
                                                             ELSE catalog.committed[k]
                       /\ catalog'.holder[k] = IF k \in mine THEN NoOne
                                                             ELSE catalog.holder[k]
      /\ catalog'.current = catalog.current
      /\ catalog' \in Table(Id, Row, Handler)
  BY <1>2 DEF CommitRemoval, Commit, Visible, Table
<1>4. \A k \in mine : /\ catalog.current[k].deletedAt = "set"
                      /\ catalog.current[k].tenantId = c.store
                      /\ catalog.committed[k].tenantId = c.store
                      /\ Exists(catalog.committed[k])
  <2>1. h # NoOne
    BY CatalogAssumption
  <2> QED BY <2>1 DEF CatalogInv, TableInv, Holding
<1>5. TableInv(catalog')
  <2> HIDE DEF mine, c
  <2> QED BY <1>1, <1>3, <1>4 DEF CatalogInv, TableInv, Exists
<1>6. SoftStep(catalog, catalog')
  <2> DEFINE rows == {k \in mine : catalog.committed[k].deletedAt = "null"}
  <2>1. \A k \in rows : /\ catalog.committed[k].deletedAt = "null"
                        /\ catalog.committed[k].tenantId = c.store
                        /\ catalog'.committed[k].deletedAt = "set"
                        /\ catalog'.committed[k].tenantId = c.store
    BY <1>3, <1>4
  <2>2. \A k \in mine \ rows : catalog.committed[k].deletedAt = "set"
    BY <1>2, <1>4 DEF Exists, Row
  <2>3. \A k \in Id \ rows : Same(catalog, catalog', k)
    BY <1>3, <1>4, <2>2 DEF Same
  <2>4. CASE rows = {}
    BY <2>3, <2>4 DEF SoftStep
  <2>5. CASE rows # {}
    <3>1. rows \in SUBSET Id
      OBVIOUS
    <3> HIDE DEF rows, mine, c
    <3>2. Removed(catalog, catalog')
      BY <1>1, <2>1, <2>3, <2>5, <3>1 DEF Removed
    <3> QED BY <3>2 DEF SoftStep
  <2> QED BY <2>4, <2>5
<1>7. Isolated(h)
  BY <1>3 DEF Isolated
<1>8. closed' \subseteq Tenant /\ c.store \in closed'
  BY <1>1 DEF CatalogInv, CommitRemoval
<1>9. Atomic(h)
  BY <1>1, <1>3, <1>4, <1>8 DEF Atomic
<1>10. request' = [request EXCEPT ![h] = Idle]
  BY DEF CommitRemoval, Respond
<1>11. Holding(catalog', request')
  <2> SUFFICES ASSUME NEW g \in Handler, NEW k \in Id, catalog'.holder[k] = g
               PROVE  request'[g].op = "removeTenant"
                      /\ catalog'.current[k].tenantId = request'[g].store
    BY DEF Holding
  <2>1. k \notin mine /\ catalog.holder[k] = g /\ g # h
    BY <1>3, CatalogAssumption
  <2> QED BY <1>3, <1>10, <2>1 DEF CatalogInv, Holding
<1> QED BY <1>5, <1>6, <1>7, <1>8, <1>9, <1>10, <1>11, IdleKnows, StepKeeps

\* A failure brings back what the request had marked, and nothing else.
LEMMA FailKeeps ==
  ASSUME CatalogInv, NEW h \in Handler, Fail(h)
  PROVE  Kept(h)
<1>2. catalog.holder \in [Id -> Handler \cup {NoOne}] /\ DOMAIN catalog.holder = Id
      /\ catalog.committed \in [Id -> Row] /\ catalog.current \in [Id -> Row]
  BY DEF CatalogInv, TableInv, Table
<1>3. /\ \A k \in Id : /\ catalog'.current[k] = IF catalog.holder[k] = h
                            THEN catalog.committed[k] ELSE catalog.current[k]
                       /\ catalog'.holder[k] = IF catalog.holder[k] = h
                            THEN NoOne ELSE catalog.holder[k]
      /\ catalog'.committed = catalog.committed
      /\ catalog' \in Table(Id, Row, Handler)
  BY <1>2 DEF Fail, Rollback, Table
<1>4. TableInv(catalog')
  BY <1>3 DEF CatalogInv, TableInv
<1>5. SoftStep(catalog, catalog') /\ Atomic(h)
  BY <1>3 DEF SoftStep, Same, Atomic
<1>6. Isolated(h)
  <2>1. \A k \in Id : catalog'.current[k] # catalog.current[k] =>
          request[h].op = "removeTenant"
    BY <1>3 DEF CatalogInv, Holding
  <2>2. request[h].op = "removeTenant" => request[h].user.tenantId = NoTenant
    BY DEF CatalogInv, RequestInv, Carries
  <2> QED BY <2>1, <2>2 DEF Isolated
<1>7. request' = [request EXCEPT ![h] = Idle]
  BY DEF Fail, Respond
<1>8. Holding(catalog', request')
  <2> SUFFICES ASSUME NEW g \in Handler, NEW k \in Id, catalog'.holder[k] = g
               PROVE  request'[g].op = "removeTenant"
                      /\ catalog'.current[k].tenantId = request'[g].store
    BY DEF Holding
  <2>1. catalog.holder[k] = g /\ g # h
    BY <1>3, CatalogAssumption
  <2> QED BY <1>3, <1>7, <2>1 DEF CatalogInv, Holding
<1>9. closed' \subseteq Tenant
  BY DEF CatalogInv, Fail
<1> QED BY <1>4, <1>5, <1>6, <1>7, <1>8, <1>9, IdleKnows, StepKeeps


-----------------------------------------------------------------------------

\* Requests begin with the arguments their statements need.
LEMMA RequestKeeps ==
  ASSUME CatalogInv, NEW h \in Handler, CatalogRequest(h)
  PROVE  Kept(h)
<1>0. Idle \in Request
  BY IdleKnows DEF RequestInv
<1>1. request[h] = Idle /\ UNCHANGED <<catalog, closed>>
  BY DEF CatalogRequest, Ask, FindOne, RemoveTenant, Begin
<1> DEFINE Begins == \E c : /\ RequestInv(c, catalog)
                            /\ request' = [request EXCEPT ![h] = c]
<1>2. Begins
  <2>1. ASSUME NEW u \in Caller, NEW m \in {"Category", "Supplier", "Product"},
               Begin(h, [Idle EXCEPT !.user = u, !.op = "create", !.at = "insert",
                                     !.model = m])
        PROVE  Begins
    <3> DEFINE c == [Idle EXCEPT !.user = u, !.op = "create", !.at = "insert",
                                 !.model = m]
    <3>1. c \in Request
      BY <1>0, CatalogAssumption DEF Request, Method, Statement
    <3>2. RequestInv(c, catalog)
      BY <3>1 DEF RequestInv, Carries, RefsOwn, LogOwn, Idle, NoRefs
    <3> QED BY <2>1, <3>2 DEF Begin
  <2>2. ASSUME NEW u \in Caller, NEW items \in Batches,
               Begin(h, [Idle EXCEPT !.user = u, !.op = "aiProductInput",
                                     !.at = "findSku", !.items = items])
        PROVE  Begins
    <3> DEFINE c == [Idle EXCEPT !.user = u, !.op = "aiProductInput",
                                 !.at = "findSku", !.items = items]
    <3>1. c \in Request
      BY <1>0, CatalogAssumption DEF Request, Method, Statement
    <3>2. RequestInv(c, catalog)
      BY <3>1 DEF RequestInv, Carries, RefsOwn, LogOwn, Idle, NoRefs
    <3> QED BY <2>2, <3>2 DEF Begin
  <2>3. ASSUME NEW u \in Caller, NEW op \in {"update", "remove"}, NEW k \in Id,
               FindOne(h, u, op, k)
        PROVE  Begins
    <3> DEFINE c == [Idle EXCEPT !.user = u, !.op = op, !.at = "write", !.id = k]
    <3>1. c \in Request
      BY <1>0, CatalogAssumption DEF Request, Method, Statement
    <3>2. Administrator(u)
      BY <2>3 DEF FindOne
    <3>3. RequestInv(c, catalog)
      BY <3>1, <3>2 DEF RequestInv, Carries, RefsOwn, LogOwn, Idle, NoRefs
    <3> QED BY <2>3, <3>3 DEF FindOne, Begin
  <2>4. ASSUME NEW u \in Caller, NEW t \in Tenant, RemoveTenant(h, u, t)
        PROVE  Begins
    <3> DEFINE c == [Idle EXCEPT !.user = u, !.op = "removeTenant",
                                 !.at = "updateMany", !.store = t]
    <3>1. c \in Request
      BY <1>0, CatalogAssumption DEF Request, Method, Statement
    <3>2. u.tenantId = NoTenant
      BY <2>4, CatalogAssumption DEF RemoveTenant, User
    <3>3. RequestInv(c, catalog)
      BY <3>1, <3>2 DEF RequestInv, Carries, RefsOwn, LogOwn, Idle, NoRefs
    <3> QED BY <2>4, <3>3 DEF RemoveTenant, Begin
  <2> QED BY <2>1, <2>2, <2>3, <2>4 DEF CatalogRequest, Ask
<1>3. request[h].op # "removeTenant"
  BY <1>1 DEF Idle
<1> QED BY <1>1, <1>2, <1>3, QuietStep

\* An answered request leaves a log row to write, or nothing.
Answered(h) ==
  IF request[h].user.tenantId = NoTenant THEN Idle ELSE [request[h] EXCEPT !.at = "audit"]

\* A request that goes on knows what it found.
LEMMA SucceedKnows ==
  ASSUME CatalogInv, NEW h \in Handler, NEW t, SoftStep(catalog, t),
         request[h].op # "removeTenant",
         request[h].op \in {"update", "remove"} /\ request[h].user.tenantId # NoTenant =>
           /\ request[h].id \in Id
           /\ Exists(t.committed[request[h].id])
           /\ t.committed[request[h].id].tenantId = request[h].user.tenantId
           /\ request[h].op = "remove" => t.committed[request[h].id].deletedAt = "set"
  PROVE  RequestInv(Answered(h), t)
<1>1. CASE request[h].user.tenantId = NoTenant
  BY <1>1, IdleKnows DEF Answered
<1>2. CASE request[h].user.tenantId # NoTenant
  <2> DEFINE r == request[h]
             c == [r EXCEPT !.at = "audit"]
  <2>1. r \in Request /\ RequestInv(r, t)
    BY KnowledgeLasts DEF CatalogInv
  <2>2. c \in Request /\ c.at = "audit" /\ c.op = r.op /\ c.user = r.user
        /\ c.refs = r.refs /\ c.items = r.items /\ c.id = r.id
    BY <2>1 DEF Request, Statement
  <2>3. Answered(h) = c
    BY <1>2 DEF Answered
  <2> HIDE DEF c
  <2>4. RefsOwn(c, t)
    BY <2>1, <2>2 DEF RequestInv, RefsOwn
  <2>5. LogOwn(c, t)
    BY <1>2, <2>2 DEF LogOwn
  <2>6. Carries(c)
    BY <2>2 DEF Carries
  <2> QED BY <2>2, <2>3, <2>4, <2>5, <2>6 DEF RequestInv
<1> QED BY <1>1, <1>2

\* An INSERT, over no row.
LEMMA InsertKeeps ==
  ASSUME CatalogInv, NEW h \in Handler, NEW c,
         request' = [request EXCEPT ![h] = c],
         SoftStep(catalog, catalog') => RequestInv(c, catalog'),
         request[h].op # "removeTenant",
         NEW model \in {"Category", "Supplier", "Product"},
         NEW t \in Tenant, t = request[h].user.tenantId,
         NEW n \in Names(model), NEW refs \in Refs, NEW k \in Ids(model),
         ~ Exists(catalog.current[k]),
         catalog' = Overwrite(catalog, k,
           [deletedAt |-> "null", tenantId |-> t, name |-> n, refs |-> refs]),
         UNCHANGED closed
  PROVE  Kept(h)
<1> DEFINE row == [deletedAt |-> "null", tenantId |-> t, name |-> n, refs |-> refs]
<1>1. k \in Id
  BY DEF Ids, Id
<1>2. catalog.holder[k] = NoOne
  BY <1>1 DEF CatalogInv, TableInv, Exists
<1>3. row \in Row /\ row.tenantId = t /\ row.deletedAt = "null"
      /\ catalog' = Overwrite(catalog, k, row)
  BY DEF Row, Names
<1> HIDE DEF row
<1> QED BY <1>1, <1>2, <1>3, OverwriteKeeps

\* Creations keep the invariant,
LEMMA CreateKeeps ==
  ASSUME CatalogInv, NEW h \in Handler, NEW n \in Name \cup Sku, NEW refs \in Refs,
         NEW k \in Id, Create(h, n, refs, k)
  PROVE  Kept(h)
<1> DEFINE model == request[h].model
           t == request[h].user.tenantId
<1>1. request[h].op = "create" /\ Succeed(h) /\ UNCHANGED closed
  BY DEF Create, At
<1>2. model \in {"Category", "Supplier", "Product"} /\ t = request[h].user.tenantId
  BY DEF CatalogInv, Request
<1>3. /\ t \in Tenant /\ k \in Ids(model) /\ n \in Names(model)
      /\ ~ Exists(catalog.current[k])
      /\ catalog' = Overwrite(catalog, k,
           [deletedAt |-> "null", tenantId |-> t, name |-> n, refs |-> refs])
  BY DEF Create, InsertRow
<1>4. request' = [request EXCEPT ![h] = Answered(h)]
  BY <1>1 DEF Succeed, Respond, Answered
<1>5. SoftStep(catalog, catalog') => RequestInv(Answered(h), catalog')
  BY <1>1, SucceedKnows
<1> HIDE DEF model, t
<1> QED BY <1>1, <1>2, <1>3, <1>4, <1>5, InsertKeeps

\* An UPDATE by id and tenant.
LEMMA WriteKeeps ==
  ASSUME CatalogInv, NEW h \in Handler, NEW row \in Row, Write(h, row),
         row.tenantId = catalog.current[request[h].id].tenantId,
         row.deletedAt \in {catalog.current[request[h].id].deletedAt, "set"},
         request[h].op \in {"update", "remove"},
         request[h].op = "remove" => row.deletedAt = "set"
  PROVE  Kept(h)
<1> DEFINE k == request[h].id
           u == request[h].user
<1>1. k \in Id /\ u.role # "STAFF" /\ u \in User \cup {Nobody}
      /\ request[h].op \notin {"removeTenant", "aiProductInput"}
  BY DEF CatalogInv, RequestInv, Request, Carries, Write, Administrator
<1>2. catalog \in Table(Id, Row, Handler) /\ catalog.current[k] \in Row
      /\ Exists(catalog.current[k]) /\ Free(catalog, h, k)
  BY <1>1 DEF CatalogInv, TableInv, Table, Write, Finds
<1>3. catalog.holder[k] = NoOne
  BY <1>1, <1>2 DEF Free, CatalogInv, Holding
<1>4. row.tenantId \in Tenant
  BY <1>1, <1>2, <1>3 DEF CatalogInv, TableInv
<1>5. u.tenantId # NoTenant => row.tenantId = u.tenantId
  <2> SUFFICES ASSUME u.tenantId # NoTenant PROVE catalog.current[k].tenantId = u.tenantId
    OBVIOUS
  <2>1. u.tenantId \in Tenant
    BY <1>1 DEF User, Nobody
  <2>2. Matches(catalog.current[k], Rewrite("update", ModelOf(k), << >>, u.tenantId))
    BY DEF Write, Finds
  <2>3. ModelOf(k) \in TenantModels
    BY DEF ModelOf, TenantModels, TENANT_SOFT_DELETE_MODELS
  <2>4. "tenantId" \notin DOMAIN << >>
    OBVIOUS
  <2>5. "update" \in Reads \cup Writes
    BY DEF Writes
  <2> HIDE DEF u, k
  <2> QED BY <2>1, <2>2, <2>3, <2>4, <2>5, ClientsAreConfined
<1>6. catalog' = Overwrite(catalog, k, row) /\ Succeed(h) /\ UNCHANGED closed
  BY DEF Write
<1>7. Exists(row)
  BY <1>2 DEF Exists
<1>8. catalog'.committed[k] = row
  BY <1>1, <1>2, <1>6 DEF Overwrite, Table
<1>9. SoftStep(catalog, catalog') => RequestInv(Answered(h), catalog')
  BY <1>1, <1>5, <1>7, <1>8, SucceedKnows
<1>10. request' = [request EXCEPT ![h] = Answered(h)]
  BY <1>6 DEF Succeed, Respond, Answered
<1> QED BY <1>1, <1>2, <1>3, <1>4, <1>5, <1>6, <1>9, <1>10, OverwriteKeeps

\* changes do,
LEMMA UpdateKeeps ==
  ASSUME CatalogInv, NEW h \in Handler, NEW n \in Name \cup Sku, NEW refs \in Refs,
         UpdateRow(h, n, refs)
  PROVE  Kept(h)
<1> DEFINE old == catalog.current[request[h].id]
           row == [old EXCEPT !.name = n, !.refs = refs]
<1>1. request[h].op = "update" /\ request[h].at = "write" /\ Write(h, row)
  BY DEF UpdateRow, At
<1>2. old \in Row
  BY <1>1 DEF CatalogInv, RequestInv, Carries, TableInv, Table
<1>3. row \in Row /\ row.tenantId = old.tenantId /\ row.deletedAt = old.deletedAt
  BY <1>2 DEF Row
<1> HIDE DEF row
<1> QED BY <1>1, <1>3, WriteKeeps

\* and removals.
LEMMA RemoveKeeps ==
  ASSUME CatalogInv, NEW h \in Handler, RemoveRow(h)
  PROVE  Kept(h)
<1> DEFINE old == catalog.current[request[h].id]
           row == [old EXCEPT !.deletedAt = "set"]
<1>1. request[h].op = "remove" /\ request[h].at = "write" /\ Write(h, row)
  BY DEF RemoveRow, At
<1>2. old \in Row
  BY <1>1 DEF CatalogInv, RequestInv, Carries, TableInv, Table
<1>3. row \in Row /\ row.tenantId = old.tenantId /\ row.deletedAt = "set"
  BY <1>2 DEF Row
<1> HIDE DEF row
<1> QED BY <1>1, <1>3, WriteKeeps


-----------------------------------------------------------------------------

\* A bulk input goes on with the row it found or wrote.
LEMMA CarryKnows ==
  ASSUME CatalogInv, NEW h \in Handler, NEW t, SoftStep(catalog, t),
         request[h].op = "aiProductInput", request[h].items # << >>,
         NEW m \in {"Category", "Supplier"}, request[h].model = m,
         NEW k \in Ids(m) \cup {Nothing},
         k # Nothing => /\ Exists(t.committed[k])
                        /\ t.committed[k].tenantId = request[h].user.tenantId
                        /\ Head(request[h].items).name[m] # Nothing,
         Carry(h, k)
  PROVE  \E c : RequestInv(c, t) /\ request' = [request EXCEPT ![h] = c]
<1> DEFINE r == request[h]
           refs == [r.refs EXCEPT ![m] = k]
           c == [r EXCEPT !.refs = refs,
                          !.at = IF m = "Category" THEN "upsert" ELSE "insert",
                          !.model = IF m = "Category" THEN "Supplier" ELSE "Product"]
<1>1. r \in Request /\ RequestInv(r, t) /\ r.refs \in Refs
  BY KnowledgeLasts DEF CatalogInv, Request
<1>2. request' = [request EXCEPT ![h] = c]
  <2>1. CASE m = "Category"
    BY <1>1, <2>1 DEF Carry, Request, Refs
  <2>2. CASE m = "Supplier"
    BY <1>1, <2>2 DEF Carry, Request, Refs
  <2> QED BY <2>1, <2>2
<1>3. refs \in Refs /\ refs[m] = k /\ \A l \in {"Category", "Supplier"} \ {m} :
        refs[l] = r.refs[l]
  <2>1. CASE m = "Category"
    BY <1>1, <2>1 DEF Refs, Ids
  <2>2. CASE m = "Supplier"
    BY <1>1, <2>2 DEF Refs, Ids
  <2> QED BY <2>1, <2>2
<1> HIDE DEF refs
<1>4. /\ c \in Request /\ c.refs = refs /\ c.items = r.items /\ c.user = r.user
      /\ c.op = "aiProductInput" /\ c.at \in {"upsert", "insert"}
      /\ c.at = "upsert" => c.model = "Supplier"
  BY <1>1, <1>3 DEF Request, Statement
<1> HIDE DEF c
<1>5. RefsOwn(c, t)
  BY <1>1, <1>3, <1>4 DEF RequestInv, RefsOwn
<1>6. Carries(c) /\ LogOwn(c, t)
  BY <1>4 DEF Carries, LogOwn
<1> QED BY <1>2, <1>4, <1>5, <1>6 DEF RequestInv

\* The rows of a store that have a name, asked for by the store's own client.
LEMMA NamedAreOwn ==
  ASSUME CatalogInv, NEW m \in {"Category", "Supplier", "Product"}, NEW t, NEW n,
         NEW k \in FindNamed("upsert", m, t, n)
  PROVE  k \in Ids(m) /\ k \in Id /\ Exists(catalog.committed[k])
         /\ catalog.committed[k].tenantId = t
<1> DEFINE where == [tenantId |-> t, name |-> n]
<1>1. "upsert" \in Writes /\ "upsert" \notin Reads /\ "upsert" \notin Deletions
  BY DEF Writes, Reads, Deletions
<1>2. Rewrite("upsert", m, where, t) = ApplyTenantFilter(m, where, t)
  BY <1>1 DEF Rewrite
<1>3. "tenantId" \in DOMAIN where /\ where["tenantId"] = t
  OBVIOUS
<1>4. ApplyTenantFilter(m, where, t) = where
  BY <1>3 DEF ApplyTenantFilter, AddFilter
<1>5. k \in Ids(m) /\ Exists(catalog.committed[k])
      /\ Matches(catalog.committed[k], where)
  BY <1>2, <1>4 DEF FindNamed
<1>6. catalog.committed[k].tenantId = t
  <2> HIDE DEF where
  <2>1. catalog.committed[k]["tenantId"] = t
    BY <1>3, <1>5 DEF Matches
  <2> QED BY <2>1
<1> QED BY <1>5, <1>6 DEF Ids, Id

\* So does the search for a name,
LEMMA FindNameKeeps ==
  ASSUME CatalogInv, NEW h \in Handler, FindName(h)
  PROVE  Kept(h)
<1> DEFINE r == request[h]
           m == r.model
           n == Head(r.items).name[m]
<1>1. r \in Request /\ RequestInv(r, catalog) /\ r.op = "aiProductInput"
      /\ r.at = "upsert" /\ r.items # << >> /\ m \in {"Category", "Supplier"}
      /\ UNCHANGED <<catalog, closed>>
  BY DEF CatalogInv, RequestInv, FindName, Carries
<1>2. SoftStep(catalog, catalog)
  BY DEF SoftStep, Same
<1>3. CASE n = Nothing /\ Carry(h, Nothing)
  <2> HIDE DEF m
  <2>1. r.model = m
    BY DEF m
  <2> HIDE DEF r
  <2>2. \E c : RequestInv(c, catalog) /\ request' = [request EXCEPT ![h] = c]
    BY <1>1, <1>2, <1>3, <2>1, CarryKnows DEF r
  <2> QED BY <1>1, <2>2, QuietStep DEF r
<1>4. ASSUME n # Nothing,
             NEW k \in FindNamed("upsert", m, r.user.tenantId, n), Carry(h, k)
      PROVE  Kept(h)
  <2>1. k \in Ids(m) /\ Exists(catalog.committed[k])
        /\ catalog.committed[k].tenantId = r.user.tenantId
    <3> HIDE DEF m, n, r
    <3> QED BY <1>1, <1>4, NamedAreOwn
  <2>2. Head(request[h].items).name[m] # Nothing /\ request[h].model = m
    BY <1>4
  <2>3. k \in Ids(m) \cup {Nothing}
    BY <2>1
  <2>4. \E c : RequestInv(c, catalog) /\ request' = [request EXCEPT ![h] = c]
    <3>1. request[h].op = "aiProductInput" /\ request[h].items # << >>
          /\ catalog.committed[k].tenantId = request[h].user.tenantId
      BY <1>1, <2>1
    <3> HIDE DEF m, n, r
    <3> QED BY <1>1, <1>2, <1>4, <2>1, <2>2, <2>3, <3>1, CarryKnows
  <2> QED BY <1>1, <2>4, QuietStep
<1>5. CASE request' = [request EXCEPT ![h].at = "insert"]
  <2> DEFINE c == [r EXCEPT !.at = "insert"]
  <2>1. request' = [request EXCEPT ![h] = c]
    BY <1>5
  <2>2. c \in Request /\ c.at = "insert" /\ c.op = r.op /\ c.user = r.user
        /\ c.refs = r.refs /\ c.items = r.items
    BY <1>1 DEF Request, Statement
  <2> HIDE DEF c
  <2>3. RequestInv(c, catalog)
    BY <1>1, <2>2 DEF RequestInv, RefsOwn, LogOwn, Carries
  <2> QED BY <1>1, <2>1, <2>3, QuietStep
<1> QED BY <1>3, <1>4, <1>5 DEF FindName


\* that for a product,
LEMMA FindSkuKeeps ==
  ASSUME CatalogInv, NEW h \in Handler, FindSku(h)
  PROVE  Kept(h)
<1> DEFINE r == request[h]
           c == [r EXCEPT !.items = Tail(r.items)]
           d == [r EXCEPT !.at = "upsert", !.model = "Category"]
<1>1. /\ r \in Request /\ r.op = "aiProductInput" /\ r.refs = NoRefs
      /\ r.at = "findSku" /\ r.items # << >>
      /\ UNCHANGED <<catalog, closed>>
  BY DEF CatalogInv, RequestInv, FindSku, Carries
<1>2. \/ request' = [request EXCEPT ![h] = c]
      \/ request' = [request EXCEPT ![h] = d]
  <2> DEFINE found == FindNamed("findUnique", "Product", r.user.tenantId,
                                Head(r.items).sku)
  <2>1. request' = [request EXCEPT ![h] = IF found # {} THEN c ELSE d]
    BY DEF FindSku
  <2> HIDE DEF found, c, d
  <2>2. CASE found # {}
    BY <2>1, <2>2
  <2>3. CASE found = {}
    BY <2>1, <2>3
  <2> QED BY <2>2, <2>3
<1>3. RequestInv(c, catalog)
  <2>1. r.items \in Seq(Item) /\ Tail(r.items) \in Seq(Item)
    BY <1>1 DEF Request
  <2>2. c \in Request /\ c.op = r.op /\ c.at = "findSku" /\ c.refs = NoRefs
    BY <1>1, <2>1 DEF Request
  <2> HIDE DEF c
  <2> QED BY <1>1, <2>2 DEF RequestInv, Carries, RefsOwn, LogOwn, NoRefs
<1>4. RequestInv(d, catalog)
  <2>1. d \in Request /\ d.op = r.op /\ d.at = "upsert" /\ d.refs = NoRefs
        /\ d.model = "Category" /\ d.items = r.items
    BY <1>1 DEF Request, Statement
  <2> HIDE DEF d
  <2> QED BY <1>1, <2>1 DEF RequestInv, Carries, RefsOwn, LogOwn, NoRefs
<1> HIDE DEF c, d
<1>5. CASE request' = [request EXCEPT ![h] = c]
  BY <1>1, <1>3, <1>5, QuietStep
<1>6. CASE request' = [request EXCEPT ![h] = d]
  BY <1>1, <1>4, <1>6, QuietStep
<1> QED BY <1>2, <1>5, <1>6

\* the insertion of what was not found,
LEMMA InsertNameKeeps ==
  ASSUME CatalogInv, NEW h \in Handler, NEW k \in Id, InsertName(h, k)
  PROVE  Kept(h)
<1> DEFINE r == request[h]
           m == r.model
           t == r.user.tenantId
           n == Head(r.items).name[m]
           row == [deletedAt |-> "null", tenantId |-> t, name |-> n, refs |-> NoRefs]
<1>1. /\ r \in Request /\ r.op = "aiProductInput" /\ r.items # << >>
      /\ m \in {"Category", "Supplier"} /\ UNCHANGED closed
  BY DEF CatalogInv, RequestInv, InsertName, At, Carries, Request
<1>2. /\ t \in Tenant /\ k \in Ids(m) /\ n \in Names(m)
      /\ ~ Exists(catalog.current[k])
      /\ catalog' = Overwrite(catalog, k, row)
      /\ Carry(h, k)
  BY DEF InsertName, InsertRow
<1>3. Exists(catalog'.committed[k]) /\ catalog'.committed[k].tenantId = t
  <2>1. catalog'.committed[k] = row
    <3> HIDE DEF row
    <3> QED BY <1>2 DEF CatalogInv, TableInv, Table, Overwrite
  <2> QED BY <2>1 DEF Exists
<1>4. n # Nothing
  BY <1>1, <1>2, CatalogAssumption DEF Names
<1>5. NoRefs \in Refs
  BY DEF NoRefs, Refs
<1>6. r = request[h] /\ m = request[h].model /\ t = request[h].user.tenantId
      /\ Head(request[h].items).name[m] # Nothing
  BY <1>4
<1>7. SoftStep(catalog, catalog') =>
        \E c : RequestInv(c, catalog') /\ request' = [request EXCEPT ![h] = c]
  <2> HIDE DEF r, m, t, n, row
  <2> QED BY <1>1, <1>2, <1>3, <1>6, CarryKnows
<1>8. \E c : request' = [request EXCEPT ![h] = c]
  BY <1>2 DEF Carry
<1>9. PICK c : /\ request' = [request EXCEPT ![h] = c]
               /\ SoftStep(catalog, catalog') => RequestInv(c, catalog')
  BY <1>7, <1>8
<1>10. m \in {"Category", "Supplier", "Product"} /\ request[h].op # "removeTenant"
  BY <1>1
<1> HIDE DEF r, m, t, n
<1> QED BY <1>1, <1>2, <1>5, <1>6, <1>9, <1>10, InsertKeeps

\* The next product of a bulk input carries nothing of this one.
LEMMA InsertProductKeeps ==
  ASSUME CatalogInv, NEW h \in Handler, NEW k \in Id, InsertProduct(h, k)
  PROVE  Kept(h)
<1> DEFINE r == request[h]
           t == r.user.tenantId
           n == Head(r.items).sku
           refs == r.refs
           c == [r EXCEPT !.at = "findSku", !.items = Tail(r.items), !.refs = NoRefs]
<1>1. /\ r \in Request /\ r.op = "aiProductInput" /\ r.items # << >>
      /\ refs \in Refs /\ UNCHANGED closed
  BY DEF CatalogInv, RequestInv, InsertProduct, At, Carries, Request
<1>2. /\ t \in Tenant /\ k \in Ids("Product") /\ n \in Names("Product")
      /\ ~ Exists(catalog.current[k])
      /\ catalog' = Overwrite(catalog, k,
           [deletedAt |-> "null", tenantId |-> t, name |-> n, refs |-> refs])
  BY DEF InsertProduct, InsertRow
<1>3. request' = [request EXCEPT ![h] = c]
  BY DEF InsertProduct
<1>4. RequestInv(c, catalog')
  <2>1. r.items \in Seq(Item) /\ Tail(r.items) \in Seq(Item) /\ NoRefs \in Refs
    BY <1>1 DEF Request, NoRefs, Refs
  <2>2. c \in Request /\ c.op = "aiProductInput" /\ c.at = "findSku" /\ c.refs = NoRefs
    BY <1>1, <2>1 DEF Request, Statement
  <2> HIDE DEF c
  <2> QED BY <2>2 DEF RequestInv, Carries, RefsOwn, LogOwn, NoRefs
<1>5. t = request[h].user.tenantId /\ request[h].op # "removeTenant"
  BY <1>1
<1> HIDE DEF r, t, n, refs, c
<1> QED BY <1>1, <1>2, <1>3, <1>4, <1>5, InsertKeeps

\* the answer,
LEMMA AnswerKeeps ==
  ASSUME CatalogInv, NEW h \in Handler, AnswerInput(h)
  PROVE  Kept(h)
<1>1. request[h].op = "aiProductInput" /\ UNCHANGED <<catalog, closed>>
  BY DEF CatalogInv, RequestInv, Carries, AnswerInput
<1>2. SoftStep(catalog, catalog)
  BY DEF SoftStep, Same
<1>3. RequestInv(Answered(h), catalog)
  BY <1>1, <1>2, SucceedKnows
<1>4. request' = [request EXCEPT ![h] = Answered(h)]
  BY DEF AnswerInput, Succeed, Respond, Answered
<1> QED BY <1>1, <1>3, <1>4, QuietStep

\* and the log.
LEMMA InsertLogKeeps ==
  ASSUME CatalogInv, NEW h \in Handler, InsertLog(h)
  PROVE  Kept(h)
<1>1. request[h].op # "removeTenant"
  BY DEF CatalogInv, RequestInv, Carries, InsertLog
<1> QED BY <1>1, IdleKnows, QuietStep DEF InsertLog, Respond

-----------------------------------------------------------------------------

\* Every step keeps the invariant, leaves the tables soft-deleted tables, and
\* is the step of one request.
LEMMA NextKeeps ==
  ASSUME CatalogInv, CatalogNext
  PROVE  \E h \in Handler : Kept(h)
<1> PICK h \in Handler : CatalogRequest(h) \/ CatalogStep(h)
  BY DEF CatalogNext
<1>1. CASE CatalogRequest(h)
  BY <1>1, RequestKeeps
<1>2. CASE CatalogStep(h)
  <2>1. ASSUME NEW n \in Name \cup Sku, NEW refs \in Refs, UpdateRow(h, n, refs)
        PROVE  Kept(h)
    BY <2>1, UpdateKeeps
  <2>2. ASSUME NEW n \in Name \cup Sku, NEW refs \in Refs, NEW k \in Id,
               Create(h, n, refs, k)
        PROVE  Kept(h)
    BY <2>2, CreateKeeps
  <2>3. CASE RemoveRow(h)
    BY <2>3, RemoveKeeps
  <2>4. CASE FindSku(h)
    BY <2>4, FindSkuKeeps
  <2>5. CASE FindName(h)
    BY <2>5, FindNameKeeps
  <2>6. ASSUME NEW k \in Id, InsertName(h, k) PROVE Kept(h)
    BY <2>6, InsertNameKeeps
  <2>7. ASSUME NEW k \in Id, InsertProduct(h, k) PROVE Kept(h)
    BY <2>7, InsertProductKeeps
  <2>8. CASE AnswerInput(h)
    BY <2>8, AnswerKeeps
  <2>9. CASE RemoveRows(h)
    BY <2>9, RemoveRowsKeeps
  <2>10. CASE CommitRemoval(h)
    BY <2>10, CommitKeeps
  <2>11. CASE InsertLog(h)
    BY <2>11, InsertLogKeeps
  <2>12. CASE Fail(h)
    BY <2>12, FailKeeps
  <2> QED BY <1>2, <2>1, <2>2, <2>3, <2>4, <2>5, <2>6, <2>7, <2>8, <2>9, <2>10,
             <2>11, <2>12 DEF CatalogStep
<1> QED BY <1>1, <1>2

\* The invariant, in every state.
LEMMA CatalogInvariant == CatalogSpec => []CatalogInv
<1>1. CatalogInv /\ UNCHANGED catalogVars => CatalogInv'
  BY DEF CatalogInv, TableInv, RequestInv, RefsOwn, LogOwn, Carries, Holding, catalogVars
<1>2. CatalogInv /\ [CatalogNext]_catalogVars => CatalogInv'
  BY <1>1, NextKeeps DEF Kept
<1> QED BY <1>2, CatalogInitInv, PTL DEF CatalogSpec

(***************************************************************************)
(* The tables, requests and closed stores keep their types.                *)
(***************************************************************************)
THEOREM CatalogTyped == CatalogSpec => []CatalogTypeOK
<1>1. CatalogInv => CatalogTypeOK
  BY DEF CatalogInv, TableInv, CatalogTypeOK
<1> QED BY <1>1, CatalogInvariant, PTL

(***************************************************************************)
(* A bulk input never carries the id of another store's row, or one that   *)
(* its item did not ask for.                                               *)
(***************************************************************************)
THEOREM InputsCarryTheirOwn == CatalogSpec => []CarriedRefsAreOwn
<1>1. CatalogInv => CarriedRefsAreOwn
  BY DEF CatalogInv, RequestInv, RefsOwn, CarriedRefsAreOwn
<1> QED BY <1>1, CatalogInvariant, PTL

(***************************************************************************)
(* What the log calls the state before a change is a row of the user's own *)
(* store, and of a removal it is the removed row.                          *)
(***************************************************************************)
THEOREM LogIsOfOwnRows == CatalogSpec => []LogFollowsWrite
<1>1. CatalogInv => LogFollowsWrite
  BY DEF CatalogInv, RequestInv, LogOwn, LogFollowsWrite, CapturedBeforeState, At
<1> QED BY <1>1, CatalogInvariant, PTL

(***************************************************************************)
(* Users write rows of their own store only, staff only add rows.          *)
(***************************************************************************)
THEOREM WritesStayInStore == CatalogSpec => CatalogIsolation
<1>1. CatalogInv /\ [CatalogNext]_catalogVars =>
        [\A h \in Handler, k \in Id :
           LET u == request[h].user
               row == catalog.current[k] IN
           /\ u.tenantId # NoTenant
           /\ request'[h] # request[h]
           /\ catalog'.current[k] # row
           => /\ catalog'.current[k].tenantId = u.tenantId
              /\ Exists(row) =>
                   /\ row.tenantId = u.tenantId
                   /\ u.role # "STAFF"
                   /\ request[h].op # "aiProductInput"]_catalogVars
  BY NextKeeps DEF Kept, Isolated
<1> QED BY <1>1, CatalogInvariant, PTL DEF CatalogSpec, CatalogIsolation

(***************************************************************************)
(* A store's rows are removed together or not at all.                      *)
(***************************************************************************)
THEOREM StoresGoWhole == CatalogSpec => RemovalIsAtomic
<1>1. CatalogInv /\ [CatalogNext]_catalogVars =>
        [\A h \in Handler :
           request[h].op = "removeTenant" /\ request'[h] # request[h] =>
             \/ catalog'.committed = catalog.committed
             \/ /\ request[h].at = "commit"
                /\ request[h].store \in closed'
                /\ \A k \in Id : catalog.holder[k] = h =>
                     catalog'.committed[k].deletedAt = "set"]_catalogVars
  BY NextKeeps DEF Kept, Atomic
<1> QED BY <1>1, CatalogInvariant, PTL DEF CatalogSpec, RemovalIsAtomic


\* The refinement mapping, for one row and for a table.
Life(row) == CASE row.deletedAt = "none" -> "none"
               [] row.deletedAt = "null" -> "live"
               [] OTHER                  -> "removed"

Lives(t) == [k \in Id |-> Life(t.committed[k])]

Owners(t) == [k \in Id |-> t.committed[k].tenantId]

\* A step of the catalog is one of its three tables.
LEMMA SoftStepIsRowsStep ==
  ASSUME TableInv(catalog), TableInv(catalog'), SoftStep(catalog, catalog')
  PROVE  Rows!Next \/ (Lives(catalog') = Lives(catalog) /\ Owners(catalog') = Owners(catalog))
<1> DEFINE t == catalog
           u == catalog'
<1>1. ASSUME NEW k \in Id, Same(t, u, k)
      PROVE  Lives(u)[k] = Lives(t)[k] /\ Owners(u)[k] = Owners(t)[k]
  BY <1>1 DEF Same, Lives, Owners, Life
<1>2. CASE Inserted(t, u)
  <2>1. PICK k \in Id : /\ t.committed[k].deletedAt = "none"
                        /\ u.committed[k].deletedAt = "null"
                        /\ u.committed[k].tenantId \in Tenant
                        /\ \A l \in Id \ {k} : Same(t, u, l)
    BY <1>2 DEF Inserted
  <2>o. PICK o \in Tenant : o = u.committed[k].tenantId
    BY <2>1
  <2>2. Lives(t)[k] = "none" /\ Lives(u)[k] = "live" /\ Owners(u)[k] = o
    BY <2>1, <2>o DEF Lives, Owners, Life
  <2>3. Lives(u) = [Lives(t) EXCEPT ![k] = "live"] /\ Owners(u) = [Owners(t) EXCEPT ![k] = o]
    <3> HIDE DEF t, u
    <3>1. \A l \in Id \ {k} : Lives(u)[l] = Lives(t)[l] /\ Owners(u)[l] = Owners(t)[l]
      BY <1>1, <2>1
    <3>2. Lives(t) = [l \in Id |-> Lives(t)[l]] /\ Lives(u) = [l \in Id |-> Lives(u)[l]]
      BY DEF Lives
    <3>3. Owners(t) = [l \in Id |-> Owners(t)[l]] /\ Owners(u) = [l \in Id |-> Owners(u)[l]]
      BY DEF Owners
    <3> QED BY <2>2, <3>1, <3>2, <3>3
  <2>4. Rows!Insert(k, o)
    BY <2>2, <2>3 DEF Rows!Insert, Lives, Owners, Life
  <2> QED BY <2>2, <2>4 DEF Rows!Next
<1>3. CASE Removed(t, u)
  <2>1. PICK rows \in SUBSET Id, o \in Tenant :
          /\ rows # {}
          /\ \A k \in rows : /\ t.committed[k].deletedAt = "null"
                             /\ t.committed[k].tenantId = o
                             /\ u.committed[k].deletedAt = "set"
                             /\ u.committed[k].tenantId = o
          /\ \A k \in Id \ rows : Same(t, u, k)
    BY <1>3 DEF Removed
  <2>2. \A k \in rows : /\ Lives(t)[k] = "live" /\ Owners(t)[k] = o
                        /\ Lives(u)[k] = "removed" /\ Owners(u)[k] = o
    BY <2>1 DEF Lives, Owners, Life
  <2>3. Lives(u) = [k \in Id |-> IF k \in rows THEN "removed" ELSE Lives(t)[k]]
        /\ Owners(u) = Owners(t)
    <3> HIDE DEF t, u
    <3>1. \A k \in Id \ rows : Lives(u)[k] = Lives(t)[k] /\ Owners(u)[k] = Owners(t)[k]
      BY <1>1, <2>1
    <3>2. Lives(u) = [l \in Id |-> Lives(u)[l]]
      BY DEF Lives
    <3>3. Owners(t) = [l \in Id |-> Owners(t)[l]] /\ Owners(u) = [l \in Id |-> Owners(u)[l]]
      BY DEF Owners
    <3> QED BY <2>2, <3>1, <3>2, <3>3
  <2>4. Rows!Remove(rows, o)
    BY <2>1, <2>2, <2>3 DEF Rows!Remove, Lives, Owners, Life
  <2>5. rows \in SUBSET {k \in Id : Owners(t)[k] = o}
    BY <2>2
  <2> QED BY <2>1, <2>4, <2>5 DEF Rows!Next, Owners
<1>4. CASE \A k \in Id : Same(t, u, k)
  <2>1. \A k \in Id : Lives(u)[k] = Lives(t)[k] /\ Owners(u)[k] = Owners(t)[k]
    BY <1>1, <1>4
  <2> QED BY <2>1 DEF Lives, Owners
<1> QED BY <1>2, <1>3, <1>4 DEF SoftStep

(***************************************************************************)
(* The catalog's tables implement soft-deleted tables: whatever requests   *)
(* race, no row is revived or changes hands.                               *)
(***************************************************************************)
THEOREM CatalogImplementsSoftRows == CatalogSpec => ImplementsSoftRows
<1>1. CatalogInit => Rows!Init
  BY DEF CatalogInit, Rows!Init, NewTable, NoRow
<1>2. CatalogInv /\ CatalogInv' /\ [CatalogNext]_catalogVars =>
        \/ Rows!Next
        \/ Lives(catalog') = Lives(catalog) /\ Owners(catalog') = Owners(catalog)
  <2> SUFFICES ASSUME CatalogInv, CatalogInv', [CatalogNext]_catalogVars
               PROVE  \/ Rows!Next
                      \/ Lives(catalog') = Lives(catalog) /\ Owners(catalog') = Owners(catalog)
    OBVIOUS
  <2>1. SoftStep(catalog, catalog')
    BY NextKeeps DEF Kept, SoftStep, Same, catalogVars
  <2> QED BY <2>1, SoftStepIsRowsStep DEF CatalogInv
<1>3. CatalogInv /\ CatalogInv' /\ [CatalogNext]_catalogVars => [Rows!Next]_<<Lives(catalog), Owners(catalog)>>
  BY <1>2
<1> QED BY <1>1, <1>3, CatalogInvariant, PTL DEF CatalogSpec, ImplementsSoftRows, Rows!Spec, Lives, Owners, Life

=============================================================================
