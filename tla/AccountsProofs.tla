---------------------------- MODULE AccountsProofs ----------------------------
(***************************************************************************)
(* Accounts, for any number of requests, stores and names: the tables keep *)
(* their types, what was removed stays removed, a store is founded whole or*)
(* not at all, and a founding that fails wastes no e-mail.                 *)
(***************************************************************************)
EXTENDS Accounts, FiniteSetTheorems, TLAPS

Inserting == {"findUsername", "insertTenant", "insertMember", "insertUser"}

\* What a request has to carry to send the statement it is at.
Carries(c) ==
  /\ c.at \in Inserting =>
       c.op \in {"register", "createStore"}
  /\ c.at \in {"findTenant", "insertPlatformUser"} => c.op = "register"
  /\ c.at \in Inserting \cup {"findTenant", "insertPlatformUser", "createPlatformUser"} =>
       c.email \in Email
  /\ c.at \in Inserting \cup {"findTenant", "insertPlatformUser", "createUser",
                              "createToken", "writeRole", "writeDeleted",
                              "removeUsers", "removeTenant"} =>
       c.store \in Store
  /\ c.at \in Inserting \cup {"findTenant", "insertPlatformUser", "createUser",
                              "createToken", "writeRole", "writeDeleted"} =>
       c.username \in Username
  /\ c.at = "removeUsers" => c.op = "removeTenant"
  /\ c.at = "removeTenant" => c.op = "removeTenant"
  /\ c.at = "commit" /\ c.op # "removeTenant" =>
       c.store \in Store /\ c.username \in Username

\* A removed row has no newer version that is not removed.
TenantsForGood(t) ==
  \A s \in Store : t.committed[s] = "removed" => t.current[s] = "removed"

UsersForGood(t) ==
  \A k \in Store \X Username :
    t.committed[k].status = "removed" => t.current[k].status = "removed"

\* What was removed in the table t is removed in its successor u.
TenantsLast(t, u) ==
  \A s \in Store : t.committed[s] = "removed" => u.committed[s] = "removed"

UsersLast(t, u) ==
  \A k \in Store \X Username :
    t.committed[k].status = "removed" => u.committed[k].status = "removed"

AccountsInv ==
  /\ AccountsTypeOK
  /\ \A h \in Handler : Carries(request[h])
  /\ TenantsForGood(tenants)
  /\ UsersForGood(users)

RemovalLasts == TenantsLast(tenants, tenants') /\ UsersLast(users, users')

-----------------------------------------------------------------------------

\* A writing statement, in a transaction or alone, keeps the type of a table.
LEMMA WriteTyped ==
  ASSUME NEW Keys, NEW Rows, NEW t \in Table(Keys, Rows, Handler),
         NEW h \in Handler, NEW k \in Keys, NEW row \in Rows
  PROVE  /\ Update(t, h, k, row) \in Table(Keys, Rows, Handler)
         /\ Overwrite(t, k, row) \in Table(Keys, Rows, Handler)
BY DEF Table, Update, Overwrite

\* So does the end of a transaction.
LEMMA EndTyped ==
  ASSUME NEW Keys, NEW Rows, NEW t \in Table(Keys, Rows, Handler),
         NEW h \in Handler
  PROVE  /\ Commit(t, h) \in Table(Keys, Rows, Handler)
         /\ Rollback(t, h) \in Table(Keys, Rows, Handler)
<1>1. t.holder \in [Keys -> Handler \cup {NoOne}] /\ DOMAIN t.holder = Keys
      /\ t.committed \in [Keys -> Rows] /\ t.current \in [Keys -> Rows]
  BY DEF Table
<1> QED BY <1>1 DEF Table, Commit, Rollback, Visible

\* The tables of the first state.
LEMMA NewTyped ==
  ASSUME NEW Keys, NEW Rows, NEW f \in [Keys -> Rows]
  PROVE  NewTable(f) \in Table(Keys, Rows, Handler)
BY DEF NewTable, Table

\* The first state satisfies the invariant.
LEMMA AccountsInitInv == AccountsInit => AccountsInv
<1> SUFFICES ASSUME AccountsInit PROVE AccountsInv
  OBVIOUS
<1>1. platformUsers \in Table(Email, {"none", "exists"}, Handler)
  BY NewTyped DEF AccountsInit
<1>2. tenants \in Table(Store, TenantRow, Handler)
  BY NewTyped DEF AccountsInit, TenantRow
<1>3. members \in Table(Email \X Store, {"none", "OWNER"}, Handler)
  BY NewTyped DEF AccountsInit
<1>4. users \in Table(Store \X Username, UserRow, Handler)
  <2>1. [k \in Store \X Username |-> NoUser] \in [Store \X Username -> UserRow]
    BY DEF NoUser, UserRow
  <2> QED BY <2>1, NewTyped DEF AccountsInit
<1>5. request \in [Handler -> Request] /\ \A h \in Handler : Carries(request[h])
  BY DEF AccountsInit, Request, Method, Statement, Idle, Carries, Inserting
<1>6. TenantsForGood(tenants) /\ UsersForGood(users)
  BY DEF AccountsInit, TenantsForGood, UsersForGood, NewTable, NoUser
<1> QED BY <1>1, <1>2, <1>3, <1>4, <1>5, <1>6 
        DEF AccountsInit, AccountsInv, AccountsTypeOK

-----------------------------------------------------------------------------

\* Requests begin with the arguments their statements need.
LEMMA BeginTyped ==
  ASSUME AccountsInv, NEW h \in Handler, AccountsRequest(h)
  PROVE  AccountsInv' /\ RemovalLasts
<1>1. UNCHANGED <<tableVars, issued, viaGoogle>>
  BY DEF AccountsRequest, Register, CreateStore, GoogleLogin, Create, FindUser,
         RemoveTenant
<1>2. PICK c \in Request : Carries(c) /\ request' = [request EXCEPT ![h] = c]
  <2>1. ASSUME NEW e \in Email, GoogleLogin(h, e)
        PROVE  \E c \in Request : Carries(c) /\ request' = [request EXCEPT ![h] = c]
    BY <2>1 DEF GoogleLogin, Begin, Request, Method, Statement, Carries, Inserting
  <2>2. ASSUME NEW e \in Email, NEW s \in Store, NEW n \in Username,
               Register(h, e, s, n)
        PROVE  \E c \in Request : Carries(c) /\ request' = [request EXCEPT ![h] = c]
    BY <2>2 DEF Register, Begin, Request, Method, Statement, Carries, Inserting
  <2>3. ASSUME NEW e \in Email, NEW s \in Store, NEW n \in Username,
               CreateStore(h, e, s, n)
        PROVE  \E c \in Request : Carries(c) /\ request' = [request EXCEPT ![h] = c]
    BY <2>3 DEF CreateStore, Begin, Request, Method, Statement, Carries, Inserting
  <2>4. ASSUME NEW s \in Store, NEW n \in Username, Create(h, s, n)
        PROVE  \E c \in Request : Carries(c) /\ request' = [request EXCEPT ![h] = c]
    BY <2>4 DEF Create, Begin, Request, Method, Statement, Carries, Inserting
  <2>5. ASSUME NEW s \in Store, NEW n \in Username, NEW op \in {"update", "remove"},
               FindUser(h, op, s, n)
        PROVE  \E c \in Request : Carries(c) /\ request' = [request EXCEPT ![h] = c]
    <3> DEFINE c == [op |-> op, at |-> IF op = "update" THEN "writeRole" ELSE "writeDeleted",
                     email |-> NoArg, store |-> s, username |-> n]
    <3>1. c.at \in {"writeRole", "writeDeleted"} /\ c.store = s /\ c.username = n
      OBVIOUS
    <3>2. c \in Request
      BY <2>5 DEF Request, Method, Statement
    <3>3. Carries(c)
      BY <3>1 DEF Carries, Inserting
    <3> QED BY <2>5, <3>2, <3>3 DEF FindUser, Begin
  <2>6. ASSUME NEW s \in Store, RemoveTenant(h, s)
        PROVE  \E c \in Request : Carries(c) /\ request' = [request EXCEPT ![h] = c]
    BY <2>6 DEF RemoveTenant, Begin, Request, Method, Statement, Carries, Inserting
  <2> QED BY <2>1, <2>2, <2>3, <2>4, <2>5, <2>6 DEF AccountsRequest
<1>3. request \in [Handler -> Request] /\ \A g \in Handler : Carries(request[g])
  BY DEF AccountsInv, AccountsTypeOK
<1>4. request' \in [Handler -> Request] /\ \A g \in Handler : Carries(request'[g])
  BY <1>2, <1>3
<1> QED BY <1>1, <1>4
        DEF AccountsInv, AccountsTypeOK, TenantsForGood, UsersForGood, tableVars,
            Carries, RemovalLasts, TenantsLast, UsersLast

-----------------------------------------------------------------------------

\* The end of a transaction brings nothing back.
LEMMA EndKeepsTenants ==
  ASSUME NEW t \in Table(Store, TenantRow, Handler), TenantsForGood(t),
         NEW h \in Handler
  PROVE  /\ TenantsForGood(Commit(t, h)) /\ TenantsLast(t, Commit(t, h))
         /\ TenantsForGood(Rollback(t, h)) /\ TenantsLast(t, Rollback(t, h))
<1>1. DOMAIN t.holder = Store
  BY DEF Table
<1> QED BY <1>1 DEF TenantsForGood, TenantsLast, Commit, Rollback, Visible

\* The end of a transaction revives no user.
LEMMA EndKeepsUsers ==
  ASSUME NEW t \in Table(Store \X Username, UserRow, Handler), UsersForGood(t),
         NEW h \in Handler
  PROVE  /\ UsersForGood(Commit(t, h)) /\ UsersLast(t, Commit(t, h))
         /\ UsersForGood(Rollback(t, h)) /\ UsersLast(t, Rollback(t, h))
<1>1. DOMAIN t.holder = Store \X Username
  BY DEF Table
<1> QED BY <1>1 DEF UsersForGood, UsersLast, Commit, Rollback, Visible

\* Nor does a write that keeps removed rows removed.
LEMMA WriteKeepsTenants ==
  ASSUME NEW t \in Table(Store, TenantRow, Handler), TenantsForGood(t),
         NEW h \in Handler, NEW s \in Store, NEW row \in TenantRow,
         t.current[s] = "removed" => row = "removed"
  PROVE  TenantsForGood(Update(t, h, s, row)) /\ TenantsLast(t, Update(t, h, s, row))
BY DEF Table, TenantsForGood, TenantsLast, Update

\* Nor does a write that only removes.
LEMMA WriteKeepsUsers ==
  ASSUME NEW t \in Table(Store \X Username, UserRow, Handler), UsersForGood(t),
         NEW h \in Handler, NEW k \in Store \X Username, NEW row \in UserRow,
         t.current[k].status = "removed" => row.status = "removed"
  PROVE  /\ UsersForGood(Update(t, h, k, row)) /\ UsersLast(t, Update(t, h, k, row))
         /\ UsersForGood(Overwrite(t, k, row)) /\ UsersLast(t, Overwrite(t, k, row))
BY DEF Table, UsersForGood, UsersLast, Update, Overwrite

\* A request goes on with what its next statement needs, or ends.
LEMMA RequestTyped ==
  ASSUME AccountsInv, NEW h \in Handler, NEW c \in Request, Carries(c),
         request' = [request EXCEPT ![h] = c]
  PROVE  request' \in [Handler -> Request] /\ \A g \in Handler : Carries(request'[g])
BY DEF AccountsInv, AccountsTypeOK

\* An answered request carries nothing.
LEMMA RespondTyped ==
  ASSUME AccountsInv, NEW h \in Handler, Respond(h)
  PROVE  request' \in [Handler -> Request] /\ \A g \in Handler : Carries(request'[g])
<1>1. Idle \in Request /\ Carries(Idle)
  BY DEF Idle, Request, Method, Statement, Carries, Inserting
<1> QED BY <1>1, RequestTyped DEF Respond

\* A request that goes to a statement it is ready for keeps its type.
LEMMA GotoTyped ==
  ASSUME AccountsInv, NEW h \in Handler, NEW a \in Statement, Goto(h, a),
         Carries([request[h] EXCEPT !.at = a])
  PROVE  request' \in [Handler -> Request] /\ \A g \in Handler : Carries(request'[g])
<1>1. request[h] \in Request
  BY DEF AccountsInv, AccountsTypeOK
<1>2. [request[h] EXCEPT !.at = a] \in Request
  BY <1>1 DEF Request
<1>3. request' = [request EXCEPT ![h] = [request[h] EXCEPT !.at = a]]
  BY DEF Goto
<1> QED BY <1>2, <1>3, RequestTyped

\* So does one that goes there or fails.
LEMMA AdvanceTyped ==
  ASSUME AccountsInv, NEW h \in Handler, Advance(h),
         request[h].at \in Inserting \cup {"findTenant", "insertPlatformUser"}
  PROVE  request' \in [Handler -> Request] /\ \A g \in Handler : Carries(request'[g])
<1> DEFINE c == request[h]
           a == Following[c.op][c.at]
           d == [c EXCEPT !.at = a]
<1>1. c \in Request /\ Carries(c)
  BY DEF AccountsInv, AccountsTypeOK
<1>2. c.op \in {"register", "createStore"} /\ c.email \in Email
      /\ c.store \in Store /\ c.username \in Username
  BY <1>1 DEF Carries, Inserting
<1>3. a \in Inserting \cup {"insertPlatformUser", "commit"}
      /\ (a = "insertPlatformUser" => c.op = "register")
  <2>1. CASE c.op = "register"
    BY <2>1 DEF Following, Inserting
  <2>2. CASE c.op = "createStore"
    <3>1. c.at \in Inserting
      BY <1>1, <2>2 DEF Carries
    <3> QED BY <2>2, <3>1 DEF Following, Inserting
  <2> QED BY <1>2, <2>1, <2>2
<1>4. a \in Statement
  BY <1>3 DEF Inserting, Statement
<1>5. d.at = a /\ d.op = c.op /\ d.email = c.email /\ d.store = c.store
      /\ d.username = c.username
  BY <1>1 DEF Request
<1> HIDE DEF a, d
<1>6. Carries(d)
  BY <1>2, <1>3, <1>5 DEF Carries, Inserting
<1> QED BY <1>4, <1>6, GotoTyped DEF Advance, a, d

-----------------------------------------------------------------------------

\* Every statement keeps the invariant, and what was removed.
LEMMA StepTyped ==
  ASSUME AccountsInv, NEW h \in Handler, AccountsStep(h)
  PROVE  AccountsInv' /\ RemovalLasts
<1> DEFINE Requested == request' \in [Handler -> Request]
                        /\ \A g \in Handler : Carries(request'[g])
           TenantsDone == /\ tenants' \in Table(Store, TenantRow, Handler)
                          /\ TenantsForGood(tenants') /\ TenantsLast(tenants, tenants')
           UsersDone == /\ users' \in Table(Store \X Username, UserRow, Handler)
                        /\ UsersForGood(users') /\ UsersLast(users, users')
<1> USE DEF At
<1>t. /\ platformUsers \in Table(Email, {"none", "exists"}, Handler)
      /\ tenants \in Table(Store, TenantRow, Handler)
      /\ members \in Table(Email \X Store, {"none", "OWNER"}, Handler)
      /\ users \in Table(Store \X Username, UserRow, Handler)
      /\ issued \subseteq Store \X Username
      /\ viaGoogle \subseteq Email
      /\ request[h] \in Request /\ Carries(request[h])
      /\ TenantsForGood(tenants) /\ UsersForGood(users)
  BY DEF AccountsInv, AccountsTypeOK
<1>s. /\ UNCHANGED tenants => TenantsDone
      /\ UNCHANGED users => UsersDone
  BY <1>t DEF TenantsLast, UsersLast
<1>g. ASSUME Requested, TenantsDone, UsersDone,
             platformUsers' \in Table(Email, {"none", "exists"}, Handler),
             members' \in Table(Email \X Store, {"none", "OWNER"}, Handler),
             issued' \subseteq Store \X Username,
             viaGoogle' \subseteq Email
      PROVE  AccountsInv' /\ RemovalLasts
  <2>1. AccountsTypeOK'
    BY <1>g DEF AccountsTypeOK
  <2> QED BY <1>g, <2>1 DEF AccountsInv, RemovalLasts, Carries, TenantsForGood, UsersForGood
<1>1. CASE FindTenant(h)
  <2>1. Requested
    BY <1>1, AdvanceTyped DEF FindTenant
  <2> QED BY <1>1, <2>1, <1>t, <1>s, <1>g DEF FindTenant, tableVars
<1>2. CASE FindUsername(h)
  <2>1. Requested
    BY <1>2, AdvanceTyped DEF FindUsername, Inserting
  <2> QED BY <1>2, <2>1, <1>t, <1>s, <1>g DEF FindUsername, tableVars
<1>3. CASE InsertPlatformUser(h)
  <2>1. Requested
    BY <1>3, AdvanceTyped DEF InsertPlatformUser
  <2>2. request[h].email \in Email
    BY <1>3, <1>t DEF InsertPlatformUser, Carries
  <2>3. platformUsers' \in Table(Email, {"none", "exists"}, Handler)
    BY <1>3, <1>t, <2>2, WriteTyped DEF InsertPlatformUser
  <2> QED BY <1>3, <2>1, <2>3, <1>t, <1>s, <1>g DEF InsertPlatformUser
<1>4. CASE InsertTenant(h)
  <2>1. Requested
    BY <1>4, AdvanceTyped DEF InsertTenant, Inserting
  <2>2. request[h].store \in Store /\ tenants.current[request[h].store] = "none"
        /\ tenants' = Update(tenants, h, request[h].store, "live")
    BY <1>4, <1>t DEF InsertTenant, Carries, Inserting
  <2>3. "live" \in TenantRow
    BY DEF TenantRow
  <2>4. tenants' \in Table(Store, TenantRow, Handler)
    BY <1>t, <2>2, <2>3, WriteTyped
  <2>5. TenantsForGood(tenants') /\ TenantsLast(tenants, tenants')
    BY <1>t, <2>2, <2>3, WriteKeepsTenants
  <2> QED BY <1>4, <2>1, <2>4, <2>5, <1>t, <1>s, <1>g DEF InsertTenant
<1>5. CASE InsertMember(h)
  <2>1. Requested
    BY <1>5, AdvanceTyped DEF InsertMember, Inserting
  <2>2. <<request[h].email, request[h].store>> \in Email \X Store
    BY <1>5, <1>t DEF InsertMember, Carries, Inserting
  <2>3. members' \in Table(Email \X Store, {"none", "OWNER"}, Handler)
    BY <1>5, <1>t, <2>2, WriteTyped DEF InsertMember
  <2> QED BY <1>5, <2>1, <2>3, <1>t, <1>s, <1>g DEF InsertMember
<1>6. CASE InsertUser(h)
  <2> DEFINE k == <<request[h].store, request[h].username>>
             row == [status |-> "live", role |-> "ADMIN"]
  <2>1. Requested
    BY <1>6, AdvanceTyped DEF InsertUser, Inserting
  <2>2. k \in Store \X Username /\ users' = Update(users, h, k, row)
        /\ users.current[k].status # "removed"
    BY <1>6, <1>t DEF InsertUser, Carries, Inserting, NoUser
  <2>3. row \in UserRow
    BY DEF UserRow
  <2> HIDE DEF k, row
  <2>4. users' \in Table(Store \X Username, UserRow, Handler)
    BY <1>t, <2>2, <2>3, WriteTyped
  <2>5. UsersForGood(users') /\ UsersLast(users, users')
    BY <1>t, <2>2, <2>3, WriteKeepsUsers
  <2> QED BY <1>6, <2>1, <2>4, <2>5, <1>t, <1>s, <1>g DEF InsertUser
<1>7. CASE CommitAccount(h)
  <2>1. Requested
    <3>1. CASE request[h].op = "removeTenant"
      BY <1>7, <3>1, RespondTyped DEF CommitAccount
    <3>2. CASE request[h].op # "removeTenant"
      <4> DEFINE d == [request[h] EXCEPT !.at = "createToken"]
      <4>1. request[h].store \in Store /\ request[h].username \in Username
        BY <1>7, <1>t, <3>2 DEF CommitAccount, Carries
      <4>2. d.at = "createToken" /\ d.store = request[h].store
            /\ d.username = request[h].username
        BY <1>t DEF Request
      <4> HIDE DEF d
      <4>3. Carries(d)
        BY <4>1, <4>2 DEF Carries, Inserting
      <4>4. Goto(h, "createToken") /\ "createToken" \in Statement
        BY <1>7, <3>2 DEF CommitAccount, Statement
      <4> QED BY <4>3, <4>4, GotoTyped DEF d
    <3> QED BY <3>1, <3>2
  <2>2. /\ platformUsers' \in Table(Email, {"none", "exists"}, Handler)
        /\ tenants' \in Table(Store, TenantRow, Handler)
        /\ members' \in Table(Email \X Store, {"none", "OWNER"}, Handler)
        /\ users' \in Table(Store \X Username, UserRow, Handler)
    BY <1>7, <1>t, EndTyped DEF CommitAccount
  <2>3. TenantsForGood(tenants') /\ TenantsLast(tenants, tenants')
    BY <1>7, <1>t, EndKeepsTenants DEF CommitAccount
  <2>4. UsersForGood(users') /\ UsersLast(users, users')
    BY <1>7, <1>t, EndKeepsUsers DEF CommitAccount
  <2> QED BY <1>7, <2>1, <2>2, <2>3, <2>4, <1>t, <1>g DEF CommitAccount
<1>8. CASE CreateToken(h)
  <2>1. Requested
    BY <1>8, RespondTyped DEF CreateToken
  <2>2. <<request[h].store, request[h].username>> \in Store \X Username
    BY <1>8, <1>t DEF CreateToken, Carries
  <2> QED BY <1>8, <2>1, <2>2, <1>t, <1>s, <1>g DEF CreateToken, tableVars
<1>9. CASE CreatePlatformUser(h)
  <2>1. Requested
    BY <1>9, RespondTyped DEF CreatePlatformUser
  <2>2. request[h].email \in Email
    BY <1>9, <1>t DEF CreatePlatformUser, Carries
  <2>3. platformUsers' \in Table(Email, {"none", "exists"}, Handler)
    BY <1>9, <1>t, <2>2, WriteTyped DEF CreatePlatformUser
  <2> QED BY <1>9, <2>1, <2>2, <2>3, <1>t, <1>s, <1>g DEF CreatePlatformUser
<1>10. ASSUME NEW role \in {"ADMIN", "STAFF"}, CreateUser(h, role)
       PROVE  AccountsInv' /\ RemovalLasts
  <2> DEFINE k == <<request[h].store, request[h].username>>
             row == [status |-> "live", role |-> role]
  <2>1. Requested
    BY <1>10, RespondTyped DEF CreateUser
  <2>2. k \in Store \X Username /\ users' = Overwrite(users, k, row)
        /\ users.current[k].status # "removed"
    BY <1>10, <1>t DEF CreateUser, Carries, NoUser
  <2>3. row \in UserRow
    BY <1>10 DEF UserRow
  <2> HIDE DEF k, row
  <2>4. users' \in Table(Store \X Username, UserRow, Handler)
    BY <1>t, <2>2, <2>3, WriteTyped
  <2>5. UsersForGood(users') /\ UsersLast(users, users')
    BY <1>t, <2>2, <2>3, WriteKeepsUsers
  <2> QED BY <1>10, <2>1, <2>4, <2>5, <1>t, <1>s, <1>g DEF CreateUser
<1>11. ASSUME NEW role \in {"ADMIN", "STAFF"}, WriteRole(h, role)
       PROVE  AccountsInv' /\ RemovalLasts
  <2> DEFINE k == <<request[h].store, request[h].username>>
             row == [users.current[k] EXCEPT !.role = role]
  <2>1. Requested
    BY <1>11, RespondTyped DEF WriteRole
  <2>2. k \in Store \X Username /\ users' = Overwrite(users, k, row)
    BY <1>11, <1>t DEF WriteRole, Carries
  <2>3. users.current[k] \in UserRow
    BY <1>t, <2>2 DEF Table
  <2>4. row \in UserRow /\ row.status = users.current[k].status
    BY <1>11, <2>3 DEF UserRow
  <2> HIDE DEF k, row
  <2>5. users' \in Table(Store \X Username, UserRow, Handler)
    BY <1>t, <2>2, <2>4, WriteTyped
  <2>6. UsersForGood(users') /\ UsersLast(users, users')
    BY <1>t, <2>2, <2>4, WriteKeepsUsers
  <2> QED BY <1>11, <2>1, <2>5, <2>6, <1>t, <1>s, <1>g DEF WriteRole
<1>12. CASE WriteDeleted(h)
  <2> DEFINE k == <<request[h].store, request[h].username>>
             row == [users.current[k] EXCEPT !.status = "removed"]
  <2>1. Requested
    BY <1>12, RespondTyped DEF WriteDeleted
  <2>2. k \in Store \X Username /\ users' = Overwrite(users, k, row)
    BY <1>12, <1>t DEF WriteDeleted, Carries
  <2>3. users.current[k] \in UserRow
    BY <1>t, <2>2 DEF Table
  <2>4. row \in UserRow /\ row.status = "removed"
    BY <2>3 DEF UserRow
  <2> HIDE DEF k, row
  <2>5. users' \in Table(Store \X Username, UserRow, Handler)
    BY <1>t, <2>2, <2>4, WriteTyped
  <2>6. UsersForGood(users') /\ UsersLast(users, users')
    BY <1>t, <2>2, <2>4, WriteKeepsUsers
  <2> QED BY <1>12, <2>1, <2>5, <2>6, <1>t, <1>s, <1>g DEF WriteDeleted
<1>13. CASE RemoveUsers(h)
  <2> DEFINE rows == {k \in {request[h].store} \X Username :
                        users.committed[k].status # "none"}
             current == [k \in DOMAIN users.current |->
                           IF k \in rows THEN [users.current[k] EXCEPT !.status = "removed"]
                                         ELSE users.current[k]]
             holder == [k \in DOMAIN users.holder |->
                          IF k \in rows THEN h ELSE users.holder[k]]
  <2>1. Requested
    <3> DEFINE d == [request[h] EXCEPT !.at = "removeTenant"]
    <3>1. request[h].store \in Store /\ request[h].op = "removeTenant"
      BY <1>13, <1>t DEF RemoveUsers, Carries
    <3>2. d.at = "removeTenant" /\ d.store = request[h].store /\ d.op = request[h].op
      BY <1>t DEF Request
    <3> HIDE DEF d
    <3>3. Carries(d)
      BY <3>1, <3>2 DEF Carries, Inserting
    <3>4. Goto(h, "removeTenant") /\ "removeTenant" \in Statement
      BY <1>13 DEF RemoveUsers, Statement
    <3> QED BY <3>3, <3>4, GotoTyped DEF d
  <2>2. users' = [users EXCEPT !.current = current, !.holder = holder]
    BY <1>13 DEF RemoveUsers
  <2>3. /\ users.committed \in [Store \X Username -> UserRow]
        /\ users.current \in [Store \X Username -> UserRow]
        /\ users.holder \in [Store \X Username -> Handler \cup {NoOne}]
    BY <1>t DEF Table
  <2>4. \A row \in UserRow : /\ [row EXCEPT !.status = "removed"] \in UserRow
                             /\ [row EXCEPT !.status = "removed"].status = "removed"
    BY DEF UserRow
  <2>5. current \in [Store \X Username -> UserRow]
        /\ holder \in [Store \X Username -> Handler \cup {NoOne}]
    BY <2>3, <2>4
  <2>6. \A k \in Store \X Username :
          users.current[k].status = "removed" => current[k].status = "removed"
    BY <2>3, <2>4
  <2> HIDE DEF current, holder
  <2>7. users' \in Table(Store \X Username, UserRow, Handler)
        /\ users'.committed = users.committed /\ users'.current = current
    BY <1>t, <2>2, <2>5 DEF Table
  <2>8. UsersForGood(users') /\ UsersLast(users, users')
    BY <1>t, <2>6, <2>7 DEF UsersForGood, UsersLast
  <2> QED BY <1>13, <2>1, <2>7, <2>8, <1>t, <1>s, <1>g DEF RemoveUsers
<1>14. CASE RemoveTenantRow(h)
  <2>1. Requested
    <3> DEFINE d == [request[h] EXCEPT !.at = "commit"]
    <3>1. request[h].op = "removeTenant"
      BY <1>14, <1>t DEF RemoveTenantRow, Carries
    <3>2. d.at = "commit" /\ d.op = request[h].op
      BY <1>t DEF Request
    <3> HIDE DEF d
    <3>3. Carries(d)
      BY <3>1, <3>2 DEF Carries, Inserting
    <3>4. Goto(h, "commit") /\ "commit" \in Statement
      BY <1>14 DEF RemoveTenantRow, Statement
    <3> QED BY <3>3, <3>4, GotoTyped DEF d
  <2>2. request[h].store \in Store
        /\ tenants' = Update(tenants, h, request[h].store, "removed")
    BY <1>14, <1>t DEF RemoveTenantRow, Carries
  <2>3. "removed" \in TenantRow
    BY DEF TenantRow
  <2>4. tenants' \in Table(Store, TenantRow, Handler)
    BY <1>t, <2>2, <2>3, WriteTyped
  <2>5. TenantsForGood(tenants') /\ TenantsLast(tenants, tenants')
    BY <1>t, <2>2, <2>3, WriteKeepsTenants
  <2> QED BY <1>14, <2>1, <2>4, <2>5, <1>t, <1>s, <1>g DEF RemoveTenantRow
<1>15. CASE Abort(h)
  <2>1. Requested
    BY <1>15, RespondTyped DEF Abort
  <2>2. /\ platformUsers' \in Table(Email, {"none", "exists"}, Handler)
        /\ tenants' \in Table(Store, TenantRow, Handler)
        /\ members' \in Table(Email \X Store, {"none", "OWNER"}, Handler)
        /\ users' \in Table(Store \X Username, UserRow, Handler)
    BY <1>15, <1>t, EndTyped DEF Abort
  <2>3. TenantsForGood(tenants') /\ TenantsLast(tenants, tenants')
    BY <1>15, <1>t, EndKeepsTenants DEF Abort
  <2>4. UsersForGood(users') /\ UsersLast(users, users')
    BY <1>15, <1>t, EndKeepsUsers DEF Abort
  <2> QED BY <1>15, <2>1, <2>2, <2>3, <2>4, <1>t, <1>g DEF Abort
<1> QED BY <1>1, <1>2, <1>3, <1>4, <1>5, <1>6, <1>7, <1>8, <1>9, <1>10, <1>11,
           <1>12, <1>13, <1>14, <1>15 DEF AccountsStep

-----------------------------------------------------------------------------

\* The invariant holds in every reachable state.
LEMMA AccountsInvHolds == AccountsSpec => []AccountsInv
<1>1. AccountsInv /\ UNCHANGED accountVars => AccountsInv'
  BY DEF AccountsInv, AccountsTypeOK, accountVars, tableVars, TenantsForGood,
         UsersForGood, Carries
<1>2. AccountsInv /\ [AccountsNext]_accountVars => AccountsInv'
  BY <1>1, BeginTyped, StepTyped DEF AccountsNext
<1> QED BY AccountsInitInv, <1>2, PTL DEF AccountsSpec

(***************************************************************************)
(* The tables and the requests in flight keep their types, for any number  *)
(* of requests, stores and names.                                          *)
(***************************************************************************)
THEOREM AccountsTyped == AccountsSpec => []AccountsTypeOK
<1>1. AccountsInv => AccountsTypeOK
  BY DEF AccountsInv
<1> QED BY <1>1, AccountsInvHolds, PTL

(***************************************************************************)
(* No request, however stale what it read, brings a removed user or a      *)
(* removed store back.                                                     *)
(***************************************************************************)
THEOREM RemovalIsFinal == AccountsSpec => RemovedIsFinal
<1> DEFINE Kept == /\ \A s \in Store :
                        tenants.committed[s] = "removed" =>
                          tenants'.committed[s] = "removed"
                   /\ \A k \in Store \X Username :
                        users.committed[k].status = "removed" =>
                          users'.committed[k].status = "removed"
<1>1. AccountsInv /\ [AccountsNext]_accountVars => [Kept]_tableVars
  <2>1. UNCHANGED accountVars => UNCHANGED tableVars
    BY DEF accountVars
  <2>2. RemovalLasts => Kept
    BY DEF RemovalLasts, TenantsLast, UsersLast
  <2> QED BY <2>1, <2>2, BeginTyped, StepTyped DEF AccountsNext
<1> QED BY <1>1, AccountsInvHolds, PTL DEF AccountsSpec, RemovedIsFinal

-----------------------------------------------------------------------------
(***************************************************************************)
(* How stores are founded.                                                 *)
(***************************************************************************)

\* The rows that stand for something that was once created.
Account == {"exists"}
Owner   == {"OWNER"}
Founded == {"live", "removed"}
Known   == {row \in UserRow : row.status # "none"}

Founding == {"register", "createStore"}

\* What the transaction of a request has written when it is at a statement:
\* register inserts account, store, owner and user, createStore the store,
\* the user and the owner.
HasAccount(c) ==
  c.op = "register" /\ c.at \in {"insertTenant", "insertMember", "insertUser", "commit"}

HasTenant(c) ==
  c.op \in Founding /\ c.at \in {"insertMember", "insertUser", "commit"}

HasOwner(c) ==
  \/ c.op = "register" /\ c.at \in {"insertUser", "commit"}
  \/ c.op = "createStore" /\ c.at = "commit"

HasUser(c) ==
  \/ c.op = "register" /\ c.at = "commit"
  \/ c.op = "createStore" /\ c.at \in {"insertMember", "commit"}

HasRemoved(c) == c.op = "removeTenant" /\ c.at = "commit"

IsRemoving(c) == c.op = "removeTenant" /\ c.at \in {"removeTenant", "commit"}

\* The arguments of each method, and whose statements are whose.
Shape(c) ==
  /\ c.op \in Founding => c.email \in Email /\ c.store \in Store /\ c.username \in Username
  /\ c.op \in {"create", "removeTenant"} => c.store \in Store
  /\ c.at \in Inserting \cup {"createToken"} => c.op \in Founding
  /\ c.at = "commit" => c.op \in Founding \cup {"removeTenant"}
  /\ c.at = "createUser" => c.op = "create"
  /\ c.at \in {"writeRole", "writeDeleted"} => c.op \in {"update", "remove"}
  /\ c.at = "createPlatformUser" => c.op = "googleLogin"
  /\ c.at = "idle" => c.op = "none"

\* Handler h, whose request is c, holds the rows its transaction has written
\* and no others, and what it read before it began still stands.
AccountOf(h, c, t) ==
  /\ \A e \in Email : t.holder[e] = h <=> HasAccount(c) /\ e = c.email
  /\ HasAccount(c) => t.current[c.email] \in Account
  /\ c.op = "createStore" => t.committed[c.email] \in Account

TenantOf(h, c, t) ==
  /\ \A s \in Store : t.holder[s] = h <=> (HasTenant(c) \/ HasRemoved(c)) /\ s = c.store
  /\ HasTenant(c) => t.current[c.store] \in Founded /\ t.committed[c.store] = "none"
  /\ c.op \in {"create", "removeTenant"} => t.committed[c.store] \in Founded

OwnerOf(h, c, t) ==
  /\ \A e \in Email, s \in Store :
       t.holder[<<e, s>>] = h <=> HasOwner(c) /\ e = c.email /\ s = c.store
  /\ HasOwner(c) => t.current[<<c.email, c.store>>] \in Owner

UserOf(h, c, t) ==
  /\ \A s \in Store, n \in Username :
       t.holder[<<s, n>>] = h =>
         s = c.store /\ (IsRemoving(c) \/ (HasUser(c) /\ n = c.username))
  /\ HasUser(c) => /\ t.holder[<<c.store, c.username>>] = h
                   /\ t.current[<<c.store, c.username>>] \in Known
  /\ c.at \in {"createToken", "writeRole", "writeDeleted"} =>
       t.committed[<<c.store, c.username>>] \in Known

\* A committed row of G has no newer version outside G.
Lasting(t, G) == \A k \in DOMAIN t.holder : t.committed[k] \in G => t.current[k] \in G

\* What was committed in t as a row of G is one in its successor u.
Stays(t, u, G) == \A k \in DOMAIN t.holder : t.committed[k] \in G => u.committed[k] \in G

\* From t to u nothing happens to the rows that others than h hold.
Keeps(t, u, h) ==
  \A k \in DOMAIN t.holder, g \in Handler :
    g # h => /\ t.holder[k] = g <=> u.holder[k] = g
             /\ t.holder[k] = g => /\ u.current[k] = t.current[k]
                                   /\ u.committed[k] = t.committed[k]

TablesLast == /\ Lasting(platformUsers, Account)
              /\ Lasting(tenants, Founded)
              /\ Lasting(members, Owner)
              /\ Lasting(users, Known)

FoundingInv ==
  /\ TablesLast
  /\ \A h \in Handler : /\ Shape(request[h])
                        /\ AccountOf(h, request[h], platformUsers)
                        /\ TenantOf(h, request[h], tenants)
                        /\ OwnerOf(h, request[h], members)
                        /\ UserOf(h, request[h], users)
  /\ StoreIsWhole
  /\ EmailIsNotWasted

-----------------------------------------------------------------------------
(***************************************************************************)
(* The statements, on any table.                                           *)
(***************************************************************************)

\* An insert or update in a transaction, once it has the lock.
LEMMA UpdateEffect ==
  ASSUME NEW Keys, NEW Rows, NEW t \in Table(Keys, Rows, Handler), NEW G,
         NEW h \in Handler, NEW k \in Keys, NEW row, Free(t, h, k),
         Lasting(t, G), t.committed[k] \in G => row \in G
  PROVE  /\ Keeps(t, Update(t, h, k, row), h)
         /\ Lasting(Update(t, h, k, row), G)
         /\ Stays(t, Update(t, h, k, row), G)
         /\ Update(t, h, k, row).committed = t.committed
         /\ Update(t, h, k, row).current[k] = row
         /\ Update(t, h, k, row).holder[k] = h
         /\ \A j \in Keys : j # k => /\ Update(t, h, k, row).current[j] = t.current[j]
                                     /\ Update(t, h, k, row).holder[j] = t.holder[j]
BY AccountsAssumption DEF Table, Update, Free, Keeps, Lasting, Stays

\* One outside any transaction.
LEMMA OverwriteEffect ==
  ASSUME NEW Keys, NEW Rows, NEW t \in Table(Keys, Rows, Handler), NEW G,
         NEW h \in Handler, NEW k \in Keys, NEW row, Free(t, h, k),
         Lasting(t, G), t.committed[k] \in G => row \in G
  PROVE  /\ Keeps(t, Overwrite(t, k, row), h)
         /\ Lasting(Overwrite(t, k, row), G)
         /\ Stays(t, Overwrite(t, k, row), G)
         /\ Overwrite(t, k, row).holder = t.holder
         /\ Overwrite(t, k, row).committed[k] = row
         /\ \A j \in Keys : j # k => Overwrite(t, k, row).committed[j] = t.committed[j]
BY AccountsAssumption DEF Table, Overwrite, Free, Keeps, Lasting, Stays

\* A commit publishes what h has written, a rollback forgets it; h holds
\* nothing afterwards.
LEMMA EndEffect ==
  ASSUME NEW Keys, NEW Rows, NEW t \in Table(Keys, Rows, Handler), NEW G,
         NEW h \in Handler, Lasting(t, G)
  PROVE  /\ Keeps(t, Commit(t, h), h) /\ Keeps(t, Rollback(t, h), h)
         /\ Lasting(Commit(t, h), G) /\ Lasting(Rollback(t, h), G)
         /\ Stays(t, Commit(t, h), G) /\ Stays(t, Rollback(t, h), G)
         /\ \A k \in Keys : /\ Commit(t, h).holder[k] # h
                            /\ Rollback(t, h).holder[k] # h
         /\ Rollback(t, h).committed = t.committed
         /\ \A k \in Keys : Commit(t, h).committed[k]
                              = IF t.holder[k] = h THEN t.current[k] ELSE t.committed[k]
<1>1. DOMAIN t.holder = Keys /\ NoOne # h
  BY AccountsAssumption DEF Table
<1> DEFINE u == Commit(t, h)
           v == Rollback(t, h)
<1>2. /\ u.current = t.current /\ v.committed = t.committed
      /\ \A k \in Keys : /\ u.committed[k] = (IF t.holder[k] = h THEN t.current[k] ELSE t.committed[k])
                         /\ v.current[k] = (IF t.holder[k] = h THEN t.committed[k] ELSE t.current[k])
                         /\ u.holder[k] = (IF t.holder[k] = h THEN NoOne ELSE t.holder[k])
                         /\ v.holder[k] = (IF t.holder[k] = h THEN NoOne ELSE t.holder[k])
      /\ DOMAIN u.holder = Keys /\ DOMAIN v.holder = Keys
  BY <1>1 DEF Commit, Rollback, Visible
<1> HIDE DEF u, v
<1>3. Keeps(t, u, h) /\ Keeps(t, v, h)
  BY <1>1, <1>2, AccountsAssumption DEF Keeps
<1>4. Lasting(u, G) /\ Lasting(v, G) /\ Stays(t, u, G) /\ Stays(t, v, G)
  BY <1>1, <1>2 DEF Lasting, Stays
<1>5. \A k \in Keys : u.holder[k] # h /\ v.holder[k] # h
  BY <1>1, <1>2
<1> QED BY <1>2, <1>3, <1>4, <1>5 DEF u, v

\* Nothing happens.
LEMMA NoEffect ==
  ASSUME NEW t, NEW G, NEW h \in Handler
  PROVE  Keeps(t, t, h) /\ Stays(t, t, G)
BY DEF Keeps, Stays

-----------------------------------------------------------------------------

\* What another request holds and knows survives a step of h.
LEMMA OthersKnow ==
  ASSUME NEW h \in Handler, NEW g \in Handler, g # h, NEW c \in Request, Shape(c),
         NEW p \in Table(Email, {"none", "exists"}, Handler),
         NEW t \in Table(Store, TenantRow, Handler),
         NEW m \in Table(Email \X Store, {"none", "OWNER"}, Handler),
         NEW u \in Table(Store \X Username, UserRow, Handler),
         NEW p2, Keeps(p, p2, h), Stays(p, p2, Account), AccountOf(g, c, p),
         NEW t2, Keeps(t, t2, h), Stays(t, t2, Founded), TenantOf(g, c, t),
         NEW m2, Keeps(m, m2, h), Stays(m, m2, Owner), OwnerOf(g, c, m),
         NEW u2, Keeps(u, u2, h), Stays(u, u2, Known), UserOf(g, c, u),
         Carries(c)
  PROVE  /\ AccountOf(g, c, p2)
         /\ TenantOf(g, c, t2)
         /\ OwnerOf(g, c, m2)
         /\ UserOf(g, c, u2)
<1>1. /\ DOMAIN p.holder = Email /\ DOMAIN t.holder = Store
      /\ DOMAIN m.holder = Email \X Store /\ DOMAIN u.holder = Store \X Username
  BY DEF Table
<1>2. c.op \in Founding => c.email \in Email /\ c.store \in Store /\ c.username \in Username
  BY DEF Shape
<1>3. AccountOf(g, c, p2)
  <2>1. HasAccount(c) => c.email \in Email /\ p.holder[c.email] = g
    BY <1>2 DEF HasAccount, AccountOf, Founding
  <2>2. HasAccount(c) => p2.current[c.email] \in Account
    BY <1>1, <2>1 DEF Keeps, AccountOf
  <2>3. c.op = "createStore" => p2.committed[c.email] \in Account
    BY <1>1, <1>2 DEF Stays, AccountOf, Founding
  <2>4. \A e \in Email : p2.holder[e] = g <=> p.holder[e] = g
    BY <1>1 DEF Keeps
  <2> QED BY <2>2, <2>3, <2>4 DEF AccountOf
<1>4. TenantOf(g, c, t2)
  <2>1. HasTenant(c) => c.store \in Store /\ t.holder[c.store] = g
    BY <1>2 DEF HasTenant, TenantOf, Founding
  <2>2. HasTenant(c) => t2.current[c.store] \in Founded /\ t2.committed[c.store] = "none"
    BY <1>1, <2>1 DEF Keeps, TenantOf
  <2>3. c.op \in {"create", "removeTenant"} => t2.committed[c.store] \in Founded
    BY <1>1 DEF Stays, TenantOf, Shape
  <2>4. \A s \in Store : t2.holder[s] = g <=> t.holder[s] = g
    BY <1>1 DEF Keeps
  <2> QED BY <2>2, <2>3, <2>4 DEF TenantOf
<1>5. OwnerOf(g, c, m2)
  <2>1. HasOwner(c) => /\ <<c.email, c.store>> \in Email \X Store
                       /\ m.holder[<<c.email, c.store>>] = g
    BY <1>2 DEF HasOwner, OwnerOf, Founding
  <2>2. HasOwner(c) => m2.current[<<c.email, c.store>>] \in Owner
    BY <1>1, <2>1 DEF Keeps, OwnerOf
  <2>4. \A e \in Email, s \in Store : m2.holder[<<e, s>>] = g <=> m.holder[<<e, s>>] = g
    BY <1>1 DEF Keeps
  <2> QED BY <2>2, <2>4 DEF OwnerOf
<1>6. UserOf(g, c, u2)
  <2>1. HasUser(c) => /\ <<c.store, c.username>> \in Store \X Username
                      /\ u.holder[<<c.store, c.username>>] = g
    BY <1>2 DEF HasUser, UserOf, Founding
  <2>2. HasUser(c) => /\ u2.holder[<<c.store, c.username>>] = g
                      /\ u2.current[<<c.store, c.username>>] \in Known
    BY <1>1, <2>1 DEF Keeps, UserOf
  <2>3. c.at \in {"createToken", "writeRole", "writeDeleted"} =>
          u2.committed[<<c.store, c.username>>] \in Known
    BY <1>1 DEF Stays, UserOf, Carries
  <2>4. \A s \in Store, n \in Username : u2.holder[<<s, n>>] = g <=> u.holder[<<s, n>>] = g
    BY <1>1 DEF Keeps
  <2> QED BY <2>2, <2>3, <2>4 DEF UserOf
<1> QED BY <1>3, <1>4, <1>5, <1>6

-----------------------------------------------------------------------------

\* A step that founds no store leaves StoreIsWhole true, and EmailIsNotWasted.
LEMMA WholeStays ==
  ASSUME AccountsTypeOK, StoreIsWhole, members'.committed = members.committed,
         users' \in Table(Store \X Username, UserRow, Handler),
         tenants' \in Table(Store, TenantRow, Handler),
         \A s \in Store : tenants.committed[s] = "none" <=> tenants'.committed[s] = "none",
         Stays(platformUsers, platformUsers', Account),
         Stays(users, users', Known),
         \A s \in Store, n \in Username :
           users'.committed[<<s, n>>] \in Known =>
             users.committed[<<s, n>>] \in Known \/ tenants.committed[s] \in Founded,
         \A k \in issued' : k \in Store \X Username /\ users'.committed[k] \in Known
  PROVE  StoreIsWhole'
<1>1. /\ DOMAIN platformUsers.holder = Email
      /\ DOMAIN users.holder = Store \X Username
      /\ \A k \in Store \X Username : users'.committed[k] \in UserRow
      /\ \A k \in Store \X Username : users.committed[k] \in UserRow
      /\ \A s \in Store : tenants.committed[s] \in TenantRow
  BY DEF AccountsTypeOK, Table
<1>2. \A s \in Store : Owners(s)' = Owners(s)
  BY DEF Owners
<1>3. \A s \in Store, n \in Username : n \in Staff(s) => n \in Staff(s)'
  BY <1>1 DEF Staff, Stays, Known
<1>4. \A s \in Store, n \in Username :
        n \in Staff(s)' => n \in Staff(s) \/ tenants.committed[s] # "none"
  BY <1>1 DEF Staff, Founded, Known
<1>5. \A e \in Email : platformUsers.committed[e] = "exists" =>
                         platformUsers'.committed[e] = "exists"
  BY <1>1 DEF Stays, Account
<1>6. ASSUME NEW s \in Store
      PROVE  IF tenants'.committed[s] = "none"
               THEN Owners(s)' = {} /\ Staff(s)' = {}
               ELSE /\ Cardinality(Owners(s)') = 1
                    /\ \A e \in Owners(s)' : platformUsers'.committed[e] = "exists"
                    /\ Staff(s)' # {}
  <2>1. CASE tenants.committed[s] = "none"
    <3>1. Owners(s) = {} /\ Staff(s) = {}
      BY <2>1 DEF StoreIsWhole
    <3>2. Staff(s)' = {}
      <4>1. \A n \in Username : n \notin Staff(s)'
        BY <2>1, <3>1, <1>4
      <4> QED BY <4>1 DEF Staff
    <3> QED BY <2>1, <3>1, <3>2, <1>2
  <2>2. CASE tenants.committed[s] # "none"
    <3>1. /\ Cardinality(Owners(s)) = 1
          /\ \A e \in Owners(s) : platformUsers.committed[e] = "exists"
          /\ Staff(s) # {}
      BY <2>2 DEF StoreIsWhole
    <3>2. Cardinality(Owners(s)') = 1
      BY <1>2, <3>1
    <3>3. \A e \in Owners(s)' : e \in Email /\ platformUsers'.committed[e] = "exists"
      <4>1. \A e \in Owners(s)' : e \in Owners(s)
        BY <1>2
      <4>2. \A e \in Owners(s) : e \in Email
        BY DEF Owners
      <4> QED BY <4>1, <4>2, <3>1, <1>5
    <3>4. Staff(s)' # {}
      <4>1. PICK n \in Username : n \in Staff(s)
        BY <3>1 DEF Staff
      <4> QED BY <4>1, <1>3
    <3> QED BY <2>2, <3>2, <3>3, <3>4
  <2> QED BY <2>1, <2>2
<1>7. \A k \in issued' : users'.committed[k].status # "none"
  BY DEF Known
<1> QED BY <1>6, <1>7 DEF StoreIsWhole

\* Owners that stay, and accounts that come through Google, waste no e-mail.
LEMMA EmailStays ==
  ASSUME AccountsTypeOK, EmailIsNotWasted, members'.committed = members.committed,
         viaGoogle \subseteq viaGoogle',
         \A e \in Email : platformUsers'.committed[e] = "exists" =>
           platformUsers.committed[e] = "exists" \/ e \in viaGoogle'
  PROVE  EmailIsNotWasted'
<1>1. \A s \in Store : Owners(s)' = Owners(s)
  BY DEF Owners
<1> QED BY <1>1 DEF EmailIsNotWasted

(***************************************************************************)
(* It is enough to look at the request that moves: the tables change as    *)
(* their statements do, and its own part of the invariant holds again.     *)
(***************************************************************************)
LEMMA OneMoves ==
  ASSUME AccountsInv, FoundingInv, NEW h \in Handler, AccountsInv',
         \A g \in Handler : g # h => request'[g] = request[g],
         Keeps(platformUsers, platformUsers', h),
         Stays(platformUsers, platformUsers', Account),
         Keeps(tenants, tenants', h), Stays(tenants, tenants', Founded),
         Keeps(members, members', h), Stays(members, members', Owner),
         Keeps(users, users', h), Stays(users, users', Known),
         TablesLast', StoreIsWhole', EmailIsNotWasted',
         Shape(request'[h]),
         AccountOf(h, request'[h], platformUsers'),
         TenantOf(h, request'[h], tenants'),
         OwnerOf(h, request'[h], members'),
         UserOf(h, request'[h], users')
  PROVE  FoundingInv'
<1>1. ASSUME NEW g \in Handler
      PROVE  /\ Shape(request'[g])
             /\ AccountOf(g, request'[g], platformUsers')
             /\ TenantOf(g, request'[g], tenants')
             /\ OwnerOf(g, request'[g], members')
             /\ UserOf(g, request'[g], users')
  <2>1. CASE g = h
    BY <2>1
  <2>2. CASE g # h
    <3>1. /\ request[g] \in Request /\ Carries(request[g])
          /\ platformUsers \in Table(Email, {"none", "exists"}, Handler)
          /\ tenants \in Table(Store, TenantRow, Handler)
          /\ members \in Table(Email \X Store, {"none", "OWNER"}, Handler)
          /\ users \in Table(Store \X Username, UserRow, Handler)
      BY DEF AccountsInv, AccountsTypeOK
    <3>2. /\ Shape(request[g])
          /\ AccountOf(g, request[g], platformUsers)
          /\ TenantOf(g, request[g], tenants)
          /\ OwnerOf(g, request[g], members)
          /\ UserOf(g, request[g], users)
      BY DEF FoundingInv
    <3>3. /\ AccountOf(g, request[g], platformUsers')
          /\ TenantOf(g, request[g], tenants')
          /\ OwnerOf(g, request[g], members')
          /\ UserOf(g, request[g], users')
      BY <2>2, <3>1, <3>2, OthersKnow
    <3>4. request'[g] = request[g]
      BY <2>2
    <3> QED BY <3>2, <3>3, <3>4
  <2> QED BY <2>1, <2>2
<1> QED BY <1>1 DEF FoundingInv, Shape, AccountOf, TenantOf, OwnerOf, UserOf,
                   HasAccount, HasTenant, HasOwner, HasUser, HasRemoved, IsRemoving

-----------------------------------------------------------------------------

\* A request that holds no row is only bound by what it knows.
LEMMA EmptyHanded ==
  ASSUME NEW h \in Handler, NEW c,
         NEW p, \A e \in Email : p.holder[e] # h,
         NEW t, \A s \in Store : t.holder[s] # h,
         NEW m, \A e \in Email, s \in Store : m.holder[<<e, s>>] # h,
         NEW u, \A s \in Store, n \in Username : u.holder[<<s, n>>] # h,
         ~ HasAccount(c), ~ HasTenant(c), ~ HasOwner(c), ~ HasUser(c), ~ HasRemoved(c),
         c.op = "createStore" => p.committed[c.email] \in Account,
         c.op \in {"create", "removeTenant"} => t.committed[c.store] \in Founded,
         c.at \in {"createToken", "writeRole", "writeDeleted"} =>
           u.committed[<<c.store, c.username>>] \in Known
  PROVE  AccountOf(h, c, p) /\ TenantOf(h, c, t) /\ OwnerOf(h, c, m) /\ UserOf(h, c, u)
BY DEF AccountOf, TenantOf, OwnerOf, UserOf

\* Before its first write, and after its last, a request holds nothing.
LEMMA WithoutLocks ==
  ASSUME FoundingInv, NEW h \in Handler,
         ~ HasAccount(request[h]), ~ HasTenant(request[h]), ~ HasOwner(request[h]),
         ~ HasUser(request[h]), ~ HasRemoved(request[h]), ~ IsRemoving(request[h])
  PROVE  /\ \A e \in Email : platformUsers.holder[e] # h
         /\ \A s \in Store : tenants.holder[s] # h
         /\ \A e \in Email, s \in Store : members.holder[<<e, s>>] # h
         /\ \A s \in Store, n \in Username : users.holder[<<s, n>>] # h
<1>1. /\ AccountOf(h, request[h], platformUsers)
      /\ TenantOf(h, request[h], tenants)
      /\ OwnerOf(h, request[h], members)
      /\ UserOf(h, request[h], users)
  BY DEF FoundingInv
<1>2. \A e \in Email : platformUsers.holder[e] # h
  BY <1>1 DEF AccountOf
<1>3. \A s \in Store : tenants.holder[s] # h
  BY <1>1 DEF TenantOf
<1>4. \A e \in Email, s \in Store : members.holder[<<e, s>>] # h
  BY <1>1 DEF OwnerOf
<1>5. \A s \in Store, n \in Username : users.holder[<<s, n>>] # h
  BY <1>1 DEF UserOf
<1> QED BY <1>2, <1>3, <1>4, <1>5

\* Before the first request nothing is founded.
LEMMA FoundingInitInv == AccountsInit => FoundingInv
<1> SUFFICES ASSUME AccountsInit PROVE FoundingInv
  OBVIOUS
<1>1. TablesLast
  BY DEF AccountsInit, TablesLast, Lasting, NewTable
<1>2. ASSUME NEW h \in Handler
      PROVE  /\ Shape(request[h])
             /\ AccountOf(h, request[h], platformUsers)
             /\ TenantOf(h, request[h], tenants)
             /\ OwnerOf(h, request[h], members)
             /\ UserOf(h, request[h], users)
  <2>1. request[h] = Idle
    BY DEF AccountsInit
  <2>2. /\ \A e \in Email : platformUsers.holder[e] # h
        /\ \A s \in Store : tenants.holder[s] # h
        /\ \A e \in Email, s \in Store : members.holder[<<e, s>>] # h
        /\ \A s \in Store, n \in Username : users.holder[<<s, n>>] # h
    BY AccountsAssumption DEF AccountsInit, NewTable
  <2>3. Shape(Idle)
    BY DEF Shape, Idle, Founding, Inserting
  <2>4. /\ ~ HasAccount(Idle) /\ ~ HasTenant(Idle) /\ ~ HasOwner(Idle)
        /\ ~ HasUser(Idle) /\ ~ HasRemoved(Idle)
        /\ Idle.op = "createStore" => platformUsers.committed[Idle.email] \in Account
        /\ Idle.op \in {"create", "removeTenant"} =>
             tenants.committed[Idle.store] \in Founded
        /\ Idle.at \in {"createToken", "writeRole", "writeDeleted"} =>
             users.committed[<<Idle.store, Idle.username>>] \in Known
    BY DEF HasAccount, HasTenant, HasOwner, HasUser, HasRemoved, Idle, Founding
  <2>5. /\ AccountOf(h, Idle, platformUsers) /\ TenantOf(h, Idle, tenants)
        /\ OwnerOf(h, Idle, members) /\ UserOf(h, Idle, users)
    BY <2>2, <2>4 DEF AccountOf, TenantOf, OwnerOf, UserOf
  <2> QED BY <2>1, <2>3, <2>5
<1>3. StoreIsWhole
  BY DEF AccountsInit, NewTable, NoUser, StoreIsWhole, Owners, Staff
<1>4. EmailIsNotWasted
  BY DEF AccountsInit, NewTable, EmailIsNotWasted
<1> QED BY <1>1, <1>2, <1>3, <1>4 DEF FoundingInv

\* A request knows, when it begins, what its method has asked for.
LEMMA FoundingBegin ==
  ASSUME AccountsInv, FoundingInv, NEW h \in Handler, AccountsRequest(h)
  PROVE  FoundingInv'
<1>1. UNCHANGED <<platformUsers, tenants, members, users, issued, viaGoogle>>
  BY DEF AccountsRequest, Register, CreateStore, GoogleLogin, Create, FindUser,
         RemoveTenant, tableVars
<1>2. AccountsInv'
  BY BeginTyped
<1>3. request[h] = Idle
  BY DEF AccountsRequest, Register, CreateStore, GoogleLogin, Create, FindUser,
         RemoveTenant, Begin
<1>t. /\ request \in [Handler -> Request]
      /\ \A k \in Store \X Username : users.committed[k] \in UserRow
      /\ \A s \in Store : tenants.committed[s] \in TenantRow
  BY DEF AccountsInv, AccountsTypeOK, Table
<1>a. ASSUME NEW s \in Store, Administered(s)
      PROVE  tenants.committed[s] \in Founded
  <2>1. PICK n \in Username : users.committed[<<s, n>>].status = "live"
    BY <1>a DEF Administered
  <2>2. Staff(s) # {}
    BY <2>1 DEF Staff
  <2>3. tenants.committed[s] # "none"
    BY <2>2 DEF FoundingInv, StoreIsWhole
  <2> QED BY <2>3, <1>t DEF TenantRow, Founded
<1> DEFINE Begun(c) ==
             /\ request' = [request EXCEPT ![h] = c]
             /\ Shape(c)
             /\ ~ HasAccount(c) /\ ~ HasTenant(c) /\ ~ HasOwner(c)
             /\ ~ HasUser(c) /\ ~ HasRemoved(c)
             /\ c.op = "createStore" => platformUsers.committed[c.email] \in Account
             /\ c.op \in {"create", "removeTenant"} => tenants.committed[c.store] \in Founded
             /\ c.at \in {"createToken", "writeRole", "writeDeleted"} =>
                  users.committed[<<c.store, c.username>>] \in Known
<1>4. PICK c : Begun(c)
  <2>1. CASE \E e \in Email : GoogleLogin(h, e)
    <3>1. PICK e \in Email : GoogleLogin(h, e)
      BY <2>1
    <3> DEFINE c == [op |-> "googleLogin", at |-> "createPlatformUser",
                     email |-> e, store |-> NoArg, username |-> NoArg]
    <3>2. request' = [request EXCEPT ![h] = c]
      BY <3>1 DEF GoogleLogin, Begin
    <3>3. /\ c.op = "googleLogin" /\ c.at = "createPlatformUser"
          /\ c.email = e /\ c.store = NoArg /\ c.username = NoArg
      OBVIOUS
    <3> HIDE DEF c
    <3>5. Shape(c)
      BY <3>3 DEF Shape, Founding, Inserting
    <3>6. /\ ~ HasAccount(c) /\ ~ HasTenant(c) /\ ~ HasOwner(c)
          /\ ~ HasUser(c) /\ ~ HasRemoved(c)
      BY <3>3 DEF HasAccount, HasTenant, HasOwner, HasUser, HasRemoved, Founding
    <3> QED BY <3>2, <3>3, <3>5, <3>6
  <2>2. CASE \E e \in Email, s \in Store, n \in Username : Register(h, e, s, n)
    <3>1. PICK e \in Email, s \in Store, n \in Username : Register(h, e, s, n)
      BY <2>2
    <3> DEFINE c == [op |-> "register", at |-> "findTenant",
                     email |-> e, store |-> s, username |-> n]
    <3>2. request' = [request EXCEPT ![h] = c]
      BY <3>1 DEF Register, Begin
    <3>3. /\ c.op = "register" /\ c.at = "findTenant"
          /\ c.email = e /\ c.store = s /\ c.username = n
      OBVIOUS
    <3> HIDE DEF c
    <3>5. Shape(c)
      BY <3>3 DEF Shape, Founding, Inserting
    <3>6. /\ ~ HasAccount(c) /\ ~ HasTenant(c) /\ ~ HasOwner(c)
          /\ ~ HasUser(c) /\ ~ HasRemoved(c)
      BY <3>3 DEF HasAccount, HasTenant, HasOwner, HasUser, HasRemoved, Founding
    <3> QED BY <3>2, <3>3, <3>5, <3>6
  <2>3. CASE \E e \in Email, s \in Store, n \in Username : CreateStore(h, e, s, n)
    <3>1. PICK e \in Email, s \in Store, n \in Username : CreateStore(h, e, s, n)
      BY <2>3
    <3> DEFINE c == [op |-> "createStore", at |-> "findUsername",
                     email |-> e, store |-> s, username |-> n]
    <3>2. request' = [request EXCEPT ![h] = c]
      BY <3>1 DEF CreateStore, Begin
    <3>3. /\ c.op = "createStore" /\ c.at = "findUsername"
          /\ c.email = e /\ c.store = s /\ c.username = n
      OBVIOUS
    <3>4. platformUsers.committed[e] \in Account
      BY <3>1, <1>a, <1>t DEF CreateStore, Account, Founded, Known
    <3> HIDE DEF c
    <3>5. Shape(c)
      BY <3>3 DEF Shape, Founding, Inserting
    <3>6. /\ ~ HasAccount(c) /\ ~ HasTenant(c) /\ ~ HasOwner(c)
          /\ ~ HasUser(c) /\ ~ HasRemoved(c)
      BY <3>3 DEF HasAccount, HasTenant, HasOwner, HasUser, HasRemoved, Founding
    <3> QED BY <3>2, <3>3, <3>4, <3>5, <3>6
  <2>4. CASE \E s \in Store, n \in Username : Create(h, s, n)
    <3>1. PICK s \in Store, n \in Username : Create(h, s, n)
      BY <2>4
    <3> DEFINE c == [op |-> "create", at |-> "createUser",
                     email |-> NoArg, store |-> s, username |-> n]
    <3>2. request' = [request EXCEPT ![h] = c]
      BY <3>1 DEF Create, Begin
    <3>3. /\ c.op = "create" /\ c.at = "createUser"
          /\ c.email = NoArg /\ c.store = s /\ c.username = n
      OBVIOUS
    <3>4. tenants.committed[s] \in Founded
      BY <3>1, <1>a, <1>t DEF Create, Account, Founded, Known
    <3> HIDE DEF c
    <3>5. Shape(c)
      BY <3>3 DEF Shape, Founding, Inserting
    <3>6. /\ ~ HasAccount(c) /\ ~ HasTenant(c) /\ ~ HasOwner(c)
          /\ ~ HasUser(c) /\ ~ HasRemoved(c)
      BY <3>3 DEF HasAccount, HasTenant, HasOwner, HasUser, HasRemoved, Founding
    <3> QED BY <3>2, <3>3, <3>4, <3>5, <3>6
  <2>5. CASE \E s \in Store, n \in Username, op \in {"update", "remove"} : FindUser(h, op, s, n)
    <3>1. PICK s \in Store, n \in Username, op \in {"update", "remove"} : FindUser(h, op, s, n)
      BY <2>5
    <3> DEFINE c == [op |-> op, at |-> IF op = "update" THEN "writeRole" ELSE "writeDeleted",
                     email |-> NoArg, store |-> s, username |-> n]
    <3>2. request' = [request EXCEPT ![h] = c]
      BY <3>1 DEF FindUser, Begin
    <3>3. /\ c.op = op /\ c.at = (IF op = "update" THEN "writeRole" ELSE "writeDeleted")
          /\ c.email = NoArg /\ c.store = s /\ c.username = n
      OBVIOUS
    <3>4. users.committed[<<s, n>>] \in Known
      BY <3>1, <1>a, <1>t DEF FindUser, Account, Founded, Known
    <3> HIDE DEF c
    <3>5. Shape(c)
      BY <3>3, <3>1 DEF Shape, Founding, Inserting
    <3>6. /\ ~ HasAccount(c) /\ ~ HasTenant(c) /\ ~ HasOwner(c)
          /\ ~ HasUser(c) /\ ~ HasRemoved(c)
      BY <3>3, <3>1 DEF HasAccount, HasTenant, HasOwner, HasUser, HasRemoved, Founding
    <3> QED BY <3>2, <3>3, <3>4, <3>5, <3>6, <3>1
  <2>6. CASE \E s \in Store : RemoveTenant(h, s)
    <3>1. PICK s \in Store : RemoveTenant(h, s)
      BY <2>6
    <3> DEFINE c == [op |-> "removeTenant", at |-> "removeUsers",
                     email |-> NoArg, store |-> s, username |-> NoArg]
    <3>2. request' = [request EXCEPT ![h] = c]
      BY <3>1 DEF RemoveTenant, Begin
    <3>3. /\ c.op = "removeTenant" /\ c.at = "removeUsers"
          /\ c.email = NoArg /\ c.store = s /\ c.username = NoArg
      OBVIOUS
    <3>4. tenants.committed[s] \in Founded
      BY <3>1, <1>a, <1>t DEF RemoveTenant, Account, Founded, Known
    <3> HIDE DEF c
    <3>5. Shape(c)
      BY <3>3 DEF Shape, Founding, Inserting
    <3>6. /\ ~ HasAccount(c) /\ ~ HasTenant(c) /\ ~ HasOwner(c)
          /\ ~ HasUser(c) /\ ~ HasRemoved(c)
      BY <3>3 DEF HasAccount, HasTenant, HasOwner, HasUser, HasRemoved, Founding
    <3> QED BY <3>2, <3>3, <3>4, <3>5, <3>6
  <2> QED BY <2>1, <2>2, <2>3, <2>4, <2>5, <2>6 DEF AccountsRequest
<1>5. request'[h] = c /\ \A g \in Handler : g # h => request'[g] = request[g]
  BY <1>4, <1>t
<1>6. /\ ~ HasAccount(Idle) /\ ~ HasTenant(Idle) /\ ~ HasOwner(Idle)
      /\ ~ HasUser(Idle) /\ ~ HasRemoved(Idle) /\ ~ IsRemoving(Idle)
  BY DEF HasAccount, HasTenant, HasOwner, HasUser, HasRemoved, IsRemoving, Idle, Founding
<1>7. /\ AccountOf(h, c, platformUsers) /\ TenantOf(h, c, tenants)
      /\ OwnerOf(h, c, members) /\ UserOf(h, c, users)
  BY <1>3, <1>4, <1>6, WithoutLocks, EmptyHanded
<1>8. TablesLast' /\ StoreIsWhole' /\ EmailIsNotWasted'
  BY <1>1 DEF FoundingInv, TablesLast, StoreIsWhole, EmailIsNotWasted, Owners, Staff
<1> QED BY <1>1, <1>2, <1>4, <1>5, <1>7, <1>8, NoEffect, OneMoves

-----------------------------------------------------------------------------
(***************************************************************************)
(* The statements of a founding.                                           *)
(***************************************************************************)

\* What moves in the locals of h when its method goes on.
Moves(h, d) ==
  /\ request'[h] = d
  /\ \A g \in Handler : g # h => request'[g] = request[g]

\* The next statement of a founding, and its arguments.
LEMMA Advances ==
  ASSUME AccountsInv, FoundingInv, NEW h \in Handler, Advance(h),
         request[h].at \in Inserting \cup {"findTenant", "insertPlatformUser"}
  PROVE  \E d \in Request :
           /\ Moves(h, d) /\ Shape(d)
           /\ request[h].op \in Founding
           /\ d.op = request[h].op /\ d.email = request[h].email
           /\ d.store = request[h].store /\ d.username = request[h].username
           /\ request[h].at = "findTenant" =>
                d.op = "register" /\ d.at = "findUsername"
           /\ request[h].at = "findUsername" =>
                d.at = IF d.op = "register" THEN "insertPlatformUser" ELSE "insertTenant"
           /\ request[h].at = "insertPlatformUser" =>
                d.op = "register" /\ d.at = "insertTenant"
           /\ request[h].at = "insertTenant" =>
                d.at = IF d.op = "register" THEN "insertMember" ELSE "insertUser"
           /\ request[h].at = "insertMember" =>
                d.at = IF d.op = "register" THEN "insertUser" ELSE "commit"
           /\ request[h].at = "insertUser" =>
                d.at = IF d.op = "register" THEN "commit" ELSE "insertMember"
<1> DEFINE c == request[h]
           a == Following[c.op][c.at]
           d == [c EXCEPT !.at = a]
<1>1. /\ c \in Request /\ Carries(c) /\ Shape(c)
      /\ request \in [Handler -> Request]
  BY DEF AccountsInv, AccountsTypeOK, FoundingInv
<1>2. c.op \in Founding /\ (c.at \in {"findTenant", "insertPlatformUser"} => c.op = "register")
  BY <1>1 DEF Shape, Carries, Founding
<1>3. /\ c.at = "findTenant" => a = "findUsername"
      /\ c.at = "findUsername" =>
           a = IF c.op = "register" THEN "insertPlatformUser" ELSE "insertTenant"
      /\ c.at = "insertPlatformUser" => a = "insertTenant"
      /\ c.at = "insertTenant" =>
           a = IF c.op = "register" THEN "insertMember" ELSE "insertUser"
      /\ c.at = "insertMember" =>
           a = IF c.op = "register" THEN "insertUser" ELSE "commit"
      /\ c.at = "insertUser" =>
           a = IF c.op = "register" THEN "commit" ELSE "insertMember"
  <2>1. CASE c.op = "register"
    BY <2>1 DEF Following
  <2>2. CASE c.op = "createStore"
    BY <2>2, <1>2 DEF Following
  <2> QED BY <1>2, <2>1, <2>2 DEF Founding
<1>4. a \in Inserting \cup {"insertPlatformUser", "commit"}
  BY <1>3 DEF Inserting
<1>5. /\ d.at = a /\ d.op = c.op /\ d.email = c.email /\ d.store = c.store
      /\ d.username = c.username
      /\ d \in Request
  BY <1>1, <1>4 DEF Request, Statement, Inserting
<1>6. Moves(h, d)
  BY <1>1 DEF Advance, Goto, Moves
<1> HIDE DEF a, d
<1>7. Shape(d)
  BY <1>1, <1>2, <1>4, <1>5 DEF Shape, Inserting, Founding
<1>8. \E x \in Request : x = d
  BY <1>5
<1> QED BY <1>2, <1>3, <1>5, <1>6, <1>7, <1>8

\* A statement that commits nothing leaves what is committed whole.
LEMMA SilentWhole ==
  ASSUME FoundingInv, issued' = issued, viaGoogle' = viaGoogle,
         platformUsers'.committed = platformUsers.committed,
         tenants'.committed = tenants.committed,
         members'.committed = members.committed,
         users'.committed = users.committed
  PROVE  StoreIsWhole' /\ EmailIsNotWasted'
<1>1. \A s \in Store : Owners(s)' = Owners(s) /\ Staff(s)' = Staff(s)
  BY DEF Owners, Staff
<1>2. StoreIsWhole'
  BY <1>1 DEF FoundingInv, StoreIsWhole
<1>3. EmailIsNotWasted'
  BY <1>1 DEF FoundingInv, EmailIsNotWasted
<1> QED BY <1>2, <1>3

\* The parts of the invariant depend on the statement only through what it
\* has written.
LEMMA SameAccount ==
  ASSUME NEW h, NEW c, NEW d, NEW t, AccountOf(h, c, t),
         HasAccount(d) <=> HasAccount(c), d.op = c.op, d.email = c.email
  PROVE  AccountOf(h, d, t)
BY DEF AccountOf

\* A request that goes on has the store it had,
LEMMA SameTenant ==
  ASSUME NEW h, NEW c, NEW d, NEW t, TenantOf(h, c, t),
         HasTenant(d) <=> HasTenant(c), HasRemoved(d) <=> HasRemoved(c),
         d.op = c.op, d.store = c.store
  PROVE  TenantOf(h, d, t)
BY DEF TenantOf

\* the owner it had
LEMMA SameOwner ==
  ASSUME NEW h, NEW c, NEW d, NEW t, OwnerOf(h, c, t),
         HasOwner(d) <=> HasOwner(c), d.email = c.email, d.store = c.store
  PROVE  OwnerOf(h, d, t)
BY DEF OwnerOf

\* and the user it had.
LEMMA SameUser ==
  ASSUME NEW h, NEW c, NEW d, NEW t, UserOf(h, c, t),
         HasUser(d) <=> HasUser(c), IsRemoving(d) <=> IsRemoving(c),
         d.at \notin {"createToken", "writeRole", "writeDeleted"},
         d.store = c.store, d.username = c.username
  PROVE  UserOf(h, d, t)
BY DEF UserOf

\* The checks write nothing.
LEMMA FoundingFind ==
  ASSUME AccountsInv, FoundingInv, NEW h \in Handler, AccountsInv',
         FindTenant(h) \/ FindUsername(h)
  PROVE  FoundingInv'
<1> DEFINE c == request[h]
<1>1. /\ c.at \in {"findTenant", "findUsername"} /\ Advance(h)
      /\ UNCHANGED <<platformUsers, tenants, members, users, issued, viaGoogle>>
  BY DEF FindTenant, FindUsername, At, tableVars
<1>2. PICK d \in Request :
        /\ Moves(h, d) /\ Shape(d) /\ c.op \in Founding
        /\ d.op = c.op /\ d.email = c.email /\ d.store = c.store /\ d.username = c.username
        /\ d.at \in {"findUsername", "insertPlatformUser", "insertTenant"}
        /\ d.at = "insertTenant" => d.op = "createStore"
  BY <1>1, Advances DEF Inserting, Founding
<1>3. /\ AccountOf(h, c, platformUsers) /\ TenantOf(h, c, tenants)
      /\ OwnerOf(h, c, members) /\ UserOf(h, c, users)
  BY DEF FoundingInv
<1> HIDE DEF c
<1>4. /\ ~ HasAccount(c) /\ ~ HasTenant(c) /\ ~ HasOwner(c)
      /\ ~ HasUser(c) /\ ~ HasRemoved(c) /\ ~ IsRemoving(c)
      /\ ~ HasAccount(d) /\ ~ HasTenant(d) /\ ~ HasOwner(d)
      /\ ~ HasUser(d) /\ ~ HasRemoved(d) /\ ~ IsRemoving(d)
  BY <1>1, <1>2 DEF HasAccount, HasTenant, HasOwner, HasUser, HasRemoved, IsRemoving, Founding
<1>5. /\ AccountOf(h, d, platformUsers) /\ TenantOf(h, d, tenants)
      /\ OwnerOf(h, d, members) /\ UserOf(h, d, users)
  BY <1>2, <1>3, <1>4, SameAccount, SameTenant, SameOwner, SameUser
<1>6. TablesLast' /\ StoreIsWhole' /\ EmailIsNotWasted'
  BY <1>1, SilentWhole DEF FoundingInv, TablesLast
<1> QED BY <1>1, <1>2, <1>5, <1>6, NoEffect, OneMoves DEF Moves

\* register inserts the account.
LEMMA FoundingInsertPlatformUser ==
  ASSUME AccountsInv, FoundingInv, NEW h \in Handler, AccountsInv', InsertPlatformUser(h)
  PROVE  FoundingInv'
<1> DEFINE c == request[h]
           k == c.email
           row == "exists"
<1>1. /\ c.at = "insertPlatformUser" /\ Advance(h) /\ Free(platformUsers, h, k)
      /\ platformUsers.current[k] = "none"
      /\ platformUsers' = Update(platformUsers, h, k, row)
      /\ UNCHANGED <<tenants, members, users, issued, viaGoogle>>
  BY DEF InsertPlatformUser, At
<1>2. PICK d \in Request :
        /\ Moves(h, d) /\ Shape(d) /\ c.op \in Founding
        /\ d.op = c.op /\ d.email = c.email /\ d.store = c.store /\ d.username = c.username
        /\ d.op = "register" /\ d.at = "insertTenant"
  BY <1>1, Advances DEF Inserting
<1>3. /\ AccountOf(h, c, platformUsers) /\ TenantOf(h, c, tenants)
      /\ OwnerOf(h, c, members) /\ UserOf(h, c, users) /\ Shape(c)
      /\ Lasting(platformUsers, Account)
      /\ platformUsers \in Table(Email, {"none", "exists"}, Handler)
  BY DEF FoundingInv, TablesLast, AccountsInv, AccountsTypeOK
<1>4. k \in Email
  BY <1>2, <1>3 DEF Shape
<1>5. row \in Account
  BY <1>1, <1>3, <1>4 DEF Account
<1> HIDE DEF k, row, c
<1>6. /\ Keeps(platformUsers, platformUsers', h) /\ Lasting(platformUsers', Account)
      /\ Stays(platformUsers, platformUsers', Account)
      /\ platformUsers'.committed = platformUsers.committed
      /\ platformUsers'.current[k] = row /\ platformUsers'.holder[k] = h
      /\ \A j \in Email : j # k => platformUsers'.holder[j] = platformUsers.holder[j]
  BY <1>1, <1>3, <1>4, <1>5, UpdateEffect
<1>7. /\ ~ HasAccount(c) /\ HasAccount(d)
      /\ HasTenant(d) <=> HasTenant(c)
      /\ HasOwner(d) <=> HasOwner(c)
      /\ HasUser(d) <=> HasUser(c)
      /\ HasRemoved(d) <=> HasRemoved(c)
      /\ IsRemoving(d) <=> IsRemoving(c)
      /\ d.at \notin {"createToken", "writeRole", "writeDeleted"}
  BY <1>1, <1>2 DEF HasAccount, HasTenant, HasOwner, HasUser, HasRemoved,
             IsRemoving, Founding
<1>8. /\ TenantOf(h, d, tenants) /\ OwnerOf(h, d, members)
      /\ UserOf(h, d, users)
  BY <1>2, <1>3, <1>7, SameTenant, SameOwner, SameUser
<1>9. AccountOf(h, d, platformUsers')
  BY <1>2, <1>3, <1>5, <1>6, <1>7 DEF AccountOf, k
<1>10. TablesLast' /\ StoreIsWhole' /\ EmailIsNotWasted'
  BY <1>1, <1>6, SilentWhole DEF FoundingInv, TablesLast
<1> QED BY <1>1, <1>2, <1>6, <1>8, <1>9, <1>10, NoEffect, OneMoves DEF Moves

\* The store is inserted by one of the methods, and only if it was not there.
LEMMA FoundingInsertTenant ==
  ASSUME AccountsInv, FoundingInv, NEW h \in Handler, AccountsInv', InsertTenant(h)
  PROVE  FoundingInv'
<1> DEFINE c == request[h]
           k == c.store
           row == "live"
<1>1. /\ c.at = "insertTenant" /\ Advance(h) /\ Free(tenants, h, k)
      /\ tenants.current[k] = "none"
      /\ tenants' = Update(tenants, h, k, row)
      /\ UNCHANGED <<platformUsers, members, users, issued, viaGoogle>>
  BY DEF InsertTenant, At
<1>2. PICK d \in Request :
        /\ Moves(h, d) /\ Shape(d) /\ c.op \in Founding
        /\ d.op = c.op /\ d.email = c.email /\ d.store = c.store /\ d.username = c.username
        /\ d.at = IF d.op = "register" THEN "insertMember" ELSE "insertUser"
  BY <1>1, Advances DEF Inserting
<1>3. /\ AccountOf(h, c, platformUsers) /\ TenantOf(h, c, tenants)
      /\ OwnerOf(h, c, members) /\ UserOf(h, c, users) /\ Shape(c)
      /\ Lasting(tenants, Founded)
      /\ tenants \in Table(Store, TenantRow, Handler)
  BY DEF FoundingInv, TablesLast, AccountsInv, AccountsTypeOK
<1>4. k \in Store
  BY <1>2, <1>3 DEF Shape
<1>5. row \in Founded /\ tenants.committed[k] = "none"
  BY <1>1, <1>3, <1>4 DEF Founded, Lasting, Table, TenantRow
<1> HIDE DEF k, row, c
<1>6. /\ Keeps(tenants, tenants', h) /\ Lasting(tenants', Founded)
      /\ Stays(tenants, tenants', Founded)
      /\ tenants'.committed = tenants.committed
      /\ tenants'.current[k] = row /\ tenants'.holder[k] = h
      /\ \A j \in Store : j # k => tenants'.holder[j] = tenants.holder[j]
  BY <1>1, <1>3, <1>4, <1>5, UpdateEffect
<1>7. /\ ~ HasTenant(c) /\ HasTenant(d)
      /\ HasAccount(d) <=> HasAccount(c)
      /\ HasOwner(d) <=> HasOwner(c)
      /\ HasUser(d) <=> HasUser(c)
      /\ HasRemoved(d) <=> HasRemoved(c)
      /\ ~ HasRemoved(c)
      /\ IsRemoving(d) <=> IsRemoving(c)
      /\ d.at \notin {"createToken", "writeRole", "writeDeleted"}
      /\ d.op \notin {"create", "removeTenant"}
  BY <1>1, <1>2 DEF HasAccount, HasTenant, HasOwner, HasUser, HasRemoved,
             IsRemoving, Founding
<1>8. /\ AccountOf(h, d, platformUsers) /\ OwnerOf(h, d, members)
      /\ UserOf(h, d, users)
  BY <1>2, <1>3, <1>7, SameAccount, SameOwner, SameUser
<1>9. TenantOf(h, d, tenants')
  BY <1>2, <1>3, <1>5, <1>6, <1>7 DEF TenantOf, k
<1>10. TablesLast' /\ StoreIsWhole' /\ EmailIsNotWasted'
  BY <1>1, <1>6, SilentWhole DEF FoundingInv, TablesLast
<1> QED BY <1>1, <1>2, <1>6, <1>8, <1>9, <1>10, NoEffect, OneMoves DEF Moves

\* So is its owner.
LEMMA FoundingInsertMember ==
  ASSUME AccountsInv, FoundingInv, NEW h \in Handler, AccountsInv', InsertMember(h)
  PROVE  FoundingInv'
<1> DEFINE c == request[h]
           k == <<c.email, c.store>>
           row == "OWNER"
<1>1. /\ c.at = "insertMember" /\ Advance(h) /\ Free(members, h, k)
      /\ members.current[k] = "none"
      /\ members' = Update(members, h, k, row)
      /\ UNCHANGED <<platformUsers, tenants, users, issued, viaGoogle>>
  BY DEF InsertMember, At
<1>2. PICK d \in Request :
        /\ Moves(h, d) /\ Shape(d) /\ c.op \in Founding
        /\ d.op = c.op /\ d.email = c.email /\ d.store = c.store /\ d.username = c.username
        /\ d.at = IF d.op = "register" THEN "insertUser" ELSE "commit"
  BY <1>1, Advances DEF Inserting
<1>3. /\ AccountOf(h, c, platformUsers) /\ TenantOf(h, c, tenants)
      /\ OwnerOf(h, c, members) /\ UserOf(h, c, users) /\ Shape(c)
      /\ Lasting(members, Owner)
      /\ members \in Table(Email \X Store, {"none", "OWNER"}, Handler)
  BY DEF FoundingInv, TablesLast, AccountsInv, AccountsTypeOK
<1>4. k \in Email \X Store
  BY <1>2, <1>3 DEF Shape
<1>5. row \in Owner
  BY <1>1, <1>3, <1>4 DEF Owner
<1> HIDE DEF k, row, c
<1>6. /\ Keeps(members, members', h) /\ Lasting(members', Owner)
      /\ Stays(members, members', Owner)
      /\ members'.committed = members.committed
      /\ members'.current[k] = row /\ members'.holder[k] = h
      /\ \A j \in Email \X Store : j # k => members'.holder[j] = members.holder[j]
  BY <1>1, <1>3, <1>4, <1>5, UpdateEffect
<1>7. /\ ~ HasOwner(c) /\ HasOwner(d)
      /\ HasAccount(d) <=> HasAccount(c)
      /\ HasTenant(d) <=> HasTenant(c)
      /\ HasUser(d) <=> HasUser(c)
      /\ HasRemoved(d) <=> HasRemoved(c)
      /\ IsRemoving(d) <=> IsRemoving(c)
      /\ d.at \notin {"createToken", "writeRole", "writeDeleted"}
  BY <1>1, <1>2 DEF HasAccount, HasTenant, HasOwner, HasUser, HasRemoved,
             IsRemoving, Founding
<1>8. /\ AccountOf(h, d, platformUsers) /\ TenantOf(h, d, tenants)
      /\ UserOf(h, d, users)
  BY <1>2, <1>3, <1>7, SameAccount, SameTenant, SameUser
<1>9. OwnerOf(h, d, members')
  BY <1>2, <1>3, <1>5, <1>6, <1>7 DEF OwnerOf, k
<1>10. TablesLast' /\ StoreIsWhole' /\ EmailIsNotWasted'
  BY <1>1, <1>6, SilentWhole DEF FoundingInv, TablesLast
<1> QED BY <1>1, <1>2, <1>6, <1>8, <1>9, <1>10, NoEffect, OneMoves DEF Moves

\* And its first user.
LEMMA FoundingInsertUser ==
  ASSUME AccountsInv, FoundingInv, NEW h \in Handler, AccountsInv', InsertUser(h)
  PROVE  FoundingInv'
<1> DEFINE c == request[h]
           k == <<c.store, c.username>>
           row == [status |-> "live", role |-> "ADMIN"]
<1>1. /\ c.at = "insertUser" /\ Advance(h) /\ Free(users, h, k)
      /\ users.current[k] = NoUser
      /\ users' = Update(users, h, k, row)
      /\ UNCHANGED <<platformUsers, tenants, members, issued, viaGoogle>>
  BY DEF InsertUser, At
<1>2. PICK d \in Request :
        /\ Moves(h, d) /\ Shape(d) /\ c.op \in Founding
        /\ d.op = c.op /\ d.email = c.email /\ d.store = c.store /\ d.username = c.username
        /\ d.at = IF d.op = "register" THEN "commit" ELSE "insertMember"
  BY <1>1, Advances DEF Inserting
<1>3. /\ AccountOf(h, c, platformUsers) /\ TenantOf(h, c, tenants)
      /\ OwnerOf(h, c, members) /\ UserOf(h, c, users) /\ Shape(c)
      /\ Lasting(users, Known)
      /\ users \in Table(Store \X Username, UserRow, Handler)
  BY DEF FoundingInv, TablesLast, AccountsInv, AccountsTypeOK
<1>4. k \in Store \X Username
  BY <1>2, <1>3 DEF Shape
<1>5. row \in Known
  BY <1>1, <1>3, <1>4 DEF Known, UserRow
<1> HIDE DEF k, row, c
<1>6. /\ Keeps(users, users', h) /\ Lasting(users', Known)
      /\ Stays(users, users', Known)
      /\ users'.committed = users.committed
      /\ users'.current[k] = row /\ users'.holder[k] = h
      /\ \A j \in Store \X Username : j # k => users'.holder[j] = users.holder[j]
  BY <1>1, <1>3, <1>4, <1>5, UpdateEffect
<1>7. /\ ~ HasUser(c) /\ HasUser(d)
      /\ HasAccount(d) <=> HasAccount(c)
      /\ HasTenant(d) <=> HasTenant(c)
      /\ HasOwner(d) <=> HasOwner(c)
      /\ HasRemoved(d) <=> HasRemoved(c)
      /\ ~ IsRemoving(c) /\ ~ IsRemoving(d)
      /\ d.at \notin {"createToken", "writeRole", "writeDeleted"}
  BY <1>1, <1>2 DEF HasAccount, HasTenant, HasOwner, HasUser, HasRemoved,
             IsRemoving, Founding
<1>8. /\ AccountOf(h, d, platformUsers) /\ TenantOf(h, d, tenants)
      /\ OwnerOf(h, d, members)
  BY <1>2, <1>3, <1>7, SameAccount, SameTenant, SameOwner
<1>9. UserOf(h, d, users')
  BY <1>2, <1>3, <1>5, <1>6, <1>7 DEF UserOf, k
<1>10. TablesLast' /\ StoreIsWhole' /\ EmailIsNotWasted'
  BY <1>1, <1>6, SilentWhole DEF FoundingInv, TablesLast
<1> QED BY <1>1, <1>2, <1>6, <1>8, <1>9, <1>10, NoEffect, OneMoves DEF Moves

-----------------------------------------------------------------------------
(***************************************************************************)
(* The end of a request, and the statements outside transactions.          *)
(***************************************************************************)

\* A request that holds no row may end.
LEMMA IdleOf ==
  ASSUME NEW h \in Handler,
         NEW p, \A e \in Email : p.holder[e] # h,
         NEW t, \A s \in Store : t.holder[s] # h,
         NEW m, \A e \in Email, s \in Store : m.holder[<<e, s>>] # h,
         NEW u, \A s \in Store, n \in Username : u.holder[<<s, n>>] # h
  PROVE  /\ AccountOf(h, Idle, p) /\ TenantOf(h, Idle, t)
         /\ OwnerOf(h, Idle, m) /\ UserOf(h, Idle, u)
         /\ Shape(Idle)
<1>1. /\ Idle.op = "none" /\ Idle.at = "idle"
  BY DEF Idle
<1>2. /\ ~ HasAccount(Idle) /\ ~ HasTenant(Idle) /\ ~ HasOwner(Idle)
      /\ ~ HasUser(Idle) /\ ~ HasRemoved(Idle)
  BY <1>1 DEF HasAccount, HasTenant, HasOwner, HasUser, HasRemoved, Founding
<1>3. Shape(Idle)
  BY <1>1 DEF Shape, Founding, Inserting
<1> QED BY <1>1, <1>2, <1>3 DEF AccountOf, TenantOf, OwnerOf, UserOf

\* An answer changes only the request.
LEMMA Responds ==
  ASSUME AccountsInv, NEW h \in Handler, Respond(h)
  PROVE  Moves(h, Idle)
BY DEF AccountsInv, AccountsTypeOK, Respond, Moves

\* A request that is given up leaves no trace.
LEMMA FoundingAbort ==
  ASSUME AccountsInv, FoundingInv, NEW h \in Handler, AccountsInv', Abort(h)
  PROVE  FoundingInv'
<1>1. /\ platformUsers' = Rollback(platformUsers, h)
      /\ tenants' = Rollback(tenants, h)
      /\ members' = Rollback(members, h)
      /\ users' = Rollback(users, h)
      /\ issued' = issued /\ viaGoogle' = viaGoogle
      /\ Moves(h, Idle)
  BY Responds DEF Abort
<1>2. /\ Lasting(platformUsers, Account) /\ Lasting(tenants, Founded)
      /\ Lasting(members, Owner) /\ Lasting(users, Known)
      /\ platformUsers \in Table(Email, {"none", "exists"}, Handler)
      /\ tenants \in Table(Store, TenantRow, Handler)
      /\ members \in Table(Email \X Store, {"none", "OWNER"}, Handler)
      /\ users \in Table(Store \X Username, UserRow, Handler)
  BY DEF FoundingInv, TablesLast, AccountsInv, AccountsTypeOK
<1>3. /\ Keeps(platformUsers, platformUsers', h) /\ Lasting(platformUsers', Account)
      /\ Stays(platformUsers, platformUsers', Account)
      /\ platformUsers'.committed = platformUsers.committed
      /\ \A e \in Email : platformUsers'.holder[e] # h
  BY <1>1, <1>2, EndEffect
<1>4. /\ Keeps(tenants, tenants', h) /\ Lasting(tenants', Founded)
      /\ Stays(tenants, tenants', Founded)
      /\ tenants'.committed = tenants.committed
      /\ \A s \in Store : tenants'.holder[s] # h
  BY <1>1, <1>2, EndEffect
<1>5. /\ Keeps(members, members', h) /\ Lasting(members', Owner)
      /\ Stays(members, members', Owner)
      /\ members'.committed = members.committed
      /\ \A k \in Email \X Store : members'.holder[k] # h
  BY <1>1, <1>2, EndEffect
<1>6. /\ Keeps(users, users', h) /\ Lasting(users', Known)
      /\ Stays(users, users', Known)
      /\ users'.committed = users.committed
      /\ \A k \in Store \X Username : users'.holder[k] # h
  BY <1>1, <1>2, EndEffect
<1>7. /\ AccountOf(h, Idle, platformUsers') /\ TenantOf(h, Idle, tenants')
      /\ OwnerOf(h, Idle, members') /\ UserOf(h, Idle, users') /\ Shape(Idle)
  <2>1. /\ \A e \in Email, s \in Store : members'.holder[<<e, s>>] # h
        /\ \A s \in Store, n \in Username : users'.holder[<<s, n>>] # h
    BY <1>5, <1>6
  <2> QED BY <1>3, <1>4, <2>1, IdleOf
<1>8. TablesLast' /\ StoreIsWhole' /\ EmailIsNotWasted'
  BY <1>1, <1>3, <1>4, <1>5, <1>6, SilentWhole DEF TablesLast
<1> QED BY <1>1, <1>3, <1>4, <1>5, <1>6, <1>7, <1>8, OneMoves DEF Moves

\* The token is for a user that is there.
LEMMA FoundingCreateToken ==
  ASSUME AccountsInv, FoundingInv, NEW h \in Handler, AccountsInv', CreateToken(h)
  PROVE  FoundingInv'
<1> DEFINE c == request[h]
           k == <<c.store, c.username>>
<1>1. /\ c.at = "createToken" /\ issued' = issued \cup {k} /\ Moves(h, Idle)
      /\ UNCHANGED <<platformUsers, tenants, members, users, viaGoogle>>
  BY Responds DEF CreateToken, At, tableVars
<1>2. /\ UserOf(h, c, users) /\ Shape(c)
      /\ AccountsTypeOK /\ AccountsTypeOK' /\ StoreIsWhole /\ EmailIsNotWasted
  BY DEF FoundingInv, AccountsInv
<1>3. k \in Store \X Username
  BY <1>1, <1>2 DEF Shape
<1>4. users.committed[k] \in Known
  BY <1>1, <1>2 DEF UserOf
<1> HIDE DEF k
<1>5. ~ HasAccount(c) /\ ~ HasTenant(c) /\ ~ HasOwner(c)
      /\ ~ HasUser(c) /\ ~ HasRemoved(c) /\ ~ IsRemoving(c)
  BY <1>1 DEF HasAccount, HasTenant, HasOwner, HasUser, HasRemoved, IsRemoving
<1>6. /\ AccountOf(h, Idle, platformUsers) /\ TenantOf(h, Idle, tenants)
      /\ OwnerOf(h, Idle, members) /\ UserOf(h, Idle, users) /\ Shape(Idle)
  BY <1>5, WithoutLocks, IdleOf
<1>7. StoreIsWhole'
  <2>1. \A j \in issued' : j \in Store \X Username /\ users'.committed[j] \in Known
    BY <1>1, <1>2, <1>3, <1>4 DEF StoreIsWhole, AccountsTypeOK, Table, Known
  <2>2. /\ users' \in Table(Store \X Username, UserRow, Handler)
        /\ tenants' \in Table(Store, TenantRow, Handler)
    BY <1>2 DEF AccountsTypeOK
  <2>3. Stays(platformUsers, platformUsers', Account) /\ Stays(users, users', Known)
    BY <1>1, NoEffect
  <2>4. users'.committed = users.committed /\ tenants'.committed = tenants.committed
        /\ members'.committed = members.committed
    BY <1>1
  <2> QED BY <1>2, <2>1, <2>2, <2>3, <2>4, WholeStays
<1>8. EmailIsNotWasted'
  BY <1>1, <1>2, EmailStays
<1>9. TablesLast'
  BY <1>1 DEF FoundingInv, TablesLast
<1> QED BY <1>1, <1>6, <1>7, <1>8, <1>9, NoEffect, OneMoves DEF Moves

\* The first Google login of an e-mail inserts its account at once.
LEMMA FoundingCreatePlatformUser ==
  ASSUME AccountsInv, FoundingInv, NEW h \in Handler, AccountsInv',
         CreatePlatformUser(h)
  PROVE  FoundingInv'
<1> DEFINE c == request[h]
           k == c.email
<1>1. /\ c.at = "createPlatformUser" /\ viaGoogle' = viaGoogle \cup {k}
      /\ Free(platformUsers, h, k)
      /\ platformUsers' = Overwrite(platformUsers, k, "exists")
      /\ Moves(h, Idle)
      /\ UNCHANGED <<tenants, members, users, issued>>
  BY Responds DEF CreatePlatformUser, At
<1>2. /\ Carries(c)
      /\ AccountsTypeOK /\ AccountsTypeOK' /\ StoreIsWhole /\ EmailIsNotWasted
      /\ Lasting(platformUsers, Account)
      /\ platformUsers \in Table(Email, {"none", "exists"}, Handler)
  BY DEF FoundingInv, AccountsInv, TablesLast, AccountsTypeOK
<1>3. k \in Email /\ "exists" \in Account
  BY <1>1, <1>2 DEF Carries, Account
<1>4. ~ HasAccount(c) /\ ~ HasTenant(c) /\ ~ HasOwner(c)
      /\ ~ HasUser(c) /\ ~ HasRemoved(c) /\ ~ IsRemoving(c)
  BY <1>1 DEF HasAccount, HasTenant, HasOwner, HasUser, HasRemoved, IsRemoving
<1> HIDE DEF k
<1>5. /\ Keeps(platformUsers, platformUsers', h)
      /\ Lasting(platformUsers', Account)
      /\ Stays(platformUsers, platformUsers', Account)
      /\ platformUsers'.holder = platformUsers.holder
      /\ \A j \in Email : j # k => platformUsers'.committed[j] = platformUsers.committed[j]
  BY <1>1, <1>2, <1>3, OverwriteEffect
<1>6. /\ AccountOf(h, Idle, platformUsers') /\ TenantOf(h, Idle, tenants)
      /\ OwnerOf(h, Idle, members) /\ UserOf(h, Idle, users) /\ Shape(Idle)
  BY <1>4, <1>5, WithoutLocks, IdleOf
<1>7. StoreIsWhole'
  <2>1. \A j \in issued' : j \in Store \X Username /\ users'.committed[j] \in Known
    BY <1>1, <1>2 DEF StoreIsWhole, AccountsTypeOK, Table, Known
  <2>2. /\ users' \in Table(Store \X Username, UserRow, Handler)
        /\ tenants' \in Table(Store, TenantRow, Handler)
    BY <1>2 DEF AccountsTypeOK
  <2>3. Stays(users, users', Known)
    BY <1>1, NoEffect
  <2>4. users'.committed = users.committed /\ tenants'.committed = tenants.committed
        /\ members'.committed = members.committed
    BY <1>1
  <2> QED BY <1>2, <1>5, <2>1, <2>2, <2>3, <2>4, WholeStays
<1>8. EmailIsNotWasted'
  BY <1>1, <1>2, <1>5, EmailStays
<1>9. TablesLast'
  BY <1>1, <1>5 DEF FoundingInv, TablesLast
<1> QED BY <1>1, <1>5, <1>6, <1>7, <1>8, <1>9, NoEffect, OneMoves DEF Moves

\* A user is only written in a store that exists.
LEMMA UserWritten ==
  ASSUME AccountsInv, FoundingInv, NEW h \in Handler, AccountsInv', Moves(h, Idle),
         NEW s \in Store, NEW n \in Username, NEW row \in Known,
         Free(users, h, <<s, n>>), users' = Overwrite(users, <<s, n>>, row),
         users.committed[<<s, n>>] \in Known \/ tenants.committed[s] \in Founded,
         UNCHANGED <<platformUsers, tenants, members, issued, viaGoogle>>,
         request[h].at \in {"createUser", "writeRole", "writeDeleted"}
  PROVE  FoundingInv'
<1> DEFINE c == request[h]
           k == <<s, n>>
<1>1. /\ AccountsTypeOK /\ AccountsTypeOK' /\ StoreIsWhole /\ EmailIsNotWasted
      /\ Lasting(users, Known)
      /\ users \in Table(Store \X Username, UserRow, Handler)
      /\ users' \in Table(Store \X Username, UserRow, Handler)
      /\ tenants' \in Table(Store, TenantRow, Handler)
  BY DEF FoundingInv, AccountsInv, TablesLast, AccountsTypeOK
<1>2. ~ HasAccount(c) /\ ~ HasTenant(c) /\ ~ HasOwner(c)
      /\ ~ HasUser(c) /\ ~ HasRemoved(c) /\ ~ IsRemoving(c)
  BY DEF HasAccount, HasTenant, HasOwner, HasUser, HasRemoved, IsRemoving
<1>3. k \in Store \X Username
  OBVIOUS
<1>4. /\ Free(users, h, k) /\ users' = Overwrite(users, k, row)
      /\ users.committed[k] \in Known => row \in Known
  OBVIOUS
<1> HIDE DEF k
<1> DEFINE t == Overwrite(users, k, row)
<1>t. /\ Keeps(users, t, h) /\ Lasting(t, Known) /\ Stays(users, t, Known)
      /\ t.holder = users.holder
      /\ \A j \in Store \X Username : j # k => t.committed[j] = users.committed[j]
  BY <1>1, <1>3, <1>4, OverwriteEffect
<1>5. /\ Keeps(users, users', h)
      /\ Lasting(users', Known)
      /\ Stays(users, users', Known)
      /\ users'.holder = users.holder
      /\ \A j \in Store \X Username : j # k => users'.committed[j] = users.committed[j]
  BY <1>4, <1>t
<1>6. /\ AccountOf(h, Idle, platformUsers) /\ TenantOf(h, Idle, tenants)
      /\ OwnerOf(h, Idle, members) /\ UserOf(h, Idle, users') /\ Shape(Idle)
  BY <1>2, <1>5, WithoutLocks, IdleOf
<1>7. StoreIsWhole'
  <2>1. \A j \in issued : j \in Store \X Username /\ users.committed[j] \in Known
    BY <1>1 DEF StoreIsWhole, AccountsTypeOK, Table, Known
  <2>2. \A j \in issued' : j \in Store \X Username /\ users'.committed[j] \in Known
    <3>1. DOMAIN users.holder = Store \X Username
      BY <1>1 DEF Table
    <3> QED BY <2>1, <3>1, <1>5 DEF Stays
  <2>3. \A r \in Store, m \in Username :
          users'.committed[<<r, m>>] \in Known =>
            users.committed[<<r, m>>] \in Known \/ tenants.committed[r] \in Founded
    <3>1. ASSUME NEW r \in Store, NEW m \in Username, <<r, m>> # k,
                 users'.committed[<<r, m>>] \in Known
          PROVE  users.committed[<<r, m>>] \in Known
      <4>1. <<r, m>> \in Store \X Username
        OBVIOUS
      <4> QED BY <3>1, <4>1, <1>5
    <3>2. ASSUME NEW r \in Store, NEW m \in Username, <<r, m>> = k
          PROVE  users.committed[<<r, m>>] \in Known \/ tenants.committed[r] \in Founded
      BY <3>2 DEF k
    <3> QED BY <3>1, <3>2
  <2>4. Stays(platformUsers, platformUsers', Account)
    BY NoEffect
  <2>5. tenants'.committed = tenants.committed /\ members'.committed = members.committed
    OBVIOUS
  <2> QED BY <1>1, <1>5, <2>2, <2>3, <2>4, <2>5, WholeStays
<1>8. EmailIsNotWasted'
  BY <1>1, EmailStays
<1>9. TablesLast'
  BY <1>5 DEF FoundingInv, TablesLast
<1> QED BY <1>5, <1>6, <1>7, <1>8, <1>9, NoEffect, OneMoves DEF Moves

\* Changing or removing a user founds nothing.
LEMMA FoundingWriteUser ==
  ASSUME AccountsInv, FoundingInv, NEW h \in Handler, AccountsInv',
         \/ \E role \in {"ADMIN", "STAFF"} : CreateUser(h, role) \/ WriteRole(h, role)
         \/ WriteDeleted(h)
  PROVE  FoundingInv'
<1> DEFINE c == request[h]
           k == <<c.store, c.username>>
<1>1. /\ UserOf(h, c, users) /\ TenantOf(h, c, tenants) /\ Shape(c) /\ Carries(c)
      /\ Lasting(users, Known)
      /\ users \in Table(Store \X Username, UserRow, Handler)
  BY DEF FoundingInv, AccountsInv, TablesLast, AccountsTypeOK
<1>2. c.at \in {"createUser", "writeRole", "writeDeleted"}
  <2>1. ASSUME NEW role \in {"ADMIN", "STAFF"}, CreateUser(h, role) \/ WriteRole(h, role)
        PROVE  c.at \in {"createUser", "writeRole"}
    BY <2>1 DEF CreateUser, WriteRole, At
  <2> QED BY <2>1 DEF WriteDeleted, At
<1>3. c.store \in Store /\ c.username \in Username
  BY <1>1, <1>2 DEF Carries
<1>4. /\ DOMAIN users.holder = Store \X Username
      /\ \A j \in Store \X Username : users.current[j] \in UserRow
  BY <1>1 DEF Table
<1>5. PICK row \in Known :
        /\ Free(users, h, k) /\ users' = Overwrite(users, k, row)
        /\ Respond(h)
        /\ UNCHANGED <<platformUsers, tenants, members, issued, viaGoogle>>
        /\ users.committed[k] \in Known \/ tenants.committed[c.store] \in Founded
  <2>1. ASSUME NEW role \in {"ADMIN", "STAFF"}, CreateUser(h, role)
        PROVE  /\ [status |-> "live", role |-> role] \in Known
               /\ Free(users, h, k)
               /\ users' = Overwrite(users, k, [status |-> "live", role |-> role])
               /\ Respond(h)
               /\ UNCHANGED <<platformUsers, tenants, members, issued, viaGoogle>>
               /\ tenants.committed[c.store] \in Founded
    <3>1. c.op = "create"
      BY <2>1, <1>1 DEF CreateUser, At, Shape
    <3> QED BY <2>1, <3>1, <1>1 DEF CreateUser, TenantOf, Known, UserRow
  <2>2. CASE c.at \in {"writeRole", "writeDeleted"}
    <3>1. users.committed[k] \in Known
      BY <2>2, <1>1 DEF UserOf
    <3>2. users.current[k] \in Known
      BY <3>1, <1>1, <1>3, <1>4 DEF Lasting
    <3>3. /\ \A role \in {"ADMIN", "STAFF"} : [users.current[k] EXCEPT !.role = role] \in Known
          /\ [users.current[k] EXCEPT !.status = "removed"] \in Known
      BY <3>2 DEF Known, UserRow
    <3> QED BY <2>2, <3>1, <3>3 DEF CreateUser, WriteRole, WriteDeleted, At
  <2>3. CASE c.at = "createUser"
    BY <2>1, <2>3 DEF WriteRole, WriteDeleted, At
  <2> QED BY <1>2, <2>2, <2>3
<1> QED BY <1>2, <1>3, <1>5, Responds, UserWritten

-----------------------------------------------------------------------------
(***************************************************************************)
(* The removal of a store, and the commit of either transaction.           *)
(***************************************************************************)

\* The users of a removed store go in its transaction.
LEMMA FoundingRemoveUsers ==
  ASSUME AccountsInv, FoundingInv, NEW h \in Handler, AccountsInv', RemoveUsers(h)
  PROVE  FoundingInv'
<1> DEFINE c == request[h]
           rows == {k \in {c.store} \X Username : users.committed[k].status # "none"}
           d == [c EXCEPT !.at = "removeTenant"]
           current == [k \in DOMAIN users.current |->
                         IF k \in rows THEN [users.current[k] EXCEPT !.status = "removed"]
                                       ELSE users.current[k]]
           holder == [k \in DOMAIN users.holder |->
                        IF k \in rows THEN h ELSE users.holder[k]]
<1>1. /\ c.at = "removeUsers" /\ \A k \in rows : Free(users, h, k)
      /\ users' = [users EXCEPT !.current = current, !.holder = holder]
      /\ UNCHANGED <<platformUsers, tenants, members, issued, viaGoogle>>
  BY DEF RemoveUsers, At
<1>2. /\ AccountOf(h, c, platformUsers) /\ TenantOf(h, c, tenants)
      /\ OwnerOf(h, c, members) /\ UserOf(h, c, users) /\ Shape(c) /\ Carries(c)
      /\ Lasting(users, Known)
      /\ users \in Table(Store \X Username, UserRow, Handler)
      /\ c \in Request /\ request \in [Handler -> Request]
  BY DEF FoundingInv, TablesLast, AccountsInv, AccountsTypeOK
<1>3. /\ Moves(h, d)
      /\ d.at = "removeTenant" /\ d.op = c.op /\ d.email = c.email
      /\ d.store = c.store /\ d.username = c.username
  BY <1>2 DEF RemoveUsers, Goto, Moves, Request
<1>4. c.op = "removeTenant" /\ c.store \in Store
  BY <1>1, <1>2 DEF Carries
<1> HIDE DEF d
<1>5. /\ Shape(d)
      /\ HasAccount(d) <=> HasAccount(c)
      /\ HasTenant(d) <=> HasTenant(c)
      /\ HasOwner(d) <=> HasOwner(c)
      /\ HasRemoved(d) <=> HasRemoved(c)
      /\ ~ HasUser(d) /\ IsRemoving(d) /\ ~ HasUser(c) /\ ~ IsRemoving(c)
  BY <1>1, <1>2, <1>3, <1>4
     DEF Shape, HasAccount, HasTenant, HasOwner, HasUser, HasRemoved, IsRemoving,
         Founding, Inserting
<1>6. /\ users.committed \in [Store \X Username -> UserRow]
      /\ users.current \in [Store \X Username -> UserRow]
      /\ users.holder \in [Store \X Username -> Handler \cup {NoOne}]
      /\ DOMAIN users.holder = Store \X Username
      /\ DOMAIN users.current = Store \X Username
      /\ \A row \in UserRow : [row EXCEPT !.status = "removed"] \in Known
  BY <1>2 DEF Table, Known, UserRow
<1>7. /\ \A k \in Store \X Username :
           /\ k \in rows => current[k] \in Known /\ holder[k] = h /\ Free(users, h, k)
           /\ k \notin rows => current[k] = users.current[k] /\ holder[k] = users.holder[k]
      /\ DOMAIN holder = Store \X Username
  BY <1>1, <1>6
<1>8. \A s \in Store, n \in Username : <<s, n>> \in rows => s = c.store
  OBVIOUS
<1> HIDE DEF rows, current, holder
<1>9. users'.committed = users.committed /\ users'.current = current
      /\ users'.holder = holder
  BY <1>1, <1>2 DEF Table
<1>10. /\ Keeps(users, users', h)
       /\ Lasting(users', Known)
       /\ Stays(users, users', Known)
  <2>1. Keeps(users, users', h)
    BY <1>6, <1>7, <1>9, AccountsAssumption DEF Keeps, Free
  <2>2. Lasting(users', Known)
    BY <1>2, <1>6, <1>7, <1>9 DEF Lasting
  <2>3. Stays(users, users', Known)
    BY <1>9 DEF Stays
  <2> QED BY <2>1, <2>2, <2>3
<1>11. UserOf(h, d, users')
  <2>1. \A s \in Store, n \in Username : users'.holder[<<s, n>>] = h => s = c.store
    <3>1. ASSUME NEW s \in Store, NEW n \in Username, users'.holder[<<s, n>>] = h
          PROVE  s = c.store
      <4>1. <<s, n>> \in Store \X Username
        OBVIOUS
      <4>2. CASE <<s, n>> \in rows
        BY <4>2, <1>8
      <4>3. CASE <<s, n>> \notin rows
        <5>1. users.holder[<<s, n>>] = h
          BY <3>1, <4>1, <4>3, <1>7, <1>9
        <5> QED BY <5>1, <1>2 DEF UserOf
      <4> QED BY <4>2, <4>3
    <3> QED BY <3>1
  <2> QED BY <2>1, <1>3, <1>5 DEF UserOf
<1>12. /\ AccountOf(h, d, platformUsers) /\ TenantOf(h, d, tenants)
       /\ OwnerOf(h, d, members)
  BY <1>2, <1>3, <1>5, SameAccount, SameTenant, SameOwner
<1>13. TablesLast' /\ StoreIsWhole' /\ EmailIsNotWasted'
  BY <1>1, <1>9, <1>10, SilentWhole DEF FoundingInv, TablesLast
<1> QED BY <1>1, <1>3, <1>5, <1>10, <1>11, <1>12, <1>13, NoEffect, OneMoves DEF Moves

\* And then the store itself.
LEMMA FoundingRemoveTenantRow ==
  ASSUME AccountsInv, FoundingInv, NEW h \in Handler, AccountsInv', RemoveTenantRow(h)
  PROVE  FoundingInv'
<1> DEFINE c == request[h]
           k == c.store
           d == [c EXCEPT !.at = "commit"]
<1>1. /\ c.at = "removeTenant" /\ Free(tenants, h, k)
      /\ tenants' = Update(tenants, h, k, "removed")
      /\ UNCHANGED <<platformUsers, members, users, issued, viaGoogle>>
  BY DEF RemoveTenantRow, At
<1>2. /\ AccountOf(h, c, platformUsers) /\ TenantOf(h, c, tenants)
      /\ OwnerOf(h, c, members) /\ UserOf(h, c, users) /\ Shape(c) /\ Carries(c)
      /\ Lasting(tenants, Founded)
      /\ tenants \in Table(Store, TenantRow, Handler)
      /\ c \in Request /\ request \in [Handler -> Request]
  BY DEF FoundingInv, TablesLast, AccountsInv, AccountsTypeOK
<1>3. /\ Moves(h, d)
      /\ d.at = "commit" /\ d.op = c.op /\ d.email = c.email
      /\ d.store = c.store /\ d.username = c.username
  BY <1>2 DEF RemoveTenantRow, Goto, Moves, Request
<1>4. c.op = "removeTenant" /\ k \in Store /\ "removed" \in Founded
  BY <1>1, <1>2 DEF Carries, Founded
<1> HIDE DEF d, k
<1>5. /\ Shape(d)
      /\ HasAccount(d) <=> HasAccount(c)
      /\ HasOwner(d) <=> HasOwner(c)
      /\ HasUser(d) <=> HasUser(c)
      /\ IsRemoving(d) <=> IsRemoving(c)
      /\ ~ HasTenant(c) /\ ~ HasRemoved(c) /\ ~ HasTenant(d) /\ HasRemoved(d)
      /\ d.at \notin {"createToken", "writeRole", "writeDeleted"}
  BY <1>1, <1>2, <1>3, <1>4
     DEF Shape, HasAccount, HasTenant, HasOwner, HasUser, HasRemoved, IsRemoving,
         Founding, Inserting
<1>6. /\ Keeps(tenants, tenants', h) /\ Lasting(tenants', Founded)
      /\ Stays(tenants, tenants', Founded)
      /\ tenants'.committed = tenants.committed
      /\ tenants'.holder[k] = h
      /\ \A j \in Store : j # k => tenants'.holder[j] = tenants.holder[j]
  BY <1>1, <1>2, <1>4, UpdateEffect
<1>7. TenantOf(h, d, tenants')
  BY <1>2, <1>3, <1>4, <1>5, <1>6 DEF TenantOf, k
<1>8. /\ AccountOf(h, d, platformUsers) /\ OwnerOf(h, d, members) /\ UserOf(h, d, users)
  BY <1>2, <1>3, <1>5, SameAccount, SameOwner, SameUser
<1>9. TablesLast' /\ StoreIsWhole' /\ EmailIsNotWasted'
  BY <1>1, <1>6, SilentWhole DEF FoundingInv, TablesLast
<1> QED BY <1>1, <1>3, <1>5, <1>6, <1>7, <1>8, <1>9, NoEffect, OneMoves DEF Moves

\* A founding publishes its store, owner and user together, with the account;
\* a removal publishes that what was there is removed.
LEMMA FoundingCommit ==
  ASSUME AccountsInv, FoundingInv, NEW h \in Handler, AccountsInv', CommitAccount(h)
  PROVE  FoundingInv'
<1> DEFINE c == request[h]
<1>1. /\ c.at = "commit" /\ issued' = issued /\ viaGoogle' = viaGoogle
      /\ platformUsers' = Commit(platformUsers, h)
      /\ tenants' = Commit(tenants, h)
      /\ members' = Commit(members, h)
      /\ users' = Commit(users, h)
  BY DEF CommitAccount, At
<1>2. /\ AccountOf(h, c, platformUsers) /\ TenantOf(h, c, tenants)
      /\ OwnerOf(h, c, members) /\ UserOf(h, c, users) /\ Shape(c)
      /\ StoreIsWhole /\ EmailIsNotWasted
      /\ Lasting(platformUsers, Account) /\ Lasting(tenants, Founded)
      /\ Lasting(members, Owner) /\ Lasting(users, Known)
      /\ c \in Request /\ request \in [Handler -> Request]
  BY DEF FoundingInv, TablesLast, AccountsInv, AccountsTypeOK
<1>t. /\ platformUsers \in Table(Email, {"none", "exists"}, Handler)
      /\ tenants \in Table(Store, TenantRow, Handler)
      /\ members \in Table(Email \X Store, {"none", "OWNER"}, Handler)
      /\ users \in Table(Store \X Username, UserRow, Handler)
      /\ AccountsTypeOK /\ AccountsTypeOK'
  BY DEF AccountsInv, AccountsTypeOK
<1>3. /\ Keeps(platformUsers, platformUsers', h) /\ Lasting(platformUsers', Account)
      /\ Stays(platformUsers, platformUsers', Account)
      /\ \A e \in Email :
           /\ platformUsers'.holder[e] # h
           /\ platformUsers'.committed[e]
                = IF platformUsers.holder[e] = h THEN platformUsers.current[e]
                                                 ELSE platformUsers.committed[e]
  BY <1>1, <1>2, <1>t, EndEffect
<1>4. /\ Keeps(tenants, tenants', h) /\ Lasting(tenants', Founded)
      /\ Stays(tenants, tenants', Founded)
      /\ \A s \in Store :
           /\ tenants'.holder[s] # h
           /\ tenants'.committed[s]
                = IF tenants.holder[s] = h THEN tenants.current[s] ELSE tenants.committed[s]
  BY <1>1, <1>2, <1>t, EndEffect
<1>5. /\ Keeps(members, members', h) /\ Lasting(members', Owner)
      /\ Stays(members, members', Owner)
      /\ \A k \in Email \X Store :
           /\ members'.holder[k] # h
           /\ members'.committed[k]
                = IF members.holder[k] = h THEN members.current[k] ELSE members.committed[k]
  BY <1>1, <1>2, <1>t, EndEffect
<1>6. /\ Keeps(users, users', h) /\ Lasting(users', Known)
      /\ Stays(users, users', Known)
      /\ \A k \in Store \X Username :
           /\ users'.holder[k] # h
           /\ users'.committed[k]
                = IF users.holder[k] = h THEN users.current[k] ELSE users.committed[k]
  BY <1>1, <1>2, <1>t, EndEffect
<1>d. /\ DOMAIN platformUsers.holder = Email
      /\ DOMAIN tenants.holder = Store
      /\ DOMAIN members.holder = Email \X Store
      /\ DOMAIN users.holder = Store \X Username
      /\ \A k \in Store \X Username : users.committed[k] \in UserRow
      /\ \A s \in Store : tenants.committed[s] \in TenantRow
  BY <1>t DEF Table
<1>n. /\ \A e \in Email : platformUsers'.holder[e] # h
      /\ \A s \in Store : tenants'.holder[s] # h
      /\ \A e \in Email, s \in Store : members'.holder[<<e, s>>] # h
      /\ \A s \in Store, n \in Username : users'.holder[<<s, n>>] # h
  BY <1>3, <1>4, <1>5, <1>6
<1>i. \A j \in issued' : j \in Store \X Username /\ users'.committed[j] \in Known
  <2>1. \A j \in issued : j \in Store \X Username /\ users.committed[j] \in Known
    BY <1>2, <1>t, <1>d DEF StoreIsWhole, AccountsTypeOK, Known
  <2> QED BY <2>1, <1>1, <1>6, <1>d DEF Stays
<1>7. TablesLast'
  BY <1>3, <1>4, <1>5, <1>6 DEF TablesLast
<1> HIDE DEF c
<1>8. CASE c.op = "removeTenant"
  <2>1. Moves(h, Idle)
    BY <1>8, Responds DEF CommitAccount, c
  <2>2. /\ ~ HasAccount(c) /\ ~ HasTenant(c) /\ ~ HasOwner(c) /\ ~ HasUser(c)
        /\ c.store \in Store /\ tenants.committed[c.store] \in Founded
    BY <1>2, <1>8 DEF HasAccount, HasTenant, HasOwner, HasUser, Founding, Shape, TenantOf
  <2>3. /\ AccountOf(h, Idle, platformUsers') /\ TenantOf(h, Idle, tenants')
        /\ OwnerOf(h, Idle, members') /\ UserOf(h, Idle, users') /\ Shape(Idle)
    BY <1>n, IdleOf
  <2>4. members'.committed = members.committed
    <3>1. /\ members.committed \in [Email \X Store -> {"none", "OWNER"}]
          /\ members'.committed \in [Email \X Store -> {"none", "OWNER"}]
      BY <1>t DEF AccountsTypeOK, Table
    <3>2. \A k \in Email \X Store : members.holder[k] # h
      BY <1>2, <2>2 DEF OwnerOf
    <3>3. \A k \in Email \X Store : members'.committed[k] = members.committed[k]
      BY <3>2, <1>5
    <3> QED BY <3>1, <3>3
  <2>5. \A s \in Store : tenants.committed[s] = "none" <=> tenants'.committed[s] = "none"
    <3>1. \A s \in Store : tenants.holder[s] = h => s = c.store
      BY <1>2 DEF TenantOf
    <3>2. tenants'.committed[c.store] \in Founded
      BY <1>4, <1>d, <2>2 DEF Stays
    <3>3. \A s \in Store : s # c.store => tenants'.committed[s] = tenants.committed[s]
      BY <3>1, <1>4
    <3> QED BY <2>2, <3>2, <3>3 DEF Founded
  <2>6. \A s \in Store, n \in Username :
          users'.committed[<<s, n>>] \in Known =>
            users.committed[<<s, n>>] \in Known \/ tenants.committed[s] \in Founded
    <3>1. ASSUME NEW s \in Store, NEW n \in Username, users'.committed[<<s, n>>] \in Known
          PROVE  users.committed[<<s, n>>] \in Known \/ tenants.committed[s] \in Founded
      <4>1. <<s, n>> \in Store \X Username
        OBVIOUS
      <4>2. CASE users.holder[<<s, n>>] = h
        BY <4>2, <1>2, <2>2 DEF UserOf
      <4>3. CASE users.holder[<<s, n>>] # h
        BY <3>1, <4>1, <4>3, <1>6
      <4> QED BY <4>2, <4>3
    <3> QED BY <3>1
  <2>7. StoreIsWhole'
    <3>1. /\ users' \in Table(Store \X Username, UserRow, Handler)
          /\ tenants' \in Table(Store, TenantRow, Handler)
      BY <1>t DEF AccountsTypeOK
    <3> QED BY <1>2, <1>t, <1>3, <1>6, <1>i, <2>4, <2>5, <2>6, <3>1, WholeStays
  <2>8. EmailIsNotWasted'
    <3>1. \A e \in Email : platformUsers'.committed[e] = platformUsers.committed[e]
      BY <1>2, <1>3, <2>2 DEF AccountOf
    <3> QED BY <1>1, <1>2, <1>t, <2>4, <3>1, EmailStays
  <2> QED BY <1>3, <1>4, <1>5, <1>6, <1>7, <2>1, <2>3, <2>7, <2>8, OneMoves DEF Moves
<1>9. CASE c.op \in Founding
  <2> DEFINE d == [c EXCEPT !.at = "createToken"]
  <2>a. PICK e0 \in Email, s0 \in Store, n0 \in Username :
          e0 = c.email /\ s0 = c.store /\ n0 = c.username
    BY <1>2, <1>9 DEF Shape
  <2>1. /\ Moves(h, d)
        /\ d.at = "createToken" /\ d.op = c.op /\ d.email = e0
        /\ d.store = s0 /\ d.username = n0
    BY <1>2, <1>9, <2>a DEF CommitAccount, Goto, Moves, Request, c, Founding
  <2>2. /\ e0 = c.email /\ s0 = c.store /\ n0 = c.username
        /\ e0 \in Email /\ s0 \in Store /\ n0 \in Username
        /\ c.op \in {"register", "createStore"}
        /\ HasTenant(c) /\ HasOwner(c) /\ HasUser(c)
        /\ ~ HasRemoved(c) /\ ~ IsRemoving(c)
        /\ c.op = "register" => HasAccount(c)
    BY <1>1, <1>2, <1>9, <2>a
       DEF c, HasAccount, HasTenant, HasOwner, HasUser, HasRemoved, IsRemoving, Founding
  <2> HIDE DEF d
  <2>3. /\ Shape(d)
        /\ ~ HasAccount(d) /\ ~ HasTenant(d) /\ ~ HasOwner(d)
        /\ ~ HasUser(d) /\ ~ HasRemoved(d)
    BY <2>1, <2>2 DEF HasAccount, HasTenant, HasOwner, HasUser, HasRemoved,
                      Founding, Shape, Inserting
  <2>k. <<e0, s0>> \in Email \X Store /\ <<s0, n0>> \in Store \X Username
    BY <2>2
  <2>4. platformUsers'.committed[e0] \in Account
    <3>1. CASE c.op = "register"
      BY <3>1, <1>2, <1>3, <2>2 DEF AccountOf
    <3>2. CASE c.op = "createStore"
      BY <3>2, <1>2, <1>3, <1>d, <2>2 DEF AccountOf, Stays
    <3> QED BY <2>2, <3>1, <3>2
  <2>5. /\ tenants.committed[s0] = "none" /\ tenants'.committed[s0] \in Founded
        /\ \A s \in Store : s # s0 => tenants'.committed[s] = tenants.committed[s]
    BY <1>2, <1>4, <2>2 DEF TenantOf
  <2>6. /\ members'.committed[<<e0, s0>>] \in Owner
        /\ \A e \in Email, s \in Store :
             <<e, s>> # <<e0, s0>> =>
               members'.committed[<<e, s>>] = members.committed[<<e, s>>]
    <3>1. members.holder[<<e0, s0>>] = h /\ members.current[<<e0, s0>>] \in Owner
      BY <1>2, <2>2 DEF OwnerOf
    <3>2. ASSUME NEW e \in Email, NEW s \in Store, <<e, s>> # <<e0, s0>>
          PROVE  members'.committed[<<e, s>>] = members.committed[<<e, s>>]
      <4>1. <<e, s>> \in Email \X Store /\ members.holder[<<e, s>>] # h
        BY <3>2, <1>2, <2>2 DEF OwnerOf
      <4> QED BY <4>1, <1>5
    <3> QED BY <3>1, <3>2, <2>k, <1>5
  <2>7. users'.committed[<<s0, n0>>] \in Known
    BY <1>2, <1>6, <2>2, <2>k DEF UserOf
  <2>8. \A s \in Store, n \in Username :
          s # s0 => users'.committed[<<s, n>>] = users.committed[<<s, n>>]
    <3>1. ASSUME NEW s \in Store, NEW n \in Username, s # s0
          PROVE  users'.committed[<<s, n>>] = users.committed[<<s, n>>]
      <4>1. <<s, n>> \in Store \X Username /\ users.holder[<<s, n>>] # h
        BY <3>1, <1>2, <2>2 DEF UserOf
      <4> QED BY <4>1, <1>6
    <3> QED BY <3>1
  <2>9. /\ AccountOf(h, d, platformUsers') /\ TenantOf(h, d, tenants')
        /\ OwnerOf(h, d, members') /\ UserOf(h, d, users')
    <3>1. /\ d.op = "createStore" => platformUsers'.committed[d.email] \in Account
          /\ d.op \in {"create", "removeTenant"} => tenants'.committed[d.store] \in Founded
          /\ d.at \in {"createToken", "writeRole", "writeDeleted"} =>
               users'.committed[<<d.store, d.username>>] \in Known
      BY <2>1, <2>2, <2>4, <2>7
    <3> QED BY <1>n, <2>3, <3>1, EmptyHanded
  <2>10. StoreIsWhole'
    <3>1. \A e \in Email : platformUsers.committed[e] = "exists" =>
                             platformUsers'.committed[e] = "exists"
      BY <1>3, <1>d DEF Stays, Account
    <3>2. ASSUME NEW s \in Store
          PROVE  IF tenants'.committed[s] = "none"
                   THEN Owners(s)' = {} /\ Staff(s)' = {}
                   ELSE /\ Cardinality(Owners(s)') = 1
                        /\ \A e \in Owners(s)' : platformUsers'.committed[e] = "exists"
                        /\ Staff(s)' # {}
      <4>1. CASE s # s0
        <5>1. Owners(s)' = Owners(s)
          <6>1. \A e \in Email : members'.committed[<<e, s>>] = members.committed[<<e, s>>]
            BY <4>1, <2>6
          <6> QED BY <6>1 DEF Owners
        <5>2. Staff(s)' = Staff(s)
          <6>1. \A n \in Username : users'.committed[<<s, n>>] = users.committed[<<s, n>>]
            BY <4>1, <2>8
          <6> QED BY <6>1 DEF Staff
        <5>3. tenants'.committed[s] = tenants.committed[s]
          BY <4>1, <2>5
        <5>4. IF tenants.committed[s] = "none"
                THEN Owners(s) = {} /\ Staff(s) = {}
                ELSE /\ Cardinality(Owners(s)) = 1
                     /\ \A e \in Owners(s) : platformUsers.committed[e] = "exists"
                     /\ Staff(s) # {}
          BY <1>2 DEF StoreIsWhole
        <5>5. \A e \in Owners(s) : e \in Email
          BY DEF Owners
        <5> QED BY <5>1, <5>2, <5>3, <5>4, <5>5, <3>1
      <4>2. CASE s = s0
        <5>1. tenants'.committed[s] # "none"
          BY <4>2, <2>5 DEF Founded
        <5>2. \A e \in Email : members.committed[<<e, s>>] # "OWNER"
          <6>1. Owners(s) = {}
            BY <4>2, <1>2, <2>5 DEF StoreIsWhole
          <6> QED BY <6>1 DEF Owners
        <5>3. Owners(s)' = {e0}
          <6>1. \A e \in Email : members'.committed[<<e, s>>] = "OWNER" <=> e = e0
            BY <4>2, <5>2, <2>6 DEF Owner
          <6> QED BY <6>1, <2>2 DEF Owners
        <5>4. Cardinality(Owners(s)') = 1
          BY <5>3, FS_Singleton
        <5>5. \A e \in Owners(s)' : platformUsers'.committed[e] = "exists"
          BY <5>3, <2>4 DEF Account
        <5>6. n0 \in Staff(s)'
          BY <4>2, <2>2, <2>7 DEF Staff, Known
        <5> QED BY <5>1, <5>4, <5>5, <5>6
      <4> QED BY <4>1, <4>2
    <3>3. \A k \in issued' : users'.committed[k].status # "none"
      BY <1>i DEF Known
    <3> QED BY <3>2, <3>3 DEF StoreIsWhole
  <2>11. EmailIsNotWasted'
    <3>1. ASSUME NEW e \in Email, platformUsers'.committed[e] = "exists"
          PROVE  e \in viaGoogle' \/ \E s \in Store : e \in Owners(s)'
      <4>1. CASE platformUsers.holder[e] = h
        <5>1. e = e0
          BY <4>1, <1>2, <2>2 DEF AccountOf
        <5>2. e \in Owners(s0)'
          BY <5>1, <2>2, <2>6 DEF Owners, Owner
        <5> QED BY <5>2, <2>2
      <4>2. CASE platformUsers.holder[e] # h
        <5>1. platformUsers.committed[e] = "exists"
          BY <3>1, <4>2, <1>3
        <5>2. CASE e \in viaGoogle
          BY <5>2, <1>1
        <5>3. ASSUME NEW s \in Store, e \in Owners(s)
              PROVE  e \in Owners(s)'
          <6>1. <<e, s>> \in Email \X Store /\ members.committed[<<e, s>>] \in Owner
            BY <5>3 DEF Owners, Owner
          <6>2. members'.committed[<<e, s>>] \in Owner
            BY <6>1, <1>5, <1>d DEF Stays
          <6> QED BY <6>2 DEF Owners, Owner
        <5> QED BY <5>1, <5>2, <5>3, <1>2 DEF EmailIsNotWasted
      <4> QED BY <4>1, <4>2
    <3> QED BY <3>1 DEF EmailIsNotWasted
  <2> QED BY <1>3, <1>4, <1>5, <1>6, <1>7, <2>1, <2>3, <2>9, <2>10, <2>11, OneMoves DEF Moves
<1> QED BY <1>1, <1>2, <1>8, <1>9 DEF Shape, c
-----------------------------------------------------------------------------

\* Every statement keeps the invariant of foundings.
LEMMA FoundingStep ==
  ASSUME AccountsInv, FoundingInv, NEW h \in Handler, AccountsStep(h)
  PROVE  FoundingInv'
<1>1. AccountsInv'
  BY StepTyped
<1> QED BY <1>1, FoundingFind, FoundingInsertPlatformUser, FoundingInsertTenant,
           FoundingInsertMember, FoundingInsertUser, FoundingCommit,
           FoundingCreateToken, FoundingCreatePlatformUser, FoundingWriteUser,
           FoundingRemoveUsers, FoundingRemoveTenantRow, FoundingAbort
        DEF AccountsStep

\* The invariant of foundings, in every state.
LEMMA FoundingHolds == AccountsSpec => []FoundingInv
<1>1. FoundingInv /\ UNCHANGED accountVars => FoundingInv'
  <2> SUFFICES ASSUME FoundingInv, UNCHANGED accountVars PROVE FoundingInv'
    OBVIOUS
  <2>1. UNCHANGED <<platformUsers, tenants, members, users, issued, request, viaGoogle>>
    BY DEF accountVars, tableVars
  <2>2. StoreIsWhole' /\ EmailIsNotWasted'
    BY <2>1, SilentWhole
  <2> QED BY <2>1, <2>2 DEF FoundingInv, TablesLast
<1>2. AccountsInv /\ FoundingInv /\ [AccountsNext]_accountVars => FoundingInv'
  BY <1>1, FoundingBegin, FoundingStep DEF AccountsNext
<1> QED BY FoundingInitInv, AccountsInvHolds, <1>2, PTL DEF AccountsSpec

(***************************************************************************)
(* A store that exists has one owner with an account and somebody to log   *)
(* in as; one that does not has neither, and nobody is logged in to it:    *)
(* for any number of registrations, creations and removals at a time.      *)
(***************************************************************************)
THEOREM StoresAreWhole == AccountsSpec => []StoreIsWhole
<1>1. FoundingInv => StoreIsWhole
  BY DEF FoundingInv
<1> QED BY <1>1, FoundingHolds, PTL

(***************************************************************************)
(* Whoever has an account owns a store, or came through Google: no failed  *)
(* registration leaves an account behind.                                  *)
(***************************************************************************)
THEOREM NoEmailIsWasted == AccountsSpec => []EmailIsNotWasted
<1>1. FoundingInv => EmailIsNotWasted
  BY DEF FoundingInv
<1> QED BY <1>1, FoundingHolds, PTL

=============================================================================
