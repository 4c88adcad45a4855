------------------------------ MODULE Accounts ------------------------------
(***************************************************************************)
(* How stores, their owners and their users come and go: register,         *)
(* createStore and googleLogin of AuthService, create, update and remove   *)
(* of UsersService, removeTenant of AdminService.                          *)
(*                                                                         *)
(* Every method asks first whether a name is taken and inserts later; only *)
(* the unique indexes decide.  A store is identified by its slug, which is *)
(* a function of its name; a user by store and user name, which are unique *)
(* together.  Rows are never deleted, only marked.                         *)
(***************************************************************************)
EXTENDS FiniteSets, RowStore

CONSTANTS
  Handler,      \* requests that can be in flight at the same time
  Email, Store, Username,
  NoArg         \* an argument that a method does not have

ASSUME AccountsAssumption ==
  /\ NoOne \notin Handler
  /\ NoArg \notin Email \cup Store \cup Username

VARIABLES
  platformUsers, \* the platform_users table, by e-mail
  tenants,       \* the tenants table, by slug
  members,       \* the tenant_members table: who owns what
  users,         \* the tenant_users table
  issued,        \* users a refresh token was created for
  request,       \* per handler: the method, its next statement, its arguments
  viaGoogle      \* history: e-mails whose account googleLogin created

tableVars == <<platformUsers, tenants, members, users>>
accountVars == <<tableVars, issued, request, viaGoogle>>

TenantRow == {"none", "live", "removed"}

UserRow == [status : {"none", "live", "removed"}, role : {"ADMIN", "STAFF"}]

NoUser == [status |-> "none", role |-> "STAFF"]

Statement == {"idle", "findTenant", "findUsername", "insertPlatformUser",
              "insertTenant", "insertMember", "insertUser", "commit",
              "createToken", "createPlatformUser", "createUser", "writeRole",
              "writeDeleted", "removeUsers", "removeTenant"}

Method == {"none", "register", "createStore", "googleLogin", "create",
           "update", "remove", "removeTenant"}

Request == [op : Method, at : Statement, email : Email \cup {NoArg},
            store : Store \cup {NoArg}, username : Username \cup {NoArg}]

Idle == [op |-> "none", at |-> "idle", email |-> NoArg, store |-> NoArg,
         username |-> NoArg]

AccountsInit ==
  /\ platformUsers = NewTable([e \in Email |-> "none"])
  /\ tenants = NewTable([s \in Store |-> "none"])
  /\ members = NewTable([k \in Email \X Store |-> "none"])
  /\ users = NewTable([k \in Store \X Username |-> NoUser])
  /\ issued = {}
  /\ request = [h \in Handler |-> Idle]
  /\ viaGoogle = {}

-----------------------------------------------------------------------------

At(h, statement) == request[h].at = statement

Begin(h, op, statement, e, s, n) ==
  /\ request[h] = Idle
  /\ request' = [request EXCEPT ![h] =
       [op |-> op, at |-> statement, email |-> e, store |-> s, username |-> n]]

Goto(h, statement) == request' = [request EXCEPT ![h] = [@ EXCEPT !.at = statement]]

Respond(h) == request' = [request EXCEPT ![h] = Idle]

\* The statements of the two methods that create a store, in their order.
Following ==
  [register    |-> [findTenant         |-> "findUsername",
                    findUsername       |-> "insertPlatformUser",
                    insertPlatformUser |-> "insertTenant",
                    insertTenant       |-> "insertMember",
                    insertMember       |-> "insertUser",
                    insertUser         |-> "commit"],
   createStore |-> [findUsername       |-> "insertTenant",
                    insertTenant       |-> "insertUser",
                    insertUser         |-> "insertMember",
                    insertMember       |-> "commit"]]

Advance(h) == Goto(h, Following[request[h].op][request[h].at])

UsernameTaken(n) == \E s \in Store : users.committed[<<s, n>>].status # "none"

\* A live administrator of store s, as the guards ask for.
Administered(s) ==
  \E n \in Username : users.committed[<<s, n>>] = [status |-> "live", role |-> "ADMIN"]

-----------------------------------------------------------------------------

\* register asks for the e-mail, the store name and the user name before it
\* opens its transaction; the user name in all stores, removed or not.
Register(h, e, s, n) ==
  /\ platformUsers.committed[e] = "none"
  /\ Begin(h, "register", "findTenant", e, s, n)
  /\ UNCHANGED <<tableVars, issued, viaGoogle>>

\* createStore asks inside its transaction.  A platform token is required.
CreateStore(h, e, s, n) ==
  /\ platformUsers.committed[e] = "exists"
  /\ tenants.committed[s] = "none"
  /\ Begin(h, "createStore", "findUsername", e, s, n)
  /\ UNCHANGED <<tableVars, issued, viaGoogle>>

FindTenant(h) ==
  /\ At(h, "findTenant")
  /\ tenants.committed[request[h].store] = "none"
  /\ Advance(h)
  /\ UNCHANGED <<tableVars, issued, viaGoogle>>

FindUsername(h) ==
  /\ At(h, "findUsername")
  /\ ~ UsernameTaken(request[h].username)
  /\ Advance(h)
  /\ UNCHANGED <<tableVars, issued, viaGoogle>>

\* Mutant: the statement is sent outside the transaction.
InsertPlatformUserAlone(h) ==
  LET e == request[h].email IN
  /\ At(h, "insertPlatformUser")
  /\ Free(platformUsers, h, e)
  /\ platformUsers.current[e] = "none"
  /\ platformUsers' = Overwrite(platformUsers, e, "exists")
  /\ Advance(h)
  /\ UNCHANGED <<tenants, members, users, issued, viaGoogle>>

InsertPlatformUser(h) ==
  LET e == request[h].email IN
  /\ At(h, "insertPlatformUser")
  /\ Free(platformUsers, h, e)
  /\ platformUsers.current[e] = "none"
  /\ platformUsers' = Update(platformUsers, h, e, "exists")
  /\ Advance(h)
  /\ UNCHANGED <<tenants, members, users, issued, viaGoogle>>

\* Mutant: an upsert, which takes an existing store for the new one.
UpsertTenant(h) ==
  LET s == request[h].store IN
  /\ At(h, "insertTenant")
  /\ Free(tenants, h, s)
  /\ tenants' = Update(tenants, h, s, "live")
  /\ Advance(h)
  /\ UNCHANGED <<platformUsers, members, users, issued, viaGoogle>>

InsertTenant(h) ==
  LET s == request[h].store IN
  /\ At(h, "insertTenant")
  /\ Free(tenants, h, s)
  /\ tenants.current[s] = "none"
  /\ tenants' = Update(tenants, h, s, "live")
  /\ Advance(h)
  /\ UNCHANGED <<platformUsers, members, users, issued, viaGoogle>>

\* Mutant: the creator of the store does not become its owner.
InsertPlainMember(h) ==
  LET k == <<request[h].email, request[h].store>> IN
  /\ At(h, "insertMember")
  /\ Free(members, h, k)
  /\ members.current[k] = "none"
  /\ members' = Update(members, h, k, "MEMBER")
  /\ Advance(h)
  /\ UNCHANGED <<platformUsers, tenants, users, issued, viaGoogle>>

InsertMember(h) ==
  LET k == <<request[h].email, request[h].store>> IN
  /\ At(h, "insertMember")
  /\ Free(members, h, k)
  /\ members.current[k] = "none"
  /\ members' = Update(members, h, k, "OWNER")
  /\ Advance(h)
  /\ UNCHANGED <<platformUsers, tenants, users, issued, viaGoogle>>

InsertUser(h) ==
  LET k == <<request[h].store, request[h].username>> IN
  /\ At(h, "insertUser")
  /\ Free(users, h, k)
  /\ users.current[k] = NoUser
  /\ users' = Update(users, h, k, [status |-> "live", role |-> "ADMIN"])
  /\ Advance(h)
  /\ UNCHANGED <<platformUsers, tenants, members, issued, viaGoogle>>

CommitAccount(h) ==
  /\ At(h, "commit")
  /\ platformUsers' = Commit(platformUsers, h)
  /\ tenants' = Commit(tenants, h)
  /\ members' = Commit(members, h)
  /\ users' = Commit(users, h)
  /\ IF request[h].op = "removeTenant" THEN Respond(h) ELSE Goto(h, "createToken")
  /\ UNCHANGED <<issued, viaGoogle>>

\* The owner is logged in, after the transaction and outside it.
CreateToken(h) ==
  /\ At(h, "createToken")
  /\ issued' = issued \cup {<<request[h].store, request[h].username>>}
  /\ Respond(h)
  /\ UNCHANGED <<tableVars, viaGoogle>>

-----------------------------------------------------------------------------

\* googleLogin of an e-mail that has no account yet.
GoogleLogin(h, e) ==
  /\ platformUsers.committed[e] = "none"
  /\ Begin(h, "googleLogin", "createPlatformUser", e, NoArg, NoArg)
  /\ UNCHANGED <<tableVars, issued, viaGoogle>>

CreatePlatformUser(h) ==
  LET e == request[h].email IN
  /\ At(h, "createPlatformUser")
  /\ Free(platformUsers, h, e)
  /\ platformUsers.current[e] = "none"
  /\ platformUsers' = Overwrite(platformUsers, e, "exists")
  /\ viaGoogle' = viaGoogle \cup {e}
  /\ Respond(h)
  /\ UNCHANGED <<tenants, members, users, issued>>

\* UsersService.create asks for live users of its own store only.
Create(h, s, n) ==
  /\ Administered(s)
  /\ users.committed[<<s, n>>].status # "live"
  /\ Begin(h, "create", "createUser", NoArg, s, n)
  /\ UNCHANGED <<tableVars, issued, viaGoogle>>

CreateUser(h, role) ==
  LET k == <<request[h].store, request[h].username>> IN
  /\ At(h, "createUser")
  /\ Free(users, h, k)
  /\ users.current[k] = NoUser
  /\ users' = Overwrite(users, k, [status |-> "live", role |-> role])
  /\ Respond(h)
  /\ UNCHANGED <<platformUsers, tenants, members, issued, viaGoogle>>

\* update and remove of UsersService find a live user and then write the row
\* by id and store, whatever it is by now.
FindUser(h, op, s, n) ==
  /\ Administered(s)
  /\ users.committed[<<s, n>>].status = "live"
  /\ Begin(h, op, IF op = "update" THEN "writeRole" ELSE "writeDeleted",
           NoArg, s, n)
  /\ UNCHANGED <<tableVars, issued, viaGoogle>>

\* Mutant: the whole row is written back as it was read.
WriteRoleOfLive(h, role) ==
  LET k == <<request[h].store, request[h].username>> IN
  /\ At(h, "writeRole")
  /\ Free(users, h, k)
  /\ users' = Overwrite(users, k, [status |-> "live", role |-> role])
  /\ Respond(h)
  /\ UNCHANGED <<platformUsers, tenants, members, issued, viaGoogle>>

WriteRole(h, role) ==
  LET k == <<request[h].store, request[h].username>> IN
  /\ At(h, "writeRole")
  /\ Free(users, h, k)
  /\ users' = Overwrite(users, k, [users.current[k] EXCEPT !.role = role])
  /\ Respond(h)
  /\ UNCHANGED <<platformUsers, tenants, members, issued, viaGoogle>>

WriteDeleted(h) ==
  LET k == <<request[h].store, request[h].username>> IN
  /\ At(h, "writeDeleted")
  /\ Free(users, h, k)
  /\ users' = Overwrite(users, k, [users.current[k] EXCEPT !.status = "removed"])
  /\ Respond(h)
  /\ UNCHANGED <<platformUsers, tenants, members, issued, viaGoogle>>

-----------------------------------------------------------------------------

\* AdminService.removeTenant: in one transaction the users of the store, what
\* else belongs to it, and the store.
RemoveTenant(h, s) ==
  /\ tenants.committed[s] = "live"
  /\ Begin(h, "removeTenant", "removeUsers", NoArg, s, NoArg)
  /\ UNCHANGED <<tableVars, issued, viaGoogle>>

\* tenantUser.updateMany: the rows that are there when the statement starts.
RemoveUsers(h) ==
  LET rows == {k \in {request[h].store} \X Username :
                 users.committed[k].status # "none"} IN
  /\ At(h, "removeUsers")
  /\ \A k \in rows : Free(users, h, k)
  /\ users' =
       [users EXCEPT
          !.current = [k \in DOMAIN @ |->
            IF k \in rows THEN [@[k] EXCEPT !.status = "removed"] ELSE @[k]],
          !.holder = [k \in DOMAIN @ |-> IF k \in rows THEN h ELSE @[k]]]
  /\ Goto(h, "removeTenant")
  /\ UNCHANGED <<platformUsers, tenants, members, issued, viaGoogle>>

RemoveTenantRow(h) ==
  LET s == request[h].store IN
  /\ At(h, "removeTenant")
  /\ Free(tenants, h, s)
  /\ tenants' = Update(tenants, h, s, "removed")
  /\ Goto(h, "commit")
  /\ UNCHANGED <<platformUsers, members, users, issued, viaGoogle>>

\* A ConflictException, a unique violation, a timeout, a lost connection or a
\* crash ends the request; an open transaction rolls back.
Abort(h) ==
  /\ request[h] # Idle
  /\ platformUsers' = Rollback(platformUsers, h)
  /\ tenants' = Rollback(tenants, h)
  /\ members' = Rollback(members, h)
  /\ users' = Rollback(users, h)
  /\ Respond(h)
  /\ UNCHANGED <<issued, viaGoogle>>

AccountsStep(h) ==
  \/ FindTenant(h)
  \/ FindUsername(h)
  \/ InsertPlatformUser(h)
  \/ InsertTenant(h)
  \/ InsertMember(h)
  \/ InsertUser(h)
  \/ CommitAccount(h)
  \/ CreateToken(h)
  \/ CreatePlatformUser(h)
  \/ \E role \in {"ADMIN", "STAFF"} : CreateUser(h, role) \/ WriteRole(h, role)
  \/ WriteDeleted(h)
  \/ RemoveUsers(h)
  \/ RemoveTenantRow(h)
  \/ Abort(h)

AccountsRequest(h) ==
  \/ \E e \in Email : GoogleLogin(h, e)
  \/ \E e \in Email, s \in Store, n \in Username :
       Register(h, e, s, n) \/ CreateStore(h, e, s, n)
  \/ \E s \in Store, n \in Username :
       Create(h, s, n) \/ \E op \in {"update", "remove"} : FindUser(h, op, s, n)
  \/ \E s \in Store : RemoveTenant(h, s)

AccountsNext == \E h \in Handler : AccountsRequest(h) \/ AccountsStep(h)

AccountsSpec == AccountsInit /\ [][AccountsNext]_accountVars

-----------------------------------------------------------------------------

AccountsTypeOK ==
  /\ platformUsers \in Table(Email, {"none", "exists"}, Handler)
  /\ tenants \in Table(Store, TenantRow, Handler)
  /\ members \in Table(Email \X Store, {"none", "OWNER"}, Handler)
  /\ users \in Table(Store \X Username, UserRow, Handler)
  /\ issued \subseteq Store \X Username
  /\ request \in [Handler -> Request]
  /\ viaGoogle \subseteq Email

Owners(s) == {e \in Email : members.committed[<<e, s>>] = "OWNER"}

Staff(s) == {n \in Username : users.committed[<<s, n>>].status # "none"}

(***************************************************************************)
(* "Transaksi atomik (gagal satu = gagal semua)": a store that exists has  *)
(* one owner, who has an account, and a user row, removed or not; a store  *)
(* that does not exist has neither, and nobody is logged in to it.         *)
(* However many requests want the same name, and wherever they fail.       *)
(***************************************************************************)
StoreIsWhole ==
  /\ \A s \in Store :
       IF tenants.committed[s] = "none"
         THEN Owners(s) = {} /\ Staff(s) = {}
         ELSE /\ Cardinality(Owners(s)) = 1
              /\ \A e \in Owners(s) : platformUsers.committed[e] = "exists"
              /\ Staff(s) # {}
  /\ \A k \in issued : users.committed[k].status # "none"

(***************************************************************************)
(* A registration that fails does not use up its e-mail address: whoever   *)
(* has an account owns a store, or came through Google.                    *)
(***************************************************************************)
EmailIsNotWasted ==
  \A e \in Email :
    platformUsers.committed[e] = "exists" =>
      e \in viaGoogle \/ \E s \in Store : e \in Owners(s)

(***************************************************************************)
(* Removal is final: no request in flight, that read a user or a store     *)
(* while it was live, brings it back.                                      *)
(***************************************************************************)
RemovedIsFinal ==
  [][/\ \A s \in Store :
          tenants.committed[s] = "removed" => tenants'.committed[s] = "removed"
     /\ \A k \in Store \X Username :
          users.committed[k].status = "removed" =>
            users'.committed[k].status = "removed"]_tableVars
=============================================================================
