------------------------------ MODULE Sessions ------------------------------
(***************************************************************************)
(* AuthService: login with its lockout after failed attempts, the rotation *)
(* of refresh tokens and logout; and the UsersService methods that change  *)
(* the rows they read.  Nothing here runs in a transaction: every          *)
(* statement commits at once, and what a method has read may be out of     *)
(* date at its next statement.                                             *)
(*                                                                         *)
(* A hash matches exactly the value it was made from, so passwords and     *)
(* refresh tokens stand for their hashes.  A refused call changes nothing  *)
(* and is not a step.                                                      *)
(***************************************************************************)
EXTENDS Naturals

CONSTANTS
  Handler,            \* calls that can be in flight at the same time
  User, Password,     \* the tenant_users rows, and what a password may be
  FirstPassword,      \* the password every user starts with
  Token, NoToken,     \* refresh tokens
  NoUser,
  MAX_FAILED_ATTEMPTS,
  LockDuration,       \* LOCK_DURATION_MINUTES
  TokenLife,          \* REFRESH_TOKEN_EXPIRES_DAYS
  MaxTime,            \* bound: the clock stops here
  MaxFailures         \* bound: nobody tries a wrong password after so many

ASSUME SessionsAssumption ==
  /\ FirstPassword \in Password
  /\ NoToken \notin Token
  /\ NoUser \notin User
  /\ {MAX_FAILED_ATTEMPTS, LockDuration, TokenLife} \subseteq Nat \ {0}
  /\ {MaxTime, MaxFailures} \subseteq Nat

VARIABLES
  now,          \* the clock
  users,        \* the tenant_users table
  tokens,       \* the refresh_tokens table
  call,         \* per handler: the method, its next statement, its locals
  parent,       \* history: the token that a token was given in exchange for
  failed,       \* history: failed logins of a user, ever and since a success
  standing      \* history: what the last logout of its user meant for a token

sessionVars == <<now, users, tokens, call, parent, failed, standing>>

Null == 0               \* lockedUntil and revokedAt of a row that has none

UserRow == [failedLoginAttempts : Nat, lockedUntil : Nat,
            password : Password, deletedAt : {"null", "set"}]

TokenRow == [userId : User \cup {NoUser},
             status : {"unissued", "active", "revoked"}, expiresAt : Nat]

CallOp == {"none", "login", "refresh", "changePassword", "remove"}

CallAt == {"idle", "readAttempts", "writeAttempts", "resetAttempts",
           "revoke", "createToken", "writePassword", "writeDeleted"}

Call == [op : CallOp, at : CallAt, user : User \cup {NoUser},
         token : Token \cup {NoToken}, attempts : Nat, password : Password]

Idle == [op |-> "none", at |-> "idle", user |-> NoUser, token |-> NoToken,
         attempts |-> 0, password |-> FirstPassword]

(***************************************************************************)
(* A session begins with a login and goes on with each token that is given *)
(* for its last one.  A logout of the user ends it, except where a refresh *)
(* has read the token before and has not yet answered: that one is racing. *)
(***************************************************************************)
Standing == {"none", "begun", "racing", "ended"}

SessionsInit ==
  /\ now = 1
  /\ users = [u \in User |->
       [failedLoginAttempts |-> 0, lockedUntil |-> Null,
        password |-> FirstPassword, deletedAt |-> "null"]]
  /\ tokens = [t \in Token |->
       [userId |-> NoUser, status |-> "unissued", expiresAt |-> 0]]
  /\ call = [h \in Handler |-> Idle]
  /\ parent = [t \in Token |-> NoToken]
  /\ failed = [u \in User |-> [ever |-> 0, inARow |-> 0, last |-> 0]]
  /\ standing = [t \in Token |-> "none"]

-----------------------------------------------------------------------------

At(h, statement) == call[h].at = statement

Begin(h, c) == call[h] = Idle /\ call' = [call EXCEPT ![h] = c]

Goto(h, statement) == call' = [call EXCEPT ![h].at = statement]

Respond(h) == call' = [call EXCEPT ![h] = Idle]

IsAccountLocked(u) == now < users[u].lockedUntil

(***************************************************************************)
(* login.  The password is compared with the row that the first statement  *)
(* read, and so is the question whether there are attempts to reset.       *)
(***************************************************************************)
FindUser(h, u, password) ==
  /\ users[u].deletedAt = "null"
  /\ ~ IsAccountLocked(u)
  /\ password # users[u].password => failed[u].ever < MaxFailures
  /\ Begin(h, [Idle EXCEPT !.op = "login", !.user = u,
                 !.at = IF password # users[u].password THEN "readAttempts"
                        ELSE IF users[u].failedLoginAttempts > 0
                          THEN "resetAttempts" ELSE "createToken"])
  /\ UNCHANGED <<now, users, tokens, parent, failed, standing>>

\* incrementFailedAttempts reads the row again ...
ReadAttempts(h) ==
  /\ At(h, "readAttempts")
  /\ call' = [call EXCEPT ![h] =
       [@ EXCEPT !.at = "writeAttempts",
                 !.attempts = users[call[h].user].failedLoginAttempts]]
  /\ UNCHANGED <<now, users, tokens, parent, failed, standing>>

\* Mutant: one attempt too early.
LockedUntilEarly(attempts) ==
  IF attempts + 1 >= MAX_FAILED_ATTEMPTS THEN now + LockDuration ELSE Null

LockedUntil(attempts) ==
  IF attempts >= MAX_FAILED_ATTEMPTS THEN now + LockDuration ELSE Null

\* ... and writes the count and the lock that follow from what it read.
WriteAttempts(h) ==
  LET u == call[h].user
      newAttempts == call[h].attempts + 1 IN
  /\ At(h, "writeAttempts")
  /\ users' = [users EXCEPT ![u] =
       [@ EXCEPT !.failedLoginAttempts = newAttempts,
                 !.lockedUntil = LockedUntil(newAttempts)]]
  /\ failed' = [failed EXCEPT ![u] =
       [ever |-> @.ever + 1, inARow |-> @.inARow + 1, last |-> now]]
  /\ Respond(h)
  /\ UNCHANGED <<now, tokens, parent, standing>>

\* Mutant: one attempt is taken off instead of all of them.
ResetAttemptsByOne(h) ==
  /\ At(h, "resetAttempts")
  /\ users' = [users EXCEPT ![call[h].user] =
       [@ EXCEPT !.failedLoginAttempts = @ - 1, !.lockedUntil = Null]]
  /\ failed' = [failed EXCEPT ![call[h].user] = [@ EXCEPT !.inARow = 0]]
  /\ Goto(h, "createToken")
  /\ UNCHANGED <<now, tokens, parent, standing>>

ResetAttempts(h) ==
  /\ At(h, "resetAttempts")
  /\ users' = [users EXCEPT ![call[h].user] =
       [@ EXCEPT !.failedLoginAttempts = 0, !.lockedUntil = Null]]
  /\ failed' = [failed EXCEPT ![call[h].user] = [@ EXCEPT !.inARow = 0]]
  /\ Goto(h, "createToken")
  /\ UNCHANGED <<now, tokens, parent, standing>>

\* The standing of a token given for token t, or by a login.
Continues(t) == IF t = NoToken THEN "begun" ELSE standing[t]

\* Mutant: a revoked row is taken for a free one.
CreateTokenAgain(h) ==
  /\ At(h, "createToken")
  /\ \E t \in Token :
       /\ tokens[t].status # "active"
       /\ tokens' = [tokens EXCEPT ![t] =
            [userId |-> call[h].user, status |-> "active",
             expiresAt |-> now + TokenLife]]
       /\ parent' = [parent EXCEPT ![t] = call[h].token]
       /\ standing' = [standing EXCEPT ![t] = Continues(call[h].token)]
  /\ Respond(h)
  /\ UNCHANGED <<now, users, failed>>

\* The last statement of login and of refreshAccessToken.
CreateToken(h) ==
  LET u == call[h].user IN
  /\ At(h, "createToken")
  /\ \E t \in Token :
       /\ tokens[t].status = "unissued"
       /\ tokens' = [tokens EXCEPT ![t] =
            [userId |-> u, status |-> "active", expiresAt |-> now + TokenLife]]
       /\ parent' = [parent EXCEPT ![t] = call[h].token]
       /\ standing' = [standing EXCEPT ![t] = Continues(call[h].token)]
  /\ IF call[h].op = "login"
       THEN failed' = [failed EXCEPT ![u] = [@ EXCEPT !.inARow = 0]]
       ELSE UNCHANGED failed
  /\ Respond(h)
  /\ UNCHANGED <<now, users>>

(***************************************************************************)
(* refreshAccessToken.  The user of the token comes with it, unfiltered.   *)
(***************************************************************************)
\* Mutant: nobody asks whether the token was revoked.
FindRevokedToken(h, t) ==
  /\ tokens[t].status # "unissued"
  /\ now <= tokens[t].expiresAt
  /\ Begin(h, [Idle EXCEPT !.op = "refresh", !.at = "revoke", !.token = t,
                           !.user = tokens[t].userId])
  /\ UNCHANGED <<now, users, tokens, parent, failed, standing>>

FindToken(h, t) ==
  /\ tokens[t].status = "active"
  /\ now <= tokens[t].expiresAt
  /\ Begin(h, [Idle EXCEPT !.op = "refresh", !.at = "revoke", !.token = t,
                           !.user = tokens[t].userId])
  /\ UNCHANGED <<now, users, tokens, parent, failed, standing>>

\* Mutant: the used token is left as it is.
KeepToken(h) ==
  /\ At(h, "revoke")
  /\ Goto(h, "createToken")
  /\ UNCHANGED <<now, users, tokens, parent, failed, standing>>

\* An UPDATE by id alone, whether or not somebody revoked the token meanwhile.
RevokeToken(h) ==
  /\ At(h, "revoke")
  /\ tokens' = [tokens EXCEPT ![call[h].token] = [@ EXCEPT !.status = "revoked"]]
  /\ Goto(h, "createToken")
  /\ UNCHANGED <<now, users, parent, failed, standing>>

\* JwtStrategy.validate: an access token was issued, and its user is there.
Authenticated(u) ==
  /\ \E t \in Token : tokens[t].userId = u
  /\ users[u].deletedAt = "null"

\* After a logout of u: the sessions of u, and those of everybody else.
Ended(u) ==
  [t \in Token |->
     IF tokens[t].userId # u THEN standing[t]
     ELSE IF \E h \in Handler : call[h].op = "refresh" /\ call[h].token = t
       THEN "racing" ELSE "ended"]

\* logout: one updateMany over the tokens that are not revoked yet.
Logout(h, u) ==
  /\ call[h] = Idle
  /\ Authenticated(u)
  /\ tokens' = [t \in Token |->
       IF tokens[t].userId = u /\ tokens[t].status = "active"
         THEN [tokens[t] EXCEPT !.status = "revoked"] ELSE tokens[t]]
  /\ standing' = Ended(u)
  /\ UNCHANGED <<now, users, call, parent, failed>>

\* UsersService.changePassword: the current password is compared first.
CheckPassword(h, u, newPassword) ==
  /\ Authenticated(u)
  /\ Begin(h, [Idle EXCEPT !.op = "changePassword", !.at = "writePassword",
                           !.user = u, !.password = newPassword])
  /\ UNCHANGED <<now, users, tokens, parent, failed, standing>>

WritePassword(h) ==
  /\ At(h, "writePassword")
  /\ users' = [users EXCEPT ![call[h].user] =
                 [@ EXCEPT !.password = call[h].password]]
  /\ Respond(h)
  /\ UNCHANGED <<now, tokens, parent, failed, standing>>

\* UsersService.remove, by an administrator of the tenant: a soft delete
\* that leaves the refresh tokens as they are.
FindRemoved(h, u) ==
  /\ users[u].deletedAt = "null"
  /\ Begin(h, [Idle EXCEPT !.op = "remove", !.at = "writeDeleted", !.user = u])
  /\ UNCHANGED <<now, users, tokens, parent, failed, standing>>

WriteDeleted(h) ==
  /\ At(h, "writeDeleted")
  /\ users' = [users EXCEPT ![call[h].user] = [@ EXCEPT !.deletedAt = "set"]]
  /\ Respond(h)
  /\ UNCHANGED <<now, tokens, parent, failed, standing>>

\* The process dies, or the database does, between two statements.
Crash(h) ==
  /\ call[h] # Idle
  /\ Respond(h)
  /\ UNCHANGED <<now, users, tokens, parent, failed, standing>>

Tick ==
  /\ now < MaxTime
  /\ now' = now + 1
  /\ UNCHANGED <<users, tokens, call, parent, failed, standing>>

SessionsStep(h) ==
  \/ ReadAttempts(h)
  \/ WriteAttempts(h)
  \/ ResetAttempts(h)
  \/ CreateToken(h)
  \/ RevokeToken(h)
  \/ WritePassword(h)
  \/ WriteDeleted(h)
  \/ Crash(h)

SessionsCall(h) ==
  \/ \E u \in User :
       \/ \E password \in Password :
            FindUser(h, u, password) \/ CheckPassword(h, u, password)
       \/ Logout(h, u)
       \/ FindRemoved(h, u)
  \/ \E t \in Token : FindToken(h, t)

SessionsNext ==
  \/ Tick
  \/ \E h \in Handler : SessionsCall(h) \/ SessionsStep(h)

SessionsSpec == SessionsInit /\ [][SessionsNext]_sessionVars

-----------------------------------------------------------------------------

SessionsTypeOK ==
  /\ now \in Nat
  /\ users \in [User -> UserRow]
  /\ tokens \in [Token -> TokenRow]
  /\ call \in [Handler -> Call]
  /\ parent \in [Token -> Token \cup {NoToken}]
  /\ failed \in [User -> [ever : Nat, inARow : Nat, last : Nat]]
  /\ standing \in [Token -> Standing]

(***************************************************************************)
(* Rotation gives a new token for a used one: wherever refreshAccessToken  *)
(* is interrupted, by a crash, a logout or another refresh, the token it   *)
(* was given is revoked by the time its successor exists.                  *)
(***************************************************************************)
ReplacedIsRevoked ==
  \A t \in Token : parent[t] # NoToken => tokens[parent[t]].status = "revoked"

(***************************************************************************)
(* Revocation is final: no call in flight brings a revoked token back,     *)
(* or hands it to somebody else.                                           *)
(***************************************************************************)
RevokedIsFinal ==
  [][\A t \in Token : tokens[t].status = "revoked" => tokens'[t] = tokens[t]]_tokens

(***************************************************************************)
(* Nobody is locked out for nothing: the attempts counted in a user's row  *)
(* all failed, and a lock stands for MAX_FAILED_ATTEMPTS of them, whatever *)
(* order the counting statements of concurrent logins come in.             *)
(***************************************************************************)
AttemptsAreReal ==
  \A u \in User :
    /\ users[u].failedLoginAttempts <= failed[u].ever
    /\ users[u].lockedUntil # Null => failed[u].ever >= MAX_FAILED_ATTEMPTS

(***************************************************************************)
(* "Akun terkunci 30 menit setelah 5 failed attempts": that many failures  *)
(* with no success between them lock the account from the last one on.     *)
(* (Concurrent logins lose counts and undo each other's lock.)             *)
(***************************************************************************)
LockedAfterFailures ==
  \A u \in User :
    failed[u].inARow >= MAX_FAILED_ATTEMPTS =>
      users[u].lockedUntil = failed[u].last + LockDuration

(***************************************************************************)
(* A logout ends every session of its user, on whatever device, begun by a *)
(* login or gone on by refreshes: none of their tokens can be refreshed    *)
(* with any more, nor is one given for them.  What it does not end are the *)
(* sessions whose token a refresh had read and not yet replaced, and those *)
(* that go on from what such a refresh gave.                               *)
(***************************************************************************)
LogoutEndsSessions ==
  \A t \in Token : tokens[t].status = "active" => standing[t] # "ended"

(***************************************************************************)
(* "Revoke semua refresh token aktif": after a logout, the user has no     *)
(* live token but those of sessions that a login has begun since.  (A      *)
(* refresh that read its token before the logout gives its successor after *)
(* it.)                                                                    *)
(***************************************************************************)
LogoutRevokesAll ==
  \A t \in Token : tokens[t].status = "active" => standing[t] = "begun"
=============================================================================
