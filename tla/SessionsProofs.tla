--------------------------- MODULE SessionsProofs ---------------------------
(***************************************************************************)
(* The safety of sessions, for any number of concurrent calls: rotation    *)
(* revokes before it issues, revocation is final, a logout ends every      *)
(* session but those a refresh is just renewing, and no attempt is counted *)
(* that did not fail.                                                      *)
(***************************************************************************)
EXTENDS Sessions, TLAPS

(***************************************************************************)
(* What a call in flight still knows when it sends its next statement.     *)
(* The locals of a method go stale, but not in these respects: a token     *)
(* that was issued stays issued, one that was revoked stays revoked, and   *)
(* failures that happened do not unhappen.                                 *)
(***************************************************************************)
CallKnows(h) ==
  /\ call[h].at # "idle" => call[h].user \in User
  /\ call[h].at = "revoke" =>
       /\ call[h].token \in Token
       /\ tokens[call[h].token].status # "unissued"
  /\ call[h].at = "createToken" /\ call[h].token # NoToken =>
       tokens[call[h].token].status = "revoked"
  /\ call[h].at \in {"readAttempts", "writeAttempts", "resetAttempts"} =>
       call[h].token = NoToken
  /\ call[h].at = "writeAttempts" =>
       call[h].attempts <= failed[call[h].user].ever

CallsKnow == \A h \in Handler : CallKnows(h)

IssuedHasUser ==
  \A t \in Token : tokens[t].status # "unissued" => tokens[t].userId \in User

SessionsInv ==
  /\ SessionsTypeOK
  /\ CallsKnow
  /\ IssuedHasUser
  /\ ReplacedIsRevoked
  /\ AttemptsAreReal

\* What one step may do to the tokens and the failures that calls rely on.
Settled ==
  /\ \A t \in Token :
       /\ tokens[t].status = "revoked" => tokens'[t] = tokens[t]
       /\ tokens[t].status # "unissued" =>
            /\ tokens'[t].status # "unissued"
            /\ tokens'[t].userId = tokens[t].userId
  /\ \A u \in User : failed'[u].ever >= failed[u].ever

\* The first state satisfies the invariant.
LEMMA SessionsInitInv == SessionsInit => SessionsInv
<1> SUFFICES ASSUME SessionsInit PROVE SessionsInv
  OBVIOUS
<1>1. standing \in [Token -> Standing]
  BY DEF SessionsInit, Standing
<1>2. SessionsTypeOK
  BY <1>1, SessionsAssumption
     DEF SessionsInit, SessionsTypeOK, UserRow, TokenRow, Call, CallOp, CallAt,
         Idle, Null
<1>3. CallsKnow
  BY DEF SessionsInit, CallsKnow, CallKnows, Idle
<1>4. IssuedHasUser /\ ReplacedIsRevoked /\ AttemptsAreReal
  BY SessionsAssumption
     DEF SessionsInit, IssuedHasUser, ReplacedIsRevoked, AttemptsAreReal, Null
<1> QED BY <1>2, <1>3, <1>4 DEF SessionsInv

\* A step that only replaces the locals of h: those of the others keep.
LEMMA CallsStillKnow ==
  ASSUME SessionsInv, NEW h \in Handler, NEW c \in Call,
         call' = [call EXCEPT ![h] = c], Settled, CallKnows(h)',
         SessionsTypeOK'
  PROVE  CallsKnow'
<1> SUFFICES ASSUME NEW g \in Handler PROVE CallKnows(g)'
  BY DEF CallsKnow
<1>1. CASE g = h
  BY <1>1
<1>2. CASE g # h
  <2>1. call'[g] = call[g] /\ call[g] \in Call
    BY <1>2 DEF SessionsInv, SessionsTypeOK
  <2>2. CallKnows(g)
    BY DEF SessionsInv, CallsKnow
  <2>3. call[g].at = "writeAttempts" =>
          call[g].attempts <= failed'[call[g].user].ever
    <3> SUFFICES ASSUME call[g].at = "writeAttempts"
                 PROVE  call[g].attempts <= failed'[call[g].user].ever
      OBVIOUS
    <3>1. call[g].user \in User /\ call[g].attempts <= failed[call[g].user].ever
      BY <2>2 DEF CallKnows
    <3>2. call[g].attempts \in Nat
      BY <2>1 DEF Call
    <3>3. failed[call[g].user].ever \in Nat
      BY <3>1 DEF SessionsInv, SessionsTypeOK
    <3>4. failed'[call[g].user].ever >= failed[call[g].user].ever
      BY <3>1 DEF Settled
    <3>5. failed'[call[g].user].ever \in Nat
      BY <3>1 DEF SessionsTypeOK
    <3> QED BY <3>1, <3>2, <3>3, <3>4, <3>5
  <2>4. call[g].token \in Token \cup {NoToken}
    BY <2>1 DEF Call
  <2> QED BY <2>1, <2>2, <2>3, <2>4 DEF CallKnows, Settled
<1> QED BY <1>1, <1>2

\* A step that changes only the locals of h, or the clock as well.
LEMMA LocalStep ==
  ASSUME SessionsInv, NEW h \in Handler, NEW c \in Call,
         call' = [call EXCEPT ![h] = c], CallKnows(h)',
         UNCHANGED <<now, users, tokens, parent, failed, standing>>
  PROVE  SessionsInv' /\ Settled
<1>1. SessionsTypeOK'
  BY DEF SessionsInv, SessionsTypeOK
<1>2. Settled
  BY DEF Settled, SessionsInv, SessionsTypeOK
<1>3. IssuedHasUser' /\ ReplacedIsRevoked' /\ AttemptsAreReal'
  BY DEF SessionsInv, IssuedHasUser, ReplacedIsRevoked, AttemptsAreReal
<1>4. CallsKnow'
  BY <1>1, <1>2, CallsStillKnow
<1> QED BY <1>1, <1>2, <1>3, <1>4 DEF SessionsInv

\* A step that writes the row of one user, and perhaps counts a failure.
LEMMA UserStep ==
  ASSUME SessionsInv, NEW h \in Handler, NEW c \in Call,
         call' = [call EXCEPT ![h] = c], CallKnows(h)',
         NEW u \in User, NEW row \in UserRow,
         users' = [users EXCEPT ![u] = row],
         NEW count \in [ever : Nat, inARow : Nat, last : Nat],
         failed' = [failed EXCEPT ![u] = count],
         count.ever >= failed[u].ever,
         row.failedLoginAttempts <= count.ever,
         row.lockedUntil # Null => count.ever >= MAX_FAILED_ATTEMPTS,
         UNCHANGED <<now, tokens, parent, standing>>
  PROVE  SessionsInv' /\ Settled
<1>1. SessionsTypeOK'
  BY DEF SessionsInv, SessionsTypeOK
<1>2. Settled
  BY DEF Settled, SessionsInv, SessionsTypeOK
<1>3. IssuedHasUser' /\ ReplacedIsRevoked'
  BY DEF SessionsInv, IssuedHasUser, ReplacedIsRevoked
<1>4. AttemptsAreReal'
  BY DEF SessionsInv, SessionsTypeOK, AttemptsAreReal
<1>5. CallsKnow'
  BY <1>1, <1>2, CallsStillKnow
<1> QED BY <1>1, <1>2, <1>3, <1>4, <1>5 DEF SessionsInv

\* The locals of h, the row of its user and the count of that user's failures.
LEMMA Locals ==
  ASSUME SessionsInv, NEW h \in Handler, call[h].at # "idle"
  PROVE  /\ call[h] \in Call
         /\ CallKnows(h)
         /\ call[h].user \in User
         /\ users[call[h].user] \in UserRow
         /\ failed[call[h].user] \in [ever : Nat, inARow : Nat, last : Nat]
BY DEF SessionsInv, SessionsTypeOK, CallsKnow, CallKnows

\* An idle handler, whatever became of its call, relies on nothing.
LEMMA IdleKnows ==
  ASSUME SessionsInv, NEW h \in Handler, Respond(h)
  PROVE  Idle \in Call /\ CallKnows(h)'
<1>1. Idle \in Call
  BY SessionsAssumption DEF Idle, Call, CallOp, CallAt
<1>2. call'[h] = Idle
  BY DEF Respond, SessionsInv, SessionsTypeOK
<1> QED BY <1>1, <1>2 DEF CallKnows, Idle

\* Every call of a handler keeps the invariant.
LEMMA CallInv ==
  ASSUME SessionsInv, NEW h \in Handler, SessionsCall(h)
  PROVE  SessionsInv' /\ Settled
<1>1. ASSUME NEW u \in User, NEW password \in Password,
             FindUser(h, u, password)
      PROVE  SessionsInv' /\ Settled
  <2> DEFINE at == IF password # users[u].password THEN "readAttempts"
                   ELSE IF users[u].failedLoginAttempts > 0
                     THEN "resetAttempts" ELSE "createToken"
             c == [Idle EXCEPT !.op = "login", !.user = u, !.at = at]
  <2>1. c \in Call
    BY SessionsAssumption DEF Idle, Call, CallOp, CallAt
  <2>2. call' = [call EXCEPT ![h] = c] /\ call'[h] = c
    BY <1>1 DEF FindUser, Begin, SessionsInv, SessionsTypeOK
  <2>3. /\ c.user = u /\ c.token = NoToken
        /\ c.at \in {"readAttempts", "resetAttempts", "createToken"}
    BY DEF Idle
  <2> HIDE DEF c
  <2>4. CallKnows(h)'
    BY <2>2, <2>3 DEF CallKnows
  <2> QED BY <1>1, <2>1, <2>2, <2>4, LocalStep DEF FindUser
<1>2. ASSUME NEW u \in User, NEW password \in Password,
             CheckPassword(h, u, password)
      PROVE  SessionsInv' /\ Settled
  <2> DEFINE c == [Idle EXCEPT !.op = "changePassword", !.at = "writePassword",
                               !.user = u, !.password = password]
  <2>1. c \in Call
    BY SessionsAssumption DEF Idle, Call, CallOp, CallAt
  <2>2. call' = [call EXCEPT ![h] = c] /\ call'[h] = c
    BY <1>2 DEF CheckPassword, Begin, SessionsInv, SessionsTypeOK
  <2>3. c.user = u /\ c.token = NoToken /\ c.at = "writePassword"
    BY DEF Idle
  <2> HIDE DEF c
  <2>4. CallKnows(h)'
    BY <2>2, <2>3 DEF CallKnows
  <2> QED BY <1>2, <2>1, <2>2, <2>4, LocalStep DEF CheckPassword
<1>3. ASSUME NEW u \in User, FindRemoved(h, u)
      PROVE  SessionsInv' /\ Settled
  <2> DEFINE c == [Idle EXCEPT !.op = "remove", !.at = "writeDeleted",
                               !.user = u]
  <2>1. c \in Call
    BY SessionsAssumption DEF Idle, Call, CallOp, CallAt
  <2>2. call' = [call EXCEPT ![h] = c] /\ call'[h] = c
    BY <1>3 DEF FindRemoved, Begin, SessionsInv, SessionsTypeOK
  <2>3. c.user = u /\ c.token = NoToken /\ c.at = "writeDeleted"
    BY DEF Idle
  <2> HIDE DEF c
  <2>4. CallKnows(h)'
    BY <2>2, <2>3 DEF CallKnows
  <2> QED BY <1>3, <2>1, <2>2, <2>4, LocalStep DEF FindRemoved
<1>4. ASSUME NEW t \in Token, FindToken(h, t)
      PROVE  SessionsInv' /\ Settled
  <2> DEFINE c == [Idle EXCEPT !.op = "refresh", !.at = "revoke", !.token = t,
                               !.user = tokens[t].userId]
  <2>1. tokens[t].status = "active" /\ tokens[t].userId \in User
    BY <1>4 DEF FindToken, SessionsInv, IssuedHasUser
  <2>2. c \in Call
    BY <2>1, SessionsAssumption DEF Idle, Call, CallOp, CallAt
  <2>3. call' = [call EXCEPT ![h] = c] /\ call'[h] = c
    BY <1>4 DEF FindToken, Begin, SessionsInv, SessionsTypeOK
  <2>4. c.user = tokens[t].userId /\ c.token = t /\ c.at = "revoke"
    BY DEF Idle
  <2>5. UNCHANGED tokens
    BY <1>4 DEF FindToken
  <2> HIDE DEF c
  <2>6. CallKnows(h)'
    BY <2>1, <2>3, <2>4, <2>5 DEF CallKnows
  <2> QED BY <1>4, <2>2, <2>3, <2>6, LocalStep DEF FindToken
<1>5. ASSUME NEW u \in User, Logout(h, u)
      PROVE  SessionsInv' /\ Settled
  <2>1. \A t \in Token :
          /\ tokens[t] \in TokenRow
          /\ tokens'[t] \in TokenRow
          /\ tokens'[t].userId = tokens[t].userId
          /\ tokens'[t] = tokens[t] \/ /\ tokens[t].status = "active"
                                       /\ tokens'[t].status = "revoked"
    BY <1>5 DEF Logout, SessionsInv, SessionsTypeOK, TokenRow
  <2>2. SessionsTypeOK'
    <3>1. tokens' \in [Token -> TokenRow]
      BY <1>5, <2>1 DEF Logout
    <3>2. Ended(u) \in [Token -> Standing]
      BY DEF Ended, Standing, SessionsInv, SessionsTypeOK
    <3>3. standing' \in [Token -> Standing]
      BY <1>5, <3>2 DEF Logout
    <3> QED BY <1>5, <3>1, <3>3 DEF Logout, SessionsInv, SessionsTypeOK
  <2>3. Settled
    BY <1>5, <2>1 DEF Settled, Logout, SessionsInv, SessionsTypeOK
  <2>4. IssuedHasUser' /\ ReplacedIsRevoked' /\ AttemptsAreReal'
    <3>1. AttemptsAreReal'
      BY <1>5 DEF Logout, SessionsInv, AttemptsAreReal
    <3>2. IssuedHasUser'
      BY <1>5, <2>1 DEF SessionsInv, IssuedHasUser
    <3>3. ReplacedIsRevoked'
      BY <1>5, <2>1 DEF Logout, SessionsInv, SessionsTypeOK, ReplacedIsRevoked
    <3> QED BY <3>1, <3>2, <3>3
  <2>5. call' = [call EXCEPT ![h] = call[h]] /\ call[h] \in Call
    BY <1>5 DEF Logout, SessionsInv, SessionsTypeOK
  <2>6. CallKnows(h)'
    BY <1>5 DEF Logout, CallKnows, Idle
  <2>7. CallsKnow'
    BY <2>2, <2>3, <2>5, <2>6, CallsStillKnow
  <2> QED BY <2>2, <2>3, <2>4, <2>7 DEF SessionsInv
<1> QED BY <1>1, <1>2, <1>3, <1>4, <1>5 DEF SessionsCall

\* Every further statement of a call, and its crash, keeps the invariant.
LEMMA StepInv ==
  ASSUME SessionsInv, NEW h \in Handler, SessionsStep(h)
  PROVE  SessionsInv' /\ Settled
<1> DEFINE u == call[h].user
<1>1. CASE ReadAttempts(h)
  <2> DEFINE c == [call[h] EXCEPT !.at = "writeAttempts",
                                  !.attempts = users[u].failedLoginAttempts]
  <2>1. /\ call[h] \in Call /\ CallKnows(h) /\ u \in User
        /\ users[u] \in UserRow
    BY <1>1, Locals DEF ReadAttempts, At
  <2>2. c \in Call
    BY <2>1 DEF Call, CallAt, UserRow
  <2>3. c.user = u /\ c.token = call[h].token /\ c.at = "writeAttempts"
        /\ c.attempts = users[u].failedLoginAttempts
    BY <2>1 DEF Call
  <2>4. call' = [call EXCEPT ![h] = c] /\ call'[h] = c
    BY <1>1 DEF ReadAttempts, SessionsInv, SessionsTypeOK
  <2>5. call[h].token = NoToken
    BY <1>1, <2>1 DEF ReadAttempts, At, CallKnows
  <2>6. users[u].failedLoginAttempts <= failed[u].ever /\ UNCHANGED failed
    BY <1>1, <2>1 DEF ReadAttempts, SessionsInv, AttemptsAreReal
  <2> HIDE DEF c
  <2>7. CallKnows(h)'
    BY <2>1, <2>3, <2>4, <2>5, <2>6 DEF CallKnows
  <2> QED BY <1>1, <2>2, <2>4, <2>7, LocalStep DEF ReadAttempts
<1>2. CASE WriteAttempts(h)
  <2> DEFINE newAttempts == call[h].attempts + 1
             row == [users[u] EXCEPT !.failedLoginAttempts = newAttempts,
                                     !.lockedUntil = LockedUntil(newAttempts)]
             count == [ever |-> failed[u].ever + 1,
                       inARow |-> failed[u].inARow + 1, last |-> now]
  <2>1. /\ call[h] \in Call /\ CallKnows(h) /\ u \in User
        /\ users[u] \in UserRow
        /\ failed[u] \in [ever : Nat, inARow : Nat, last : Nat]
    BY <1>2, Locals DEF WriteAttempts, At
  <2>2. now \in Nat /\ call[h].attempts \in Nat /\ failed[u].ever \in Nat
    BY <2>1 DEF SessionsInv, SessionsTypeOK, Call
  <2>3. call[h].attempts <= failed[u].ever
    BY <1>2, <2>1 DEF WriteAttempts, At, CallKnows
  <2>4. /\ LockedUntil(newAttempts) \in Nat
        /\ LockedUntil(newAttempts) # Null =>
             newAttempts >= MAX_FAILED_ATTEMPTS
    BY <2>2, SessionsAssumption DEF LockedUntil, Null
  <2>5. /\ row \in UserRow
        /\ row.failedLoginAttempts = newAttempts
        /\ row.lockedUntil = LockedUntil(newAttempts)
    <3>1. \A n, m \in Nat :
            LET r == [users[u] EXCEPT !.failedLoginAttempts = n,
                                      !.lockedUntil = m]
            IN  r \in UserRow /\ r.failedLoginAttempts = n /\ r.lockedUntil = m
      BY <2>1 DEF UserRow
    <3>2. newAttempts \in Nat
      BY <2>2
    <3> QED BY <2>4, <3>1, <3>2
  <2>6. /\ count \in [ever : Nat, inARow : Nat, last : Nat]
        /\ count.ever = failed[u].ever + 1
    BY <2>1, <2>2
  <2>7. /\ users' = [users EXCEPT ![u] = row]
        /\ failed' = [failed EXCEPT ![u] = count]
        /\ call' = [call EXCEPT ![h] = Idle]
        /\ UNCHANGED <<now, tokens, parent, standing>>
    BY <1>2 DEF WriteAttempts, Respond
  <2>8. Idle \in Call /\ CallKnows(h)'
    BY <1>2, IdleKnows DEF WriteAttempts
  <2>9. /\ count.ever >= failed[u].ever
        /\ row.failedLoginAttempts <= count.ever
        /\ row.lockedUntil # Null => count.ever >= MAX_FAILED_ATTEMPTS
    BY <2>2, <2>3, <2>4, <2>5, <2>6, SessionsAssumption
  <2> HIDE DEF u, row, count, newAttempts
  <2> QED BY <2>1, <2>5, <2>6, <2>7, <2>8, <2>9, UserStep
<1>3. CASE ResetAttempts(h)
  <2> DEFINE row == [users[u] EXCEPT !.failedLoginAttempts = 0,
                                     !.lockedUntil = Null]
             count == [failed[u] EXCEPT !.inARow = 0]
             c == [call[h] EXCEPT !.at = "createToken"]
  <2>1. /\ call[h] \in Call /\ CallKnows(h) /\ u \in User
        /\ users[u] \in UserRow
        /\ failed[u] \in [ever : Nat, inARow : Nat, last : Nat]
    BY <1>3, Locals DEF ResetAttempts, At
  <2>2. /\ row \in UserRow /\ row.failedLoginAttempts = 0
        /\ row.lockedUntil = Null
    BY <2>1 DEF UserRow, Null
  <2>3. /\ count \in [ever : Nat, inARow : Nat, last : Nat]
        /\ count.ever = failed[u].ever
    BY <2>1
  <2>4. /\ c \in Call /\ c.user = u /\ c.token = call[h].token
        /\ c.at = "createToken"
    BY <2>1 DEF Call, CallAt
  <2>5. call[h].token = NoToken
    BY <1>3, <2>1 DEF ResetAttempts, At, CallKnows
  <2>6. /\ users' = [users EXCEPT ![u] = row]
        /\ failed' = [failed EXCEPT ![u] = count]
        /\ call' = [call EXCEPT ![h] = c] /\ call'[h] = c
        /\ UNCHANGED <<now, tokens, parent, standing>>
    BY <1>3 DEF ResetAttempts, Goto, SessionsInv, SessionsTypeOK
  <2> HIDE DEF c
  <2>7. CallKnows(h)'
    BY <2>1, <2>4, <2>5, <2>6 DEF CallKnows
  <2>8. failed[u].ever \in Nat
    BY <2>1
  <2> HIDE DEF u, row, count
  <2>9. /\ count.ever >= failed[u].ever
        /\ row.failedLoginAttempts <= count.ever
        /\ row.lockedUntil # Null => count.ever >= MAX_FAILED_ATTEMPTS
    BY <2>2, <2>3, <2>8
  <2> QED BY <2>1, <2>2, <2>3, <2>4, <2>6, <2>7, <2>9, UserStep
<1>4. CASE WritePassword(h) \/ WriteDeleted(h)
  <2>1. /\ call[h] \in Call /\ u \in User
        /\ users[u] \in UserRow
        /\ failed[u] \in [ever : Nat, inARow : Nat, last : Nat]
    BY <1>4, Locals DEF WritePassword, WriteDeleted, At
  <2>2. PICK row \in UserRow :
          /\ users' = [users EXCEPT ![u] = row]
          /\ row.failedLoginAttempts = users[u].failedLoginAttempts
          /\ row.lockedUntil = users[u].lockedUntil
    <3>1. CASE WritePassword(h)
      <4> DEFINE row == [users[u] EXCEPT !.password = call[h].password]
      <4>1. /\ row \in UserRow
            /\ row.failedLoginAttempts = users[u].failedLoginAttempts
            /\ row.lockedUntil = users[u].lockedUntil
        BY <2>1 DEF UserRow, Call
      <4>2. users' = [users EXCEPT ![u] = row]
        BY <3>1 DEF WritePassword
      <4> QED BY <4>1, <4>2
    <3>2. CASE WriteDeleted(h)
      <4> DEFINE row == [users[u] EXCEPT !.deletedAt = "set"]
      <4>1. /\ row \in UserRow
            /\ row.failedLoginAttempts = users[u].failedLoginAttempts
            /\ row.lockedUntil = users[u].lockedUntil
        BY <2>1 DEF UserRow
      <4>2. users' = [users EXCEPT ![u] = row]
        BY <3>2 DEF WriteDeleted
      <4> QED BY <4>1, <4>2
    <3> QED BY <1>4, <3>1, <3>2
  <2>3. /\ failed' = [failed EXCEPT ![u] = failed[u]]
        /\ call' = [call EXCEPT ![h] = Idle]
        /\ UNCHANGED <<now, tokens, parent, standing>>
    BY <1>4 DEF WritePassword, WriteDeleted, Respond, SessionsInv,
                SessionsTypeOK
  <2>4. Idle \in Call /\ CallKnows(h)'
    BY <1>4, IdleKnows DEF WritePassword, WriteDeleted
  <2>5. /\ users[u].failedLoginAttempts <= failed[u].ever
        /\ users[u].lockedUntil # Null =>
             failed[u].ever >= MAX_FAILED_ATTEMPTS
    BY <2>1 DEF SessionsInv, AttemptsAreReal
  <2>6. failed[u].ever >= failed[u].ever
    BY <2>1
  <2> HIDE DEF u
  <2> QED BY <2>1, <2>2, <2>3, <2>4, <2>5, <2>6, UserStep
<1>5. CASE RevokeToken(h)
  <2> DEFINE t == call[h].token
             c == [call[h] EXCEPT !.at = "createToken"]
  <2>1. /\ call[h] \in Call /\ CallKnows(h) /\ u \in User
    BY <1>5, Locals DEF RevokeToken, At
  <2>2. t \in Token /\ tokens[t].status # "unissued" /\ tokens[t] \in TokenRow
    BY <1>5, <2>1 DEF RevokeToken, At, CallKnows, SessionsInv, SessionsTypeOK
  <2>3. /\ tokens' = [tokens EXCEPT ![t] =
                        [tokens[t] EXCEPT !.status = "revoked"]]
        /\ call' = [call EXCEPT ![h] = c] /\ call'[h] = c
        /\ UNCHANGED <<now, users, parent, failed, standing>>
    BY <1>5 DEF RevokeToken, Goto, SessionsInv, SessionsTypeOK
  <2>4. /\ c \in Call /\ c.user = u /\ c.token = t /\ c.at = "createToken"
    BY <2>1 DEF Call, CallAt
  <2> HIDE DEF c
  <2>5. /\ tokens'[t] \in TokenRow /\ tokens'[t].status = "revoked"
        /\ tokens'[t].userId = tokens[t].userId
        /\ tokens[t].status = "revoked" => tokens'[t] = tokens[t]
        /\ \A s \in Token : s # t => tokens'[s] = tokens[s]
    BY <2>2, <2>3 DEF TokenRow, SessionsInv, SessionsTypeOK
  <2>6. SessionsTypeOK'
    BY <2>2, <2>3, <2>4, <2>5 DEF SessionsInv, SessionsTypeOK
  <2>7. Settled
    BY <2>2, <2>3, <2>5 DEF Settled, SessionsInv, SessionsTypeOK
  <2>8. IssuedHasUser' /\ ReplacedIsRevoked' /\ AttemptsAreReal'
    BY <2>2, <2>3, <2>5
       DEF SessionsInv, SessionsTypeOK, IssuedHasUser, ReplacedIsRevoked,
           AttemptsAreReal
  <2>9. CallKnows(h)'
    BY <2>1, <2>3, <2>4, <2>5 DEF CallKnows
  <2>10. CallsKnow'
    BY <2>3, <2>4, <2>6, <2>7, <2>9, CallsStillKnow
  <2> QED BY <2>6, <2>7, <2>8, <2>10 DEF SessionsInv
<1>6. CASE CreateToken(h)
  <2>1. /\ call[h] \in Call /\ CallKnows(h) /\ u \in User
        /\ failed[u] \in [ever : Nat, inARow : Nat, last : Nat]
    BY <1>6, Locals DEF CreateToken, At
  <2>2. PICK t \in Token :
          /\ tokens[t].status = "unissued"
          /\ tokens' = [tokens EXCEPT ![t] =
               [userId |-> u, status |-> "active", expiresAt |-> now + TokenLife]]
          /\ parent' = [parent EXCEPT ![t] = call[h].token]
          /\ standing' = [standing EXCEPT ![t] = Continues(call[h].token)]
    BY <1>6 DEF CreateToken
  <2>3. /\ tokens'[t] \in TokenRow /\ tokens'[t].status = "active"
        /\ tokens'[t].userId = u
        /\ \A s \in Token : s # t => tokens'[s] = tokens[s]
    BY <2>1, <2>2, SessionsAssumption
       DEF TokenRow, SessionsInv, SessionsTypeOK
  <2>4. /\ parent'[t] = call[h].token
        /\ \A s \in Token : s # t => parent'[s] = parent[s]
        /\ parent' \in [Token -> Token \cup {NoToken}]
    BY <2>1, <2>2 DEF SessionsInv, SessionsTypeOK, Call
  <2>5. /\ failed' \in [User -> [ever : Nat, inARow : Nat, last : Nat]]
        /\ \A v \in User : failed'[v].ever = failed[v].ever
    <3>1. CASE call[h].op = "login"
      <4> DEFINE count == [failed[u] EXCEPT !.inARow = 0]
      <4>1. /\ count \in [ever : Nat, inARow : Nat, last : Nat]
            /\ count.ever = failed[u].ever
        BY <2>1
      <4>2. failed' = [failed EXCEPT ![u] = count]
        BY <1>6, <3>1 DEF CreateToken
      <4> HIDE DEF count, u
      <4> QED BY <2>1, <4>1, <4>2 DEF SessionsInv, SessionsTypeOK
    <3>2. CASE call[h].op # "login"
      BY <1>6, <3>2 DEF CreateToken, SessionsInv, SessionsTypeOK
    <3> QED BY <3>1, <3>2
  <2>6. /\ call' = [call EXCEPT ![h] = Idle] /\ UNCHANGED <<now, users>>
        /\ Idle \in Call /\ CallKnows(h)'
    BY <1>6, IdleKnows DEF CreateToken, Respond
  <2>7. SessionsTypeOK'
    <3>1. standing' = [standing EXCEPT ![t] = Continues(call[h].token)]
      BY <2>2
    <3>2. Continues(call[h].token) \in Standing
      BY <2>1 DEF Continues, Standing, Call, SessionsInv, SessionsTypeOK
    <3>3. standing' \in [Token -> Standing]
      BY <3>1, <3>2 DEF SessionsInv, SessionsTypeOK
    <3> QED BY <2>2, <2>3, <2>4, <2>5, <2>6, <3>3
            DEF SessionsInv, SessionsTypeOK
  <2>8. Settled
    BY <2>2, <2>3, <2>5 DEF Settled, SessionsInv, SessionsTypeOK
  <2>9. IssuedHasUser'
    BY <2>1, <2>3 DEF SessionsInv, IssuedHasUser
  <2>10. AttemptsAreReal'
    BY <2>5, <2>6 DEF SessionsInv, AttemptsAreReal
  <2>11. ReplacedIsRevoked'
    <3> SUFFICES ASSUME NEW s \in Token, parent'[s] # NoToken
                 PROVE  tokens'[parent'[s]].status = "revoked"
      BY DEF ReplacedIsRevoked
    <3>1. parent'[s] \in Token
      BY <2>4
    <3>2. tokens[parent'[s]].status = "revoked"
      <4>1. CASE s = t
        <5>1. call[h].at = "createToken"
          BY <1>6 DEF CreateToken, At
        <5>2. call[h].token # NoToken /\ parent'[s] = call[h].token
          BY <2>4, <4>1
        <5> QED BY <2>1, <5>1, <5>2 DEF CallKnows
      <4>2. CASE s # t
        BY <2>4, <4>2 DEF SessionsInv, ReplacedIsRevoked
      <4> QED BY <4>1, <4>2
    <3>3. parent'[s] # t
      BY <2>2, <3>2
    <3> QED BY <2>3, <3>1, <3>2, <3>3
  <2>12. CallsKnow'
    BY <2>6, <2>7, <2>8, CallsStillKnow
  <2> QED BY <2>7, <2>8, <2>9, <2>10, <2>11, <2>12 DEF SessionsInv
<1>7. CASE Crash(h)
  BY <1>7, IdleKnows, LocalStep DEF Crash, Respond
<1> QED BY <1>1, <1>2, <1>3, <1>4, <1>5, <1>6, <1>7 DEF SessionsStep

\* Every step of the whole keeps the invariant and settles what it settled.
LEMMA SessionsNextInv ==
  SessionsInv /\ [SessionsNext]_sessionVars => SessionsInv' /\ Settled
<1> SUFFICES ASSUME SessionsInv, [SessionsNext]_sessionVars
             PROVE  SessionsInv' /\ Settled
  OBVIOUS
<1>1. CASE UNCHANGED <<users, tokens, call, parent, failed, standing>>
             /\ now' \in Nat
  <2>1. SessionsTypeOK' /\ IssuedHasUser' /\ ReplacedIsRevoked'
          /\ AttemptsAreReal'
    BY <1>1 DEF SessionsInv, SessionsTypeOK, IssuedHasUser, ReplacedIsRevoked,
                AttemptsAreReal
  <2>2. CallsKnow'
    BY <1>1 DEF SessionsInv, CallsKnow, CallKnows
  <2>3. Settled
    BY <1>1 DEF Settled, SessionsInv, SessionsTypeOK
  <2> QED BY <2>1, <2>2, <2>3 DEF SessionsInv
<1>2. CASE Tick
  BY <1>1, <1>2 DEF Tick, SessionsInv, SessionsTypeOK
<1>3. CASE UNCHANGED sessionVars
  BY <1>1, <1>3 DEF sessionVars, SessionsInv, SessionsTypeOK
<1> QED BY <1>2, <1>3, CallInv, StepInv DEF SessionsNext

\* The invariant holds for ever.
LEMMA SessionsAlways == SessionsSpec => []SessionsInv
<1>1. SessionsInv /\ [SessionsNext]_sessionVars => SessionsInv'
  BY SessionsNextInv
<1> QED BY <1>1, SessionsInitInv, PTL DEF SessionsSpec

(***************************************************************************)
(* Every variable keeps its type, and so do the locals of every call.      *)
(***************************************************************************)
THEOREM SessionsTyped == SessionsSpec => []SessionsTypeOK
<1>1. SessionsInv => SessionsTypeOK
  BY DEF SessionsInv
<1> QED BY <1>1, SessionsAlways, PTL

(***************************************************************************)
(* Rotation never leaves a token usable next to the one it was exchanged   *)
(* for, however many refreshes, logouts and crashes interleave.            *)
(***************************************************************************)
THEOREM RotationRevokes == SessionsSpec => []ReplacedIsRevoked
<1>1. SessionsInv => ReplacedIsRevoked
  BY DEF SessionsInv
<1> QED BY <1>1, SessionsAlways, PTL

(***************************************************************************)
(* Nobody is locked out for failures that did not happen.                  *)
(***************************************************************************)
THEOREM LocksAreDeserved == SessionsSpec => []AttemptsAreReal
<1>1. SessionsInv => AttemptsAreReal
  BY DEF SessionsInv
<1> QED BY <1>1, SessionsAlways, PTL

(***************************************************************************)
(* A revoked refresh token stays revoked.                                  *)
(***************************************************************************)
THEOREM RevocationLasts == SessionsSpec => RevokedIsFinal
<1>1. SessionsInv /\ [SessionsNext]_sessionVars =>
        [\A t \in Token : tokens[t].status = "revoked" =>
            tokens'[t] = tokens[t]]_tokens
  BY SessionsNextInv DEF Settled
<1> QED BY <1>1, SessionsAlways, PTL DEF SessionsSpec, RevokedIsFinal

(***************************************************************************)
(* What a refresh in flight holds is not a token of an ended session: the  *)
(* logout that would end it counts the session as racing.                  *)
(***************************************************************************)
RefreshesGoOn ==
  \A h \in Handler :
    call[h].token # NoToken =>
      call[h].op = "refresh" /\ standing[call[h].token] # "ended"

LogoutInv == RefreshesGoOn /\ LogoutEndsSessions

\* A step that leaves tokens and their standing alone, and gives h a call
\* with the token it had, or none.
LEMMA LogoutUntouched ==
  ASSUME LogoutInv, NEW h \in Handler, NEW c \in Call,
         call \in [Handler -> Call], call' = [call EXCEPT ![h] = c],
         c.token = NoToken \/ (c.token = call[h].token /\ c.op = call[h].op),
         UNCHANGED standing,
         \A t \in Token :
           tokens'[t].status = "active" => tokens[t].status = "active"
  PROVE  LogoutInv'
<1>1. RefreshesGoOn'
  BY DEF LogoutInv, RefreshesGoOn
<1>2. LogoutEndsSessions'
  BY DEF LogoutInv, LogoutEndsSessions
<1> QED BY <1>1, <1>2 DEF LogoutInv

\* Beginning a call preserves LogoutInv.
LEMMA LogoutCall ==
  ASSUME SessionsInv, LogoutInv, NEW h \in Handler, SessionsCall(h)
  PROVE  LogoutInv'
<1>t. /\ call \in [Handler -> Call] /\ tokens \in [Token -> TokenRow]
      /\ standing \in [Token -> Standing]
  BY DEF SessionsInv, SessionsTypeOK
<1>1. ASSUME NEW c \in Call, c.token = NoToken,
             call' = [call EXCEPT ![h] = c],
             UNCHANGED <<tokens, standing>>
      PROVE  LogoutInv'
  BY <1>1, <1>t, LogoutUntouched
<1>2. ASSUME NEW u \in User, NEW password \in Password,
             FindUser(h, u, password)
      PROVE  LogoutInv'
  <2> DEFINE c == [Idle EXCEPT !.op = "login", !.user = u,
                 !.at = IF password # users[u].password THEN "readAttempts"
                        ELSE IF users[u].failedLoginAttempts > 0
                          THEN "resetAttempts" ELSE "createToken"]
  <2>1. c \in Call /\ c.token = NoToken
    BY SessionsAssumption DEF Idle, Call, CallOp, CallAt
  <2>2. call' = [call EXCEPT ![h] = c] /\ UNCHANGED <<tokens, standing>>
    BY <1>2 DEF FindUser, Begin
  <2> HIDE DEF c
  <2> QED BY <2>1, <2>2, <1>1
<1>3. ASSUME NEW u \in User, NEW password \in Password,
             CheckPassword(h, u, password)
      PROVE  LogoutInv'
  <2> DEFINE c == [Idle EXCEPT !.op = "changePassword", !.at = "writePassword",
                               !.user = u, !.password = password]
  <2>1. c \in Call /\ c.token = NoToken
    BY SessionsAssumption DEF Idle, Call, CallOp, CallAt
  <2>2. call' = [call EXCEPT ![h] = c] /\ UNCHANGED <<tokens, standing>>
    BY <1>3 DEF CheckPassword, Begin
  <2> HIDE DEF c
  <2> QED BY <2>1, <2>2, <1>1
<1>4. ASSUME NEW u \in User, FindRemoved(h, u)
      PROVE  LogoutInv'
  <2> DEFINE c == [Idle EXCEPT !.op = "remove", !.at = "writeDeleted",
                               !.user = u]
  <2>1. c \in Call /\ c.token = NoToken
    BY SessionsAssumption DEF Idle, Call, CallOp, CallAt
  <2>2. call' = [call EXCEPT ![h] = c] /\ UNCHANGED <<tokens, standing>>
    BY <1>4 DEF FindRemoved, Begin
  <2> HIDE DEF c
  <2> QED BY <2>1, <2>2, <1>1
<1>5. ASSUME NEW t \in Token, FindToken(h, t)
      PROVE  LogoutInv'
  <2>1. call'[h].op = "refresh" /\ call'[h].token = t
    BY <1>5, <1>t DEF FindToken, Begin, Idle
  <2>2. \A g \in Handler : g # h => call'[g] = call[g]
    BY <1>5, <1>t DEF FindToken, Begin
  <2>3. standing' = standing /\ tokens' = tokens
    BY <1>5 DEF FindToken
  <2>4. standing[t] # "ended"
    BY <1>5 DEF FindToken, LogoutInv, LogoutEndsSessions
  <2>5. RefreshesGoOn'
    BY <2>1, <2>2, <2>3, <2>4 DEF LogoutInv, RefreshesGoOn
  <2> QED BY <2>3, <2>5 DEF LogoutInv, LogoutEndsSessions
<1>6. ASSUME NEW u \in User, Logout(h, u)
      PROVE  LogoutInv'
  <2>1. call' = call /\ standing' = Ended(u)
    BY <1>6 DEF Logout
  <2>2. ASSUME NEW g \in Handler, call[g].token # NoToken
        PROVE  call[g].op = "refresh" /\ Ended(u)[call[g].token] # "ended"
    <3>1. call[g].op = "refresh" /\ standing[call[g].token] # "ended"
      BY <2>2 DEF LogoutInv, RefreshesGoOn
    <3>2. call[g].token \in Token
      BY <1>t, <2>2 DEF Call
    <3> QED BY <3>1, <3>2 DEF Ended
  <2>3. RefreshesGoOn'
    BY <2>1, <2>2 DEF RefreshesGoOn
  <2>4. ASSUME NEW t \in Token, tokens'[t].status = "active"
        PROVE  standing'[t] # "ended"
    <3>1. tokens[t] \in TokenRow
      BY <1>t
    <3>2. tokens'[t] = IF tokens[t].userId = u /\ tokens[t].status = "active"
                         THEN [tokens[t] EXCEPT !.status = "revoked"]
                         ELSE tokens[t]
      BY <1>6 DEF Logout
    <3>3. tokens'[t] = tokens[t] /\ tokens[t].userId # u
      BY <2>4, <3>1, <3>2 DEF TokenRow
    <3>4. standing'[t] = standing[t]
      BY <2>1, <3>3 DEF Ended
    <3> QED BY <2>4, <3>3, <3>4 DEF LogoutInv, LogoutEndsSessions
  <2> QED BY <2>3, <2>4 DEF LogoutInv, LogoutEndsSessions
<1> QED BY <1>2, <1>3, <1>4, <1>5, <1>6 DEF SessionsCall

\* A later statement of a call preserves LogoutInv.
LEMMA LogoutStep ==
  ASSUME SessionsInv, LogoutInv, NEW h \in Handler, SessionsStep(h)
  PROVE  LogoutInv'
<1>t. /\ call \in [Handler -> Call] /\ tokens \in [Token -> TokenRow]
      /\ standing \in [Token -> Standing]
      /\ call[h] \in Call /\ call[h] = call[h]
  BY DEF SessionsInv, SessionsTypeOK
<1>i. Idle \in Call /\ Idle.token = NoToken
  BY SessionsAssumption DEF Idle, Call, CallOp, CallAt
<1>1. CASE ReadAttempts(h)
  <2> DEFINE c == [call[h] EXCEPT !.at = "writeAttempts",
                     !.attempts = users[call[h].user].failedLoginAttempts]
  <2>1. call[h].user \in User
    BY <1>1 DEF ReadAttempts, At, SessionsInv, CallsKnow, CallKnows
  <2>2. c \in Call /\ c.token = call[h].token /\ c.op = call[h].op
    BY <1>t, <2>1 DEF Call, CallAt, SessionsInv, SessionsTypeOK, UserRow
  <2>3. call' = [call EXCEPT ![h] = c] /\ UNCHANGED <<tokens, standing>>
    BY <1>1 DEF ReadAttempts
  <2> HIDE DEF c
  <2> QED BY <1>t, <2>2, <2>3, LogoutUntouched
<1>2. CASE WriteAttempts(h) \/ WritePassword(h) \/ WriteDeleted(h) \/ Crash(h)
  <2>1. call' = [call EXCEPT ![h] = Idle] /\ UNCHANGED <<tokens, standing>>
    BY <1>2 DEF WriteAttempts, WritePassword, WriteDeleted, Crash, Respond
  <2> QED BY <1>t, <1>i, <2>1, LogoutUntouched
<1>3. CASE ResetAttempts(h) \/ RevokeToken(h)
  <2> DEFINE c == [call[h] EXCEPT !.at = "createToken"]
  <2>1. c \in Call /\ c.token = call[h].token /\ c.op = call[h].op
    BY <1>t DEF Call, CallAt
  <2>2. call' = [call EXCEPT ![h] = c] /\ UNCHANGED standing
    BY <1>3 DEF ResetAttempts, RevokeToken, Goto
  <2>3. ASSUME NEW t \in Token, tokens'[t].status = "active"
        PROVE  tokens[t].status = "active"
    BY <1>3, <1>t, <2>3 DEF ResetAttempts, RevokeToken, TokenRow
  <2> HIDE DEF c
  <2> QED BY <1>t, <2>1, <2>2, <2>3, LogoutUntouched
<1>4. CASE CreateToken(h)
  <2>1. PICK t \in Token :
          /\ tokens' = [tokens EXCEPT ![t] =
               [userId |-> call[h].user, status |-> "active",
                expiresAt |-> now + TokenLife]]
          /\ standing' = [standing EXCEPT ![t] = Continues(call[h].token)]
    BY <1>4 DEF CreateToken
  <2>2. Continues(call[h].token) # "ended"
    BY <1>t DEF LogoutInv, RefreshesGoOn, Continues
  <2>3. call' = [call EXCEPT ![h] = Idle]
    BY <1>4 DEF CreateToken, Respond
  <2>4. \A s \in Token : standing[s] # "ended" => standing'[s] # "ended"
    BY <1>t, <2>1, <2>2
  <2>5. RefreshesGoOn'
    <3> SUFFICES ASSUME NEW g \in Handler, call'[g].token # NoToken
                 PROVE  /\ call'[g].op = "refresh"
                        /\ standing'[call'[g].token] # "ended"
      BY DEF RefreshesGoOn
    <3>1. g # h /\ call'[g] = call[g]
      BY <1>t, <1>i, <2>3
    <3>2. call[g].op = "refresh" /\ standing[call[g].token] # "ended"
      BY <3>1 DEF LogoutInv, RefreshesGoOn
    <3>3. call[g].token \in Token
      BY <1>t, <3>1 DEF Call
    <3> QED BY <2>4, <3>1, <3>2, <3>3
  <2>6. ASSUME NEW s \in Token, tokens'[s].status = "active"
        PROVE  standing'[s] # "ended"
    BY <1>t, <2>1, <2>2, <2>6 DEF LogoutInv, LogoutEndsSessions
  <2> QED BY <2>5, <2>6 DEF LogoutInv, LogoutEndsSessions
<1> QED BY <1>1, <1>2, <1>3, <1>4 DEF SessionsStep

(***************************************************************************)
(* A logout ends every session of its user, the rotated ones too: none of  *)
(* their tokens can be refreshed with, and none is given for them.  Left   *)
(* out are the sessions that a refresh was renewing when the logout came.  *)
(***************************************************************************)
THEOREM LogoutIsThorough == SessionsSpec => []LogoutEndsSessions
<1>1. SessionsInit => LogoutInv
  BY SessionsAssumption
     DEF SessionsInit, LogoutInv, RefreshesGoOn, LogoutEndsSessions, Idle
<1>2. SessionsInv /\ LogoutInv /\ [SessionsNext]_sessionVars => LogoutInv'
  <2> SUFFICES ASSUME SessionsInv, LogoutInv, [SessionsNext]_sessionVars
               PROVE  LogoutInv'
    OBVIOUS
  <2>1. CASE UNCHANGED <<tokens, call, standing>>
    BY <2>1 DEF LogoutInv, RefreshesGoOn, LogoutEndsSessions
  <2>2. CASE Tick \/ UNCHANGED sessionVars
    BY <2>1, <2>2 DEF Tick, sessionVars
  <2> QED BY <2>2, LogoutCall, LogoutStep DEF SessionsNext
<1>3. LogoutInv => LogoutEndsSessions
  BY DEF LogoutInv
<1> QED BY <1>1, <1>2, <1>3, SessionsAlways, PTL DEF SessionsSpec
=============================================================================
