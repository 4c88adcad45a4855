SPECIFICATION SessionsSpec
CONSTANTS
  Handler = {h1, h2}
  User = {u1}
  Password = {good, bad}
  FirstPassword = good
  Token = {k1, k2, k3}
  NoToken = NoToken
  NoUser = NoUser
  MAX_FAILED_ATTEMPTS = 2
  LockDuration = 1
  TokenLife = 1
  MaxTime = 2
  MaxFailures = 2
SYMMETRY Symmetric
INVARIANTS
  SessionsTypeOK
  ReplacedIsRevoked
  AttemptsAreReal
  LogoutEndsSessions
PROPERTY
  RevokedIsFinal
CHECK_DEADLOCK FALSE
