SPECIFICATION SessionsSpec
CONSTANTS
  Handler = {h1, h2}
  User = {u1}
  Password = {good, bad}
  FirstPassword = good
  Token = {k1, k2}
  NoToken = NoToken
  NoUser = NoUser
  MAX_FAILED_ATTEMPTS = 2
  LockDuration = 1
  TokenLife = 1
  MaxTime = 3
  MaxFailures = 3
SYMMETRY Symmetric
INVARIANT
  LockedAfterFailures
CHECK_DEADLOCK FALSE
