SPECIFICATION AccountsSpec
CONSTANTS
  NoOne = NoOne
  NoArg = NoArg
  Handler = {h1, h2, h3}
  Email = {e1, e2}
  Store = {s1}
  Username = {n1, n2}
SYMMETRY Symmetric
INVARIANTS
  AccountsTypeOK
  StoreIsWhole
  EmailIsNotWasted
PROPERTY
  RemovedIsFinal
CHECK_DEADLOCK FALSE
