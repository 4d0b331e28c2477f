CONSTANTS
  k1 = k1
  k2 = k2
  a = a
  b = b
  Keys = {k1, k2}
  Texts = {a, b}
  Calls <- Two
  MaxAttempts = 3
  MaxConnections = 2
  MaxFaults = 1
SPECIFICATION FairSpec
INVARIANTS
  TypeOK
  ToldIsDurable
  RevokedServesAtMostOne
PROPERTIES
  ImplementsPromise
  PhoneLetsGo
CHECK_DEADLOCK FALSE
