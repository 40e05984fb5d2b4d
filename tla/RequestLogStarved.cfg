SPECIFICATION Spec
CONSTANTS
  t1 = t1
  k1 = k1
  k2 = k2
  Tokens = {t1}
  Keys = {k1, k2}
  Writers = {w1, w2}
  Null = Null
  Admin = Admin
  CallLists <- OneCall
  Deletions <- NoDeletions
  MaxCalls = 2
  Connections = 2
  SlowDatabase = FALSE
INVARIANTS NoLogLost
CHECK_DEADLOCK FALSE
