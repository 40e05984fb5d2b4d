SPECIFICATION Spec
CONSTANTS
  t1 = t1
  k1 = k1
  k2 = k2
  Tokens = {t1}
  Keys = {k1, k2}
  Writers = {w1}
  Null = Null
  Admin = Admin
  CallLists <- TwoPages
  Deletions <- KeyDeletions
  MaxCalls = 2
  Connections = 4
  SlowDatabase = FALSE
INVARIANTS KeysDeletable
CHECK_DEADLOCK FALSE
