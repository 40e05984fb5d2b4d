SPECIFICATION FairSpec
CONSTANTS
  t1 = t1
  k1 = k1
  k2 = k2
  Tokens = {t1}
  Keys = {k1, k2}
  Writers = {w1, w2}
  Null = Null
  Admin = Admin
  CallLists <- CallOrRetry
  Deletions <- AnyDeletion
  MaxCalls = 2
  Connections = 3
  SlowDatabase = TRUE
INVARIANTS TokenUsageExact BillingPreserved NeverOvercounted
PROPERTIES EveryLogEnds
CHECK_DEADLOCK FALSE
