SPECIFICATION FairSearch
CONSTANTS
  Keys = {k1}
  Requests = {r1, r2}
  Cycles = {"day"}
  Rollovers = {}
  Quota <- TwoADay
  KeyConcurrency <- Unlimited
  RPMLimit <- Unlimited
  ProviderConcurrency = 0
  MaxAttempts = 1
  MaxPeriod = 1
  Policies = {"default", "refresh", "bypass"}
  MaxVersion = 2
INVARIANTS EveryCallCovered ServedWithinQuota
PROPERTIES CacheMovesForward FollowersAnswered
