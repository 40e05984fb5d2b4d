SPECIFICATION FairSpec
CONSTANTS
  k1 = k1
  k2 = k2
  Keys = {k1}
  Requests = {r1, r2}
  Cycles = {"day", "month"}
  Rollovers <- DayAndMonthRoll
  Quota <- TwoADayThreeAMonth
  KeyConcurrency <- Unlimited
  RPMLimit <- OneEach
  ProviderConcurrency = 0
  MaxAttempts = 2
  MaxPeriod = 2
INVARIANTS QuotaHeld BooksBalance
PROPERTIES ObservedNeverRewinds KeyRecovers
