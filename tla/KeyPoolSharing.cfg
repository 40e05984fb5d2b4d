SPECIFICATION Spec
CONSTANTS
  k1 = k1
  k2 = k2
  Keys = {k1, k2}
  Requests = {r1, r2, r3}
  Cycles = {"day"}
  Rollovers = {}
  Quota <- TwoADay
  KeyConcurrency <- OnlyFirstLimited
  RPMLimit <- Unlimited
  ProviderConcurrency = 2
  MaxAttempts = 1
  MaxPeriod = 1
SYMMETRY Symmetry
INVARIANTS TypeOK ConcurrencyHeld SlotsAccounted
