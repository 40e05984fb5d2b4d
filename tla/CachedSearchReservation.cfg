SPECIFICATION SpecSearch
CONSTANTS
  Keys = {k1}
  Requests = {r1, r2, r3}
  Cycles = {"day"}
  Rollovers = {}
  Quota <- TwoADay
  KeyConcurrency <- Unlimited
  RPMLimit <- Unlimited
  ProviderConcurrency = 0
  MaxAttempts = 1
  MaxPeriod = 1
  Policies = {"refresh", "bypass"}
  MaxVersion = 2
SYMMETRY Symmetry
INVARIANTS ReservationKept
