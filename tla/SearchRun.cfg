SPECIFICATION FairSpec
CONSTANTS
  brave = brave
  exa = exa
  c1 = c1
  c2 = c2
  Callers = {c1, c2}
  Providers = {brave, exa}
  Enabled = {brave, exa}
  Searches <- TwoCallers
  Modes = {"parallel", "fallback", "single"}
  KeyRetryCount <- OneRetry
  ProviderTimeout <- OneAndTwoTicks
  RuntimeTimeout = 1
  Second = 0
  LogTimeout = 1
  Errors = {"upstream", "invalid_response"}
  Retryable <- AnyDefault
  Pages = {"u", "v", "w"}
  Finds <- Overlapping
  Sometimes = {brave}
  Reports = {brave}
  Limit = 2
  CacheMaxResults = 1
  SlowDatabase = TRUE
INVARIANTS TypeOK AnswerFromAsked CacheIsWhole ResultsAreBest 
PROPERTIES EverySearchEnds ImplementsPromise
