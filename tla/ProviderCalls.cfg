SPECIFICATION CallsSpec
CONSTANTS
  Keys = {k1}
  Calls = {c1}
  Tests = {admin}
  Refreshes = {j1, j2}
  Null = Null
  CoolingTime = 2
  Exhaustible = TRUE
  AutoRefresh = TRUE
  PoolKeys = {1, 2}
  Heavy = {}
  Acquirers = {a1, a2}
  Strategies = {"round_robin", "least_used", "random"}
  MaxCalls = 1
  MaxLead = 1
  NoKey = NoKey
  Patience = 9
  u = u
  v = v
  Other = Other
  site = site
  jina = jina
  exa = exa
  Urls = {u, v}
  Host <- OneSite
  Literal = Literal
  Extractors = {jina, exa}
  Enabled = {jina, exa}
  Extractions <- TwoUrls
  Modes = {"parallel", "fallback", "single"}
  OneAtATime = {jina}
  KeyRetryCount <- JinaRetries
  ProviderTimeout <- ExaUntimed
  DefaultTimeout = 1
  RuntimeTimeout = 1
  Second = 0
  MaxItems = 2
  Size <- UnequalSizes
  MaxResult = 4
  MaxContent = 5
  MaxJSON = 24
  PartSize <- PartSizes
  Envelope = 1
  Escaped <- Escapes
INVARIANTS TypeOK BackoffLasts OneRefresh
INVARIANTS TurnComes
INVARIANTS ExtractTypeOK EveryUrlAnswered OnlyUnresolvedAsked ResponseBounded WindowKept
PROPERTIES NoComeback KeyReturns
