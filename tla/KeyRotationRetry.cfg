SPECIFICATION RotationSpec
CONSTANTS
  PoolKeys = {1, 2}
  Heavy = {}
  Acquirers = {a1}
  Strategies = {"round_robin"}
  MaxCalls = 2
  MaxLead = 1
  NoKey = NoKey
  Patience = 5
PROPERTY RetryUsesOtherKey
