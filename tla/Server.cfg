SPECIFICATION ServerSpec
CONSTANTS
  Logins = {l1, l2}
  Names = {n1, n2}
  Visits = {v1, v2}
  SessionTokens = {s1, s2}
  Nobody = Nobody
  MaxAttempts = 2
  MaxWindows = 1
  LoginWindow = 1
  Lockout = 2
  SessionTTL = 1
  MaxRotations = 1
  tk = tk
  p = p
  q = q
  r1 = r1
  r2 = r2
  Requests = {r1, r2}
  Tokens = {tk}
  Providers = {p, q}
  Capable = {p}
  Rows <- MCRows
  FirstRow <- MCFirstRow
  Asked <- MCAsked
  Daily <- OnePerToken
  PerMinute <- OnePerToken
  AdminKey = AdminKey
  Missing = Missing
  Wrong = Wrong
  None = None
  Bodies <- MCBodies
  MaxBatch = 3
  MaxDiscovery = 4
  MaxResponse = 6
  ToolSizes = {1, 3, 6}
  searchRow = searchRow
  userRow = userRow
  cacheRow = cacheRow
  LogRows = {searchRow, userRow, cacheRow}
  Table <- MCTable
  Settings = {0, 1, 2}
  Default = 2
  CacheTTL = 1
  MaxMissed = 1
INVARIANTS LimiterHolds OvershootBounded AdmittedByOneRow BatchAnswered OldRowsGo
PROPERTIES OnlyOwnSession EntriesMatch
SYMMETRY Symmetry
