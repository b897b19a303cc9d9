CONSTANTS
  c1 = c1
  c2 = c2
  r1 = r1
  r2 = r2
  m1 = m1
  m2 = m2
  None = None
  Callers = {c1, c2}
  Requests = {r1, r2}
  Models = {m1, m2}
  Comparisons <- MCComparisons
  MaxCalls = 4
  MethodOf <- MCMethodOf
  GapOf <- MCGapOf
  Metrics <- MCMetrics
  MaxVersions = 2
  Portfolios = {"main"}
  Assets = {"x", "y"}
  Identities = {"krw"}
  IntentIds <- MCIntentIds
  Quantities <- MCQuantities
  Prices <- MCPrices
  Fees = {1}
  Deposits = {12}
  Times = {0}
  Orders <- MCOrders
  Databases <- MCDatabases
  TablesOf <- MCTablesOf
  WrittenTables = {"execution"}
  Migrators = {"first", "second"}
  MaxWrites = 1
  Pairs = {"a", "b"}
  ByVolume <- MCByVolume
  Listings = {{"a", "b"}}
  Traded <- MCTraded
  Bar = 2
  Page = 1
  Starts = {0}
  Lookback = 2
  Bootstrap = 4
  MinimumHistoryBars = 2
  MaximumAssets = 2
  Budget = 1
  MaximumRetries = 1
  MaxTime = 3
  MaxSyncs = 3
SPECIFICATION StoresSpec
SYMMETRY Symmetry
CHECK_DEADLOCK FALSE
INVARIANTS
  ActiveIsEarned ReferencesResolve ModelInUseIsApproved PostgresKeepsTheBooks RepairedForGood
