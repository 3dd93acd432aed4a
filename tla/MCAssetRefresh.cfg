SPECIFICATION FairRefreshSpec
CONSTANTS
  x1 = x1
  x2 = x2
  Assets = {x1, x2}
  ArticleIds = {1, 2}
  JobIds = {j1, j2}
  Workers = {w1}
  MaxPending = 2
  PublicMaxPending = 1
  RepairMaxAttempts = 1
  RefreshMaxAttempts = 2
  JobMaxAttempts = 2
  MaxGen = 2
  FirstTables <- MCFirstTables
INVARIANTS
  RefreshInv
PROPERTIES
  StaleHandlerHarmless
  GenerationCompletes
