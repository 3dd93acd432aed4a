CONSTANTS
    Workers = {w1}
    MaxTokens = 2
    MaxChrono = 9000000
    MaxFailures = 1
    MaxCleanups = 1
    Environments <- MCEnvironments
SPECIFICATION Spec
INVARIANTS
  RuntimeInv
  ConfigurationAgrees
PROPERTIES
  LeaseRespected
  ComesDown
  BrowserRecovers
