SPECIFICATION FairSpec
CONSTANTS
    Workers = {w1, w2}
    MaxAttempts = 2
    SyncFor = 2
    RetryFor = 1
    CooldownFor = 2
    ReserveFor = 1
    Day = 3
    QuietFor = 1
    MaxFaults = 1
INVARIANTS
  SyncInv
PROPERTIES
  ScheduleFenced
  SyncProgress
