SPECIFICATION FairSpec
CONSTANTS
  j1 = j1
  j2 = j2
  w1 = w1
  w2 = w2
  k = k
  JobIds = {j1, j2}
  Workers = {w1, w2}
  KeyOf <- MCKeyOf
  OwnerOf <- MCOwnerOf
  Owners <- MCOwners
  Delays <- MCDelays
  LeaseFor = 2
  MaxAttempts = 2
  ExecutionTimeout = 3
  RecoveryBatchLimit = 1
  MaxDeferrals = 1
INVARIANTS
  QueueInv
PROPERTIES
  OnlyHolderEnds
  ImplementsLifecycle
  EveryJobEnds
