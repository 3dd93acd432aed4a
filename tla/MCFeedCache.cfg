CONSTANTS
    Workers = {w1}
    Requests = {r1}
    Tokens = {t1, t2, t3, t4}
    BuildLeaseFor = 2
    CacheTtl = 1
    MaxRevision = 2
    MaxFaults = 1
SPECIFICATION FairFeedSpec
INVARIANTS
  FeedInv
PROPERTIES
  ServedForward
  FeedProgress
CHECK_DEADLOCK FALSE
