CONSTANTS
    Workers = {w1}
    Operators = {o1}
    LeaseFor = 1
    LifeFor = 1
    RefreshBefore = 0
    MaxAttempts = 2
    MaxIssued = 2
    MaxFaults = 1
SPECIFICATION FairSpec
INVARIANTS AccountInv
PROPERTIES NoStaleOverwrite GateOpensUsable JobSettles
CHECK_DEADLOCK FALSE
