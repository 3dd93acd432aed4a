CONSTANTS
    Requests = {r1, r2, r3}
    Attempts = {a1, a2}
    MaxActive = 1
    Ttl = 1
    MaxTime = 2
SPECIFICATION FairQrSpec
INVARIANTS QrInv
PROPERTIES ConsumedStaysConsumed RequestsEnd
CHECK_DEADLOCK FALSE
