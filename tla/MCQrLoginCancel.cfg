CONSTANTS
    Requests = {r1, r2, r3}
    Attempts = {a1, a2}
    MaxActive = 1
    Ttl = 1
    MaxTime = 2
SPECIFICATION QrSpec
PROPERTIES CancelCannotWin
CHECK_DEADLOCK FALSE
