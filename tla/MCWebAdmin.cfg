\* The administration of sources, accounts, tokens and configuration.
\* Clients need not send another request: the server may rest.
SPECIFICATION Spec
CONSTANTS
    r1 = "r1"
    r2 = "r2"
    r3 = "r3"
    r4 = "r4"
    r5 = "r5"
    Requests = {"r1", "r2", "r3", "r4", "r5"}
    Boot = "boot"
    Workloads <- MCWorkloads
    Keys = {"peer"}
    RATE_LIMIT_FAILURES = 2
    RATE_LIMIT_WINDOW = 2
    SESSION_TTL = 2
    Sources = {"s1", "s2", "s3", "s4"}
    Accounts = {"a1", "a2"}
    Books = {"b1", "b2", "b3"}
    PageVisits <- MCVisits
    MAX_SECTION_RECORDS = 2
INVARIANTS
  WebInv
  BundlesAgree
PROPERTIES
  SourcesKept
  ImportIsWhole
  AccessKept
  EveryRequestAnswered
CHECK_DEADLOCK FALSE
