\* The deployed pool: workers die, restart and are signalled; nobody reclaims.
SPECIFICATION FairSpec
CONSTANTS
    w1 = w1
    w2 = w2
    r1 = r1
    NoOwner = NoOwner
    None = None
    Consumers <- TwoWorkers
    Recoverers = {}
    MaxPublished = 3
    ReadBatch = 2
    ClaimBatch = 1
    ClaimLive = FALSE
    MaxMessages = None
    MaxIdleReads = 2
    PublishBatch = 2
    AllowSignals = TRUE
    MaxCrashes = 2
    MaxRuns = 2
    MaxClaims = 0
INVARIANTS
    TypeOK
    DeliveryInv
    CopiesInv
    OnlyCrashOrCapStrands
    TotalsAgree
PROPERTIES
    BacklogDrained
CHECK_DEADLOCK FALSE
