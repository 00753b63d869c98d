\* max_messages cuts batches, and claim_stale with min_idle_ms = 0 takes them from live workers.
SPECIFICATION FairSpec
CONSTANTS
    w1 = w1
    w2 = w2
    r1 = r1
    NoOwner = NoOwner
    None = None
    Consumers <- WorkersAndRecoverer
    Recoverers <- Recoverer
    MaxPublished = 3
    ReadBatch = 2
    ClaimBatch = 2
    ClaimLive = TRUE
    MaxMessages = 2
    MaxIdleReads = 1
    PublishBatch = 1
    AllowSignals = FALSE
    MaxCrashes = 1
    MaxRuns = 2
    MaxClaims = 4
INVARIANTS
    CapKept
    NothingLost
    CopiesBounded
PROPERTIES
    ImplementsDelivery
    DeliveredIsSettled
CHECK_DEADLOCK FALSE
