\* A ramp of two steps over which a publisher, a worker or a query may fail.
SPECIFICATION FairRampSpec
CONSTANTS
    w1 = w1
    w2 = w2
    r1 = r1
    p1 = p1
    p2 = p2
    NoOwner = NoOwner
    None = None
    Consumers <- TwoWorkers
    Publishers <- TwoPublishers
    Recoverers = {}
    Steps = 2
    MaxPublished = 2
    ReadBatch = 2
    ClaimBatch = 1
    ClaimLive = FALSE
    MaxMessages = None
    MaxIdleReads = None
    PublishBatch = 1
    AllowSignals = TRUE
    MaxCrashes = 2
    MaxRuns = 1
    MaxClaims = 0
INVARIANTS
    RampTypeOK
    StepsAreApart
    ResultsAddUp
    StoppedIsStored
PROPERTIES
    RampEnds
    SignalStops
CHECK_DEADLOCK FALSE
