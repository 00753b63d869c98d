\* The deployed pool and one crash: nobody takes over the dead worker's batch.
SPECIFICATION FairSpec
CONSTANTS
    w1 = w1
    w2 = w2
    r1 = r1
    NoOwner = NoOwner
    None = None
    Consumers <- TwoWorkers
    Recoverers = {}
    MaxPublished = 2
    ReadBatch = 2
    ClaimBatch = 1
    ClaimLive = FALSE
    MaxMessages = None
    MaxIdleReads = None
    PublishBatch = 2
    AllowSignals = FALSE
    MaxCrashes = 1
    MaxRuns = 2
    MaxClaims = 0
PROPERTIES
    DeliveredIsStored
