\* The simulator plants all anomalies while the workers still store ticks, and dies and restarts.
SPECIFICATION Spec
CONSTANTS
    sim = sim
    Sim = sim
    None = None
    NoOwner = NoOwner
    Consumers <- OneSimulator
    Quantities = {1}
    Drifts = {1}
    MaxPublished = 4
    TickTime <- EverySecondTick
    Shift = 3
    ReadCount = 3
    MinRecent = 2
    MaxGap = 1
    RecentLimit = 3
    MaxFills = 2
    MaxIdleReads = 1
    Anomalies <- AllAnomalies
    StoredFirst = FALSE
    MaxTrades = 3
    MaxCrashes = 1
    MaxRuns = 2
INVARIANTS
    TypeOK
    AtMostOneFill
    MaxFillsKept
    CrashLosesOneRow
    GroundTruthIsComplete
CHECK_DEADLOCK FALSE
