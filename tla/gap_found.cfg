\* A gap planted at the first stored tick, with the limits of the code.
SPECIFICATION ReportSpec
CONSTANTS
    sim = sim
    Sim = sim
    None = None
    NoOwner = NoOwner
    Consumers <- OneSimulator
    Quantities = {1}
    Drifts = {1}
    MaxPublished = 6
    TickTime <- EverySecondTick
    Shift = 3
    ReadCount = 20
    MinRecent = 6
    MaxGap = 3
    RecentLimit = 50
    MaxFills = None
    MaxIdleReads = 1
    Anomalies <- GapsOnly
    StoredFirst = TRUE
    MaxTrades = 1
    MaxCrashes = 0
    MaxRuns = 1
    NoBreaks = NoBreaks
    MatchWindow = 1
    Starts <- WholeSession
    Until = 100
INVARIANTS
    PlantedGapIsFound
CHECK_DEADLOCK FALSE
