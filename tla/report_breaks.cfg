\* A report beside a running simulator that plants all three anomalies.
SPECIFICATION ReportSpec
CONSTANTS
    sim = sim
    Sim = sim
    None = None
    NoOwner = NoOwner
    NoBreaks = NoBreaks
    Consumers <- OneSimulator
    Quantities = {1}
    Drifts = {1}
    MaxPublished = 5
    TickTime <- EverySecondTick
    Shift = 7
    ReadCount = 3
    MinRecent = 3
    MaxGap = 2
    RecentLimit = 4
    MaxFills = None
    MaxIdleReads = 1
    Anomalies <- AllAnomalies
    StoredFirst = TRUE
    MaxTrades = 3
    MaxCrashes = 1
    MaxRuns = 1
    MatchWindow = 1
    Starts <- WholeOrLater
    Until = 100
INVARIANTS
    UnmatchedIsExplained
    GapsAreExplained
    RaceCostsOneRow
    PlantedIsFound
PROPERTIES
    DriftIsExact
CHECK_DEADLOCK FALSE
