\* Two passes of the pipeline over the same tables, and nothing planted.
SPECIFICATION ReportSpec
CONSTANTS
    sim = sim
    Sim = sim
    None = None
    NoOwner = NoOwner
    NoBreaks = NoBreaks
    Consumers <- OneSimulator
    Quantities = {1}
    Drifts = {1}
    MaxPublished = 4
    TickTime <- EverySecondTick
    Shift = 7
    ReadCount = 3
    MinRecent = 3
    MaxGap = 2
    RecentLimit = 4
    MaxFills = None
    MaxIdleReads = 1
    Anomalies = {}
    StoredFirst = FALSE
    MaxTrades = 3
    MaxCrashes = 0
    MaxRuns = 2
    MatchWindow = 1
    Starts <- WholeSession
    Until = 100
INVARIANTS
    NoFalseDrift
CHECK_DEADLOCK FALSE
