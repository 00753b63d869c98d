\* The ingest program over disconnects, PUT and publish errors, kills and a restart.
SPECIFICATION FairSpec
CONSTANTS
    None = None
    Partitions <- TwoHours
    FlushMaxLines = 2
    FlushMaxAge = 2
    MaxReconnects = 1
    MaxBackoff = 3
    MaxReceived = 3
    MaxPutErrors = 1
    MaxKills = 1
    MaxRuns = 2
INVARIANTS
    TypeOK
    EveryLineIsKept
    LandedOnce
    BuffersStayBelowLimit
    SequencesHaveNoHoles
PROPERTIES
    ImplementsRawLog
    BufferedLands
CHECK_DEADLOCK FALSE
