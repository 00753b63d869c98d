\* One PUT of the flush task fails, and the feed goes quiet.
SPECIFICATION FairSpec
CONSTANTS
    None = None
    Partitions <- TwoHours
    FlushMaxLines = 2
    FlushMaxAge = 2
    MaxReconnects = None
    MaxBackoff = 3
    MaxReceived = 3
    MaxPutErrors = 1
    MaxKills = 0
    MaxRuns = 1
PROPERTIES
    NothingSitsBuffered
CHECK_DEADLOCK FALSE
