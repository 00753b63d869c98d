\* The sensor's runs and a backfill on the same dates, with crashes and an unreadable line.
SPECIFICATION FairSpec
CONSTANTS
    r1 = r1
    r2 = r2
    Dates <- TwoDates
    Lines <- FourLines
    DateOf <- ThreeAndOne
    Rejected = {4}
    Unreadable = {3}
    Keys = {1, 2}
    LinesPerObject = 2
    Runs <- TwoRuns
    MaxBackfills = 1
    MaxCrashes = 1
INVARIANTS
    TypeOK
    RerunReplaces
    FilesAreExact
    FailureKeepsPartition
PROPERTIES
    LandedIsRebuilt
    GoldNeedsOneFile
CHECK_DEADLOCK FALSE
