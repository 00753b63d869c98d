\* One run of the asset per date, nobody dies, nothing overlaps.
SPECIFICATION Spec
CONSTANTS
    r1 = r1
    r2 = r2
    Dates <- TwoDates
    Lines <- FourLines
    DateOf <- TwoAndTwo
    Rejected = {}
    Unreadable = {}
    Keys = {1, 2}
    LinesPerObject = 2
    Runs = {r1}
    MaxBackfills = 0
    MaxCrashes = 0
INVARIANTS
    GoldKeyIsUnique
CHECK_DEADLOCK FALSE
