SPECIFICATION FairSpec
CONSTANTS
    Trees <- FourTrees
    RootId = 0
    MaxFaults = 2
    Scanners = {"ticker"}
    Ticker = "ticker"
    PageSize = 1
    PutMayFail = TRUE
INVARIANTS
    UndisturbedScanIsComplete
PROPERTIES
    ScanEnds
    EventuallyCurrent
