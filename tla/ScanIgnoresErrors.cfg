SPECIFICATION Spec
CONSTANTS
    Trees <- OneTree
    RootId = 0
    MaxFaults = 1
    Scanners = {"ticker"}
    Ticker = "ticker"
    PageSize = 1
    PutMayFail = FALSE
INVARIANTS
    SuccessMeansComplete
