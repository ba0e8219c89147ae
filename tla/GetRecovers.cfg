SPECIFICATION ServiceFairSpec
CONSTANTS
    Trees <- Retyped
    MaxFaults = 1
    RootId = 0
    Scanners = {"ticker"}
    Ticker = "ticker"
    PageSize = 1
    PutMayFail = FALSE
    Clients = {"c1", "c2"}
    GetUrls <- AandRX
    MaxGets = 2
    Walkers = {}
    WalkUrls <- NoUrls
    Depths <- AllDepths
    MaxWalks = 0
INVARIANTS
    RedirectMatchesRequest
    FiledUnderOwnKey
PROPERTIES
    EventuallyServed
