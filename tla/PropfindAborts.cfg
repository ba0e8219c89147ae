SPECIFICATION ScannedSpec
CONSTANTS
    Trees <- WithEmpty
    MaxFaults = 0
    RootId = 0
    Scanners = {"ticker"}
    Ticker = "ticker"
    PageSize = 1
    PutMayFail = FALSE
    Clients = {}
    GetUrls <- NoUrls
    MaxGets = 0
    Walkers = {"w1"}
    WalkUrls <- JustRoot
    Depths <- JustInfinite
    MaxWalks = 1
INVARIANTS
    WalkShowsSubtree
