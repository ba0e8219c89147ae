SPECIFICATION ApartSpec
CONSTANTS
    Trees <- ThreeTrees
    MaxFaults = 0
    RootId = 0
    Scanners = {"ticker"}
    Ticker = "ticker"
    PageSize = 1
    PutMayFail = FALSE
    Clients = {"c1"}
    GetUrls <- XandQ
    MaxGets = 1
    Walkers = {"w1"}
    WalkUrls <- FourUrls
    Depths <- SomeDepths
    MaxWalks = 1
INVARIANTS
    WalkShowsSubtree
    CatalogueStaysWhole
    ShownTreeIsConnected
    FiledUnderOwnKey
    HrefsLeadBack
