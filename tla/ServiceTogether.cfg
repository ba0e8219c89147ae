SPECIFICATION ServiceFairSpec
CONSTANTS
    Trees <- Replaced
    MaxFaults = 1
    RootId = 0
    Scanners = {"ticker"}
    Ticker = "ticker"
    PageSize = 1
    PutMayFail = FALSE
    Clients = {"c1"}
    GetUrls <- JustA
    MaxGets = 1
    Walkers = {"w1"}
    WalkUrls <- RootAndA
    Depths <- SomeDepths
    MaxWalks = 1
INVARIANTS
    ServiceTypeOK
    ShownFileIsStored
    ShownTreeIsConnected
    StatusMatchesBody
PROPERTIES
    ServiceImplementsCatalogue
    WalkEnds
