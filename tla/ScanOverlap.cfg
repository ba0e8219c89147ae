SPECIFICATION FairSpec
CONSTANTS
    Trees <- OneChain
    RootId = 0
    MaxFaults = 1
    Scanners = {"main", "ticker"}
    Ticker = "ticker"
    PageSize = 1
    PutMayFail = FALSE
INVARIANTS
    TypeOK
    ListedFileIsStored
    ListedFileIsRetrievable
    SavedSoFar
    MapsFiled
    NoScanListsTwice
PROPERTIES
    ImplementsCatalogue
    EventuallyCurrent
