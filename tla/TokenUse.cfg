SPECIFICATION FairSpec
CONSTANTS
    Setups <- AloneAndShared
    Main = "main"
    ExpiryIsError = TRUE
INVARIANTS
    TokenTypeOK
    StaysLoggedIn
    UsedTokenIsDurable
    GrantNeedsConfirmation
PROPERTIES
    EventuallyFresh
    CallsReturn
    LoginEnds
