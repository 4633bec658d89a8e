SPECIFICATION FairSpec
CONSTANTS
    UintMod = 8
    SiteAliases <- MCSiteAliases
    HttpRedirects = {"moved"}
    NumSites = 2
    HostTemplates <- MCHostTemplates
    AllowGzip = FALSE
    AllowDeflate = TRUE
    RequestKinds <- MCRequestKinds
    MaxRequests = 3
    BufSize = 4
    Tolerated = {"no_host", "moved", "exact_fit"}
INVARIANTS
    TypeOK
    RoomToRead
    ConsumesWhatItHas
PROPERTIES
    ImplementsService
    EveryRequestAnswered
CHECK_DEADLOCK FALSE
