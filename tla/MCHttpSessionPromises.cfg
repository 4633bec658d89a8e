SPECIFICATION Spec
CONSTANTS
    UintMod = 8
    SiteAliases <- MCSiteAliases
    HttpRedirects = {"moved"}
    NumSites = 2
    HostTemplates <- MCHostTemplates
    AllowGzip = FALSE
    AllowDeflate = TRUE
    RequestKinds <- MCRequestKinds
    MaxRequests = 1
    BufSize = 4
    Tolerated = {}
PROPERTIES
    ImplementsService
CHECK_DEADLOCK FALSE
