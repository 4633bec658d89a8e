SPECIFICATION FairSpec
CONSTANTS
    UintMod = 8
    SiteAliases <- MCSiteAliases
    HttpRedirects = {}
    Threads = {t1, t2}
    Configs <- MCConfigs
    HitMod = 3
    NumMutexes = 2
    Files <- MCFiles
    Headers <- MCHeaders
    Methods = {"GET"}
    Uris = {"root", "up_missing"}
INVARIANTS
    TypeOK
    SiteInMapping
PROPERTIES
    ImplementsCounters
    MutexGivenBack
