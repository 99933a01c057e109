SPECIFICATION ArtifactsSpec
CONSTANTS
    Exports = {e1, e2}
    MaxParts = 2
    User = User
    None = None
    MaxCrashes = 2
    EngineDiesAlone = TRUE
    RenameMayFail = TRUE
    RestoreMayFail = TRUE
    PageRows = 3
    PageBytes = 4
    BatchRows = 4
    LongSize = 2
    BrowseLimit = 6
    ByteQuota = 9
    Results = {v1, v2}
    Offsets = {a1, a2}
    Readers = {w1, w2}
    MaxTotalPages = 2
    EngineUpsets = 1
    Startup = Startup
    ArtifactBytes = {1, 2}
    CacheBudget = 2
    PlanSize = 5
CHECK_DEADLOCK FALSE
INVARIANTS
    NoFileIsLost
    
    WindowIsExact
    
    PlanIsOneFlow
PROPERTIES
    OnlyReplaceOverwrites
    
