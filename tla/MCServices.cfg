CONSTANTS
    ModelKeys = {k1, k2}
    CacheCallers = {h1, h2}
    MaxEntries = 1
    MaxLoads = 3
    MaxCloseErrors = 1
    Peers = {p1, p2}
    Proxies = {x1}
    Limit = 2
    Window = 2
    MaxHops = 3
    Pages = {g1, g2}
    Reviewers = {r1, r2}
    PageLimit = 1
    MaxReviews = 3
    MaxFaults = 3
    MaxLines = 2
    MaxPages = 2
    MaxOcrPages = 1
    TokenLengths = {1, 3, 6}
    MaxTokens = 4
    ParentTokens = 4
    ParentCharacters = 9
    ChildTokens = 3
    ChildCharacters = 5
    ChildOverlap = 2
    Writers = {w1, w2}
    Contents = {c1, c2}
    None = None
    Verifies = TRUE
    RowSecurity = FALSE
    CommitLost = TRUE
    MaxCrashes = 1
    MaxStorageFailures = 1
    MaxDbFailures = 1
SPECIFICATION ServicesSpec
CHECK_DEADLOCK FALSE
INVARIANTS
    TypeOK
    StoreInv
    ObjectOutlivesRaces
    NoLitter
    ModelsAccounted
    QuotaPerClient
    ReviewHistoryChains
    WalkMissesNothing
    UploadHonest
    ExtractionTraced
    ChunksCover
PROPERTIES
    
    CallsEnd
    NoModelLost
    CacheCallsEnd
    WindowEnds
