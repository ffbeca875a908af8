SPECIFICATION AnswersSpec
CONSTANTS
    None = None
    Runs = {r1, r2}
    Clients = {c1, c2}
    Memories = {m1}
    NStages = 1
    MaxAttempts = 2
    MaxMessages = 3
    Batch = 1
    MaxFailures = 1
    MaxRequests = 5
    MaxBatchSize = 3
    MaxConcurrency = 2
    Artifacts = {1, 2}
    ChunkCount = 1
    VectorValues = {v1, v2}
    NoVector = NoVector
    PageSize = 2
    MaxProjectionFaults = 1
    Knowledge = {1, 2, 3}
    ReplayPage = 2
    MaxGraphFaults = 2
    Entities = {1, 2, 3}
    Facts = {1, 2, 3}
    MaxHop = 2
    NeighborLimit = 2
    FrontierLimit = 3
    MaxVisited = 3
    MaxPassages = 2
    Points = {1, 2, 3}
    Evidence = {1, 2}
    RrfK = 1
    CandidateLimit = 2
    FusedLimit = 3
    MaxResults = 2
    RerankWindow = 2
    Passages = {1, 2}
    Providers = {a1, a2}
    NoData = NoData
    MaxSources = 1
    MaxContext = 1
    MaxCalls = 2
    MaxResumes = 2
CHECK_DEADLOCK FALSE
SYMMETRY AnswerSymmetry
INVARIANTS
    TypeOK
    ConversationIntact
    Erased
    BatchAccounted
    ProjectionComplete
    GraphCovers
    ExpansionGrounded
    SearchSound
    
PROPERTIES
    AnswerStays
    WithdrawnNeverAnswers
