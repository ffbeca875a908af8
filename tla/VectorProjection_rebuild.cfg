SPECIFICATION Spec
CONSTANTS
    Artifacts = {1, 2, 3}
    ChunkCount = 1
    VectorValues = {v1}
    NoVector = NoVector
    PageSize = 2
    MaxProjectionFaults = 0
CHECK_DEADLOCK FALSE
INVARIANTS
    RebuildReplays
