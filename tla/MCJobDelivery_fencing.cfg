SPECIFICATION Spec
CONSTANTS
    j1 = j1
    j2 = j2
    w1 = w1
    w2 = w2
    NoJob = NoJob
    NoTx = NoTx
    Jobs = {j1}
    Regenerations = {}
    Workers = {w1, w2}
    NumStages = 1
    MaxAttempts = 3
    Batch = 1
    Foreign <- AnyForeign
    MaxForeign = 0
    MaxMessages = 4
    MaxCrashes = 0
    MaxFailures = 1
INVARIANTS
    NotStranded
