SPECIFICATION Spec
CONSTANTS
    w1 = w1
    w2 = w2
    c1 = c1
    c2 = c2
    Writers = {w1, w2}
    Contents = {c1, c2}
    None = None
    Verifies = FALSE
    RowSecurity = TRUE
    CommitLost = FALSE
    MaxCrashes = 0
    MaxStorageFailures = 0
    MaxDbFailures = 0
INVARIANTS
    RowHasObject
