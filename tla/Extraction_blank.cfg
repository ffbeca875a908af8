CONSTANTS
    MaxLines = 1
    MaxPages = 2
    MaxOcrPages = 1
SPECIFICATION Spec
CHECK_DEADLOCK FALSE
INVARIANT BlankPageIsNoFailure
