SPECIFICATION Spec
CONSTANTS
    HasSideEffects = TRUE
    MaxRoutine = 4
    MaxProcessed = 6
    RejectionLimit = 3
    MaxReads = 2
    StartRequest <- MCStart
    Requests <- MCCompletion
INVARIANTS
    AppliedOncePerVersion
    CompletedIsVerified
    NoCommandLost
    FailsOnlyOnReuse
CHECK_DEADLOCK FALSE
