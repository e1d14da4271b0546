SPECIFICATION Spec
CONSTANTS
    HasSideEffects = TRUE
    MaxRoutine = 4
    MaxProcessed = 6
    RejectionLimit = 3
    MaxReads = 1
    StartRequest <- MCStart
    Requests <- MCControls
INVARIANTS
    KilledIsContained
    PollsOnlyRunningTask
PROPERTIES
    TerminalIsFinal
    QueuedIsDecided
CHECK_DEADLOCK FALSE
