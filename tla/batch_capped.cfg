SPECIFICATION Spec
CONSTANTS
    U32MAX = 31
    Backend = "hip"
    WarpSize = 2
    BlockSize = 4
    GlobalWorkSize = 4
    BATCH_ITERATIONS = 8
    MATCH_POLL_GROUPS = 1
    Requests <- CappedRequests
    HitSets <- CappedHitSets
INVARIANTS
    EarliestAnswer
PROPERTIES
    BatchReturns
    KeepsPromise
CHECK_DEADLOCK FALSE
