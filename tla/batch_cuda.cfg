SPECIFICATION Spec
CONSTANTS
    U32MAX = 63
    Backend = "cuda"
    WarpSize = 2
    BlockSize = 2
    GlobalWorkSize = 4
    BATCH_ITERATIONS = 12
    MATCH_POLL_GROUPS = 2
    Requests <- MCRequests
    HitSets <- MCHitSets
INVARIANTS
    TypeOK
    EarliestAnswer
    BestIsAHit
    NothingAbandoned
    LeaderLeftFirst
CHECK_DEADLOCK FALSE
