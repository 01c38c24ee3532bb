SPECIFICATION Spec
CONSTANTS
    U32MAX = 7
    BatchCover = 8
    k1 = k1
    k2 = k2
    Keys = {k1, k2}
    NoSeed = NoSeed
    NoLimit = NoLimit
    Leftover = Leftover
    HitMaps <- MCHitMaps
    Seeds <- MCSeeds
    Limits <- MCLimits
    Clocks <- MCClocks
    EngineTrusted = TRUE
    MaxClock = 8
    MaxAttempts = 3
INVARIANTS
    TypeOK
    Reproducible
    NothingSkipped
PROPERTIES
    KeepsPromise
    Terminates
CHECK_DEADLOCK FALSE
