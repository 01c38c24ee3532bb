SPECIFICATION Spec
CONSTANTS
    U32MAX = 7
    BatchCover = 3
    k1 = k1
    k2 = k2
    Keys = {k1, k2}
    NoSeed = NoSeed
    NoLimit = NoLimit
    Leftover = Leftover
    HitMaps <- FewHitMaps
    Seeds <- MCSeeds
    Limits <- MCLimits
    Clocks <- MCClocks
    EngineTrusted = FALSE
    MaxClock = 8
    MaxAttempts = 3
INVARIANTS
    GenuineResult
    CountersTrue
CHECK_DEADLOCK FALSE
