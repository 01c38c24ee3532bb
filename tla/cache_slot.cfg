SPECIFICATION Spec
CONSTANTS
    Processes = {p1}
    Identities = {gpu1, gpu2}
    Options <- MCOptions
    WorkSizes <- MCWorkSizes
INVARIANT CachedBetweenRuns
CHECK_DEADLOCK FALSE
