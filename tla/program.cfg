SPECIFICATION Spec
CONSTANTS
    LineLengths = {2, 3}
    ExtraBytes = 1
    Builds = 4
    WorkSizes = 2
    FINALIST_COUNT = 2
    Directories = {"cuda", "local"}
    Versions <- MCVersions
    MaxPlaces = 2
INVARIANTS
    TypeOK
    NeverInTheClear
    StatusTellsOutput
    ProgressLineClean
    NoMisuse
    NothingLeaks
    ModulesBounded
    UsableNotMissed
    GpuGoneFirst
CHECK_DEADLOCK FALSE
