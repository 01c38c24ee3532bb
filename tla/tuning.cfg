SPECIFICATION Spec
CONSTANTS
    Builds = 2
    WorkSizes = 2
    FINALIST_COUNT = 2
    Speeds = {1, 2, 3}
    DURATION = 2
INVARIANTS TypeOK FinalistsFastest ChosenIsBest NeverUntested
PROPERTY TuningEnds
CHECK_DEADLOCK FALSE
