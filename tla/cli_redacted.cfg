SPECIFICATION CliSpec
CONSTANTS
    LineLengths = {2, 3}
    ExtraBytes = 1
INVARIANT RedactedIsIncluded
CHECK_DEADLOCK FALSE
