SPECIFICATION NvrtcSpec
CONSTANTS
    Directories = {"toolkit"}
    Versions <- MCVersions
    MaxPlaces = 2
INVARIANT NewestPreferred
CHECK_DEADLOCK FALSE
