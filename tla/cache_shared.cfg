SPECIFICATION Spec
CONSTANTS
    Processes = {p1, p2}
    Identities = {gpu1, gpu2}
    Options <- MCOptions
    WorkSizes <- MCWorkSizes
INVARIANTS TypeOK TunedHere LastStoreBelieved
SYMMETRY MCSymmetry
CHECK_DEADLOCK FALSE
