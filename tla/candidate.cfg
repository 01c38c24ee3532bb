SPECIFICATION Spec
CONSTANTS
    HALF_DIGITS = 2
    DIGIT_BITS = 2
    MAX_PREFIXES = 2
    SIGNIFICAND = 4
    Requests <- MCRequests
    MaxErrors = {0, 1, 2, 3, 5}
INVARIANTS
    MatchTypeOK
    SameRounds
    SameKeyWords
    TakesWhatMatches
    CountsWrongDigits
    ShownAsGiven
    MatchCountTrue
    ExpectedUpToRounding
CHECK_DEADLOCK FALSE
