SPECIFICATION AccessSpec
CONSTANTS
    MaxInt64 = 20
    MaxJSONInteger = 7
    MaxLen = 5
INVARIANTS
    IndexInArray
    MatchesRFC
    CountExact
CHECK_DEADLOCK FALSE
