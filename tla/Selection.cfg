SPECIFICATION Spec
CONSTANTS
    Values <- MCValues
    Depth <- MCDepth
    MaxInt64 = 100
    MaxJSONInteger = 10
    MaxLen = 5
    RuneCount <- MCRuneCount
    Matches <- MCMatches
    FilterHolds <- MCFilterHolds
    Queries <- MCQueries
    Inputs <- MCInputs
INVARIANTS TypeOK ParityWithSelect MatchesReference PathsResolve SingularAtMostOne ReservationSuffices
PROPERTIES ImplementsPlain Terminates
CHECK_DEADLOCK FALSE
