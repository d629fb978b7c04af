SPECIFICATION Spec
CONSTANTS
    Sources <- MCSources
    Alphabet <- MCAlphabet
    MaxEdits = 1
    Builtins <- MCBuiltins
    Registered <- MCRegistered
    maxJSONInteger = 12
INVARIANTS
    MatchesGrammar
    RoundTrip
    CulpritReported
    LinearWork
    PatternMatchesGrammar
CHECK_DEADLOCK FALSE
