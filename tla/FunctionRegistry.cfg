SPECIFICATION Spec
CONSTANTS
    Goroutines = {g1, g2}
    EmptyName = ""
    ValidNames = {"f", "g", "length"}
    Absent = Absent
    Builtins <- MCBuiltins
    Definitions <- MCDefinitions
    NilCall = "nil"
    ParamLists <- MCParamLists
    SliceLen = 2
    MaxArrays = 3
    MaxOptions = 1
    MaxOpts = 2
    MaxParsers = 2
SYMMETRY Symm
INVARIANTS
    TypeOK
    ReportsEveryOffender
    ParsersKnowTheirFunctions
    BuiltinsKept
CHECK_DEADLOCK FALSE
