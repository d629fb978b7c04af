SPECIFICATION Spec
CONSTANTS
    Paths = {root, a, b}
    RootPath = root
    Values = {nil, v}
    NilValue = nil
    Hashes = {h1, h2}
    MaxLen = 4
    Lists <- MCLists
INVARIANTS TypeOK KeepsFirstOccurrences TailCleared UnreadIntact
CHECK_DEADLOCK FALSE
