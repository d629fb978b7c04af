SPECIFICATION WalkSpec
CONSTANTS
    MaxNodes = 6
    Trees <- MCTrees
INVARIANTS DocumentOrder
CHECK_DEADLOCK FALSE
