CONSTANTS
    Values <- MCValues
    Depth <- MCDepth
    Operands <- MCOperands
SPECIFICATION Spec
INVARIANT LessEqualFollowsRFC
CHECK_DEADLOCK FALSE
