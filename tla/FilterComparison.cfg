CONSTANTS
    Values <- MCValues
    Depth <- MCDepth
    Operands <- MCOperands
SPECIFICATION Spec
INVARIANTS OrderedTypesTotal EqualityIsCongruence OrderIsTransitive
CHECK_DEADLOCK FALSE
