CONSTANTS
    Numbers <- MCNumbers
    WordBits = 4
    Precision = 3
    MaxMagnitude = 4
SPECIFICATION Spec
INVARIANT ExactOrder
CHECK_DEADLOCK FALSE
