SPECIFICATION Spec
CONSTANTS
    Names <- AllNames
    ValidUTF8 <- TextNames
    Indexes <- SomeIndexes
    MaxLen = 2
    MaxPaths = 4
INVARIANTS
    TypeOK
    Immutable
    Rebuildable
    CompareIsOrder
    StringIdentifies
    PointerIdentifies
    LengthsExact
