SPECIFICATION Spec
CONSTANTS
    MaxRegs = 3
    Callees <- MCCallees
    MaxOf <- MCMaxOf
    Programs <- MCPrograms
INVARIANTS
    FlatteningKeepsMeaning
    MergingKeepsMeaning
    VectorizedKeepsMeaning
    MergedAreLegal
PROPERTIES
    VectorizationEnds
CHECK_DEADLOCK FALSE
