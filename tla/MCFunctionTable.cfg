SPECIFICATION TableSpec
CONSTANTS
    MaxRegs = 16
    Callees <- MCCallees
    StampMax <- MCStampMax
    ClockMax = 1
    MaxCalls = 1
    MaxOf <- MCMaxOf
    Kinds <- MCKinds
    Programs <- MCPrograms
INVARIANTS
    RowsAreExecutions
    PanicsExplained
CHECK_DEADLOCK FALSE
