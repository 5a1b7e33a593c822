SPECIFICATION TableSpec
CONSTANTS
    MaxRegs = 16
    Callees <- MCCallees
    StampMax <- MCStampMax
    ClockMax = 1
    MaxCalls = 0
    MaxOf <- MCBits
    Kinds <- MCKinds
    Programs <- ShortCircuits
INVARIANTS
    ConditionsIdentifyExecution
CHECK_DEADLOCK FALSE
