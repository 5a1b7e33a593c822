SPECIFICATION PipelineSpec
CONSTANTS
    MaxRegs = 24
    ClockMax = 2
    Callees <- MCCallees
    StampMax <- MCStampMax
    MaxOf <- MCMaxOf
    Kinds <- MCKinds
    Programs <- MCPrograms
INVARIANTS
    PassesKeepMeaning
    AccessesOnTime
    PassesKeepVectorsLegal
    ThreadingFailuresExplained
CHECK_DEADLOCK FALSE
