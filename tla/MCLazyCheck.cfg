SPECIFICATION CheckSpec
CONSTANTS
  Item <- MCItem
  Message <- MCMessage
  MaxItems = 4
  NumCPU = 2
  Mapper <- MCMapper
  Unset <- MCUnset
CHECK_DEADLOCK FALSE
INVARIANTS
  WorkConserved
  NothingLeftRunning
  VerdictOfWholeTrace
PROPERTIES
  PoolKeepsContract
  CheckEnds
