SPECIFICATION Spec
CONSTANTS
  SplitPrograms <- WideDivisors
  Arguments <- MCArguments
INVARIANTS
  RemainderBelowDivisor
CHECK_DEADLOCK FALSE
