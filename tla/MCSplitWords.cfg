SPECIFICATION Spec
CONSTANTS
  SplitPrograms <- MCPrograms
  Arguments <- MCArguments
INVARIANTS
  SplitKeepsMeaning
  FitsBandwidth
  CodeIsValidated
  ValuesFitRegisters
  RowsAreDetermined
CHECK_DEADLOCK FALSE
