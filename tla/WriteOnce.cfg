SPECIFICATION Spec
CONSTANTS
  Row = {0, 1, 2}
  Lanes = 2
  Value = {0, 1}
  Zero = 0
  MaxWrites = 6
INVARIANTS
  WholeRows
  WritesAreKept
  FailuresExplained
