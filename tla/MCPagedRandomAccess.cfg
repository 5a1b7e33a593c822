SPECIFICATION PagedSpec
CONSTANTS
  Row <- MCPagedRow
  Lanes = 2
  Value <- MCValue
  Zero = 0
  MaxClock = 4
  PageSize = 3
  TsWidths <- MCTsWidths
INVARIANTS
  PagedAccessesRecoverable
  ChainBreaksOnlyUnallocated
