SPECIFICATION Spec
CONSTANTS
  Row <- MCRow
  Lanes = 2
  Value <- MCValue
  Zero = 0
  MaxClock = 3
  PageSize = 2
  TsWidths <- MCTsWidths
INVARIANTS
  TypeOK
  LogChained
  ReadsThePast
  CheckpointLossless
  TableAccepted
  TableReplaysMemory
PROPERTIES
  MemoryKeepsContract
