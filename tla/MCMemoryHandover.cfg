SPECIFICATION Spec
CONSTANTS
  Row <- MCRow
  Byte <- MCByte
  RowBytes = 4
  FastEnds <- MCFastEnds
  TraceEnds <- MCTraceEnds
  PageSize = 4
  MaxClock = 3
INVARIANTS
  ReplaySeesSameMemory
PROPERTIES
  HandoverIsExact
