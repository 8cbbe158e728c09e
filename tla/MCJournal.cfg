SPECIFICATION Spec
CONSTANTS
  h1 = h1
  h2 = h2
  Handles <- MCHandles
  NoHandle = NoHandle
  Garbled = Garbled
  WriteFailures = TRUE
  ReadFailures = TRUE
  MaxRecords = 3
SYMMETRY Symmetry
INVARIANTS AckedIsReadableUnlessFailed OpenEndsClean
PROPERTIES SyncedLinesKept ImplementsDurableLog
