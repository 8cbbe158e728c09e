SPECIFICATION Spec
CONSTANTS
  h1 = h1
  h2 = h2
  Handles <- MCHandles
  NoHandle = NoHandle
  Garbled = Garbled
  WriteFailures = TRUE
  ReadFailures = FALSE
  MaxRecords = 3
SYMMETRY Symmetry
INVARIANT AckedIsReadable
