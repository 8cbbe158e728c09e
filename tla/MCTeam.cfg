SPECIFICATION Spec
CONSTANTS
  a = a
  b = b
  t1 = t1
  t2 = t2
  None = None
  Threads = {t1, t2}
  Ids = {a, b}
  TaskSpecs <- Circle
  MaxSeq = 5
  Reports = {"completed", "failed"}
  AppendFailures = TRUE
SYMMETRY Symmetry
INVARIANTS SeqUnique NoLostWakeup WriteAhead RegisteredIsScheduledUnlessReused OpenRestoresSerial
