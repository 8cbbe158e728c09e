SPECIFICATION FairSpec
CONSTANTS
  w1 = w1
  w2 = w2
  t1 = t1
  t2 = t2
  None = None
  Workers = {w1}
  Threads = {t1, t2}
  Runs <- MCRuns
  Cap = 1
  Threshold = 0
  MaxSeq = 2
  MaxChans = 2
  AppendFailures = FALSE
INVARIANTS JournaledFirst AcceptedIsReachable ClosedIsLeft
CHECK_DEADLOCK FALSE
PROPERTIES QuietIsReportedUnlessOvertaken CloseEndsAll
