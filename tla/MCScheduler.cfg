SPECIFICATION FairSpec
CONSTANTS
  a = a
  b = b
  c = c
  Ids <- MCIds
  DepLists <- MCDepLists
PROPERTY BlockedIsStarted
CHECK_DEADLOCK FALSE
INVARIANTS KahnAgrees AcyclicDeps NoStuckTask
