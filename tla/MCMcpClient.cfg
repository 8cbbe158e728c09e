SPECIFICATION FairSpec
CONSTANTS
  c1 = c1
  c2 = c2
  None = None
  Callers = {c1, c2}
  MaxCalls = 3
  PipeCap = 1
  MaxAnswers = 2
INVARIANTS OwnAnswer NoSendOnClosed
PROPERTIES CrashEndsCalls AnswerArrives CloseEndsServer
CHECK_DEADLOCK FALSE
