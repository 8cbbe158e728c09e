SPECIFICATION Spec
CONSTANTS
  c1 = c1
  c2 = c2
  None = None
  Callers = {c1, c2}
  MaxCalls = 3
  PipeCap = 1
  MaxAnswers = 2
SYMMETRY Symmetry
INVARIANT CloseTerminates
