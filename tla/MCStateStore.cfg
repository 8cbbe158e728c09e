SPECIFICATION Spec
CONSTANTS
  k1 = k1
  k2 = k2
  p1 = p1
  p2 = p2
  None = None
  Torn = Torn
  Procs = {p1, p2}
  Keys = {k1, k2}
  Prefixes <- MCPrefixes
  MaxCalls = 4
SYMMETRY Symmetry
INVARIANTS AppendsDoNotMix
PROPERTIES ImplementsVersionedMap OptimisticSafe
CHECK_DEADLOCK FALSE
