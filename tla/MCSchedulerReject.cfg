SPECIFICATION Spec
CONSTANTS
  a = a
  b = b
  c = c
  Ids <- MCIds
  DepLists <- MCDepLists
PROPERTY RejectedLeavesUnchanged
