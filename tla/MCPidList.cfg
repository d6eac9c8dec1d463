SPECIFICATION LSpec
CONSTANTS
  p1 = p1
  p2 = p2
  p3 = p3
  p4 = p4
  c1 = c1
  Pids = {p1, p2, p3, p4}
  Callers = {c1}
  MAX_PIDS = 3
  NIL = NIL
INVARIANT LTypeOK
INVARIANT ListsWellFormed
INVARIANT NodesAccountedFor
PROPERTY ImplementsPidSet
