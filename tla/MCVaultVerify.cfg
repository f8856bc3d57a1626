SPECIFICATION Spec
CONSTANTS
  Paths = {d1}
  RootPaths = {}
  Contents = {x1}
  Clients = {c1, c2}
  Processes = {mcp}
  MaxRows = 2
SYMMETRY Symmetry
INVARIANT
  DurableHasObject
CHECK_DEADLOCK FALSE
