SPECIFICATION Spec
CONSTANTS
  Paths = {r1}
  RootPaths = {r1}
  Contents = {x1}
  Clients = {c1, c2}
  Processes = {mcp}
  MaxRows = 2
SYMMETRY Symmetry
INVARIANT
  ConcurrentPutSucceeds
CHECK_DEADLOCK FALSE
