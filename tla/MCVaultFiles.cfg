SPECIFICATION Spec
CONSTANTS
  Paths = {d1, r1}
  RootPaths = {r1}
  Contents = {x1}
  Clients = {c1, c2}
  Processes = {mcp}
  MaxRows = 2
SYMMETRY Symmetry
INVARIANTS
  TypeOK
  AcceptedBytesKept
  WaitingRowIsFlushed
  LastWriteWins
  OneIdentityPerPath
  NoOrphanedObject
\* No client has to start another operation once nothing is staged.
CHECK_DEADLOCK FALSE
