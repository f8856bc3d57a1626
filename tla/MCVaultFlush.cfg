SPECIFICATION FlushSpec
CONSTANTS
  Paths = {d1, r1}
  RootPaths = {r1}
  Contents = {x1}
  Clients = {c1}
  Processes = {mcp}
  MaxRows = 2
  SlabSize = 4
  MaxGroupSize = 10
  WastePct = 20
  Sizes = {0, 1, 2, 3, 4, 5, 6}
  MaxFiles = 5
INVARIANTS
  PackingIsSound
PROPERTIES
  EventuallyFlushed
\* The system rests once everything is flushed and no client calls.
CHECK_DEADLOCK FALSE
