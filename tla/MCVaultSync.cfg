SPECIFICATION Spec
CONSTANTS
  d1 = d1
  d2 = d2
  v1 = v1
  v2 = v2
  v3 = v3
  a = a
  b = b
  Devices = {d1, d2}
  Versions = {v1, v2}
  Paths = {a, b}
  PathOf <- OnePath
  Writer <- Writers
  Batch = 1
  MaxCrashes = 1
INVARIANTS
  TypeOK
  OneWinner
  NothingSkipped
  Converged
  NoDeadWinner
PROPERTIES
  Delivers
CHECK_DEADLOCK FALSE
