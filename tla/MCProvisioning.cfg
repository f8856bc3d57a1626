SPECIFICATION Spec
CONSTANTS
  c1 = c1
  c2 = c2
  p1 = p1
  p2 = p2
  v1 = v1
  v2 = v2
  Procs = {c1, c2}
  Profiles = {p1, p2}
  Vaults = {v1, v2}
  Foreign = {v1}
  Faults = {"approval", "state", "db", "save", "chmod", "removeAll", "unlink", "crash"}
INVARIANTS
  TypeOK
  OneVaultOneProfile
  ActiveHasItsKey
  NoForeignRows
  ConsumedSeedGoes
PROPERTIES
  OnlyForgetRemoves
SYMMETRY Symmetry
CHECK_DEADLOCK FALSE
