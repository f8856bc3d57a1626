SPECIFICATION Spec
CONSTANTS
  c1 = c1
  c2 = c2
  p1 = p1
  p2 = p2
  v1 = v1
  v2 = v2
  Procs = {c1, c2}
  Profiles = {p1}
  Vaults = {v1, v2}
  Foreign = {}
  Faults = {}
PROPERTIES
  KeptSeedIsTheVaults
CHECK_DEADLOCK FALSE
