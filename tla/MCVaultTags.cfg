SPECIFICATION Spec
CONSTANTS
  d1 = d1
  d2 = d2
  c1 = c1
  c2 = c2
  Devices = {d1, d2}
  Clients = {c1, c2}
  DeviceOf <- OnePerDevice
  Tags = {t1, t2}
  MaxChanges = 3
SYMMETRY Symmetry
INVARIANTS
  TypeOK
  TagsFollowObject
PROPERTIES
  NoLostTag
\* No client has to make another call.
CHECK_DEADLOCK FALSE
