CONSTANTS
  User = {u1}
  IP = {i1, i2}
  Conn = {c1, c2}
  PlanSpeed = {u1}
  DeviceLimit <- OneDevice
  NoUser = NoUser
  MaxAlive = 1
  MaxDiffs = 1
SPECIFICATION Spec
SYMMETRY Symmetry
INVARIANTS RefsAreExact  OnlyAdmittedRemembered
CHECK_DEADLOCK FALSE
