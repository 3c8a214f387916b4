CONSTANTS
  User = {u1}
  IP = {i1}
  Conn = {c1}
  PlanSpeed = {}
  DeviceLimit <- NoLimit
  NoUser = NoUser
  MaxAlive = 0
  MaxDiffs = 0
SPECIFICATION Spec
INVARIANT ListedUserKnown
CHECK_DEADLOCK FALSE
