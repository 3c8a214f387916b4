CONSTANTS
  User = {u1}
  IP = {i1}
  Device <- SharedAddress
  Panels = {"uniproxy"}
  Naming = {FALSE}
  Timeouts = {0}
  Intervals = {0}
  DefaultPush = 1
  MinPush = 1
  MaxPush = 2
  Jitter = 10
  DefaultTTL = 5
  MinTTL = 2
  Margin = 1
  Posts <- Requests
  Gone = Gone
  MaxAge = 8
  MaxReloads = 1
  MaxFails = 1
SPECIFICATION Spec
INVARIANT OneSnapshot
CHECK_DEADLOCK FALSE
