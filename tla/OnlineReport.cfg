CONSTANTS
  User = {u1, u2}
  IP = {i1}
  Device <- SharedAddress
  Panels = {"uniproxy", "ppanel"}
  Naming = {TRUE, FALSE}
  Timeouts = {1}
  Intervals = {0, 2}
  DefaultPush = 1
  MinPush = 1
  MaxPush = 2
  Jitter = 50
  DefaultTTL = 5
  MinTTL = 1
  Margin = 1
  Posts <- Requests
  Gone = Gone
  MaxAge = 4
  MaxReloads = 1
  MaxFails = 1
SPECIFICATION FairSpec
INVARIANT ShownIsRemembered
PROPERTIES SettlesOnline SeenIsReported
CHECK_DEADLOCK FALSE
