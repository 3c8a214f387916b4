CONSTANTS
  User = {u1}
  Cores = {"xray", "sing", "hysteria2"}
  Paths = 2
  Threshold = 2
  MaxBytes = 2
  MaxFails = 1
  MaxChanges = 1
  MaxBreaks = 1
SPECIFICATION FairSpec
INVARIANTS NoUsageLost NothingDueTwice ThrottleIsEarned
PROPERTIES ImplementsLedger UsageIsBilled
CHECK_DEADLOCK FALSE
