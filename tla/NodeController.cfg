CONSTANTS
  User = {"u1"}
  Attr = {"a", "b"}
  Config = {"n1", "n2"}
  Tag = {"t1", "t2"}
  TagOf <- TagPerConfig
  NameTag = "t1"
  Naming = {TRUE, FALSE}
  NoTable = NoTable
  MaxChanges = 2
  MaxFails = 2
SPECIFICATION FairSpec
INVARIANTS HalfAppliedIsRetried CachedIsAdopted LimiterFollowsUsers TagsAreCurrent
  EndsClean
PROPERTY SettlesOnPanel
CHECK_DEADLOCK FALSE
