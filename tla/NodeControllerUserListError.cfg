CONSTANTS
  User = {"u1"}
  Attr = {"a"}
  Config = {"n1", "n2"}
  Tag = {"t1", "t2"}
  TagOf <- TagPerConfig
  NameTag = "t1"
  Naming = {FALSE}
  NoTable = NoTable
  MaxChanges = 1
  MaxFails = 1
SPECIFICATION Spec
INVARIANT PulledIsAdopted
CHECK_DEADLOCK FALSE
