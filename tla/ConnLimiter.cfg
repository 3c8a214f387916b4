CONSTANTS
  Conn = {c1, c2}
  IP = {i1, i2}
  Map = {m1, m2, m3}
  NoMap = NoMap
  Kinds = {"tcp", "udp"}
  ConnLimits = {1, 2}
  IPLimit = 1
  Realtimes = {TRUE, FALSE}
  MaxLater = 1
  MaxSweeps = 2
SPECIFICATION Spec
INVARIANTS SlotsAreExact LimitsHold
SYMMETRY Symmetry
CONSTRAINT UntilRaced
