CONSTANTS
  Conn = {c1, c2}
  IP = {i1}
  Map = {m1, m2, m3}
  NoMap = NoMap
  Kinds = {"tcp"}
  ConnLimits = {1}
  IPLimit = 1
  Realtimes = {TRUE, FALSE}
  MaxLater = 1
  MaxSweeps = 1
SPECIFICATION DispatchSpec
SYMMETRY Symmetry
CONSTRAINT UntilRaced
INVARIANTS SlotsAreExact RulesAreWhole ExitIsOwn
