CONSTANTS
  Caller = {c1, c2}
  Timer = {t1, t2, t3, t4}
  NoTimer = NoTimer
  Nobody = Nobody
  MaxCalls = 5
SPECIFICATION FairSpec
INVARIANTS BodiesSerialized HandleIsPending LoopIsCarried
PROPERTIES LoopKeepsRunning ClosedTaskQuiesces CallsReturn
CHECK_DEADLOCK FALSE
