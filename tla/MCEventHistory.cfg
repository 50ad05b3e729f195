SPECIFICATION FairSpec
CONSTANTS
  t1 = t1
  t2 = t2
  c1 = c1
  None = None
  Topics = {t1, t2}
  Clients = {c1}
  HistoryLimit = 2
  MaxEvents = 5
  MaxBreaks = 2
CHECK_DEADLOCK FALSE
INVARIANTS Consistent NoSilentGap
PROPERTY CatchesUp
