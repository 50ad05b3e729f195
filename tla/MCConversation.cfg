SPECIFICATION FairSpec
CONSTANTS
  r1 = r1
  r2 = r2
  c1 = c1
  c2 = c2
  c3 = c3
  c4 = c4
  x1 = x1
  x2 = x2
  k1 = k1
  None = None
  Requests = {r1, r2}
  Confs = {c1, c2}
  Sites = {x1}
  Keys = {k1}
  MaxTurns = 3
  MaxVersion = 2
  MaxCrashes = 1
CHECK_DEADLOCK FALSE
INVARIANTS Consistent ConfirmedOnce
PROPERTY RequestsEnd
