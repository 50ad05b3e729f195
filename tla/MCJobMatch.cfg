SPECIFICATION FairSpec
CONSTANTS
  s1 = s1
  s2 = s2
  a1 = a1
  r1 = r1
  r2 = r2
  k1 = k1
  None = None
  Sessions = {s1}
  Apps = {a1}
  Requests = {r1, r2}
  Keys = {k1}
  MaxPages = 2
  MaxVersion = 5
  MaxEpoch = 2
  MaxFaults = 1
CHECK_DEADLOCK FALSE
INVARIANT Consistent
PROPERTIES FollowsMachine RequestsEnd
