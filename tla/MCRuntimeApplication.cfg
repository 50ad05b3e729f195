SPECIFICATION Spec
CONSTANTS
  Tasks = {t1,t2}
  Posted = {t1}
  Jobs = job
  Requests = {q1, q2}
  None = None
  t1 = t1
  t2 = t2
  job = job
  q1 = q1
  q2 = q2
  MaxRuns = 1
  MaxAsks = 2
  MaxCrashes = 1
SYMMETRY Symmetric
CHECK_DEADLOCK FALSE
INVARIANT Consistent
INVARIANT WaitersAreServed
PROPERTY LockedRunStays
