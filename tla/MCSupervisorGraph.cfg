SPECIFICATION Spec
CONSTANTS
  Steps = 3
  Irreversible <- MCIrreversible
  Tools <- MCTools
  MaxAttempts = 2
  MaxSteps = 7
  MaxRetries = 2
  MaxReplans = 2
  MaxIterations = 8
  MaxApprovals = 3
  MaxCrashes = 2
INVARIANTS
  Consistent
  EachSubmissionIsApproved
CHECK_DEADLOCK FALSE
