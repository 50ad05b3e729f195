SPECIFICATION FairSpec
CONSTANTS
    f1 = f1
    f2 = f2
    f3 = f3
    Fields <- AllFields
    Named <- Hinted
    FieldsOf <- OnePage
    Steps = 3
    AuditEvery = 2
    MaxIterations = 2
    MaxTouches = 1
    MaxFaults = 1
    MaxReviews = 2
    MaxResumes = 2
INVARIANTS Consistent
PROPERTIES PageIsRespected DispatchEnds
CHECK_DEADLOCK FALSE
