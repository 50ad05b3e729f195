SPECIFICATION Spec
CONSTANTS
    c1 = c1
    c2 = c2
    Calls = {c1, c2}
    Fields = {1, 2}
    Forms <- MCForms
    None = None
    MaxAttempts = 2
    AuditInterval = 2
    MaxOps = 3
    MaxChanges = 1
    MaxFaults = 2
INVARIANTS
    Consistent
PROPERTIES
    SendsAreLive
SYMMETRY Symmetric
CHECK_DEADLOCK FALSE
