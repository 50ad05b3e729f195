CONSTANTS
    d1 = d1
    d2 = d2
    self = self
    other = other
    q1 = q1
    q2 = q2
    m1 = m1
    m2 = m2
    None = None
    Docs = {d1, d2}
    Paths = {self, other}
    Self = self
    Content <- MCContent
    Stated = {self}
    Requests = {q1, q2}
    Models = {m1, m2}
    Limits = {1, 2}
    MaxFacts = 3
    MaxRetries = 1
    MaxOps = 2
    MaxWrites = 2
    MaxFaults = 1
SPECIFICATION FairSpec
CHECK_DEADLOCK FALSE
INVARIANT Consistent
PROPERTIES UsesTheCurrent RequestsEnd
