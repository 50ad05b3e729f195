CONSTANTS
    r1 = r1
    r2 = r2
    w1 = w1
    w2 = w2
    c1 = c1
    c2 = c2
    None = None
    Releases = {r1, r2}
    Workers = {w1, w2}
    Commands = {c1, c2}
    Backends <- BothBackends
    Roots <- InstalledOrEmpty
    MaxCommands = 3
    MaxFaults = 3
SPECIFICATION Spec
CHECK_DEADLOCK FALSE
INVARIANTS Consistent
PROPERTIES ReportsAreTrue
