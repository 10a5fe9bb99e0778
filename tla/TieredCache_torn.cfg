SPECIFICATION Spec
CONSTANTS
    p1 = p1
    p2 = p2
    Procs = {p1}
    Configs <- FullConfig
    MaxVersion = 2
    MaxOps = 3
    MaxFaults = 1
INVARIANT GetReturnsWholeValue
CHECK_DEADLOCK FALSE
