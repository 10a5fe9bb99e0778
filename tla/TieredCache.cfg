\* Two goroutines, four operations, two versions, two faults.
SPECIFICATION Spec
CONSTANTS
    p1 = p1
    p2 = p2
    Procs = {p1, p2}
    Configs <- DocumentedConfigs
    MaxVersion = 2
    MaxOps = 4
    MaxFaults = 2
INVARIANTS
    NoStaleAfterInvalidate
    TiersAgree
SYMMETRY Sym
CHECK_DEADLOCK FALSE
