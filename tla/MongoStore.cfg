SPECIFICATION Spec
CONSTANTS
    c1 = c1
    c2 = c2
    Callers = {c1, c2}
    Typed = {c1}
    Kinds <- AllKinds
    MaxCalls <- MCMaxCalls
    MaxIds = 8
    MaxFaults = 2
INVARIANTS OutcomeTruthful NoTwice
PROPERTY TransactionReturns
CHECK_DEADLOCK FALSE
