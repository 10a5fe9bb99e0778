\* One instance, two fetch errors, so that the limit of one is met twice.
SPECIFICATION Spec
CONSTANTS
    m1 = m1
    m2 = m2
    i1 = i1
    i2 = i2
    Instances = {i1}
    Msgs = {m1}
    Options <- LiveOptions
    BatchSizes = {2}
    FetchMaxRetries = 1
    DefaultMaxRetries = 2
    MinAckPending = 2
    PriorMaxDeliver <- NoPriorDurable
    MaxDeliveries = 2
    MaxCrashes = 1
    MaxFetchErrors = 2
INVARIANTS
    TypeOK
    LossOnlyByFault
PROPERTIES
    EventuallySettled
    StopTerminates
CHECK_DEADLOCK FALSE
