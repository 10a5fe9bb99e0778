INIT Init
NEXT Next
CONSTANTS
    m1 = m1
    m2 = m2
    i1 = i1
    i2 = i2
    Instances = {i1}
    Msgs = {m1}
    Options <- TwoRetries
    BatchSizes = {1}
    FetchMaxRetries = 1
    DefaultMaxRetries = 2
    MinAckPending = 2
    PriorMaxDeliver <- PriorOneRetry
    MaxDeliveries = 3
    MaxCrashes = 0
    MaxFetchErrors = 0
INVARIANT RetryIsRedelivered
CHECK_DEADLOCK FALSE
