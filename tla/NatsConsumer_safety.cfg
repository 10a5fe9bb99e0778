\* Two instances, of one release or two, share the durable; one message, so
\* that late acknowledgements of an earlier delivery meet a later one.  An
\* instance that died differs from one that is never scheduled again only
\* for liveness: crashes and failing fetches are in NatsConsumer_live.cfg.
INIT Init
NEXT Next
CONSTANTS
    m1 = m1
    m2 = m2
    i1 = i1
    i2 = i2
    Instances = {i1, i2}
    Msgs = {m1}
    Options <- SafetyOptions
    BatchSizes = {1, 2}
    FetchMaxRetries = 1
    DefaultMaxRetries = 2
    MinAckPending = 2
    PriorMaxDeliver <- NoPriorDurable
    MaxDeliveries = 2
    MaxCrashes = 0
    MaxFetchErrors = 0
INVARIANTS
    AckedIsAccounted
    DLQOnlyAfterRetries
    RetryIsRedelivered
PROPERTY ImplementsQueue
SYMMETRY Sym
CHECK_DEADLOCK FALSE
