SPECIFICATION HealthSpec
CONSTANTS
    redis = redis
    database = database
    r1 = r1
    r2 = r2
    Live = {redis}
    Managers = {database}
    Monitored = {database}
    Critical = {database}
    Requests = {r1, r2}
    CacheTTL = 2
    CheckTime = 1
    MonitorInterval = 2
    PingTime = 1
    ConnectTime = 3
    MaxChanges = 2
    MaxTime = 8
SYMMETRY Symmetry
INVARIANTS ResponseFresh StatusExact
CHECK_DEADLOCK FALSE
