\* Three calls: a key updated by two clients at once, a stream with two
\* subscriptions or with more messages than it keeps, three services that
\* provision one stream, or a schedule repeated after a lost reply, within the
\* duplicate window or after it.
SPECIFICATION BusSpec
CONSTANTS
    Services = {service}
    Subjects = {s1, s2}
    Wildcard = wildcard
    MaxMsgs = 1
    MaxCalls = 3
    MaxPublished = 2
    MaxWindows = 1
    MaxFaults = 1
INVARIANTS
    NoLostUpdate
    SubjectsCaptured
    ScheduledOnce
PROPERTY BroadcastReaches
CHECK_DEADLOCK FALSE
