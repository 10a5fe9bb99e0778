\* The configuration may set the backoff threshold below the throttled one.
SPECIFICATION BackpressureSpec
CONSTANTS
    Writers = {w1, w2}
    Latencies = {0, 1, 2, 3}
    Size = 2
    ThrottledMs = 3
    BackoffMs = 2
    WindowsToTransition = 3
    MaxRecords = 4
    MaxWindows = 6
INVARIANTS
    TypeOK
    ModeJustified
PROPERTY BackoffNeedsItsOwnWindows
CHECK_DEADLOCK FALSE
