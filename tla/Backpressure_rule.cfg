\* A latency of each class, two writers, a buffer of two slots, which they
\* overwrite twice, and enough windows to rise, fall and rise again.
SPECIFICATION BackpressureSpec
CONSTANTS
    Writers = {w1, w2}
    Latencies = {0, 1, 2, 3}
    Size = 2
    ThrottledMs = 2
    BackoffMs = 3
    WindowsToTransition = 3
    MaxRecords = 4
    MaxWindows = 6
INVARIANT ThreeWindowsRaiseMode
CHECK_DEADLOCK FALSE
