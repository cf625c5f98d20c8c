\* Two worker processes that start, stop and crash, with timers that are as
\* late as the configuration allows.
SPECIFICATION MCSpec
CONSTANTS
    p1 = p1  p2 = p2  NULL = NULL
    Workers = {p1, p2}
    PollMs = 3
    HeartbeatMs = 1
    LeaseMs = 2
    TimeoutMs = 1
    DrainMarginMs = 3
    ForceMarginMs = 4
    MaintenanceMs = 1
    Lag = 1
    MaxNow = 7
    MaxLives = 3
CHECK_DEADLOCK FALSE
INVARIANTS
    LeaseKept
    LiveReported
    NoCallAbandoned
    OrphansReclaimed

