\* An API process and a worker process: the two read-modify-write pairs on the
\* subscription row interleave, and rows are deleted under a call; the database
\* is new, or a migrated one with a row left running before leases existed.
SPECIFICATION NewOrMigratedSpec
CONSTANTS
    p1 = p1  p2 = p2  s1 = s1  s2 = s2  order = order  NULL = NULL
    Procs = {p1, p2}
    Role <- Split
    Subs = {s1, s2}
    Types = {order}
    Subscribed <- AllSubscribed
    OrderedSubs = {}
    Patches <- EnablePatches
    Schedules <- NoRetry
    LeaseMs = 1
    SubscriptionCap = 1
    Concurrency = 2
    DisableAfter = 2
    MaintenanceMs = 99
    RetentionMs = 99
    LockWaitMs = 0
    InitialSubs = {s1, s2}
    Ops = {"test", "remove"}
    Faulty = {}
    MaxNow = 0
    MaxDeliveries = 3
    MaxEvents = 3
INVARIANTS
    ActiveBelowThreshold
    OneCallerPerAttempt
    UnownedRowBlocksWorkers
