\* A migrated database with a row left running before leases existed: no sweep
\* can finish it.
SPECIFICATION LegacySpec
CONSTANTS
    p1 = p1  p2 = p2  s1 = s1  s2 = s2  order = order  NULL = NULL
    Procs = {p1}
    Role <- OneCombined
    Subs = {s1}
    Types = {order}
    Subscribed <- AllSubscribed
    OrderedSubs = {}
    Patches <- NoPatches
    Schedules <- OneRetry
    LeaseMs = 1
    SubscriptionCap = 1
    Concurrency = 2
    DisableAfter = 9
    MaintenanceMs = 99
    RetentionMs = 99
    LockWaitMs = 0
    InitialSubs = {s1}
    Ops = {"publish"}
    Faulty = {}
    MaxNow = 1
    MaxDeliveries = 2
    MaxEvents = 2
PROPERTIES
    SweepLeavesNoneExpired
