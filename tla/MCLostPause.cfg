\* A PATCH that pauses a subscription in the API process, between the read and the
\* write of an outcome in the worker process.
SPECIFICATION Spec
CONSTANTS
    p1 = p1  p2 = p2  s1 = s1  s2 = s2  order = order  NULL = NULL
    Procs = {p1, p2}
    Role <- Split
    Subs = {s1}
    Types = {order}
    Subscribed <- AllSubscribed
    OrderedSubs = {}
    Patches <- EnablePatches
    Schedules <- OneRetry
    LeaseMs = 1
    SubscriptionCap = 1
    Concurrency = 2
    DisableAfter = 9
    MaintenanceMs = 99
    RetentionMs = 99
    LockWaitMs = 0
    InitialSubs = {s1}
    Ops = {"publish"}
    Faulty = {}
    MaxNow = 0
    MaxDeliveries = 1
    MaxEvents = 1
PROPERTIES
    PauseSticks
