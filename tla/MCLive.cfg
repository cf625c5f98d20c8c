\* Every delivery is settled although a worker may crash again and again.
SPECIFICATION PatientSpec
CONSTANTS
    p1 = p1  p2 = p2  s1 = s1  s2 = s2  order = order  NULL = NULL
    Procs = {p1, p2}
    Role <- TwoWorkers
    Subs = {s1}
    Types = {order}
    Subscribed <- AllSubscribed
    OrderedSubs = {s1}
    Patches <- NoPatches
    Schedules <- OneRetry
    LeaseMs = 1
    SubscriptionCap = 1
    Concurrency = 1
    DisableAfter = 9
    MaintenanceMs = 99
    RetentionMs = 99
    LockWaitMs = 0
    InitialSubs = {s1}
    Ops = {"publish"}
    Faulty = {p2}
    MaxNow = 10
    MaxDeliveries = 2
    MaxEvents = 2
PROPERTIES
    Delivered
