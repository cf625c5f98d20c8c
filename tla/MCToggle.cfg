\* ordered is switched on while several deliveries run.
SPECIFICATION Spec
CONSTANTS
    p1 = p1  p2 = p2  s1 = s1  s2 = s2  order = order  NULL = NULL
    Procs = {p1}
    Role <- OneCombined
    Subs = {s1}
    Types = {order}
    Subscribed <- AllSubscribed
    OrderedSubs = {}
    Patches <- OrderPatches
    Schedules <- OneRetry
    LeaseMs = 1
    SubscriptionCap = 2
    Concurrency = 2
    DisableAfter = 9
    MaintenanceMs = 99
    RetentionMs = 99
    LockWaitMs = 0
    InitialSubs = {s1}
    Ops = {"publish"}
    Faulty = {}
    MaxNow = 2
    MaxDeliveries = 2
    MaxEvents = 2
INVARIANTS
    OneRunningPerOrdered
