\* One combined process, an ordered and an unordered subscription, every API
\* operation that changes subscriptions or the queue.
SPECIFICATION Spec
CONSTANTS
    p1 = p1  p2 = p2  s1 = s1  s2 = s2  order = order  NULL = NULL
    Procs = {p1}
    Role <- OneCombined
    Subs = {s1, s2}
    Types = {order}
    Subscribed <- AllSubscribed
    OrderedSubs = {s2}
    Patches <- EnablePatches
    Schedules <- NoRetry
    LeaseMs = 1
    SubscriptionCap = 1
    Concurrency = 1
    DisableAfter = 2
    MaintenanceMs = 99
    RetentionMs = 99
    LockWaitMs = 0
    InitialSubs = {s1}
    Ops = {"publish", "test", "create", "remove", "cancel", "replay", "redeliver", "stop"}
    Faulty = {p1}
    MaxNow = 0
    MaxDeliveries = 3
    MaxEvents = 2
INVARIANTS
    TypeOK
    ActiveBelowThreshold
PROPERTIES
    PauseSticks
    FailuresCounted
