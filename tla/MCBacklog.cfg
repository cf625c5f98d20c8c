\* Two workers start on a backlog of one unordered subscription, under another
\* retry schedule than its deliveries were queued with: the cap and the slots
\* leave room for two of its three deliveries, leases run out, and the event is
\* past retention.
SPECIFICATION BacklogSpec
CONSTANTS
    p1 = p1  p2 = p2  s1 = s1  s2 = s2  order = order  NULL = NULL
    Procs = {p1, p2}
    Role <- TwoWorkers
    Subs = {s1}
    Types = {order}
    Subscribed <- AllSubscribed
    OrderedSubs = {}
    Patches <- NoPatches
    Schedules <- NoneOrOne
    LeaseMs = 1
    SubscriptionCap = 2
    Concurrency = 2
    DisableAfter = 9
    MaintenanceMs = 1
    RetentionMs = 0
    LockWaitMs = 1
    InitialSubs = {s1}
    Ops = {}
    Faulty = {}
    MaxNow = 2
    MaxDeliveries = 3
    MaxEvents = 1
INVARIANTS
    SubscriptionCapHolds
    SlotsBounded
    QueuedIsScheduled
    AttemptsBounded
PROPERTIES
    LiveSurvivesPurge
    ClaimsWhatItCan
