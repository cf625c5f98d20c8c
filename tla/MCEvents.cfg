\* Two publishers, two subscriptions and a table of up to four events; a batch
\* of a replay holds as many events as a millisecond, a page one.
SPECIFICATION MCSpec
CONSTANTS
    s1 = s1  s2 = s2  a = a  b = b  k = k  NULL = NULL
    Subs = {s1, s2}
    Active = {s1}
    Patterns <- TwoPatterns
    Types <- Published
    Requests <- TwoPublishers
    Batch = 2
    Limit = 1
    RetentionMs = 0
    Many = 3
    MaxSent = 2
    MaxNow = 1
    MaxEvents = 4
    MaxPerMs = 2
INVARIANTS
    TypeOK
    KeysAnswerOwn
    TestStaysPrivate
    ReplayCovers
    PagesComplete
PROPERTIES
    ReplayEndsIfSpread
    ReplayAdvances
    KeepsFeed
