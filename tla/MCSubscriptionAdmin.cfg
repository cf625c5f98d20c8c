\* A subscription whose secret is rotated twice while requests are under way,
\* and a listing of three subscriptions with a page of one.
SPECIFICATION MCSpec
CONSTANTS
    s1 = s1  s2 = s2  s3 = s3  NULL = NULL
    Subs = {s1, s2, s3}
    Names = {1, 2, 3, 4}
    Limit = 1
    GraceMs = 2
    MaxNow = 6
    MaxSecrets = 3
    MaxCalls = 2
INVARIANTS
    SignaturesAccepted
    PagesComplete
CHECK_DEADLOCK FALSE
