SPECIFICATION FairSpec
CONSTANTS
    l1 = l1
    l2 = l2
    o1 = o1
    s1 = s1
    p1 = p1
    p2 = p2
    NULL = NULL
    Logins = {l1}
    Logouts = {o1}
    StatusChecks = {}
    Posts = {p1, p2}
    Interval = 1
    ExpiresIn = 0
PROPERTY SkippedWhenSuperseded
CHECK_DEADLOCK FALSE
