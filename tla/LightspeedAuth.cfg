SPECIFICATION AuthFairSpec
CONSTANTS
    l1 = l1
    l2 = l2
    o1 = o1
    s1 = s1
    NULL = NULL
    Logins = {l1, l2}
    Logouts = {o1}
    StatusChecks = {s1}
    Interval = 1
    ExpiresIn = 1
INVARIANTS
    ValidIsGranted
PROPERTIES
    ValidKept
    PendingResolves
CHECK_DEADLOCK FALSE
