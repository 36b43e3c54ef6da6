SPECIFICATION FairSpec
CONSTANTS
    h1 = h1
    h2 = h2
    h3 = h3
    h4 = h4
    NULL = NULL
    SourceHosts = {h1, h2, h3, h4}
    ExcludedHosts = {h4}
    Credentials = 2
    Forks = 2
PROPERTY AllCredentialsTried
CHECK_DEADLOCK FALSE
