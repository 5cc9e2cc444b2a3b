\* Two repositories and one request per window.
SPECIFICATION FairSpec
CONSTANTS
    p1 = p1
    p2 = p2
    s1 = s1
    s2 = s2
    NoRepo = NoRepo
    Repos = {p1, p2}
    Subs = {s1, s2}
    RepoOf <- OneEach
    MaxTag = 1
    Quota = 1
    MaxServerFaults = 0
    MaxNotifierFaults = 0
    MaxRedisFaults = 0
    MaxWithdrawn = 0
PROPERTY CatchesUp
\* Nobody has to subscribe and GitHub has to release nothing: the system rests.
CHECK_DEADLOCK FALSE
