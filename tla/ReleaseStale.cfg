\* A fault of Redis and a withdrawn release: old news and duplicates.
SPECIFICATION Spec
CONSTANTS
    p1 = p1
    p2 = p2
    s1 = s1
    s2 = s2
    NoRepo = NoRepo
    Repos = {p1}
    Subs = {s1}
    RepoOf <- OneOfOne
    MaxTag = 2
    Quota = 1
    MaxServerFaults = 1
    MaxNotifierFaults = 1
    MaxRedisFaults = 1
    MaxWithdrawn = 1
INVARIANT DuplicateBound
PROPERTY OldNewsNeedsCause
\* Nobody has to subscribe and GitHub has to release nothing: the system rests.
CHECK_DEADLOCK FALSE
