\* Two subscribers, one fault on either side: what faults cost, and what
\* happens in the end.
SPECIFICATION FairSpec
CONSTANTS
    p1 = p1
    p2 = p2
    s1 = s1
    s2 = s2
    NoRepo = NoRepo
    Repos = {p1}
    Subs = {s1, s2}
    RepoOf <- BothOfOne
    MaxTag = 2
    Quota = 1
    MaxServerFaults = 1
    MaxNotifierFaults = 1
    MaxRedisFaults = 0
    MaxWithdrawn = 0
INVARIANTS
    TypeOK
    UnconfirmedHearNothing
PROPERTIES
    LossBound
    LeaversAreForgotten
    CatchesUp
    NewsArrives
\* Nobody has to subscribe and GitHub has to release nothing: the system rests.
CHECK_DEADLOCK FALSE
