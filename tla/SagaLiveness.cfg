\* One request, one fault of the server's side, one of the notifier's: every
\* saga ends, and goes through its lifecycle on the way.
SPECIFICATION FairSpec
CONSTANTS
    Requests = {r1}
    NoRequest = none
    ThePair = pair
    PairOf <- SamePair
    Calls = {c1}
    MaxServerFaults = 1
    MaxNotifierFaults = 1
    ReplyAttempts = 1
INVARIANT CompletedMeansMailed
PROPERTIES
    ImplementsLifecycle
    PendingResolves
    NoOrphan
    QueuesDrain
\* A saga that has ended and a user who does nothing more: the system rests.
CHECK_DEADLOCK FALSE
