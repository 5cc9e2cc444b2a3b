\* One request, two overlapping calls, two faults on either side: what becomes
\* of the tables, the journal and the inbox.
SPECIFICATION Spec
CONSTANTS
    Requests = {r1}
    NoRequest = none
    ThePair = pair
    PairOf <- SamePair
    Calls = {c1, c2}
    MaxServerFaults = 2
    MaxNotifierFaults = 2
    ReplyAttempts = 2
INVARIANTS
    TypeOK
    JournalMatchesSubs
    SagaEndsCompletedOrGone
    CompletedMeansOnItsWay
    MailBound
SYMMETRY CallSymmetry
\* A saga that has ended and a user who does nothing more: the system rests.
CHECK_DEADLOCK FALSE
