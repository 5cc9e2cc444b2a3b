SPECIFICATION Spec
CONSTANTS
    Requests = {r1}
    NoRequest = none
    ThePair = pair
    PairOf <- SamePair
    Calls = {c1}
    MaxServerFaults = 0
    MaxNotifierFaults = 0
    ReplyAttempts = 1
INVARIANT NoSecondEmail
CHECK_DEADLOCK FALSE
