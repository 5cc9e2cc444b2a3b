SPECIFICATION Spec
CONSTANTS
    Requests = {r1}
    NoRequest = none
    ThePair = pair
    PairOf <- SamePair
    Calls = {c1}
    MaxServerFaults = 0
    MaxNotifierFaults = 1
    ReplyAttempts = 1
PROPERTY CompensationIsRecorded
CHECK_DEADLOCK FALSE
