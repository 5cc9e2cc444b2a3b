\* Two requests for one pair, one fault of the server's side, no user action:
\* a refused request is not locked out.
SPECIFICATION QuietSpec
CONSTANTS
    Requests = {r1, r2}
    NoRequest = none
    ThePair = pair
    PairOf <- SamePair
    Calls = {c1}
    MaxServerFaults = 1
    MaxNotifierFaults = 0
    ReplyAttempts = 1
PROPERTY RefusalEnds
\* Sagas that have ended and no further request: the system rests.
CHECK_DEADLOCK FALSE
