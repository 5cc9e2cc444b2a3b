SPECIFICATION FairSpec
CONSTANTS
    Releases = {n1}
    Commands = {c1}
    NoMessage = none
    Publishes <- AllReplyCalls
    Prefetch = 1
    ReplyAttempts = 2
    DialAttempts = 2
    MaxServerFaults = 0
    MaxNotifierFaults = 1
INVARIANTS
    TypeOK
    OneHandlerPerQueue
    PublisherOutlivesHandlers
    AckedCommandAnswered
    DeadLetterNeedsCause
PROPERTIES
    ImplementsPublishPort
    DeliveriesSettle
    PublisherRecovers
    SignalStops
\* A process that has exited rests.
CHECK_DEADLOCK FALSE
