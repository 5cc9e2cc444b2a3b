\* More sagas than entries: capacity, expiry and eviction.
SPECIFICATION Spec
CONSTANTS
    Sagas = {s1, s2, s3}
    NoSaga = none
    Handlers = {h1, h2}
    MaxEntries = 2
    TTL = 2
    SendTimeout = 2
    Horizon = 5
INVARIANTS
    TypeOK
    WithinCapacity
PROPERTIES
    FreshLostWhenFull
    ImplementsClaimSet
    SendersExclude
\* The clock is bounded.
CHECK_DEADLOCK FALSE
