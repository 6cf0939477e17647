SPECIFICATION Spec
CONSTANTS
    m1 = m1
    m2 = m2
    w1 = w1
    w2 = w2
    Mails = {m1}
    Workers = {w1, w2}
    MaxAttempts = 3
    LeaseDuration = 3
    SendTimeout = 2
    FinishReserve = 2
    BatchSize = 1
    RetryBase = 1
    RetryJitter = 2
    ClockLag = 1
    TTLs = {2, 8}
    MaxTime = 9
SYMMETRY Symmetry
INVARIANTS
    TypeOK
    NoOverlappingSends
    SendUnderLease
    DeliveriesBounded
    FailedOnlyWhenDue
PROPERTIES
    LeaseProtects
    ImplementsQueue
