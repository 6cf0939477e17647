SPECIFICATION FairSpec
CONSTANTS
    m1 = m1
    m2 = m2
    w1 = w1
    w2 = w2
    Mails = {m1, m2}
    Workers = {w1}
    MaxAttempts = 2
    LeaseDuration = 2
    SendTimeout = 1
    FinishReserve = 1
    BatchSize = 1
    RetryBase = 1
    RetryJitter = 1
    ClockLag = 0
    TTLs = {2}
    MaxTime = 5
PROPERTIES
    EventuallyClosed
