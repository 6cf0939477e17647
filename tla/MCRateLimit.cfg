SPECIFICATION Spec
CONSTANTS
    r1 = r1
    r2 = r2
    Requests = {r1, r2}
    Limit <- MCLimit
    Window <- MCWindow
    CountCap = 3
    TicksPerSecond = 2
    MaxWait = 2
    MaxTime = 8
SYMMETRY Symmetry
INVARIANTS SlidingQuota RetryHonest
