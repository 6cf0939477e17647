SPECIFICATION RenewalSpec
CONSTANTS
    r1 = r1
    r2 = r2
    r3 = r3
    Visits = {r1, r2, r3}
    Idle = 6
    Absolute = 20
    Minute = 2
    Skew = 1
    MaxWait = 2
    MaxTime = 24
SYMMETRY Symmetry
\* The clock stops at its bound.
CHECK_DEADLOCK FALSE
INVARIANTS KeepsAlive
PROPERTIES RefusedForGood
