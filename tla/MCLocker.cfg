SPECIFICATION FairSpec
CONSTANTS
    c1 = c1
    c2 = c2
    k1 = k1
    k2 = k2
    k3 = k3
    NoConn = NoConn
    Callers = {c1, c2}
    Conns = {k1, k2, k3}
    PoolSize = 2
INVARIANTS
    TypeOK
    Exclusive
    PoolClean
    OneUser
PROPERTIES
    LossNoticed
    CallsReturn
