\* The process exits: behaviours end.
SPECIFICATION Spec
CONSTANTS
    r1 = r1
    r2 = r2
    Requests = {r1, r2}
    Consumer = Consumer
    StartTimeout = 2
    ShutdownTimeout = 2
    Grace = 2
INVARIANTS PoolOutlivesJobs Released
PROPERTIES Ends
CHECK_DEADLOCK FALSE
