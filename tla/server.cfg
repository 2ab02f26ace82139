\* More requests than connections, any of them cut by a stop.
CONSTANTS
    Workers = {w1, w2}
    MaxConns = 1
SPECIFICATION FairSpec
INVARIANTS
    TypeOK
    StopCutsNoTransaction
PROPERTIES
    RequestsEnd
    ServerStops
CHECK_DEADLOCK FALSE
