SPECIFICATION FairSpec
CONSTANTS
    Threads = {t1, t2, t3, t4}
    max_conn = 2
    MaxInterrupts = 2
INVARIANTS EachConnOnce NoStrandedConn NoFaultUninterrupted EnoughForAll
PROPERTY EveryWaiterServed
CHECK_DEADLOCK FALSE
