SPECIFICATION FairSpec
CONSTANTS
    Timers = {t1, t2, t3}
    NULL = NULL
    TIMESLOT = 1
    MaxTime = 4
INVARIANT ListWellFormed
PROPERTIES FaultOnlyMovingHead RefinesTimerSet WalkEnds
CHECK_DEADLOCK FALSE
