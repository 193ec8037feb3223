SPECIFICATION Spec
CONSTANTS
    Timers = {t1, t2, t3, t4}
    NULL = NULL
    TIMESLOT = 1
    MaxTime = 4
SYMMETRY Symmetry
INVARIANT HeadMoves
CHECK_DEADLOCK FALSE
