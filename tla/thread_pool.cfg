SPECIFICATION FairSpec
CONSTANTS
    Workers = {w1, w2, w3}
    max_requests_ = 2
    MaxAppends = 6
    Interrupts = TRUE
INVARIANTS NoStrandedRequest EachRequestOnce FirstComeFirstServed
PROPERTY EveryRequestServed
CHECK_DEADLOCK FALSE
