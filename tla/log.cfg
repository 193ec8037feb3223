SPECIFICATION FairSpec
CONSTANTS
    Writers = {w1, w2}
    max_lines_ = 2
    max_queue_size = 1
    MaxLines = 3
    MaxDay = 2
INVARIANTS TypeOK EachLineOnce RotatesInTime
PROPERTIES EveryLineEnds
