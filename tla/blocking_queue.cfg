SPECIFICATION FairSpec
CONSTANTS
    Consumers = {c1, c2, c3}
    Items = {x1, x2}
    max_size_ = 3
INVARIANTS TypeOK NoneSleeps
PROPERTIES RefinesQueue FrontMoves
