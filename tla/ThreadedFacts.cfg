SPECIFICATION ThreadedSpec
CONSTANTS
    MaxTargets = 3
    Threads = {0, 1, 2, 3}
    MaxUsers = 2
    MaxWork = 4
    Names = {hostname}
    MaxVersion = 2
    MaxGets = 3
INVARIANTS
    NoOrphans
    JoinIsHonest
    NotFoundIsTrue
    Fresh
PROPERTIES
    JoinEnds
CHECK_DEADLOCK FALSE
