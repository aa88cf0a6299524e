CONSTANTS
    c1 = c1
    c2 = c2
    Conns = {c1, c2}
    MaxStarts = 1
    Streams <- Scripts
    MAX_CONNECTIONS = 1
    POOL_MAX = 1
    POOL_MIN = 0
SPECIFICATION FairSpec
PROPERTIES StopReturns
CHECK_DEADLOCK FALSE
