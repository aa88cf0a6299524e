CONSTANTS
    a = a
    b = b
    c = c
    Nodes = {a, b, c}
    Messages = {1}
    Traffic <- AToC
    TTLs = {2}
    DEFAULT_TTL = 3
    MAX_HOPS = 4
    Signers = {a}
    Strict = {a, c}
    Forwarders = {a, b, c}
    KeyKnown <- AllKeys
    Adverts <- Loop
    MaxRetries = 1
    MaxNet = 2
    All = All
SPECIFICATION FairSpec
INVARIANTS TypeOK HandledOnce RelaysOnce
PROPERTIES PendingEnds
CHECK_DEADLOCK FALSE
