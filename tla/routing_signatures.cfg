CONSTANTS
    a = a
    b = b
    c = c
    Nodes = {a, b, c}
    Messages = {1}
    Traffic <- AToC
    TTLs = {3}
    DEFAULT_TTL = 3
    MAX_HOPS = 4
    Signers = {a, b, c}
    Strict = {a, b, c}
    Forwarders = {a, b, c}
    KeyKnown <- AllKeys
    Adverts <- Loop
    MaxRetries = 1
    MaxNet = 2
    All = All
SPECIFICATION Spec
INVARIANTS HopSignaturesVerify
CHECK_DEADLOCK FALSE
