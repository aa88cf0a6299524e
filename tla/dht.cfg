CONSTANTS
    NodeIdBytes = 2
    ByteBits = 2
    K = 1
    Self <- MCSelf
    NoContact = NoContact
    Peers <- SmallPeers
    Keys <- MCKeys
    Alpha = 2
    MaxPings = 2
    Slots = {1}
    MaxCalls = 1
    Idle = Idle
SPECIFICATION FairSpec
INVARIANTS TypeOK TableInv 
PROPERTIES EvictionsAreExplicit 
CHECK_DEADLOCK FALSE
