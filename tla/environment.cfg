CONSTANTS
    EventTypes = {"t", "core:error"}
    Subscriptions <- MCSubscriptions
    maxEventQueue = 1
    MaxEvents = 3
    CleanupHandlers <- MCHandlers
    Exiting = {"SIGINT", "SIGTERM"}
    Staying = {"manual"}
    AlertOrder <- MCAlertOrder
    Inhibits <- MCInhibits
    Channels <- MCChannels
    maxQueueSize = 3
    maxBatchSize = 2
    Checks <- MCChecks
    Runs = {1, 2}
    Counters = {"m"}
    Gauges = {"g"}
    MaxValue = 2
    MaxSpans = 4
    MaxChanges = 2
    ServiceIds = {"s1", "s2"}
    ServiceKinds = {"x", "y"}
    maxServices = 1
    NodeList <- MCNodeList
    maxConcurrent = 1
    requiredNodes = 1
    maxRetries = 2
    Found = {"p", "q"}
    maxFound = 1
    MaxTries = 2
    MaxRegistrations = 4
    NodeIds = {"p", "q", "r"}
    Addresses = {1}
    maxPeers = 2
    peerTimeout = 1
    MaxTime = 2
    MaxMessages = 4
    Peers = {"p"}
    channelMin = 1
    channelMax = 2
    MaxSockets = 3
    MaxRequests = 4
    MaxPending = 2
    Ports = {80}
    Protocols = {"TCP", "UDP"}
    NatCallers = {1, 2}
    maxPunches = 2
    MaxNatCalls = 3
    MaxPunchCalls = 2
    Dirs = {"a", "b"}
    Stateful = {"a"}
    LoaderCalls = {1, 2}
    MaxLoads = 2
    Tokens = {"t"}
    Singletons = {"t"}
    ResolveCalls = {1, 2}
    MaxMade = 2
SPECIFICATION Spec
INVARIANTS TypesOK  ReportedOnce 
PROPERTIES DroppedForCause 
CHECK_DEADLOCK FALSE
