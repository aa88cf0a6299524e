CONSTANTS
    Services = {"a", "b"}
    Dependencies <- MCDependencies
    Priority <- MCPriority
    Manual = {}
    Policy <- MCPolicy
    Monitored = {"a"}
    Threshold = 1
    MaxRestarts = 1
    Parallel = FALSE
    ManagerCalls = {1, 2}
    MaxManagerCalls = 3
    Checks <- MCChecks
    Critical = {"c1"}
    HealRules <- MCHealRules
    Remedies <- MCRemedies
    Weights <- MCWeights
    Rounds = {1}
    Workers = {1, 2}
    MaxFailures = 3
    Events <- MCEvents
    MaxEvents = 2
    ScaleRules <- MCScaleRules
    minScale = 1
    maxScale = 2
    Readings = {"low", "mid", "high"}
    Lowest = 0
    Highest = 2
    Stride = 1
    Scalers = {1, 2}
    Tuners = {1, 2}
    Metrics = {"m"}
    Warmup = 2
    MaxAdvice = 2
    MaxStrategies = 1
    Peers = {1}
    Channels = {1, 2}
    HasIdentity = TRUE
    MaxEpoch = 1
    MaxSends = 2
    Sides = {"alice", "bob"}
    CounterLimit = 16
    MaxTimers = 2
    MaxKeys = 3
    MaxNonce = 3
    MessageStreams <- MCMessageStreams
    Ips = {"ip"}
    ApiKeyIds = {"k1", "k2"}
    MaxAttempts = 2
    maxBlacklist = 2
    Logins = {1, 2}
    MaxTokens = 4
    Saves = {1, 2}
    Permissions = {"p"}
    RoleNames = {"r"}
    BuiltIn <- MCBuiltIn
    UserIds = {"u"}
    Policies <- MCPolicies
    MaxStorageCalls = 1
    StoreKeys = {"k1", "k2"}
    Values = {"v"}
    StoreCalls = {1, 2}
    cacheMaxSize = 2
    MaxBackups = 2
    BackupTasks = {1, 2}
    maxBackups = 1
    MaxBackupTime = 1
    ApiLogins = {1, 2}
    MaxGuesses = 2
    Lockout = 1
    MaxLoginTime = 4
    Conns = {1, 2}
    Chunks <- MCChunks
    MaxFresh = 2
SPECIFICATION Spec
INVARIANTS TypesOK  StartAllComplete NonceFresh   
CHECK_DEADLOCK FALSE
