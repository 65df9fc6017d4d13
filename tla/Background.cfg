SPECIFICATION MCSpec
CONSTANTS
    d1 = d1  d2 = d2  p1 = p1  w1 = w1  w2 = w2  s1 = s1  s2 = s2
    Deliveries = {d1, d2}
    Sandbox = {d2}
    Apis = {p1}
    Workers = {w1, w2}
    MaxAttempts = 2
    BatchSize = 2
    MaxRetried = 0
    MaxCrashes = 1
    Events = {"suspended"}
    Kind <- MCKind
    Tokens = {"t1", "t2", "t3"}
    Requesters = {"p1", "p2"}
    Jobs = {"w1", "w2"}
    Preferences <- MCPreferences
    Worlds <- MCWorlds
    MaxDevices = 1
    MaxSends = 2
    MaxDeaths = 1
    Relays = {s1, s2}
    Envelopes <- MCEnvelopes
    Traffics <- MCTraffics
    Skew = 1
    max_retries = 1
    MaxApCrashes = 1
    Managers = {"m1", "m2"}
    GwKeys = {"local", "other"}
    FirstKey = "local"
    GwEnvironments = {"production", "staging"}
    Subjects = {"a"}
    Deployments <- MCDeployments
    TokenTTL = 1
    BundleTTL = 1
    MaxVersion = 3
    MaxGwTime = 3
    Threads = {"loop", "t1", "t2"}
    Loop = "loop"
    LocalKey = "local"
    NoNonce = "-"
    Nonces = {"n"}
    NonceTTL = 2
INVARIANTS WebhooksHold NotificationsHold AtpHolds GatewayHolds
PROPERTIES ImplementsOutbox NeverTakenUpAgain GatewaySteps SidecarSteps WorkSettles
CHECK_DEADLOCK FALSE
