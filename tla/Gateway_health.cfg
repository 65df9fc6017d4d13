SPECIFICATION MCProbeSpec
CONSTANTS
    Managers = {"m1", "m2"}
    GwKeys = {"local", "other"}
    FirstKey = "local"
    GwEnvironments = {"production", "staging"}
    Subjects = {"a"}
    Deployments <- MCProbed
    TokenTTL = 1
    BundleTTL = 1
    MaxVersion = 3
    MaxGwTime = 3
    Threads = {"loop", "t1", "t2"}
    Loop = "loop"
    LocalKey = "local"
    NoNonce = "-"
    Nonces = {"n"}
    NonceTTL = 2
PROPERTIES HealthAnswers
CHECK_DEADLOCK FALSE
