SPECIFICATION MCSpec
CONSTANTS
    Users = {"o", "a", "b"}
    Owner = "o"
    Invitations = {1, 2}
    APIKeys = {1, 2}
    Hands = {1, 2, 3}
    MaxMembers <- MCLimits
    MaxKeys <- MCKeyLimits
    InviteTTL = 1
    Grace = 0
    Orgs <- MCOrgs
    Workers = {1, 2}
    Sessions = {1, 2}
    MfaChallenges = {1, 2}
    Attempts = {1, 2}
    account_lock_attempts = 2
    mfa_max_attempts = 2
    LockTime = 1
    ChallengeTime = 1
    StepTime = 1
    Accts <- MCAccts
    Scanners = {1, 2}
    People = {1, 2}
    DiSources = {1, 2}
    Candidates = {1, 2, 3, 4}
    Runs = {1, 2, 3}
    DiAgents = {1, 2, 3}
    Lands <- MCLands
    Documents <- MCDocuments
    Conditions <- MCTrees
    Depth <- MCDepth
    Contexts <- MCContexts
    FieldType <- MCFieldType
    MAX_NESTING_DEPTH = 3
    MAX_CONDITIONS_PER_RULE = 4
    MAX_RULES_PER_POLICY = 2
    MAX_LIST_ELEMENTS = 2
    Clerks = {1, 2, 3}
    Limit = 10
    risk_low_max = 29
    risk_medium_max = 59
    risk_high_max = 79
    risk_velocity_medium_count = 2
    risk_velocity_high_count = 3
    risk_velocity_critical_count = 4
    VelocityWindow = 1
    RejectionWindow = 2
    Weathers <- MCWeathers
INVARIANTS MembershipHolds BillingHolds AccountHolds    RiskHolds
PROPERTIES DeadStays WeakeningReported
CHECK_DEADLOCK FALSE
