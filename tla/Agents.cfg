SPECIFICATION MCSpec
CONSTANTS
    a1 = a1  u1 = u1  u2 = u2  s1 = s1  s2 = s2  c1 = c1
    r1 = r1  r2 = r2  k1 = k1  k2 = k2  k3 = k3
    Agents = {a1}
    Users = {u1, u2}
    Sessions = {s1, s2}
    Certs = {c1}
    Links = {"delegation"}
    Touches <- MCTouches
    Requests <- MCRequests
    Policies <- MCPolicies
    ReviewPeriod = 0
    MaxTransfers = 2
    MaxTime = 1
    Callers = {s1, s2}
    Orgs = {"source", "target", "other"}
    FedWorlds <- MCFedWorlds
    XKeys = {"k1"}
    XRows = {r1, r2}
    Payloads <- MCPayloads
    SourceGrants <- MCGrants
    MaxFedTime = 2
    Registrars = {s1, s2}
    Issuers = {"i1"}
    IssuerKeys = {k1, k2, k3}
    Creds = {"c1"}
    Capabilities = {"pay"}
    Leeway = 0
    Validity = 0
    MaxRegTime = 1
    Desks = {"d1", "d2", "d3"}
    SvAgents = {"a", "b", "c"}
    OrgOf <- MCOrgOf
    Endpoints = {"e1", "e2", "e3", "e4"}
    HostOf <- MCHostOf
    Challenges = {"c1", "c2"}
    CallKeys = {"k"}
    NoKey = "-"
    max_depth = 3
    DegradeAfter = 2
    ChallengeTTL = 0
    Scenes <- MCScenes
SYMMETRY MCSymmetry
INVARIANTS  TrustHolds RegistryHolds ServicesHold
PROPERTIES RetirementUndone  ServiceSteps
CHECK_DEADLOCK FALSE
