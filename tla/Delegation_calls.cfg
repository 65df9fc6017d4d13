SPECIFICATION CallsSpec
CONSTANTS
    a1 = a1  a2 = a2  a3 = a3  b1 = b1
    d1 = d1  d2 = d2  d3 = d3  p1 = p1  h1 = h1  h2 = h2  c1 = c1
    o1 = o1  o2 = o2  s1 = s1  usd = usd  eur = eur  None = None
    Perms = {p1}
    Creators = {h1}
    Scopes = {s1}
    Currencies = {usd, eur}
    Agents <- ThreeAgents
    Orgs = {o1}
    OrgOf <- OneOrg
    Delegs = {d1, d2}
    Callers = {c1}
    PermTerms <- FewPermTerms
    DelegTerms <- FewDelegTerms
    PatchStatuses = {"ACTIVE"}
    Money <- SomeMoney
    MaxTime = 1
INVARIANTS
    RevocationHonoured
    MoneyWithinWholeChain
    ApprovalNeverBypassed
PROPERTY EveryCallAnswered
