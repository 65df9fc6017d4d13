SPECIFICATION Spec
CONSTANTS
    a1 = a1  a2 = a2  a3 = a3  b1 = b1
    d1 = d1  d2 = d2  d3 = d3  p1 = p1  h1 = h1  h2 = h2  c1 = c1
    o1 = o1  o2 = o2  s1 = s1  usd = usd  eur = eur  None = None
    Perms = {p1}
    Creators = {h1}
    Scopes = {s1}
    Currencies = {usd, eur}
    Agents <- FourPeers
    Orgs = {o1}
    OrgOf <- FourPeersOrg
    Delegs = {d1, d2, d3}
    Callers = {}
    PermTerms <- OpenPermTerm
    DelegTerms <- DeepDelegTerm
    PatchStatuses = {"ACTIVE"}
    Money = {None}
    MaxTime = 0
PROPERTY CascadeReachesDescendants
