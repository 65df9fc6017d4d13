SPECIFICATION FairSpec
CONSTANTS
    a1 = a1  a2 = a2  p1 = p1
    d1 = d1  d2 = d2  s1 = s1  usd = usd  None = None
    Scopes = {s1}
    Currencies = {usd}
    Agents = {a1, a2}
    Perms = {p1}
    PermTerms <- OnePermTerm
    Authorizers = {1}
    Deciders = {d1, d2}
    Money <- OneMoney
    Window = 2
    MaxTime = 3
    Reqs = {1}
INVARIANT DecisionSound
PROPERTIES
    ImplementsVerdicts
    EveryDecisionEnds
