----------------------------- MODULE MCPlatform -----------------------------
(***************************************************************************)
(* An organization with its members and subscription, an account with its  *)
(* factors and sessions, the discovery of workloads, a policy document and *)
(* its versions, the scoring of requests: they share no row that changes,  *)
(* so a behaviour is about one of them, its side.                          *)
(***************************************************************************)
EXTENDS Platform

VARIABLE side

\* ---- An organization, its members, keys and subscription.
MCLimits == [free |-> 2, starter |-> 3]
MCKeyLimits == [free |-> 1, starter |-> 2]
MCOrg(ms, actors, ops) ==
    [plan |-> "free", members |-> ms, actors |-> actors, hands |-> {1, 2}, ops |-> ops, bind |-> TRUE, roles |-> {"DEVELOPER"},
     expiries |-> {9}, events |-> 0, horizon |-> 0]
MCAdmin == [a |-> Member("ADMIN"), b |-> NoMember, o |-> NoMember]
MCAdmins == [MCAdmin EXCEPT !.b = Member("ADMIN")]
NoOrg == MCOrg(MCAdmin, {}, {})
MCOrgs ==
    {NoOrg,
     \* Invitations expire while they are accepted and written.
     [MCOrg(MCAdmin, {"a"}, {"invite", "accept", "remove"}) EXCEPT !.horizon = 1],
     \* Anybody with the token may accept.
     [MCOrg(MCAdmin, {"a"}, {"invite", "accept"}) EXCEPT !.bind = FALSE, !.roles = {"VIEWER"}],
     [MCOrg(MCAdmin, {"a", "o"}, {"invite", "accept", "revoke_invitation"}) EXCEPT !.roles = {"VIEWER"}],
     \* A member creates keys and is invited as a VIEWER.
     [MCOrg(MCAdmin, {"a", "b"}, {"invite", "accept", "key"}) EXCEPT !.plan = "starter",
        !.roles = {"DEVELOPER", "VIEWER"}],
     \* An invitation expires while it is accepted, and another one was accepted meanwhile.
     [MCOrg(MCAdmin, {"a", "b"}, {"invite", "accept", "key"}) EXCEPT !.plan = "starter",
        !.roles = {"DEVELOPER", "VIEWER"}, !.horizon = 1],
     \* Administrators demote and remove each other while they create keys.
     [MCOrg(MCAdmins, {"a", "b"}, {"role", "remove", "key", "collide"}) EXCEPT !.roles = {"VIEWER"}],
     \* Keys expire while they are listed, revoked and used.
     [MCOrg([MCAdmin EXCEPT !.b = Member("DEVELOPER")], {"a", "b"},
            {"key", "list", "revoke_key", "authenticate"}) EXCEPT !.expiries = {1}, !.horizon = 1],
     \* Billing.
     [MCOrg(MCAdmin, {"o"}, {"checkout", "cancel", "crash"}) EXCEPT !.events = 3]}

\* ---- An account, its factors and sessions.
MCAcct(factor, open, ops) ==
    [factor |-> factor, open |-> open, ops |-> ops, workers |-> {1, 2}, horizon |-> 0, challenges |-> 2,
     passwords |-> 1, secrets |-> 1, sets |-> 1]
NoAcct == MCAcct(FALSE, 0, {})
MCAccts ==
    {NoAcct,
     \* The password changes while somebody signs in, with failures and without.
     [MCAcct(FALSE, 1, {"login", "change", "revoke", "step_up"}) EXCEPT !.horizon = 1],
     \* The same with a second factor.
     MCAcct(TRUE, 0, {"login"}),
     [MCAcct(TRUE, 1, {"login", "change"}) EXCEPT !.challenges = 1],
     \* A code is entered again later.
     [MCAcct(TRUE, 1, {"step_up"}) EXCEPT !.horizon = 1],
     \* A second factor is set up while somebody signs in.
     MCAcct(FALSE, 1, {"login", "setup"}),
     \* Codes are renewed, the factor is removed and set up again.
     [MCAcct(TRUE, 2, {"codes"}) EXCEPT !.sets = 3],
     [MCAcct(TRUE, 2, {"disable", "setup", "codes"}) EXCEPT !.secrets = 2, !.sets = 2],
     \* Sign-in through the provider, and the policy that requires it.
     MCAcct(FALSE, 0, {"sso", "crash"}),
     MCAcct(FALSE, 0, {"policy"})}

\* ---- Estates that are scanned, and the people who review the candidates.
MCRes(fp, name, evidence) ==
    [fp |-> fp, label |-> <<"unlabelled", 0>>, ref |-> fp, name |-> name, evidence |-> evidence]
MCStrong == {"framework", "provider", "production"}
MCWeak == {"naming"}
MCBot == MCRes(1, "bot", MCStrong)
MCJob == MCRes(2, "job", MCWeak)
MCAgentRow == [ident |-> <<"helper", 0>>, ref |-> 9, name |-> "helper"]
MCLand(reports, ops) ==
    [reports |-> reports, ops |-> ops, agents |-> <<>>, similar |-> {}, credential |-> {}, broken |-> {},
     scanners |-> Scanners, people |-> {1}, runs |-> 3, horizon |-> 0]
NoLand == MCLand(<<<<>>>>, {})
MCLands ==
    {NoLand,
     \* Two sources report the same workload, in another order with another.
     [MCLand(<<<<MCBot, MCJob>>, <<MCJob, MCBot>>>>, {"die"}) EXCEPT !.runs = 2],
     MCLand(<<<<MCBot, MCJob>>, <<MCBot>>>>, {}),
     \* A person decides while scans come back.
     [MCLand(<<<<MCBot>>>>, {"ignore", "false_positive"}) EXCEPT !.horizon = 2, !.people = People, !.scanners = {1}, !.runs = 2],
     \* Workloads are matched and onboarded.
     [MCLand(<<<<MCBot, [MCJob EXCEPT !.name = "bot"]>>>>, {"onboard"}) EXCEPT !.people = People, !.scanners = {1}, !.runs = 1],
     [MCLand(<<<<MCBot>>>>, {"onboard", "match"}) EXCEPT !.agents = <<MCAgentRow>>,
        !.similar = {{"bot", "helper"}}, !.people = People, !.scanners = {1}, !.runs = 2],
     \* A workload carries the identifier another is onboarded under.
     [MCLand(<<<<MCBot, [MCJob EXCEPT !.label = <<"bot", 0>>]>>>>, {"onboard"})
        EXCEPT !.scanners = {1}, !.runs = 2],
     \* Scans fail.
     [MCLand(<<<<MCBot>>, <<MCJob>>>>, {}) EXCEPT !.credential = {1, 2}, !.broken = {2}]}

\* ---- Documents.
MCFieldType == [amount |-> "NUMBER", action |-> "STRING"]
Num(n) == [t |-> "num", v |-> n]
Str(s) == [t |-> "str", v |-> s]
List(vs) == [t |-> "list", v |-> vs]
MCContexts ==
    {[amount |-> a, action |-> x, ghost |-> Missing] :
        a \in {Missing, Num(1), Num(3), Num(5)}, x \in {Missing, Str("buy"), Str("sell")}}

Atom(field, op, value) == [kind |-> "atom", field |-> field, op |-> op, value |-> value]
Group(kind, of) == [kind |-> kind, of |-> of]
Above == Atom("amount", "gt", Num(2))
Buys == Atom("action", "eq", Str("buy"))
MCMalformed == [kind |-> "malformed"]
MCConditions ==
    {Atom("amount", op, v) : op \in Orderings, v \in {Num(3), Str("buy")}}
    \cup {Atom("amount", op, Num(3)) : op \in {"eq", "neq", "in", "not_in", "exists", "not_exists", "like"}}
    \cup {Atom("action", op, List({Str("buy")})) : op \in {"in", "not_in"}}
    \cup {Atom("action", "in", List({Str("buy"), Str("sell"), Str("rent")})),
          Atom("action", "gt", Str("buy")), Atom("action", "neq", Str("buy")), Atom("ghost", "exists", Num(1)), Buys, MCMalformed}
    \cup {Group("not", <<c>>) : c \in {Above, MCMalformed, Group("all", <<>>), Atom("amount", "in", Num(3))}}
    \cup {Group(k, of) : k \in {"all", "any"}, of \in {<<>>, <<Above, Buys>>, <<MCMalformed, Buys>>}}
    \cup {Group("all", <<Above, Atom("amount", "lt", Num(n))>>) : n \in {1, 5}}
    \cup {Group("all", <<Atom("amount", "lte", Num(1)), Atom("amount", "gte", Num(1))>>),
          Group("all", <<Atom("amount", "exists", Num(9)), Atom("amount", "lt", Num(5))>>),
          Group("any", <<Group("not", <<Group("all", <<Above>>)>>)>>),
          Group("all", <<Above, Above, Buys, Group("any", <<Buys, Above>>)>>)}

\* The trees of the documents and how deep they are.
RECURSIVE MCBelow(_)
MCBelow(c) == {c} \cup UNION {MCBelow(child) : child \in Children(c)}
MCTrees == UNION {MCBelow(c) : c \in MCConditions \cup {Above, Buys}}
RECURSIVE MCDeep(_)
MCDeep(c) == IF Children(c) = {} THEN 0 ELSE 1 + Max({MCDeep(child) : child \in Children(c)})
MCDepth == [c \in MCTrees |-> MCDeep(c)]

Doc(rules, default) == [version |-> "APL/1.0", named |-> TRUE, rules |-> rules, default |-> default, target |-> <<>>]
Rule(id, effect, when) == [id |-> id, effect |-> effect, when |-> when]
MCDocuments ==
    {Doc(<<>>, d) : d \in {"absent", "ALLOW", "NO_MATCH", "REQUIRE_APPROVAL"}}
    \cup {Doc(<<Rule(1, e, c)>>, "absent") : e \in {"ALLOW", "DENY"}, c \in MCConditions}
    \cup {Doc(<<Rule(1, e, c), Rule(2, f, x)>>, d) :
            e, f \in Effects, c, x \in {Unconditional, Above, Buys}, d \in {"absent", "ALLOW"}}
    \cup {Doc(<<Rule(1, "DENY", Above), Rule(1, e, Above)>>, "ALLOW") : e \in Effects}
    \cup {[Doc(<<Rule(1, "DENY", Above)>>, "ALLOW") EXCEPT !.target = [action |-> Str("buy")]],
          [Doc(<<>>, "ALLOW") EXCEPT !.version = "APL/2.0"],
          [Doc(<<>>, "ALLOW") EXCEPT !.named = FALSE],
          Doc([i \in 1..3 |-> Rule(i, "ALLOW", Unconditional)], "ALLOW")}

\* ---- Requests.
Req(action, amount) == [action |-> action, resource |-> "shop", amount |-> amount, currency |-> "USD"]
MCWeather(risk, reqs, most) ==
    [clerks |-> {1, 2}, risk |-> risk, org |-> NoOrgPolicy, requests |-> reqs, requestsAtMost |-> most, horizon |-> 0,
     newAgent |-> FALSE, newPermission |-> FALSE, newKey |-> FALSE, requires_approval |-> FALSE,
     updates |-> {}, abandons |-> FALSE]
MCStrict == [DefaultRiskPolicy EXCEPT !.MEDIUM = "REQUIRE_APPROVAL"]
MCSevere == [DefaultRiskPolicy EXCEPT !.MEDIUM = "REJECT"]
MCOff == [DefaultRiskPolicy EXCEPT !.enabled = FALSE]
NoWeather == MCWeather(DefaultRiskPolicy, {}, 0)
MCWeathers ==
    {NoWeather,
     \* A burst under policies that stop MEDIUM risk, across two windows.
     [MCWeather(MCStrict, {Req("purchase", 1)}, 6) EXCEPT !.horizon = 1, !.clerks = Clerks],
     [MCWeather(MCSevere, {Req("purchase", 1)}, 7) EXCEPT !.horizon = 1],
     \* The first requests of a scope; some are cut off.
     [MCWeather(NoRiskPolicy, {Req("purchase", 1)}, 4) EXCEPT !.abandons = TRUE, !.clerks = Clerks],
     \* Amounts that climb, with everything new.
     [MCWeather(DefaultRiskPolicy, {Req("purchase", 1), Req("purchase", 4), Req("purchase", 0),
                [Req("sell", 8) EXCEPT !.resource = "bank"]}, 5)
        EXCEPT !.clerks = {1}, !.newAgent = TRUE, !.newPermission = TRUE, !.newKey = TRUE],
     \* The organization asks for approval and refuses; the policy changes meanwhile.
     [MCWeather(NoRiskPolicy, {Req("purchase", 1), Req("purchase", 10), [Req("purchase", 4) EXCEPT !.currency = "EUR"]}, 3)
        EXCEPT !.org = [block_critical_risk |-> TRUE, require_approval_for_high_risk |-> TRUE, above |-> 4, currency |-> "USD"],
               !.updates = {MCOff}, !.newAgent = TRUE, !.newPermission = TRUE],
     [MCWeather(DefaultRiskPolicy, {Req("purchase", 0)}, 3) EXCEPT !.requires_approval = TRUE]}

\* ---- The sides.
Sides == {"organization", "account", "discovery", "language", "risk"}
MCInit ==
    /\ side \in Sides
    /\ MsInit /\ AcInit /\ DiInit /\ AplInit /\ RkInit
    /\ side # "organization" <=> org = NoOrg
    /\ side # "account" <=> acct = NoAcct
    /\ side # "discovery" <=> land = NoLand
    /\ side # "language" => document = normalized(Doc(<<>>, "absent"))
    /\ side # "risk" <=> weather = NoWeather
MCNext ==
    \/ side = "organization" /\ MsNext /\ UNCHANGED <<side, acVars, diVars, document, rkVars>>
    \/ side = "account" /\ AcNext /\ UNCHANGED <<side, msVars, diVars, document, rkVars>>
    \/ side = "discovery" /\ DiNext /\ UNCHANGED <<side, msVars, acVars, document, rkVars>>
    \/ side = "language" /\ AplNext /\ UNCHANGED <<side, msVars, acVars, diVars, rkVars>>
    \/ side = "risk" /\ RkNext /\ UNCHANGED <<side, msVars, acVars, diVars, document>>
MCSpec == MCInit /\ [][MCNext]_<<side, msVars, acVars, diVars, document, rkVars>>
=============================================================================
