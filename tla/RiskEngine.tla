----------------------------- MODULE RiskEngine -----------------------------
(***************************************************************************)
(* How risky a request is and what follows (services/risk_engine.py,       *)
(* services/organization_policy.py, the end of services/authorization.py), *)
(* for the requests of one agent under one permission.                     *)
(*                                                                         *)
(* A request reads its scope's policy and the agent's committed history,   *)
(* scores itself, and commits the assessment together with the decision;   *)
(* requests that run at once do not see each other.  Amounts are integers, *)
(* 0 is a request without an amount.  A request that is held has an        *)
(* assessment but no audit row; the owner's later decision is not here.    *)
(***************************************************************************)
EXTENDS Integers, Sequences, FiniteSets, SequencesExt

CONSTANTS
    Clerks,             \* request threads
    Limit,              \* permission.maximum_amount
    risk_low_max, risk_medium_max, risk_high_max,
    risk_velocity_medium_count, risk_velocity_high_count, risk_velocity_critical_count,
    VelocityWindow, RejectionWindow,
    Weathers            \* what a behaviour is about: threads, requests made, how new agent, permission and
                        \* key are, policies there are and updates of them, bounds

VARIABLES
    rkNow,
    riskPolicy,     \* the risk_policies row of the scope, or NoRiskPolicy
    orgPolicy,      \* the organization_security_policies row, or NoOrgPolicy
    ledger,         \* assessments with their decisions, in the order they were committed
    clerk,          \* clerk[w]: the request in thread w
    lost,           \* history: requests that ended in an error
    weather         \* \in Weathers

rkVars == <<rkNow, riskPolicy, orgPolicy, ledger, clerk, lost, weather>>

RiskLevel == {"LOW", "MEDIUM", "HIGH", "CRITICAL"}
RiskAction == {"ALLOW", "REQUIRE_APPROVAL", "REJECT"}
NoRiskPolicy == [enabled |-> "none"]
DefaultRiskPolicy ==
    [enabled |-> TRUE, MEDIUM |-> "ALLOW", HIGH |-> "REQUIRE_APPROVAL", CRITICAL |-> "REJECT",
     amount_anomaly_enabled |-> TRUE, velocity_enabled |-> TRUE, rejection_history_enabled |-> TRUE]
\* above = 0: no threshold.
NoOrgPolicy == [block_critical_risk |-> FALSE, require_approval_for_high_risk |-> FALSE, above |-> 0, currency |-> "USD"]
RkIdle == [stage |-> "idle"]

ASSUME ClerksAssumption == IsFiniteSet(Clerks) /\ Limit \in Nat \ {0} /\ VelocityWindow \in Nat /\ RejectionWindow \in Nat
\* What core/config.py demands of the settings.
ASSUME SettingsAssumption ==
    /\ {risk_low_max, risk_medium_max, risk_high_max} \subseteq Nat
    /\ risk_low_max < risk_medium_max /\ risk_medium_max < risk_high_max
    /\ {risk_velocity_medium_count, risk_velocity_high_count, risk_velocity_critical_count} \subseteq Nat \ {0}
IsRiskPolicy(p) ==
    /\ DOMAIN p = DOMAIN DefaultRiskPolicy /\ {p.MEDIUM, p.HIGH, p.CRITICAL} \subseteq RiskAction
    /\ {p.enabled, p.amount_anomaly_enabled, p.velocity_enabled, p.rejection_history_enabled} \subseteq BOOLEAN
ASSUME WeathersAssumption ==
    \A x \in Weathers : /\ x.clerks \subseteq Clerks
                        /\ \A r \in x.requests : DOMAIN r = {"action", "resource", "amount", "currency"} /\ r.amount \in Nat
                        /\ x.risk = NoRiskPolicy \/ IsRiskPolicy(x.risk)
                        /\ \A p \in x.updates : IsRiskPolicy(p)
                        /\ {x.newAgent, x.newPermission, x.newKey, x.requires_approval} \subseteq BOOLEAN

RkInit ==
    /\ weather \in Weathers
    /\ rkNow = 0 /\ ledger = <<>> /\ lost = 0
    /\ riskPolicy = weather.risk /\ orgPolicy = weather.org
    /\ clerk = [w \in Clerks |-> RkIdle]

RkTick ==
    /\ rkNow < weather.horizon /\ rkNow' = rkNow + 1
    /\ UNCHANGED <<riskPolicy, orgPolicy, ledger, clerk, lost, weather>>

(***************************************************************************)
(* The score.                                                              *)
(***************************************************************************)
\* Assessments since t that ended in one of the decisions D.
Since(t, D) == Cardinality({i \in DOMAIN ledger : ledger[i].at >= t /\ ledger[i].decision \in D})
\* Points of the first tier that is reached; a tier starts from a value, the highest comes first.
Tier(value, tiers) ==
    LET i == SelectInSeq(tiers, LAMBDA t : value >= t.from) IN IF i = 0 THEN 0 ELSE tiers[i].points
From(from, points) == [from |-> from, points |-> points]

\* The amount against the average of count approved ones that sum up to total: 4, 2 and 1.5 times.
AmountPoints(amount, count, total) ==
    IF count = 0 \/ total = 0 THEN 0
    ELSE Tier(2 * (amount * count), <<From(8 * total, 45), From(4 * total, 25), From(3 * total, 15)>>)

\* The amount against 90% and 75% of the permission's limit.
LimitPoints(amount) == Tier(20 * amount, <<From(18 * Limit, 15), From(15 * Limit, 8)>>)

VelocityTiers == <<From(risk_velocity_critical_count, 55), From(risk_velocity_high_count, 35),
                   From(risk_velocity_medium_count, 18)>>

\* Mutant: only requests that were refused count.
VelocityPointsRefused(t) == Tier(Since(t, {"REJECTED"}), VelocityTiers)

VelocityPoints(t) == Tier(Since(t, {"APPROVED", "PENDING", "REJECTED"}), VelocityTiers)

RejectionPoints(t) == Tier(Since(t, {"REJECTED"}), <<From(5, 25), From(3, 15)>>)

NoveltyPoints(req) ==
    LET stated == req.amount # 0
        audited == {i \in DOMAIN ledger : ledger[i].decision # "PENDING"}
        known == Cardinality(audited) >= 3
    IN (IF weather.newAgent /\ stated THEN 10 ELSE 0) + (IF weather.newPermission /\ stated THEN 5 ELSE 0)
       + (IF known /\ (\A i \in audited : ledger[i].req.action # req.action) THEN 12 ELSE 0)
       + (IF known /\ (\A i \in audited : ledger[i].req.resource # req.resource) THEN 12 ELSE 0)
       + (IF weather.newKey THEN 5 ELSE 0)

\* Approved ones like it (the twenty latest of thirty days: the bounds stay below both), and their amounts.
Approved(req) ==
    {i \in DOMAIN ledger : /\ ledger[i].decision = "APPROVED" /\ ledger[i].req.amount # 0
                           /\ ledger[i].req.action = req.action /\ ledger[i].req.resource = req.resource
                           /\ ledger[i].req.currency = req.currency}
Total(entries) ==
    LET sum[i \in 0..Len(ledger)] ==
            IF i = 0 THEN 0 ELSE sum[i - 1] + (IF i \in entries THEN ledger[i].req.amount ELSE 0)
    IN sum[Len(ledger)]

Score(req, policy, at) ==
    LET past == Approved(req)
        amounts == IF policy.amount_anomaly_enabled /\ req.amount # 0
                   THEN AmountPoints(req.amount, Cardinality(past), Total(past)) + LimitPoints(req.amount) ELSE 0
        velocity == IF policy.velocity_enabled THEN VelocityPoints(at - VelocityWindow) ELSE 0
        rejections == IF policy.rejection_history_enabled THEN RejectionPoints(at - RejectionWindow) ELSE 0
        points == amounts + velocity + rejections + NoveltyPoints(req)
    IN IF ~policy.enabled THEN 0 ELSE IF points > 100 THEN 100 ELSE points

risk_level(score) ==
    CASE score <= risk_low_max -> "LOW"
      [] score > risk_low_max /\ score <= risk_medium_max -> "MEDIUM"
      [] score > risk_medium_max /\ score <= risk_high_max -> "HIGH"
      [] OTHER -> "CRITICAL"

policy_action(level, policy) == IF level = "LOW" \/ ~policy.enabled THEN "ALLOW" ELSE policy[level]

evaluate_organization_policy(policy, req, level) ==
    CASE policy.block_critical_risk /\ level = "CRITICAL" -> "DENY"
      [] policy.require_approval_for_high_risk /\ level \in {"HIGH", "CRITICAL"} -> "REQUIRE_APPROVAL"
      [] /\ req.action = "purchase" /\ policy.above # 0
         /\ req.currency # policy.currency \/ req.amount > policy.above -> "REQUIRE_APPROVAL"
      [] OTHER -> "ALLOW"

(***************************************************************************)
(* One request.                                                            *)
(***************************************************************************)
Creating(w) == clerk[w].stage # "idle" /\ clerk[w].creates

\* get_or_create_policy: the first request of a scope inserts its policy.
Requested(w, req, inserts, policy) ==
    /\ clerk[w].stage = "idle" /\ Len(ledger) < weather.requestsAtMost
    /\ clerk' = [clerk EXCEPT ![w] = [stage |-> "score", req |-> req, at |-> rkNow, creates |-> FALSE,
                                       blocked |-> inserts, policy |-> policy]]
    /\ UNCHANGED <<rkNow, riskPolicy, orgPolicy, ledger, lost, weather>>

LookupPolicy(w, req) ==
    Requested(w, req, riskPolicy = NoRiskPolicy, IF riskPolicy = NoRiskPolicy THEN DefaultRiskPolicy ELSE riskPolicy)

\* The insert waits for another one of the same scope; it fails if that was committed.
InsertRow(w) ==
    /\ clerk[w].stage = "score" /\ clerk[w].blocked
    /\ \/ /\ riskPolicy = NoRiskPolicy
          /\ clerk' = [clerk EXCEPT ![w].blocked = FALSE, ![w].creates = TRUE]
          /\ UNCHANGED lost
       \/ /\ riskPolicy # NoRiskPolicy
          /\ lost' = lost + 1 /\ clerk' = [clerk EXCEPT ![w] = RkIdle]
    /\ UNCHANGED <<rkNow, riskPolicy, orgPolicy, ledger, weather>>

InsertPolicy(w) == (\A v \in Clerks : ~Creating(v)) /\ InsertRow(w)

\* RuleBasedRiskProvider.evaluate over what is committed.
Evaluate(w) ==
    LET me == clerk[w]
        level == risk_level(Score(me.req, me.policy, me.at))
    IN
    /\ me.stage = "score" /\ ~me.blocked
    /\ clerk' = [clerk EXCEPT ![w] =
          [stage |-> "decide", req |-> me.req, at |-> me.at, creates |-> me.creates, blocked |-> FALSE, policy |-> me.policy,
           level |-> level, action |-> policy_action(level, me.policy)]]
    /\ UNCHANGED <<rkNow, riskPolicy, orgPolicy, ledger, lost, weather>>

DecisionOf(me, org) ==
    LET organization == evaluate_organization_policy(org, me.req, me.level) IN
    CASE me.action = "REJECT" \/ organization = "DENY" -> "REJECTED"
      [] ~(me.action = "REJECT" \/ organization = "DENY")
         /\ (weather.requires_approval \/ me.action = "REQUIRE_APPROVAL" \/ organization = "REQUIRE_APPROVAL") -> "PENDING"
      [] OTHER -> "APPROVED"

\* _save_audit_log or _save_pending_request: everything in one commit.
Commit(w) ==
    LET me == clerk[w] IN
    /\ me.stage = "decide"
    /\ ledger' = Append(ledger, [at |-> me.at, req |-> me.req, level |-> me.level, action |-> me.action,
                                 decision |-> DecisionOf(me, orgPolicy)])
    /\ riskPolicy' = IF me.creates THEN DefaultRiskPolicy ELSE riskPolicy
    /\ clerk' = [clerk EXCEPT ![w] = RkIdle]
    /\ UNCHANGED <<rkNow, orgPolicy, lost, weather>>

\* The request is cut off: its transaction is rolled back.
Abandon(w) ==
    /\ weather.abandons /\ clerk[w].stage # "idle"
    /\ clerk' = [clerk EXCEPT ![w] = RkIdle]
    /\ UNCHANGED <<rkNow, riskPolicy, orgPolicy, ledger, lost, weather>>

\* update_policy, creating the row when there is none; requests that have read the policy go on
\* with what they read.
update_policy(new) ==
    /\ riskPolicy # new /\ riskPolicy' = new
    /\ \A w \in Clerks : ~Creating(w)
    /\ UNCHANGED <<rkNow, orgPolicy, ledger, clerk, lost, weather>>

RkNext ==
    \/ RkTick
    \/ \E new \in weather.updates : update_policy(new)
    \/ \E w \in weather.clerks :
        InsertPolicy(w) \/ Evaluate(w) \/ Commit(w) \/ Abandon(w)
        \/ \E req \in weather.requests : LookupPolicy(w, req)

RkSpec == RkInit /\ [][RkNext]_rkVars

-----------------------------------------------------------------------------
(***************************************************************************)
(* Properties.                                                             *)
(***************************************************************************)
\* Levels, actions and decisions are those of the enumerations; at most one request creates
\* the policy of the scope.
RkTypeOK ==
    /\ \A i \in DOMAIN ledger :
        ledger[i].level \in RiskLevel /\ ledger[i].decision \in {"APPROVED", "PENDING", "REJECTED"}
    /\ \A w \in Clerks : clerk[w].stage = "decide" => clerk[w].level \in RiskLevel /\ clerk[w].action \in RiskAction
    /\ Cardinality({w \in Clerks : Creating(w)}) <= 1

\* Under a policy that lets LOW risk pass only, no more requests of one moment are approved than
\* the high velocity threshold and the other threads: RuleBasedRiskProvider counts what is
\* committed, and every thread may have counted before the others committed.  (The 35 points of
\* that threshold are more than LOW unless the settings allow as much, which they may.)
BurstBounded ==
    /\ weather.updates = {} /\ riskPolicy # NoRiskPolicy /\ riskPolicy.enabled /\ riskPolicy.velocity_enabled
    /\ "ALLOW" \notin {riskPolicy.MEDIUM, riskPolicy.HIGH, riskPolicy.CRITICAL} /\ risk_low_max < 35
    => \A t \in 0..rkNow :
            Cardinality({i \in DOMAIN ledger : ledger[i].at = t /\ ledger[i].decision = "APPROVED"})
                <= risk_velocity_high_count + Cardinality(Clerks) - 1

\* Requests are lost to the insert of the policy row only when they found none: at most one for
\* each thread, in the whole life of a scope.
LostOnlyAtFirst == lost <= Cardinality(Clerks)

\* With the history as it is, stating a larger amount never lowers the score.
ScoreMonotone ==
    \A req \in weather.requests : \A more \in req.amount..Limit :
        Score(req, DefaultRiskPolicy, rkNow) <= Score([req EXCEPT !.amount = more], DefaultRiskPolicy, rkNow)

\* "Organization rules that can only strengthen a valid permission/risk result": what was decided is
\* at least as strict as what the risk policy and the permission alone would have decided.
RiskStrictness == [APPROVED |-> 0, PENDING |-> 1, REJECTED |-> 2]
OnlyStrengthens ==
    \A i \in DOMAIN ledger :
        LET x == ledger[i]
            alone == CASE x.action = "REJECT" -> "REJECTED"
                       [] x.action # "REJECT" /\ (x.action = "REQUIRE_APPROVAL" \/ weather.requires_approval) -> "PENDING"
                       [] OTHER -> "APPROVED"
        IN RiskStrictness[x.decision] >= RiskStrictness[alone]

\* A burst passes only by as many requests as overlap, a request is lost only to the first of
\* its scope, more risk never scores less, and the organization's rules only strengthen.
RiskHolds == RkTypeOK /\ BurstBounded /\ LostOnlyAtFirst /\ ScoreMonotone /\ OnlyStrengthens
=============================================================================
