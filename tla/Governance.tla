----------------------------- MODULE Governance -----------------------------
(***************************************************************************)
(* The lifecycle of the agents of one organization: the state machine of   *)
(* services/agent_lifecycle.py, certification reviews, ownership transfers *)
(* and bulk operations of services/agent_governance.py, and the plain      *)
(* update of services/agents.py that bypasses the state machine.           *)
(*                                                                         *)
(* A handler runs in a session of its own: it loads the agent's row, then  *)
(* validates and edits its copy, and commits.  Any other session may       *)
(* commit in between.                                                      *)
(***************************************************************************)
EXTENDS Integers, Sequences, UnitOfWork

CONSTANTS
    Agents, Users, Sessions, Certs,
    Links,          \* delegations and credentials that may be granted
    Touches,        \* Touches[l]: the agents that link l concerns
    Requests,       \* the requests that handlers serve (see AllRequests)
    Policies,       \* what the organization's governance policy may be
    ReviewPeriod,   \* periodic_review_days
    MaxTransfers,   \* bound on the ownership history
    MaxTime         \* bound on the clock

VARIABLES
    govNow,
    agent,      \* agent[a]: the agents row; status "none" before it exists
    policy,     \* the agent_governance_policies row: no request changes it
    cert,       \* cert[c]: the agent_certifications row
    job,        \* job[s]: the handler that session s is in, with the rows it loaded
    live,       \* links that are ACTIVE
    trail,      \* trail[a]: agent_ownership_history, oldest first
    patched     \* history: agents that PATCH made ACTIVE

govVars == <<govNow, agent, policy, cert, job, live, trail, patched>>

ASSUME PopulationAssumption == Agents # {} /\ Users # {}
ASSUME LinksAssumption == Touches \in [Links -> SUBSET Agents]
ASSUME PeriodAssumption == ReviewPeriod \in Nat /\ MaxTime \in Nat

Statuses == {"draft", "registered", "review_required", "approved", "active", "suspended",
             "retirement_pending", "retired", "inactive", "revoked"}
Behaviors == {"SUSPEND", "REVIEW_REQUIRED", "ALERT_ONLY"}
\* update_policy, the only writer of this row after its creation, requires the
\* capability "admin", which no role has: the row stays as it was created or
\* provisioned.
PolicyRow == [expiry : Behaviors, separation : BOOLEAN, checklist : BOOLEAN]
None == -1
\* certification_status is written by most operations below and read by none: it
\* is left out.  described: purpose and classification satisfy the checklist.
AgentRow ==
    [status : Statuses \cup {"none"}, owner : Users,
     until : Nat \cup {None}, described : BOOLEAN]
CertRow == [agent : Agents, status : {"none", "PENDING", "APPROVED", "REJECTED"}]
NewOwners == [type : {"USER"}, id : Users] \cup [type : {"TEAM"}, id : {"team"}]

\* What a client may ask for; a bulk request names several agents.
AllRequests ==
    [kind : {"transition"}, target : Statuses, bypass : BOOLEAN]
      \cup [kind : {"retire"}, force : BOOLEAN]
      \cup [kind : {"transfer"}, to : NewOwners]
      \cup [kind : {"patch"}, status : Statuses]
      \cup [kind : {"describe"}]
      \cup [kind : {"review"}, cert : Certs]
      \cup [kind : {"decide"}, cert : Certs, decision : {"APPROVED", "REJECTED"}]
      \cup [kind : {"scan"}]
ASSUME RequestsAssumption == Requests \subseteq AllRequests
ASSUME PoliciesAssumption == Policies \subseteq PolicyRow

GovIdle == [stage |-> "idle"]

\* The emergency endpoints are transitions with fixed arguments.
Suspend == [kind |-> "transition", target |-> "suspended", bypass |-> TRUE]
Reactivate == [kind |-> "transition", target |-> "active", bypass |-> FALSE]

VALID_TRANSITIONS ==
    [s \in Statuses |->
       CASE s = "draft"              -> {"registered", "retired"}
         [] s = "registered"         -> {"draft", "review_required", "active", "retired"}
         [] s = "review_required"    -> {"registered", "approved", "retired"}
         [] s = "approved"           -> {"active", "review_required", "retired"}
         [] s = "active"             -> {"suspended", "review_required", "retirement_pending", "retired"}
         [] s = "suspended"          -> {"active", "retirement_pending", "retired"}
         [] s = "retirement_pending" -> {"retired", "suspended", "active"}
         [] s = "inactive"           -> {"registered", "active", "retired"}
         [] OTHER                    -> {}]

\* A target arrives as a string: the two legacy names become lifecycle states.
normalize_status(s) ==
    CASE s = "inactive" -> "registered" [] s = "revoked" -> "retired" [] OTHER -> s

evaluate_promotion_checklist(row) == policy.checklist => row.described
Window == govNow + ReviewPeriod

GovInit ==
    /\ govNow = 0
    /\ agent = [a \in Agents |-> [status |-> "none", owner |-> CHOOSE u \in Users : TRUE,
                                  until |-> None, described |-> FALSE]]
    /\ policy \in Policies
    /\ cert = [c \in Certs |-> [agent |-> CHOOSE a \in Agents : TRUE, status |-> "none"]]
    /\ job = [s \in Sessions |-> GovIdle]
    /\ live = {}
    /\ trail = [a \in Agents |-> <<>>]
    /\ patched = {}

GovTick ==
    /\ govNow < MaxTime
    /\ govNow' = govNow + 1
    /\ UNCHANGED <<agent, policy, cert, job, live, trail, patched>>

(***************************************************************************)
(* Rows that come into being.                                              *)
(***************************************************************************)
Register(a, u) ==
    /\ agent[a].status = "none"
    /\ agent' = [agent EXCEPT ![a].status = "registered", ![a].owner = u]
    /\ UNCHANGED <<govNow, policy, cert, job, live, trail, patched>>

\* Imported rows may carry a purpose and a risk classification already.
ImportAgent(a, u, described) ==
    /\ agent[a].status = "none"
    /\ agent' = [agent EXCEPT ![a].status = "registered", ![a].owner = u,
                              ![a].described = described]
    /\ UNCHANGED <<govNow, policy, cert, job, live, trail, patched>>

\* A delegation or a credential is granted to agents that are all active.
GrantLink(l) ==
    /\ l \notin live
    /\ \A a \in Touches[l] : agent[a].status = "active"
    /\ live' = live \cup {l}
    /\ UNCHANGED <<govNow, agent, policy, cert, job, trail, patched>>

(***************************************************************************)
(* A handler loads what it works on.                                       *)
(***************************************************************************)

Overdue(row) == row.status = "active" /\ row.until # None /\ row.until < govNow

Targets(r, a) ==
    CASE r.kind = "scan" -> {b \in Agents : Overdue(agent[b])}
      [] r.kind = "decide" -> {cert[r.cert].agent}
      [] OTHER -> {a}

Loads(r, a) ==
    CASE r.kind = "retire" -> r.force \/ \A l \in live : a \notin Touches[l]
      [] r.kind = "review" -> cert[r.cert].status = "none"
      [] r.kind = "decide" -> cert[r.cert].status # "none"
      [] OTHER -> TRUE

\* A scan that finds nothing changes nothing and is left out.
\* todo is empty but for a bulk request, which serves its agents one by one.
Load(s, r, a, todo) ==
    /\ Targets(r, a) # {} /\ \A b \in Targets(r, a) : agent[b].status # "none"
    /\ Loads(r, a)
    /\ job' = [job EXCEPT ![s] = [stage |-> "loaded", req |-> r, todo |-> todo,
                                  rows |-> [b \in Targets(r, a) |-> agent[b]]]]
    /\ UNCHANGED <<govNow, agent, policy, cert, live, trail, patched>>

Serve(s, r, a) == job[s] = GovIdle /\ Load(s, r, a, {})

BulkKinds == {"transfer", "review", "transition"}
execute_bulk_governance(s, r, todo) ==
    /\ job[s] = GovIdle
    /\ r.kind \in BulkKinds /\ (r.kind = "transition" => r.target = "suspended")
    /\ \E a \in todo : Load(s, r, a, todo \ {a})

BulkNext(s) ==
    /\ job[s].stage = "bulk"
    /\ \E a \in job[s].todo : Load(s, job[s].req, a, job[s].todo \ {a})

(***************************************************************************)
(* What the handler makes of its copy, and the commit.  The acting user u  *)
(* matters from here on only, so it is chosen here.                        *)
(***************************************************************************)
Separated(row, u, target) ==
    (policy.separation /\ row.status = "review_required" /\ target \in {"approved", "active"})
        => row.owner # u

\* Mutant: the terminal states are left to the matrix of the other states.
MayTransitionAlways(row, u, target, bypass) ==
    target \in UNION {VALID_TRANSITIONS[t] : t \in Statuses} /\ Separated(row, u, target)

MayTransition(row, u, target, bypass) ==
    /\ row.status \notin {"retired", "revoked"}
    /\ target \in VALID_TRANSITIONS[row.status]
    /\ Separated(row, u, target)
    /\ (target \in {"review_required", "approved", "active"} /\ ~bypass)
           => evaluate_promotion_checklist(row)

\* Mutant: reactivation forgets the review period.
TransitionedBare(row, target) == [row EXCEPT !.status = target]

Transitioned(row, target) ==
    IF target = "active" /\ row.until = None
    THEN [row EXCEPT !.status = target, !.until = Window]
    ELSE [row EXCEPT !.status = target]

\* The status that a transition or a retirement aims at.
Aim(r) == IF r.kind = "retire" THEN "retired" ELSE normalize_status(r.target)

\* An expired certification, by the organization's expiry behaviour.
Expired(row) ==
    [row EXCEPT !.status = CASE policy.expiry = "SUSPEND" -> "suspended"
                             [] policy.expiry = "REVIEW_REQUIRED" -> "review_required"
                             [] OTHER -> @]

Decided(row, decision) ==
    IF decision = "APPROVED"
    THEN [row EXCEPT !.until = Window]
    ELSE [row EXCEPT !.status = IF policy.expiry = "SUSPEND" THEN "suspended" ELSE @]

Edit(row, r) ==
    CASE r.kind \in {"transition", "retire"} -> Transitioned(row, Aim(r))
      [] r.kind = "transfer" -> IF r.to.type = "USER" THEN [row EXCEPT !.owner = r.to.id] ELSE row
      [] r.kind = "patch"    -> [row EXCEPT !.status = r.status]
      [] r.kind = "describe" -> [row EXCEPT !.described = TRUE]
      [] r.kind = "review"   -> row
      [] r.kind = "decide"   -> Decided(row, r.decision)
      [] r.kind = "scan"     -> Expired(row)

MayCommit(row, u, r) ==
    CASE r.kind \in {"transition", "retire"} ->
             MayTransition(row, u, Aim(r), r.kind = "retire" \/ r.bypass)
      [] r.kind = "patch"  -> row.status = "revoked" => r.status = "revoked"
      [] r.kind = "decide" -> policy.separation => row.owner # u
      [] OTHER -> TRUE

\* A transition into the status that was loaded returns at once.
NoMove(row, r) == r.kind \in {"transition", "retire"} /\ row.status = Aim(r)

Done(s) == [job EXCEPT ![s] = IF @.todo = {} THEN GovIdle ELSE [@ EXCEPT !.stage = "bulk"]]

Refused(s, u) ==
    /\ job[s].stage = "loaded"
    /\ \E b \in DOMAIN job[s].rows :
          NoMove(job[s].rows[b], job[s].req) \/ ~MayCommit(job[s].rows[b], u, job[s].req)
    /\ job' = Done(s)
    /\ UNCHANGED <<govNow, agent, policy, cert, live, trail, patched>>

Cleanup(r, rows) ==
    IF r.kind \in {"transition", "retire"} /\ Aim(r) = "retired"
    THEN {l \in live : Touches[l] \cap DOMAIN rows = {}}
    ELSE live

Recorded(a, row, r) ==
    IF r.kind = "transfer" THEN Append(trail[a], [old |-> row.owner, new |-> r.to]) ELSE trail[a]

CertWrite(r, rows) ==
    CASE r.kind = "review" -> [cert EXCEPT ![r.cert] = [agent  |-> CHOOSE a \in DOMAIN rows : TRUE,
                                                        status |-> "PENDING"]]
      [] r.kind = "decide" -> [cert EXCEPT ![r.cert].status = r.decision]
      [] OTHER -> cert

Commit(s, u) ==
    LET r == job[s].req  rows == job[s].rows IN
    /\ job[s].stage = "loaded"
    /\ \A b \in DOMAIN rows : ~NoMove(rows[b], r) /\ MayCommit(rows[b], u, r)
    /\ r.kind = "transfer" => \A b \in DOMAIN rows : Len(trail[b]) < MaxTransfers
    /\ r.kind = "review" => cert[r.cert].status = "none"
    /\ agent' = [b \in Agents |->
                   IF b \in DOMAIN rows THEN Flush(agent[b], rows[b], Edit(rows[b], r)) ELSE agent[b]]
    /\ live' = Cleanup(r, rows)
    /\ trail' = [b \in Agents |-> IF b \in DOMAIN rows THEN Recorded(b, rows[b], r) ELSE trail[b]]
    /\ cert' = CertWrite(r, rows)
    /\ patched' = IF r.kind = "patch" /\ r.status = "active" THEN patched \cup DOMAIN rows ELSE patched
    /\ job' = Done(s)
    /\ UNCHANGED <<govNow, policy>>

GovNext ==
    \/ GovTick
    \/ \E a \in Agents, u \in Users : Register(a, u)
    \/ \E a \in Agents, u \in Users, d \in BOOLEAN : ImportAgent(a, u, d)
    \/ \E l \in Links : GrantLink(l)
    \/ \E s \in Sessions, r \in Requests, a \in Agents : Serve(s, r, a)
    \/ \E s \in Sessions, r \in Requests, todo \in SUBSET Agents :
          execute_bulk_governance(s, r, todo)
    \/ \E s \in Sessions : BulkNext(s)
    \/ \E s \in Sessions, u \in Users : Refused(s, u) \/ Commit(s, u)

GovSpec == GovInit /\ [][GovNext]_govVars

(***************************************************************************)
(* Properties.                                                             *)
(***************************************************************************)
\* Every row, job and history record has its type.
GovTypeOK ==
    /\ govNow \in 0 .. MaxTime
    /\ agent \in [Agents -> AgentRow]
    /\ policy \in PolicyRow
    /\ cert \in [Certs -> CertRow]
    /\ \A s \in Sessions :
          job[s] = GovIdle \/ (/\ job[s].stage \in {"loaded", "bulk"}
                              /\ job[s].req \in Requests /\ job[s].todo \subseteq Agents
                              /\ \A b \in DOMAIN job[s].rows : job[s].rows[b] \in AgentRow)
    /\ live \subseteq Links
    /\ \A a \in Agents : trail[a] \in Seq([old : Users, new : NewOwners])

\* The expiry scan only looks at agents with a certified_until.  Whatever sessions
\* overlap, an ACTIVE agent without one (which no scan will ever suspend) got
\* ACTIVE through PATCH: transition_lifecycle always opens a review period, and no
\* operation closes one.
ActiveHasWindow ==
    \A a \in Agents : (agent[a].status = "active" /\ agent[a].until = None) => a \in patched

\* The ownership history explains the owner: it is the new owner of the last record
\* that names a user other than the owner it was loaded with (a transfer to the
\* owner that was loaded writes a record and no column), and the owner never moves
\* without a record.
Effective(rec) == rec.new.type = "USER" /\ rec.new.id # rec.old
LastEffective(a, i) ==
    /\ i \in DOMAIN trail[a] /\ Effective(trail[a][i])
    /\ \A j \in DOMAIN trail[a] : j > i => ~Effective(trail[a][j])
OwnerTrail ==
    \A a \in Agents : \A i \in DOMAIN trail[a] :
        LastEffective(a, i) => agent[a].owner = trail[a][i].new.id

\* Once retired, an agent comes back only by the three ways that bypass the state
\* machine: a PATCH, a rejected certification under the SUSPEND policy, or a session
\* that had loaded the row before the retirement was committed.
Stale(s, a) ==
    /\ job[s].stage = "loaded" /\ a \in DOMAIN job[s].rows
    /\ job[s].rows[a].status # "retired"
RetirementUndone ==
    [][\A a \in Agents :
          (agent[a].status = "retired" /\ agent'[a].status # "retired")
              => \E s \in Sessions :
                    /\ job[s] # job'[s] /\ job[s].stage = "loaded"
                    /\ \/ Stale(s, a)
                       \/ job[s].req.kind = "patch"
                       \/ job[s].req.kind = "decide" /\ policy.expiry = "SUSPEND"]_govVars

\* The certification signals of an agent, as the dashboard computes them.
evaluate_governance_signals(row) ==
    CASE row.until # None /\ row.until < govNow -> {"CERTIFICATION_EXPIRED"}
      [] row.until = None /\ row.status = "active" -> {"REVIEW_DUE"}
      [] OTHER -> {}

\* The agents that the next scan would act on are the ACTIVE ones that the dashboard
\* shows as CERTIFICATION_EXPIRED.
ScanMatchesSignals ==
    {a \in Agents : Overdue(agent[a])} =
        {a \in Agents : agent[a].status = "active"
                          /\ "CERTIFICATION_EXPIRED" \in evaluate_governance_signals(agent[a])}

\* However sessions overlap: an ACTIVE agent has a review period unless PATCH made it so, the
\* ownership history explains the owner, and the scan finds what the dashboard shows.
GovernanceHolds == GovTypeOK /\ ActiveHasWindow /\ OwnerTrail /\ ScanMatchesSignals
=============================================================================
