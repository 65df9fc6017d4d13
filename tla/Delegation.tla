----------------------------- MODULE Delegation -----------------------------
(***************************************************************************)
(* Agent-to-agent delegation: services/agent_delegation.py, the delegated  *)
(* branch of services/authorization.py, and the operations of other        *)
(* services that touch the same rows (permission revocation and expiry,    *)
(* PATCH of an agent, retirement of an agent).                             *)
(*                                                                         *)
(* Every HTTP request runs in its own READ COMMITTED transaction and takes *)
(* no row lock here: what a request has read may have changed when it      *)
(* commits.  Creating a delegation is therefore two steps (read and check, *)
(* insert) and authorizing a delegated request is one step for each row of *)
(* the chain, interleaved with the single-transaction writers.             *)
(***************************************************************************)
EXTENDS Grants

CONSTANTS
    Agents, Perms, Delegs,    \* row identities (Perms, Delegs: pools of fresh ones)
    Orgs, OrgOf,              \* OrgOf[a] is the agent's organization, or None
    Creators, Callers,        \* request threads of the two multi-step operations
    PermTerms,                \* the terms POST /permissions is called with
    DelegTerms,               \* the terms POST /agent-delegations is called with
    PatchStatuses,            \* the statuses PATCH /agents/{id} is called with
    Money,                    \* the amounts (or None) authorize is called with
    MaxTime                   \* bound on the clock

ASSUME OrgAssumption == OrgOf \in [Agents -> Orgs \cup {None}]
ASSUME NoneAssumption ==
    None \notin Delegs /\ None \notin Orgs /\ None \notin Agents
ASSUME MoneyAssumption == Money \subseteq MaybeLimit
ASSUME TimeAssumption == MaxTime \in Nat

\* The largest max_delegation_depth the schema accepts.
DepthLimit == 5

\* INACTIVE stands for the statuses this module need not tell apart: DRAFT,
\* REGISTERED, REVIEW_REQUIRED, APPROVED, SUSPENDED, RETIREMENT_PENDING, INACTIVE.
AgentStatuses == {"ACTIVE", "INACTIVE", "RETIRED", "REVOKED"}
PermStatuses == {"ACTIVE", "REVOKED", "EXPIRED"}
DelegStatuses == {"ACTIVE", "REVOKED"}

\* What PermissionCreate and AgentDelegationCreate let through.
PermTermSet ==
    [scope : Scopes, limit : MaybeLimit, approval : BOOLEAN, allow : BOOLEAN,
     from : Nat, exp : Nat]
DelegTermSet ==
    [scope : Scopes, limit : MaybeLimit, approval : BOOLEAN, further : BOOLEAN,
     maxDepth : 1 .. DepthLimit, from : Nat, exp : Nat]

ASSUME PatchAssumption == PatchStatuses \subseteq AgentStatuses
ASSUME PermTermsAssumption == PermTerms \subseteq PermTermSet
ASSUME DelegTermsAssumption == DelegTerms \subseteq DelegTermSet

PermRow ==
    [agent : Agents, scope : Scopes, limit : MaybeLimit, approval : BOOLEAN,
     allow : BOOLEAN, from : Nat, exp : Nat, status : PermStatuses]
DelegRow ==
    [parentAgent : Agents, childAgent : Agents, perm : Perms,
     parent : Delegs \cup {None}, org : Orgs, scope : Scopes,
     limit : MaybeLimit, approval : BOOLEAN, further : BOOLEAN,
     depth : Nat, maxDepth : 1 .. DepthLimit, from : Nat, exp : Nat,
     status : DelegStatuses]

ASSUME NoneIsNoRow == None \notin DelegRow

VARIABLES
    clock,
    agentStatus,   \* agents.status
    perms,         \* the permissions table: a function on the created rows
    delegs,        \* the agent_delegations table
    creating,      \* creating[h]: the checked row thread h is about to insert, or None
    calls          \* calls[c]: the delegated authorization thread c is working on

tables == <<agentStatus, perms, delegs>>
vars == <<clock, agentStatus, perms, delegs, creating, calls>>

\* A function with one more (or one replaced) entry.
Put(table, key, row) ==
    [k \in DOMAIN table \cup {key} |-> IF k = key THEN row ELSE table[k]]

IdleCall == [stage |-> "idle"]
RejectedCall == [stage |-> "REJECTED"]

Init ==
    /\ clock = 0
    /\ agentStatus = [a \in Agents |-> "ACTIVE"]    \* registered and activated
    /\ perms = [p \in {} |-> None]
    /\ delegs = [d \in {} |-> None]
    /\ creating = [h \in Creators |-> None]
    /\ calls = [c \in Callers |-> IdleCall]

Tick ==
    /\ clock < MaxTime
    /\ clock' = clock + 1
    /\ UNCHANGED <<tables, creating, calls>>

-----------------------------------------------------------------------------
(* Agents: PATCH /agents/{id} and the retirement transition.               *)

\* update_owned_agent: only a REVOKED agent is refused a new status.  The
\* lifecycle service's other transitions change the same column and no other
\* row of this model.
PatchAgent(a, s) ==
    /\ agentStatus[a] = "REVOKED" => s = "REVOKED"
    /\ agentStatus' = [agentStatus EXCEPT ![a] = s]
    /\ UNCHANGED <<clock, perms, delegs, creating, calls>>

\* transition_lifecycle(RETIRED) with _execute_retirement_cleanup: the agent's
\* own ACTIVE delegations are revoked, not the ones below them.
RetireAgent(a) ==
    /\ agentStatus[a] \notin {"RETIRED", "REVOKED"}
    /\ agentStatus' = [agentStatus EXCEPT ![a] = "RETIRED"]
    /\ delegs' = [d \in DOMAIN delegs |->
          IF a \in {delegs[d].parentAgent, delegs[d].childAgent}
          THEN [delegs[d] EXCEPT !.status = "REVOKED"]
          ELSE delegs[d]]
    /\ UNCHANGED <<clock, perms, creating, calls>>

-----------------------------------------------------------------------------
(* Permissions.                                                            *)

\* The schemas' check of a new grant's window.
WindowPasses(t) == clock < t.exp /\ t.from < t.exp

CreatePermission(p, a, t) ==
    /\ p \notin DOMAIN perms
    /\ WindowPasses(t)
    /\ perms' = Put(perms, p,
          [agent |-> a, scope |-> t.scope, limit |-> t.limit,
           approval |-> t.approval, allow |-> t.allow,
           from |-> t.from, exp |-> t.exp, status |-> "ACTIVE"])
    /\ UNCHANGED <<clock, agentStatus, delegs, creating, calls>>

\* expire_owned_permissions and the lazy expiry of get_owned_permission.  A
\* revocation and an expiry that race can overwrite each other; neither makes
\* the row ACTIVE again, and nothing here tells REVOKED from EXPIRED.
ExpirePermission(p) ==
    /\ p \in DOMAIN perms
    /\ perms[p].status = "ACTIVE" /\ perms[p].exp <= clock
    /\ perms' = [perms EXCEPT ![p].status = "EXPIRED"]
    /\ UNCHANGED <<clock, agentStatus, delegs, creating, calls>>

RevokePermission(p) ==
    /\ p \in DOMAIN perms
    /\ perms[p].status = "ACTIVE" /\ clock < perms[p].exp
    /\ perms' = [perms EXCEPT ![p].status = "REVOKED"]
    /\ UNCHANGED <<clock, agentStatus, delegs, creating, calls>>

-----------------------------------------------------------------------------
(* create_delegation.                                                      *)

Lesser(m, n) == IF m <= n THEN m ELSE n

\* The delegations from d up to its root delegation, d included: the smallest
\* set that holds d and, with a delegation, the one it was chained to.
UpwardClosed(S) ==
    \A e \in S : delegs[e].parent # None => delegs[e].parent \in S

Chain(d) ==
    {e \in DOMAIN delegs :
        \A S \in SUBSET DOMAIN delegs : d \in S /\ UpwardClosed(S) => e \in S}

\* Scope, limit, expiry and approval against the grant directly above.
Narrows(terms, above) ==
    /\ terms.scope = above.scope
    /\ NoWider(terms.limit, above.limit)
    /\ terms.exp <= above.exp
    /\ above.approval => terms.approval

\* Steps 1-3: the two agents.
AgentsPass(parentAgent, childAgent) ==
    /\ parentAgent # childAgent
    /\ agentStatus[parentAgent] = "ACTIVE"
    /\ agentStatus[childAgent] = "ACTIVE"
    /\ OrgOf[parentAgent] # None
    /\ OrgOf[parentAgent] = OrgOf[childAgent]

\* Step 4: the permission, which the parent agent of a first delegation holds.
PermissionPasses(p, parentAgent, parent) ==
    /\ parent = None => perms[p].agent = parentAgent
    /\ IsUsable(perms[p], clock)
    /\ perms[p].allow

\* Mutant: a chained delegation is compared with the permission, not with the
\* delegation above it.
ParentPassesRootOnly(above, parentAgent, childAgent, p, t) ==
    /\ IsUsable(delegs[above], clock)
    /\ delegs[above].childAgent = parentAgent
    /\ delegs[above].further
    /\ delegs[above].perm = p
    /\ delegs[above].depth + 1 <= Lesser(delegs[above].maxDepth, t.maxDepth)
    /\ \A d \in Chain(above) :
          delegs[d].parentAgent \notin {childAgent, parentAgent}
    /\ Narrows(t, perms[p])

\* Step 5, chained: the delegation above, up to the ancestors' agents.
ParentPasses(above, parentAgent, childAgent, p, t) ==
    /\ IsUsable(delegs[above], clock)
    /\ delegs[above].childAgent = parentAgent
    /\ delegs[above].further
    /\ delegs[above].perm = p
    /\ delegs[above].depth + 1 <= Lesser(delegs[above].maxDepth, t.maxDepth)
    /\ \A d \in Chain(above) :
          delegs[d].parentAgent \notin {childAgent, parentAgent}
    /\ Narrows(t, delegs[above])

NewRow(parentAgent, childAgent, p, parent, t, depth, maxDepth) ==
    [parentAgent |-> parentAgent, childAgent |-> childAgent, perm |-> p,
     parent |-> parent, org |-> OrgOf[parentAgent], scope |-> t.scope,
     limit |-> t.limit, approval |-> t.approval, further |-> t.further,
     depth |-> depth, maxDepth |-> maxDepth, from |-> t.from, exp |-> t.exp,
     status |-> "ACTIVE"]

\* All of create_delegation's reads and checks; a refusal changes nothing.  The
\* agents are read first, and permissions and delegations never become ACTIVE
\* again, so rows that pass when read one by one also passed together at the
\* first read: one step is as general as several.
CheckRootDelegation(h, parentAgent, childAgent, p, t) ==
    /\ creating[h] = None
    /\ WindowPasses(t)
    /\ AgentsPass(parentAgent, childAgent)
    /\ PermissionPasses(p, parentAgent, None)
    /\ Narrows(t, perms[p])
    /\ creating' = [creating EXCEPT ![h] =
          NewRow(parentAgent, childAgent, p, None, t, 1, t.maxDepth)]
    /\ UNCHANGED <<clock, tables, calls>>

CheckChainedDelegation(h, parentAgent, childAgent, p, above, t) ==
    /\ creating[h] = None
    /\ WindowPasses(t)
    /\ AgentsPass(parentAgent, childAgent)
    /\ PermissionPasses(p, parentAgent, above)
    /\ ParentPasses(above, parentAgent, childAgent, p, t)
    /\ creating' = [creating EXCEPT ![h] =
          NewRow(parentAgent, childAgent, p, above, t, delegs[above].depth + 1,
                 Lesser(delegs[above].maxDepth, t.maxDepth))]
    /\ UNCHANGED <<clock, tables, calls>>

\* The INSERT and its commit: nothing is read again, and no row was locked.
InsertDelegation(h, d) ==
    /\ creating[h] # None
    /\ d \notin DOMAIN delegs
    /\ delegs' = Put(delegs, d, creating[h])
    /\ creating' = [creating EXCEPT ![h] = None]
    /\ UNCHANGED <<clock, agentStatus, perms, calls>>

-----------------------------------------------------------------------------
(* revoke_delegation.                                                      *)

\* The queue of the cascade only follows children that are still ACTIVE: d is
\* reached from top when every delegation from d up to below top is ACTIVE.
Cascades(top, d) ==
    /\ top \in Chain(d)
    /\ \A e \in Chain(d) \ Chain(top) : delegs[e].status = "ACTIVE"

RevokeDelegation(top) ==
    /\ delegs' = [d \in DOMAIN delegs |->
          IF d = top \/ Cascades(top, d)
          THEN [delegs[d] EXCEPT !.status = "REVOKED"]
          ELSE delegs[d]]
    /\ UNCHANGED <<clock, agentStatus, perms, creating, calls>>

-----------------------------------------------------------------------------
(* authorize_action with a delegation_id, through verify_delegation_chain. *)

\* The acting agent is read, then the delegation row it names.  revoked and
\* dead are history: what was already revoked when the request began.
StartCall(c, a, d, scope, money) ==
    /\ calls[c].stage = "idle"
    /\ calls' = [calls EXCEPT ![c] =
          IF /\ agentStatus[a] = "ACTIVE"
             /\ (OrgOf[a] # None => delegs[d].org = OrgOf[a])
             /\ delegs[d].childAgent = a
          THEN [stage |-> "walking", at |-> clock, agent |-> a, leaf |-> d,
                scope |-> scope, money |-> money,
                current |-> d, nodes |-> {}, loaded |-> {a}, seen |-> {},
                approval |-> FALSE, effective |-> None,
                revoked |-> {e \in DOMAIN delegs : delegs[e].status = "REVOKED"},
                dead |-> {p \in DOMAIN perms : perms[p].status # "ACTIVE"}]
          ELSE RejectedCall]
    /\ UNCHANGED <<clock, tables, creating>>

\* db.get serves an agent this session has already loaded from its identity
\* map; every agent it holds was ACTIVE when loaded.
LoadedActive(call, a) == a \in call.loaded \/ agentStatus[a] = "ACTIVE"

\* Mutant: only the presented delegation's status is checked.
NodePassesLeafStatusOnly(call, node) ==
    /\ call.nodes = {} => node.status = "ACTIVE"
    /\ InWindow(node, call.at)
    /\ LoadedActive(call, node.childAgent)
    /\ LoadedActive(call, node.parentAgent)
    /\ node.childAgent \notin call.seen /\ node.parentAgent \notin call.seen
    /\ node.scope = call.scope

\* One turn of the loop: the checks on one delegation of the chain.
NodePasses(call, node) ==
    /\ node.status = "ACTIVE"
    /\ InWindow(node, call.at)
    /\ LoadedActive(call, node.childAgent)
    /\ LoadedActive(call, node.parentAgent)
    /\ node.childAgent \notin call.seen /\ node.parentAgent \notin call.seen
    /\ node.scope = call.scope

AcceptNode(c) ==
    LET call == calls[c]
        node == delegs[call.current]
    IN  /\ call.stage = "walking"
        /\ NodePasses(call, node)
        /\ calls' = [calls EXCEPT ![c] =
              [call EXCEPT
                 !.stage = IF node.parent = None THEN "root" ELSE "walking",
                 !.current = IF node.parent = None THEN @ ELSE node.parent,
                 !.nodes = @ \cup {call.current},
                 !.loaded = @ \cup {node.childAgent, node.parentAgent},
                 !.seen = @ \cup {node.childAgent},
                 !.approval = @ \/ node.approval,
                 !.effective = Tighter(@, node.limit)]]
        /\ UNCHANGED <<clock, tables, creating>>

RejectNode(c) ==
    /\ calls[c].stage = "walking"
    /\ ~NodePasses(calls[c], delegs[calls[c].current])
    /\ calls' = [calls EXCEPT ![c] = RejectedCall]
    /\ UNCHANGED <<clock, tables, creating>>

\* Mutant: a failed check leaves the request unanswered.
VerifyNodeNeverRejects(c) == AcceptNode(c)

VerifyNode(c) == AcceptNode(c) \/ RejectNode(c)

\* The permission at the root, and the money against what was accumulated.
RootPasses(call, root) ==
    /\ IsUsable(root, call.at)
    /\ root.allow
    /\ LoadedActive(call, root.agent)
    /\ root.scope = call.scope
    /\ Covers(Tighter(call.effective, root.limit), call.money)

VerifyRoot(c) ==
    LET call == calls[c]
        root == perms[delegs[call.current].perm]
    IN  /\ call.stage = "root"
        /\ calls' = [calls EXCEPT ![c] =
              IF RootPasses(call, root)
              THEN [call EXCEPT !.stage = "verified",
                                !.approval = @ \/ root.approval,
                                !.effective = Tighter(@, root.limit)]
              ELSE RejectedCall]
        /\ UNCHANGED <<clock, tables, creating>>

\* _complete_or_queue: the risk engine, the organization policy and the APL
\* policies together allow, force a human approval, or deny.
Gates == {"ALLOW", "REQUIRE_APPROVAL", "DENY"}

\* Mutant: the chain's approval requirement is forgotten.
DecisionForgetsApproval(gate, approval) ==
    CASE gate = "DENY" -> "REJECTED"
      [] gate = "REQUIRE_APPROVAL" -> "PENDING"
      [] gate = "ALLOW" -> "APPROVED"

Decision(gate, approval) ==
    CASE gate = "DENY" -> "REJECTED"
      [] gate = "REQUIRE_APPROVAL" -> "PENDING"
      [] gate = "ALLOW" -> IF approval THEN "PENDING" ELSE "APPROVED"

CompleteOrQueue(c, gate) ==
    /\ calls[c].stage = "verified"
    /\ calls' = [calls EXCEPT ![c].stage = Decision(gate, calls[c].approval)]
    /\ UNCHANGED <<clock, tables, creating>>

Answers == {"APPROVED", "PENDING", "REJECTED"}

\* The answer is sent; the thread serves the next request.
Respond(c) ==
    /\ calls[c].stage \in Answers
    /\ calls' = [calls EXCEPT ![c] = IdleCall]
    /\ UNCHANGED <<clock, tables, creating>>

-----------------------------------------------------------------------------
\* A request that names a row that does not exist is refused (404, or a
\* REJECTED answer) and changes nothing: ids are drawn from the tables.
Create(h) ==
    \/ \E pa \in Agents, ca \in Agents, p \in DOMAIN perms, t \in DelegTerms :
          \/ CheckRootDelegation(h, pa, ca, p, t)
          \/ \E above \in DOMAIN delegs :
                CheckChainedDelegation(h, pa, ca, p, above, t)
    \/ \E d \in Delegs : InsertDelegation(h, d)

CallStep(c) ==
    \/ VerifyNode(c)
    \/ VerifyRoot(c)
    \/ \E gate \in Gates : CompleteOrQueue(c, gate)
    \/ Respond(c)

\* A delegated request arrives at an idle thread.
Arrive(c) ==
    \E a \in Agents, d \in DOMAIN delegs, s \in Scopes, m \in Money : StartCall(c, a, d, s, m)

Next ==
    \/ Tick
    \/ \E a \in Agents, s \in PatchStatuses : PatchAgent(a, s)
    \/ \E a \in Agents : RetireAgent(a)
    \/ \E p \in Perms, a \in Agents, t \in PermTerms : CreatePermission(p, a, t)
    \/ \E p \in Perms : ExpirePermission(p) \/ RevokePermission(p)
    \/ \E h \in Creators : Create(h)
    \/ \E d \in DOMAIN delegs : RevokeDelegation(d)
    \/ \E c \in Callers : Arrive(c) \/ CallStep(c)

Spec == Init /\ [][Next]_vars

\* A request thread that was given a request runs to its answer.
FairSpec == Spec /\ \A c \in Callers : WF_vars(CallStep(c))

-----------------------------------------------------------------------------
(* Properties.                                                             *)

CallRecord ==
    [stage : {"walking", "root", "verified"} \cup Answers, at : Nat,
     agent : Agents, leaf : Delegs, scope : Scopes, money : MaybeLimit,
     current : Delegs, nodes : SUBSET Delegs, loaded : SUBSET Agents,
     seen : SUBSET Agents, approval : BOOLEAN, effective : MaybeLimit,
     revoked : SUBSET Delegs, dead : SUBSET Perms]
CallRecs == {IdleCall, RejectedCall} \cup CallRecord

\* Type invariant: the tables hold rows of their schemas, and every request
\* thread is idle or holds a well-formed request.
TypeOK ==
    /\ clock \in Nat
    /\ agentStatus \in [Agents -> AgentStatuses]
    /\ DOMAIN perms \subseteq Perms /\ perms \in [DOMAIN perms -> PermRow]
    /\ DOMAIN delegs \subseteq Delegs /\ delegs \in [DOMAIN delegs -> DelegRow]
    /\ creating \in [Creators -> DelegRow \cup {None}]
    /\ calls \in [Callers -> CallRecs]

\* A row, stored or about to be, against the grants above it.
NarrowRow(row) ==
    /\ row.perm \in DOMAIN perms
    /\ perms[row.perm].allow
    /\ row.depth <= row.maxDepth
    /\ row.parent = None =>
         /\ row.depth = 1
         /\ row.parentAgent = perms[row.perm].agent
         /\ Narrows(row, perms[row.perm])
    /\ row.parent # None =>
         LET above == delegs[row.parent]
         IN  /\ row.parent \in DOMAIN delegs
             /\ above.perm = row.perm
             /\ above.further
             /\ above.childAgent = row.parentAgent
             /\ row.depth = above.depth + 1
             /\ row.maxDepth <= above.maxDepth
             /\ Narrows(row, above)

\* Monotonicity of stored delegations (create_delegation steps 4-5): every
\* delegation is bound to the permission its chain started from, takes over
\* where the delegation above it ended, and is no wider than it in scope,
\* money, expiry, human approval, and depth.
NarrowerThanAbove == \A d \in DOMAIN delegs : NarrowRow(delegs[d])

OneOrgRow(row) ==
    /\ OrgOf[row.parentAgent] = row.org
    /\ OrgOf[row.childAgent] = row.org
    /\ OrgOf[perms[row.perm].agent] = row.org

\* "Delegations are permitted strictly within the same organization"
\* (docs/AGENT_DELEGATION.md): both agents of a delegation, and the holder of
\* the permission at its root, belong to the delegation's organization.
WithinOneOrganization == \A d \in DOMAIN delegs : OneOrgRow(delegs[d])

\* "Self-delegation and cyclic delegations are strictly prevented"
\* (docs/AGENT_DELEGATION.md): neither agent of a delegation delegates anywhere
\* above it, so that the agents a chain passes through are pairwise distinct.
NoAgentTwiceInChain ==
    \A d \in DOMAIN delegs : \A e \in Chain(d) :
        /\ delegs[e].parentAgent # delegs[d].childAgent
        /\ e # d => delegs[e].parentAgent # delegs[d].parentAgent

\* What create_delegation promises of the table, whatever is created, revoked or
\* retired between its checks and its insert: every stored delegation narrows
\* the grant above it, within one organization, along a chain without cycles.
ChainWellFormed ==
    TypeOK /\ NarrowerThanAbove /\ WithinOneOrganization /\ NoAgentTwiceInChain

\* Positive answers, and requests on their way to one.
Verified(c) == calls[c].stage \in {"verified", "APPROVED", "PENDING"}

\* "Revoking a parent delegation or root permission immediately stops all
\* downstream child agents" (docs/AGENT_DELEGATION.md): no request is approved
\* or queued when any delegation of its chain, or its permission, had been
\* revoked (or expired) before the request began, whatever is created,
\* revoked or retired while the chain is being walked.
RevocationHonoured ==
    \A c \in Callers : Verified(c) =>
        /\ Chain(calls[c].leaf) \cap calls[c].revoked = {}
        /\ delegs[calls[c].leaf].perm \notin calls[c].dead

\* Non-escalation: an amount that verify_delegation_chain lets through is
\* covered by every limit on the chain and on the root permission.
MoneyWithinWholeChain ==
    \A c \in Callers : Verified(c) /\ calls[c].money # None =>
        /\ \A d \in Chain(calls[c].leaf) :
              delegs[d].limit # None => Covers(delegs[d].limit, calls[c].money)
        /\ LET root == perms[delegs[calls[c].leaf].perm]
           IN  root.limit # None => Covers(root.limit, calls[c].money)

\* "A delegated agent can never bypass human oversight"
\* (docs/AGENT_DELEGATION.md): nothing is approved outright when the
\* permission or any delegation of the chain requires approval.
ApprovalNeverBypassed ==
    \A c \in Callers : calls[c].stage = "APPROVED" =>
        /\ \A d \in Chain(calls[c].leaf) : ~delegs[d].approval
        /\ ~perms[delegs[calls[c].leaf].perm].approval

\* The loop of verify_delegation_chain ends: every delegated authorization is
\* answered, although the tables change while it walks.
EveryCallAnswered ==
    \A c \in Callers : calls[c].stage = "walking" ~> calls[c].stage \in Answers

\* docs/AGENT_DELEGATION.md on POST /agent-delegations/{id}/revoke: all child
\* delegations descending from the revoked delegation are revoked in the same
\* transaction.
CascadeReachesDescendants ==
    [][\A top \in DOMAIN delegs : RevokeDelegation(top) =>
          \A d \in DOMAIN delegs :
             top \in Chain(d) => delegs'[d].status = "REVOKED"]_vars
=============================================================================
