-------------------------- MODULE DelegationProofs --------------------------
(***************************************************************************)
(* For every set of agents, rows, request threads and terms: stored        *)
(* delegations narrow what is above them and never form a cycle, and a     *)
(* delegated request that verify_delegation_chain lets through honours the *)
(* revocations, limits and approval requirements of its whole chain.       *)
(*                                                                         *)
(* The inductive invariant IInv adds to these what the two multi-step      *)
(* operations carry between their steps: the row a creator is about to     *)
(* insert already satisfies what stored rows satisfy, and the nodes a      *)
(* caller has walked are the chain of its leaf up to where it stands.      *)
(***************************************************************************)
EXTENDS Delegation, TLAPS

\* A row that closes no cycle when it is chained below its parent.
AcyclicRow(row) ==
    /\ row.parentAgent # row.childAgent
    /\ row.parent # None =>
         \A e \in Chain(row.parent) :
            delegs[e].parentAgent \notin {row.childAgent, row.parentAgent}

PendingOK ==
    \A h \in Creators : creating[h] # None =>
        NarrowRow(creating[h]) /\ OneOrgRow(creating[h]) /\ AcyclicRow(creating[h])

Working == {"walking", "root", "verified", "APPROVED", "PENDING"}

\* Where the walk stands: what it has passed is the chain of the leaf, from the
\* leaf up to the current node.
WalkOK(call) ==
    /\ call.leaf \in DOMAIN delegs /\ call.current \in DOMAIN delegs
    /\ call.nodes \subseteq DOMAIN delegs
    /\ delegs[call.current].perm = delegs[call.leaf].perm
    /\ call.nodes = {} => call.stage = "walking" /\ call.current = call.leaf
    /\ call.nodes # {} => call.leaf \in call.nodes
    /\ \A e \in call.nodes : delegs[e].parent # None =>
          \/ delegs[e].parent \in call.nodes
          \/ call.stage = "walking" /\ delegs[e].parent = call.current

\* What the walk has accumulated.
LimitOK(call) ==
    /\ \A e \in call.nodes \cup {call.current} :
          NoWider(delegs[call.leaf].limit, delegs[e].limit)
    /\ call.effective =
          IF call.nodes = {} THEN None ELSE delegs[call.leaf].limit
    /\ call.stage = "root" => delegs[call.current].parent = None
    /\ call.stage \in {"verified", "APPROVED", "PENDING"} =>
          /\ Covers(delegs[call.leaf].limit, call.money)
          /\ NoWider(delegs[call.leaf].limit, perms[delegs[call.leaf].perm].limit)

ApprovalOK(call) ==
    /\ \A e \in call.nodes : delegs[e].approval => call.approval
    /\ call.stage \in {"verified", "APPROVED", "PENDING"} =>
          (perms[delegs[call.leaf].perm].approval => call.approval)
    /\ call.stage = "APPROVED" => ~call.approval

\* What was revoked when the request began is still revoked, and not passed.
RevokedOK(call) ==
    /\ call.revoked \subseteq DOMAIN delegs /\ call.dead \subseteq DOMAIN perms
    /\ \A e \in call.revoked : delegs[e].status = "REVOKED" /\ e \notin call.nodes
    /\ \A p \in call.dead : perms[p].status # "ACTIVE"
    /\ call.stage \in {"verified", "APPROVED", "PENDING"} =>
          delegs[call.leaf].perm \notin call.dead

CallOK(call) == WalkOK(call) /\ LimitOK(call) /\ ApprovalOK(call) /\ RevokedOK(call)

CallsOK == \A c \in Callers : calls[c].stage \in Working => CallOK(calls[c])

IInv ==
    /\ TypeOK
    /\ NarrowerThanAbove /\ WithinOneOrganization /\ NoAgentTwiceInChain
    /\ PendingOK
    /\ CallsOK

-----------------------------------------------------------------------------
(* No step changes the terms of a stored grant, deletes a row, or makes a  *)
(* row ACTIVE again.                                                       *)

PermsStable ==
    \A p \in DOMAIN perms :
        /\ p \in DOMAIN perms'
        /\ perms'[p].agent = perms[p].agent /\ perms'[p].scope = perms[p].scope
        /\ perms'[p].limit = perms[p].limit /\ perms'[p].approval = perms[p].approval
        /\ perms'[p].allow = perms[p].allow /\ perms'[p].exp = perms[p].exp
        /\ perms[p].status # "ACTIVE" => perms'[p].status # "ACTIVE"

DelegsStable ==
    \A d \in DOMAIN delegs :
        /\ d \in DOMAIN delegs'
        /\ delegs'[d].parentAgent = delegs[d].parentAgent
        /\ delegs'[d].childAgent = delegs[d].childAgent
        /\ delegs'[d].perm = delegs[d].perm /\ delegs'[d].parent = delegs[d].parent
        /\ delegs'[d].org = delegs[d].org /\ delegs'[d].scope = delegs[d].scope
        /\ delegs'[d].limit = delegs[d].limit
        /\ delegs'[d].approval = delegs[d].approval
        /\ delegs'[d].further = delegs[d].further
        /\ delegs'[d].depth = delegs[d].depth
        /\ delegs'[d].maxDepth = delegs[d].maxDepth /\ delegs'[d].exp = delegs[d].exp
        /\ delegs[d].status = "REVOKED" => delegs'[d].status = "REVOKED"

\* Every action of every service leaves the terms of stored grants alone.
LEMMA GrantsStable ==
    ASSUME TypeOK, [Next]_vars
    PROVE  PermsStable /\ DelegsStable
<1> USE DEF TypeOK, PermsStable, DelegsStable
<1>1. CASE Tick
  BY <1>1 DEF Tick, tables
<1>2. ASSUME NEW a \in Agents, NEW s \in PatchStatuses, PatchAgent(a, s)
      PROVE  PermsStable /\ DelegsStable
  BY <1>2 DEF PatchAgent
<1>3. ASSUME NEW a \in Agents, RetireAgent(a)
      PROVE  PermsStable /\ DelegsStable
  <2>1. \A d \in DOMAIN delegs : delegs[d] \in DelegRow
    OBVIOUS
  <2> QED  BY <1>3, <2>1 DEF RetireAgent, DelegRow
<1>4. ASSUME NEW p \in Perms, NEW a \in Agents, NEW t \in PermTerms,
             CreatePermission(p, a, t)
      PROVE  PermsStable /\ DelegsStable
  BY <1>4 DEF CreatePermission, Put
<1>5. ASSUME NEW p \in Perms, ExpirePermission(p) \/ RevokePermission(p)
      PROVE  PermsStable /\ DelegsStable
  <2>1. \A q \in DOMAIN perms : perms[q] \in PermRow
    OBVIOUS
  <2> QED  BY <1>5, <2>1 DEF ExpirePermission, RevokePermission, PermRow
<1>6. ASSUME NEW h \in Creators, Create(h)
      PROVE  PermsStable /\ DelegsStable
  <2>1. CASE UNCHANGED tables
    BY <2>1 DEF tables
  <2>2. ASSUME NEW d \in Delegs, InsertDelegation(h, d)
        PROVE  PermsStable /\ DelegsStable
    <3>1. /\ d \notin DOMAIN delegs /\ perms' = perms
          /\ delegs' = Put(delegs, d, creating[h])
      BY <2>2 DEF InsertDelegation
    <3>2. \A e \in DOMAIN delegs : e \in DOMAIN delegs' /\ delegs'[e] = delegs[e]
      BY <3>1 DEF Put
    <3> QED  BY <3>1, <3>2
  <2> QED
    BY <1>6, <2>1, <2>2 DEF Create, CheckRootDelegation, CheckChainedDelegation
<1>7. ASSUME NEW top \in DOMAIN delegs, RevokeDelegation(top)
      PROVE  PermsStable /\ DelegsStable
  <2>1. \A d \in DOMAIN delegs : delegs[d] \in DelegRow
    OBVIOUS
  <2> QED  BY <1>7, <2>1 DEF RevokeDelegation, DelegRow
<1>8. ASSUME UNCHANGED <<perms, delegs>>
      PROVE  PermsStable /\ DelegsStable
  BY <1>8
<1>9. ASSUME NEW c \in Callers, CallStep(c)
      PROVE  UNCHANGED <<perms, delegs>>
  BY <1>9 DEF CallStep, VerifyNode, AcceptNode, RejectNode, VerifyRoot,
              CompleteOrQueue, Respond, tables
<1>10. ASSUME NEW c \in Callers, NEW a \in Agents, NEW d \in DOMAIN delegs,
              NEW s \in Scopes, NEW m \in Money, StartCall(c, a, d, s, m)
       PROVE  UNCHANGED <<perms, delegs>>
  BY <1>10 DEF StartCall, tables
<1>11. CASE UNCHANGED vars
  BY <1>8, <1>11 DEF vars
<1> QED
  BY <1>1, <1>2, <1>3, <1>4, <1>5, <1>6, <1>7, <1>8, <1>9, <1>10, <1>11 DEF Next, Arrive

-----------------------------------------------------------------------------
(* Chains.                                                                 *)

\* A chain starts with its own delegation and goes up with every member.
LEMMA ChainClosed ==
    ASSUME NarrowerThanAbove, NEW d \in DOMAIN delegs
    PROVE  /\ d \in Chain(d)
           /\ UpwardClosed(Chain(d))
           /\ Chain(d) \subseteq DOMAIN delegs
<1>1. d \in Chain(d) /\ Chain(d) \subseteq DOMAIN delegs
  BY DEF Chain
<1>2. ASSUME NEW e \in Chain(d), delegs[e].parent # None
      PROVE  delegs[e].parent \in Chain(d)
  <2>1. e \in DOMAIN delegs
    BY <1>1
  <2>2. delegs[e].parent \in DOMAIN delegs
    BY <1>2, <2>1 DEF NarrowerThanAbove, NarrowRow
  <2>3. ASSUME NEW S \in SUBSET DOMAIN delegs, d \in S, UpwardClosed(S)
        PROVE  delegs[e].parent \in S
    BY <1>2, <2>3 DEF Chain, UpwardClosed
  <2> QED  BY <2>2, <2>3 DEF Chain
<1> QED  BY <1>1, <1>2 DEF UpwardClosed

\* An upward closed set that holds a delegation holds its chain.
LEMMA ChainLeast ==
    ASSUME NEW d, NEW S \in SUBSET DOMAIN delegs, d \in S, UpwardClosed(S)
    PROVE  Chain(d) \subseteq S
BY DEF Chain

\* New rows are chained below old ones: the chain of a stored delegation never
\* changes.
LEMMA ChainStable ==
    ASSUME NarrowerThanAbove, DelegsStable, NEW d \in DOMAIN delegs
    PROVE  Chain(d)' = Chain(d)
<1> DEFINE Closed2(S) ==
       \A e \in S : delegs'[e].parent # None => delegs'[e].parent \in S
<1>0. \A S : UpwardClosed(S)' <=> Closed2(S)
  BY DEF UpwardClosed
<1>1. Chain(d)' = {e \in DOMAIN delegs' :
        \A S \in SUBSET DOMAIN delegs' : d \in S /\ Closed2(S) => e \in S}
  BY DEF Chain, UpwardClosed
<1>2. \A e \in DOMAIN delegs : e \in DOMAIN delegs' /\ delegs'[e].parent = delegs[e].parent
  BY DEF DelegsStable
<1>3. \A e \in DOMAIN delegs : delegs[e].parent # None => delegs[e].parent \in DOMAIN delegs
  BY DEF NarrowerThanAbove, NarrowRow
<1>4. ASSUME NEW e \in Chain(d)'
      PROVE  e \in Chain(d)
  <2>1. \A S \in SUBSET DOMAIN delegs' : d \in S /\ Closed2(S) => e \in S
    BY <1>1, <1>4
  <2>2. e \in DOMAIN delegs
    <3>1. DOMAIN delegs \in SUBSET DOMAIN delegs' /\ Closed2(DOMAIN delegs)
      BY <1>2, <1>3
    <3> QED  BY <2>1, <3>1
  <2>3. ASSUME NEW S \in SUBSET DOMAIN delegs, d \in S, UpwardClosed(S)
        PROVE  e \in S
    <3>1. S \in SUBSET DOMAIN delegs' /\ Closed2(S)
      BY <1>2, <2>3 DEF UpwardClosed
    <3> QED  BY <2>1, <2>3, <3>1
  <2> QED  BY <2>2, <2>3 DEF Chain
<1>5. ASSUME NEW e \in Chain(d)
      PROVE  e \in Chain(d)'
  <2>1. e \in DOMAIN delegs'
    BY <1>2, <1>5 DEF Chain
  <2>2. ASSUME NEW S \in SUBSET DOMAIN delegs', d \in S, Closed2(S)
        PROVE  e \in S
    <3>1. UpwardClosed(S \cap DOMAIN delegs)
      BY <1>2, <1>3, <2>2 DEF UpwardClosed
    <3>2. S \cap DOMAIN delegs \in SUBSET DOMAIN delegs /\ d \in S \cap DOMAIN delegs
      BY <2>2
    <3> QED  BY <1>5, <3>1, <3>2 DEF Chain
  <2> QED  BY <1>1, <2>1, <2>2
<1> QED  BY <1>4, <1>5

-----------------------------------------------------------------------------
(* What a checked or stored row satisfies survives every step.             *)

\* A row stays narrow and in one organization, as what is above it is stable.
LEMMA RowStable ==
    ASSUME PermsStable, DelegsStable, NarrowerThanAbove,
           NEW row, NarrowRow(row), OneOrgRow(row)
    PROVE  NarrowRow(row)' /\ OneOrgRow(row)'
<1>1. row.perm \in DOMAIN perms
  BY DEF NarrowRow
<1>2. /\ row.perm \in DOMAIN perms'
      /\ perms'[row.perm].agent = perms[row.perm].agent
      /\ perms'[row.perm].scope = perms[row.perm].scope
      /\ perms'[row.perm].limit = perms[row.perm].limit
      /\ perms'[row.perm].approval = perms[row.perm].approval
      /\ perms'[row.perm].allow = perms[row.perm].allow
      /\ perms'[row.perm].exp = perms[row.perm].exp
  BY <1>1 DEF PermsStable
<1>3. OneOrgRow(row)'
  BY <1>2 DEF OneOrgRow
<1>4. CASE row.parent = None
  BY <1>2, <1>3, <1>4 DEF NarrowRow, Narrows
<1>5. CASE row.parent # None
  <2>1. row.parent \in DOMAIN delegs
    BY <1>5 DEF NarrowRow
  <2>2. /\ row.parent \in DOMAIN delegs'
        /\ delegs'[row.parent].childAgent = delegs[row.parent].childAgent
        /\ delegs'[row.parent].perm = delegs[row.parent].perm
        /\ delegs'[row.parent].scope = delegs[row.parent].scope
        /\ delegs'[row.parent].limit = delegs[row.parent].limit
        /\ delegs'[row.parent].approval = delegs[row.parent].approval
        /\ delegs'[row.parent].further = delegs[row.parent].further
        /\ delegs'[row.parent].depth = delegs[row.parent].depth
        /\ delegs'[row.parent].maxDepth = delegs[row.parent].maxDepth
        /\ delegs'[row.parent].exp = delegs[row.parent].exp
    BY <2>1 DEF DelegsStable
  <2> QED  BY <1>2, <1>3, <1>5, <2>2 DEF NarrowRow, Narrows
<1> QED  BY <1>3, <1>4, <1>5

\* A row about to be inserted stays acyclic while others are inserted.
LEMMA AcyclicStable ==
    ASSUME DelegsStable, NarrowerThanAbove,
           NEW row, NarrowRow(row), AcyclicRow(row)
    PROVE  AcyclicRow(row)'
<1>1. CASE row.parent = None
  BY <1>1 DEF AcyclicRow
<1>2. CASE row.parent # None
  <2>1. row.parent \in DOMAIN delegs
    BY <1>2 DEF NarrowRow
  <2>2. Chain(row.parent)' = Chain(row.parent)
    BY <2>1, ChainStable
  <2>3. \A e \in Chain(row.parent) : delegs'[e].parentAgent = delegs[e].parentAgent
    BY DEF Chain, DelegsStable
  <2>4. \A e \in Chain(row.parent)' :
           delegs'[e].parentAgent \notin {row.childAgent, row.parentAgent}
    BY <1>2, <2>2, <2>3 DEF AcyclicRow
  <2> QED  BY <2>4 DEF AcyclicRow
<1> QED  BY <1>1, <1>2

\* A half-walked chain stays consistent under the steps of others.
LEMMA CallStable ==
    ASSUME PermsStable, DelegsStable, NarrowerThanAbove, NEW call, CallOK(call)
    PROVE  CallOK(call)'
<1>1. WalkOK(call)'
  BY DEF CallOK, WalkOK, DelegsStable
<1>2. delegs[call.leaf].perm \in DOMAIN perms
  BY DEF CallOK, WalkOK, NarrowerThanAbove, NarrowRow
<1>3. LimitOK(call)'
  BY <1>2 DEF CallOK, WalkOK, LimitOK, DelegsStable, PermsStable
<1>4. ApprovalOK(call)'
  BY <1>2 DEF CallOK, WalkOK, ApprovalOK, DelegsStable, PermsStable
<1>5. RevokedOK(call)'
  BY <1>2 DEF CallOK, WalkOK, RevokedOK, DelegsStable, PermsStable
<1> QED  BY <1>1, <1>3, <1>4, <1>5 DEF CallOK

-----------------------------------------------------------------------------
(* Type correctness.                                                       *)

\* The invariant holds with empty tables.
LEMMA InitOK == Init => IInv
<1> SUFFICES ASSUME Init PROVE IInv
  OBVIOUS
<1>1. TypeOK
  BY OrgAssumption DEF Init, TypeOK, CallRecs, IdleCall, AgentStatuses
<1>2. NarrowerThanAbove /\ WithinOneOrganization /\ NoAgentTwiceInChain
  BY DEF Init, NarrowerThanAbove, WithinOneOrganization, NoAgentTwiceInChain
<1>3. PendingOK /\ CallsOK
  BY DEF Init, PendingOK, CallsOK, Working, IdleCall
<1> QED  BY <1>1, <1>2, <1>3 DEF IInv

\* The row that create_delegation builds fits the table.
LEMMA NewRowType ==
    ASSUME NEW pa \in Agents, NEW ca \in Agents, NEW p \in Perms,
           NEW parent \in Delegs \cup {None}, NEW t \in DelegTerms,
           NEW depth \in Nat, NEW maxDepth \in 1 .. DepthLimit,
           OrgOf[pa] # None
    PROVE  NewRow(pa, ca, p, parent, t, depth, maxDepth) \in DelegRow
<1>1. t \in DelegTermSet
  BY DelegTermsAssumption
<1>2. OrgOf[pa] \in Orgs
  BY OrgAssumption
<1> QED  BY <1>1, <1>2 DEF NewRow, DelegRow, DelegTermSet, DelegStatuses

\* A full call record is what a request in progress holds.
LEMMA WorkingCall ==
    ASSUME TypeOK, NEW c \in Callers, calls[c].stage \in Working
    PROVE  calls[c] \in CallRecord
<1>1. calls[c] \in CallRecs
  BY DEF TypeOK
<1>2. calls[c] # IdleCall /\ calls[c] # RejectedCall
  BY DEF Working, IdleCall, RejectedCall
<1> QED  BY <1>1, <1>2 DEF CallRecs

\* Every step keeps the tables and the request threads well-typed.
LEMMA TypeStep ==
    ASSUME IInv, [Next]_vars
    PROVE  TypeOK'
<1> USE DEF IInv, TypeOK
<1>1. CASE Tick
  BY <1>1 DEF Tick, tables
<1>2. ASSUME NEW a \in Agents, NEW s \in PatchStatuses, PatchAgent(a, s)
      PROVE  TypeOK'
  BY <1>2, PatchAssumption DEF PatchAgent
<1>3. ASSUME NEW a \in Agents, RetireAgent(a)
      PROVE  TypeOK'
  <2>1. \A d \in DOMAIN delegs :
           [delegs[d] EXCEPT !.status = "REVOKED"] \in DelegRow
    BY DEF DelegRow, DelegStatuses
  <2>2. DOMAIN delegs' = DOMAIN delegs /\ delegs' \in [DOMAIN delegs -> DelegRow]
    BY <1>3, <2>1 DEF RetireAgent
  <2> QED  BY <1>3, <2>2 DEF RetireAgent, AgentStatuses
<1>4. ASSUME NEW p \in Perms, NEW a \in Agents, NEW t \in PermTerms,
             CreatePermission(p, a, t)
      PROVE  TypeOK'
  <2> DEFINE row == [agent |-> a, scope |-> t.scope, limit |-> t.limit,
                     approval |-> t.approval, allow |-> t.allow,
                     from |-> t.from, exp |-> t.exp, status |-> "ACTIVE"]
  <2>1. row \in PermRow
    BY PermTermsAssumption DEF PermTermSet, PermRow, PermStatuses
  <2> HIDE DEF row
  <2>2. perms' = Put(perms, p, row)
    BY <1>4 DEF CreatePermission, row
  <2>3. DOMAIN perms' \subseteq Perms /\ perms' \in [DOMAIN perms' -> PermRow]
    BY <2>1, <2>2 DEF Put
  <2> QED  BY <1>4, <2>3 DEF CreatePermission
<1>5. ASSUME NEW p \in Perms, ExpirePermission(p) \/ RevokePermission(p)
      PROVE  TypeOK'
  <2>1. ASSUME NEW s \in PermStatuses, p \in DOMAIN perms
        PROVE  [perms[p] EXCEPT !.status = s] \in PermRow
    BY <2>1 DEF PermRow
  <2>2. DOMAIN perms' = DOMAIN perms /\ perms' \in [DOMAIN perms -> PermRow]
    BY <1>5, <2>1 DEF ExpirePermission, RevokePermission, PermStatuses
  <2> QED  BY <1>5, <2>2 DEF ExpirePermission, RevokePermission
<1>6. ASSUME NEW h \in Creators, Create(h)
      PROVE  TypeOK'
  <2>1. ASSUME NEW pa \in Agents, NEW ca \in Agents, NEW p \in DOMAIN perms,
               NEW t \in DelegTerms, CheckRootDelegation(h, pa, ca, p, t)
        PROVE  TypeOK'
    <3>1. t.maxDepth \in 1 .. DepthLimit
      BY DelegTermsAssumption DEF DelegTermSet
    <3>2. NewRow(pa, ca, p, None, t, 1, t.maxDepth) \in DelegRow
      BY <2>1, <3>1, NewRowType DEF CheckRootDelegation, AgentsPass
    <3> QED  BY <2>1, <3>2 DEF CheckRootDelegation, tables
  <2>2. ASSUME NEW pa \in Agents, NEW ca \in Agents, NEW p \in DOMAIN perms,
               NEW t \in DelegTerms, NEW above \in DOMAIN delegs,
               CheckChainedDelegation(h, pa, ca, p, above, t)
        PROVE  TypeOK'
    <3>1. /\ t.maxDepth \in 1 .. DepthLimit
          /\ delegs[above].maxDepth \in 1 .. DepthLimit
          /\ delegs[above].depth + 1 \in Nat
      BY DelegTermsAssumption DEF DelegTermSet, DelegRow
    <3>2. Lesser(delegs[above].maxDepth, t.maxDepth) \in 1 .. DepthLimit
      BY <3>1 DEF Lesser
    <3>3. NewRow(pa, ca, p, above, t, delegs[above].depth + 1,
                 Lesser(delegs[above].maxDepth, t.maxDepth)) \in DelegRow
      BY <2>2, <3>1, <3>2, NewRowType DEF CheckChainedDelegation, AgentsPass
    <3> QED  BY <2>2, <3>3 DEF CheckChainedDelegation, tables
  <2>3. ASSUME NEW d \in Delegs, InsertDelegation(h, d)
        PROVE  TypeOK'
    <3>1. delegs' = Put(delegs, d, creating[h]) /\ creating[h] \in DelegRow
      BY <2>3 DEF InsertDelegation
    <3>2. DOMAIN delegs' \subseteq Delegs /\ delegs' \in [DOMAIN delegs' -> DelegRow]
      BY <3>1 DEF Put
    <3> QED  BY <2>3, <3>2 DEF InsertDelegation
  <2> QED  BY <1>6, <2>1, <2>2, <2>3 DEF Create
<1>7. ASSUME NEW top \in DOMAIN delegs, RevokeDelegation(top)
      PROVE  TypeOK'
  <2>1. \A d \in DOMAIN delegs :
           [delegs[d] EXCEPT !.status = "REVOKED"] \in DelegRow
    BY DEF DelegRow, DelegStatuses
  <2>2. DOMAIN delegs' = DOMAIN delegs /\ delegs' \in [DOMAIN delegs -> DelegRow]
    BY <1>7, <2>1 DEF RevokeDelegation
  <2> QED  BY <1>7, <2>2 DEF RevokeDelegation
<1>8. ASSUME NEW c \in Callers, NEW a \in Agents, NEW d \in DOMAIN delegs,
             NEW s \in Scopes, NEW m \in Money, StartCall(c, a, d, s, m)
      PROVE  TypeOK'
  <2>1. calls'[c] \in CallRecs
    BY <1>8, MoneyAssumption
    DEF StartCall, CallRecs, CallRecord, MaybeLimit, Answers
  <2> QED  BY <1>8, <2>1 DEF StartCall, tables
<1>9. ASSUME NEW c \in Callers, CallStep(c)
      PROVE  TypeOK'
  <2>1. ASSUME AcceptNode(c)
        PROVE  calls'[c] \in CallRecs
    <3>1. calls[c].stage = "walking"
      BY <2>1 DEF AcceptNode
    <3>2. calls[c].current \in DOMAIN delegs
      BY <3>1 DEF CallsOK, Working, CallOK, WalkOK
    <3>3. delegs[calls[c].current] \in DelegRow
      BY <3>2
    <3>4. Tighter(calls[c].effective, delegs[calls[c].current].limit) \in MaybeLimit
      BY <3>1, <3>3, WorkingCall DEF Tighter, DelegRow, Working, CallRecord
    <3>5. /\ calls[c] \in CallRecord
          /\ delegs[calls[c].current].parent \in Delegs \cup {None}
          /\ {delegs[calls[c].current].childAgent, delegs[calls[c].current].parentAgent}
                \subseteq Agents
      BY <3>1, <3>3, WorkingCall DEF Working, DelegRow
    <3>6. (calls[c].approval \/ delegs[calls[c].current].approval) \in BOOLEAN
      OBVIOUS
    <3>7. calls'[c] \in CallRecord
      BY <2>1, <3>4, <3>5, <3>6 DEF AcceptNode, CallRecord
    <3> QED  BY <3>7 DEF CallRecs
  <2>2. ASSUME RejectNode(c)
        PROVE  calls'[c] \in CallRecs
    BY <2>2 DEF RejectNode, CallRecs
  <2>3. ASSUME VerifyRoot(c)
        PROVE  calls'[c] \in CallRecs
    <3>1. calls[c].stage = "root"
      BY <2>3 DEF VerifyRoot
    <3>2. calls[c].current \in DOMAIN delegs
      BY <3>1 DEF CallsOK, Working, CallOK, WalkOK
    <3>3. perms[delegs[calls[c].current].perm] \in PermRow
      BY <3>2 DEF NarrowerThanAbove, NarrowRow
    <3>4. Tighter(calls[c].effective, perms[delegs[calls[c].current].perm].limit)
             \in MaybeLimit
      BY <3>1, <3>3, WorkingCall DEF Tighter, PermRow, Working, CallRecord
    <3>5. calls[c] \in CallRecord
      BY <3>1, WorkingCall DEF Working
    <3>6. (calls[c].approval \/ perms[delegs[calls[c].current].perm].approval) \in BOOLEAN
      OBVIOUS
    <3>7. calls'[c] \in CallRecord \cup {RejectedCall}
      BY <2>3, <3>4, <3>5, <3>6 DEF VerifyRoot, CallRecord
    <3> QED  BY <3>7 DEF CallRecs
  <2>4. ASSUME NEW gate \in Gates, CompleteOrQueue(c, gate)
        PROVE  calls'[c] \in CallRecs
    <3>1. Decision(gate, calls[c].approval) \in Answers
      BY DEF Gates, Decision, Answers
    <3>2. calls[c].stage \in Working
      BY <2>4 DEF CompleteOrQueue, Working
    <3> QED  BY <2>4, <3>1, <3>2, WorkingCall DEF CompleteOrQueue, CallRecs, CallRecord
  <2>5. ASSUME Respond(c)
        PROVE  calls'[c] \in CallRecs
    BY <2>5 DEF Respond, CallRecs
  <2>6. /\ UNCHANGED <<clock, tables, creating>>
        /\ calls' = [calls EXCEPT ![c] = calls'[c]]
    BY <1>9 DEF CallStep, VerifyNode, AcceptNode, RejectNode, VerifyRoot,
                CompleteOrQueue, Respond
  <2>7. calls'[c] \in CallRecs
    BY <1>9, <2>1, <2>2, <2>3, <2>4, <2>5 DEF CallStep, VerifyNode
  <2> QED  BY <2>6, <2>7 DEF tables
<1>10. CASE UNCHANGED vars
  BY <1>10 DEF vars
<1> QED
  BY <1>1, <1>2, <1>3, <1>4, <1>5, <1>6, <1>7, <1>8, <1>9, <1>10 DEF Next, Arrive

-----------------------------------------------------------------------------
(* Stored and checked rows.                                                *)

\* The only rows that appear are the ones some creator had checked.
LEMMA NewRowsWereChecked ==
    ASSUME TypeOK, [Next]_vars, NEW d \in DOMAIN delegs', d \notin DOMAIN delegs
    PROVE  \E h \in Creators : creating[h] # None /\ delegs'[d] = creating[h]
<1>1. ASSUME UNCHANGED delegs PROVE FALSE
  BY <1>1
<1>2. ASSUME NEW a \in Agents, RetireAgent(a) PROVE FALSE
  BY <1>2 DEF RetireAgent
<1>3. ASSUME NEW top \in DOMAIN delegs, RevokeDelegation(top) PROVE FALSE
  BY <1>3 DEF RevokeDelegation
<1>4. ASSUME NEW h \in Creators, Create(h)
      PROVE  \E k \in Creators : creating[k] # None /\ delegs'[d] = creating[k]
  <2>1. CASE UNCHANGED tables
    BY <1>1, <2>1 DEF tables
  <2>2. ASSUME NEW e \in Delegs, InsertDelegation(h, e)
        PROVE  creating[h] # None /\ delegs'[d] = creating[h]
    BY <2>2 DEF InsertDelegation, Put
  <2> QED
    BY <1>4, <2>1, <2>2 DEF Create, CheckRootDelegation, CheckChainedDelegation
<1>5. ASSUME NEW c \in Callers, CallStep(c) PROVE UNCHANGED delegs
  BY <1>5 DEF CallStep, VerifyNode, AcceptNode, RejectNode, VerifyRoot,
              CompleteOrQueue, Respond, tables
<1>6. ASSUME NEW p \in Perms, ExpirePermission(p) \/ RevokePermission(p)
      PROVE  UNCHANGED delegs
  BY <1>6 DEF ExpirePermission, RevokePermission
<1> QED
  BY <1>1, <1>2, <1>3, <1>4, <1>5, <1>6
  DEF Next, Arrive, vars, tables, Tick, PatchAgent, CreatePermission, StartCall

\* Every step keeps stored rows narrow and in one organization.
LEMMA RowsStep ==
    ASSUME IInv, [Next]_vars
    PROVE  NarrowerThanAbove' /\ WithinOneOrganization'
<1> USE DEF IInv
<1>1. PermsStable /\ DelegsStable
  BY GrantsStable
<1>2. ASSUME NEW d \in DOMAIN delegs', d \in DOMAIN delegs
      PROVE  NarrowRow(delegs[d])' /\ OneOrgRow(delegs[d])'
  <2>1. NarrowRow(delegs[d]) /\ OneOrgRow(delegs[d])
    BY <1>2 DEF NarrowerThanAbove, WithinOneOrganization
  <2> DEFINE row == delegs[d]
  <2>2. PICK old : old = row
    OBVIOUS
  <2>3. NarrowRow(old)' /\ OneOrgRow(old)'
    BY <1>1, <2>1, <2>2, RowStable
  <2>4. /\ delegs'[d].parentAgent = old.parentAgent
        /\ delegs'[d].childAgent = old.childAgent
        /\ delegs'[d].perm = old.perm /\ delegs'[d].parent = old.parent
        /\ delegs'[d].org = old.org /\ delegs'[d].scope = old.scope
        /\ delegs'[d].limit = old.limit /\ delegs'[d].approval = old.approval
        /\ delegs'[d].depth = old.depth /\ delegs'[d].maxDepth = old.maxDepth
        /\ delegs'[d].exp = old.exp
    BY <1>1, <1>2, <2>2 DEF DelegsStable
  <2> HIDE DEF row
  <2>5. OneOrgRow(delegs[d])'
    BY <2>3, <2>4 DEF OneOrgRow
  <2>6. NarrowRow(delegs[d])'
    BY <2>3, <2>4 DEF NarrowRow, Narrows
  <2> QED  BY <2>5, <2>6
<1>3. ASSUME NEW d \in DOMAIN delegs', d \notin DOMAIN delegs
      PROVE  NarrowRow(delegs[d])' /\ OneOrgRow(delegs[d])'
  <2>1. PICK h \in Creators : creating[h] # None /\ delegs'[d] = creating[h]
    BY <1>3, NewRowsWereChecked
  <2>2. PICK row : row = creating[h]
    OBVIOUS
  <2>3. NarrowRow(row) /\ OneOrgRow(row)
    BY <2>1, <2>2 DEF PendingOK
  <2> QED  BY <1>1, <2>1, <2>2, <2>3, RowStable
<1> QED  BY <1>2, <1>3 DEF NarrowerThanAbove, WithinOneOrganization

\* Every step keeps chains free of repeated agents.
LEMMA AcyclicStep ==
    ASSUME IInv, [Next]_vars
    PROVE  NoAgentTwiceInChain'
<1> USE DEF IInv
<1>1. DelegsStable /\ NarrowerThanAbove
  BY GrantsStable
<1>2. ASSUME NEW d \in DOMAIN delegs', NEW e \in Chain(d)', d \in DOMAIN delegs
      PROVE  /\ delegs'[e].parentAgent # delegs'[d].childAgent
             /\ e # d => delegs'[e].parentAgent # delegs'[d].parentAgent
  <2>1. e \in Chain(d) /\ e \in DOMAIN delegs
    BY <1>1, <1>2, ChainStable DEF Chain
  <2> QED  BY <1>1, <1>2, <2>1 DEF NoAgentTwiceInChain, DelegsStable
<1>3. ASSUME NEW d \in DOMAIN delegs', NEW e \in Chain(d)', d \notin DOMAIN delegs
      PROVE  /\ delegs'[e].parentAgent # delegs'[d].childAgent
             /\ e # d => delegs'[e].parentAgent # delegs'[d].parentAgent
  <2>1. PICK h \in Creators : creating[h] # None /\ delegs'[d] = creating[h]
    BY <1>3, NewRowsWereChecked
  <2>2. PICK row : row = creating[h]
    OBVIOUS
  <2>3. NarrowRow(row) /\ AcyclicRow(row) /\ delegs'[d] = row
    BY <2>1, <2>2 DEF PendingOK
  <2> DEFINE S == {d} \cup (IF row.parent = None THEN {} ELSE Chain(row.parent))
  <2>4. row.parent # None =>
           /\ row.parent \in Chain(row.parent)
           /\ UpwardClosed(Chain(row.parent))
           /\ Chain(row.parent) \subseteq DOMAIN delegs
    BY <1>1, <2>3, ChainClosed DEF NarrowRow
  <2>5. S \in SUBSET DOMAIN delegs'
    BY <1>1, <2>4 DEF DelegsStable
  <2>6. \A f \in S : delegs'[f].parent # None => delegs'[f].parent \in S
    BY <1>1, <2>3, <2>4 DEF DelegsStable, UpwardClosed
  <2>7. e \in S
    BY <1>3, <2>5, <2>6 DEF Chain, UpwardClosed
  <2>8. CASE e = d
    BY <2>3, <2>8 DEF AcyclicRow
  <2>9. CASE row.parent # None /\ e \in Chain(row.parent)
    <3>1. delegs'[e].parentAgent = delegs[e].parentAgent
      BY <1>1, <2>4, <2>9 DEF DelegsStable
    <3> QED  BY <2>3, <2>9, <3>1 DEF AcyclicRow
  <2> QED  BY <2>7, <2>8, <2>9
<1> QED  BY <1>2, <1>3 DEF NoAgentTwiceInChain

\* What create_delegation's checks establish about the row they build.
LEMMA CheckedRow ==
    ASSUME IInv, NEW pa \in Agents, NEW ca \in Agents, NEW p \in DOMAIN perms,
           NEW t \in DelegTerms, AgentsPass(pa, ca)
    PROVE  /\ PermissionPasses(p, pa, None) /\ Narrows(t, perms[p]) =>
                LET row == NewRow(pa, ca, p, None, t, 1, t.maxDepth)
                IN  NarrowRow(row) /\ OneOrgRow(row) /\ AcyclicRow(row)
           /\ \A above \in DOMAIN delegs :
                PermissionPasses(p, pa, above) /\ ParentPasses(above, pa, ca, p, t) =>
                LET row == NewRow(pa, ca, p, above, t, delegs[above].depth + 1,
                                  Lesser(delegs[above].maxDepth, t.maxDepth))
                IN  NarrowRow(row) /\ OneOrgRow(row) /\ AcyclicRow(row)
<1> USE DEF IInv, TypeOK
<1>0. t.maxDepth \in 1 .. DepthLimit
  BY DelegTermsAssumption DEF DelegTermSet
<1>1. ASSUME PermissionPasses(p, pa, None), Narrows(t, perms[p])
      PROVE  LET row == NewRow(pa, ca, p, None, t, 1, t.maxDepth)
             IN  NarrowRow(row) /\ OneOrgRow(row) /\ AcyclicRow(row)
  BY <1>0, <1>1 DEF AgentsPass, PermissionPasses, NewRow, NarrowRow, Narrows,
                    OneOrgRow, AcyclicRow, DepthLimit
<1>2. ASSUME NEW above \in DOMAIN delegs, PermissionPasses(p, pa, above),
             ParentPasses(above, pa, ca, p, t)
      PROVE  LET row == NewRow(pa, ca, p, above, t, delegs[above].depth + 1,
                               Lesser(delegs[above].maxDepth, t.maxDepth))
             IN  NarrowRow(row) /\ OneOrgRow(row) /\ AcyclicRow(row)
  <2>1. above # None /\ delegs[above].maxDepth \in Nat /\ delegs[above].depth \in Nat
    BY NoneAssumption DEF DelegRow
  <2>2. Lesser(delegs[above].maxDepth, t.maxDepth) <= delegs[above].maxDepth
    BY <1>0, <2>1 DEF Lesser
  <2>3. /\ OrgOf[delegs[above].childAgent] = delegs[above].org
        /\ OrgOf[perms[delegs[above].perm].agent] = delegs[above].org
    BY DEF WithinOneOrganization, OneOrgRow
  <2> DEFINE low == Lesser(delegs[above].maxDepth, t.maxDepth)
             row == NewRow(pa, ca, p, above, t, delegs[above].depth + 1, low)
  <2> HIDE DEF low
  <2>4. low <= delegs[above].maxDepth /\ delegs[above].depth + 1 <= low
    BY <1>2, <2>2 DEF low, ParentPasses
  <2>5. NarrowRow(row)
    BY <1>2, <2>1, <2>4
    DEF PermissionPasses, ParentPasses, NewRow, NarrowRow, Narrows
  <2>6. OneOrgRow(row)
    BY <1>2, <2>3 DEF AgentsPass, ParentPasses, NewRow, OneOrgRow
  <2>7. AcyclicRow(row)
    BY <1>2 DEF AgentsPass, ParentPasses, NewRow, AcyclicRow
  <2> QED  BY <2>5, <2>6, <2>7 DEF low
<1> QED  BY <1>1, <1>2

\* Every step keeps the rows about to be inserted consistent.
LEMMA PendingStep ==
    ASSUME IInv, [Next]_vars
    PROVE  PendingOK'
<1> USE DEF IInv, TypeOK
<1>1. PermsStable /\ DelegsStable
  BY GrantsStable
<1>2. ASSUME NEW h \in Creators, creating'[h] = creating[h], creating'[h] # None
      PROVE  /\ NarrowRow(creating[h])' /\ OneOrgRow(creating[h])'
             /\ AcyclicRow(creating[h])'
  <2>1. PICK row : row = creating[h]
    OBVIOUS
  <2>2. NarrowRow(row) /\ OneOrgRow(row) /\ AcyclicRow(row)
    BY <1>2, <2>1 DEF PendingOK
  <2>3. NarrowRow(row)' /\ OneOrgRow(row)' /\ AcyclicRow(row)'
    BY <1>1, <2>2, RowStable, AcyclicStable
  <2> QED  BY <1>2, <2>1, <2>3
<1>3. ASSUME UNCHANGED creating PROVE PendingOK'
  BY <1>2, <1>3 DEF PendingOK
<1>4. ASSUME NEW h \in Creators, NEW row, UNCHANGED tables,
             creating' = [creating EXCEPT ![h] = row],
             NarrowRow(row) /\ OneOrgRow(row) /\ AcyclicRow(row)
      PROVE  PendingOK'
  <2>1. NarrowRow(row)' /\ OneOrgRow(row)' /\ AcyclicRow(row)'
    BY <1>1, <1>4, RowStable, AcyclicStable
  <2>2. creating'[h] = row /\ \A k \in Creators \ {h} : creating'[k] = creating[k]
    BY <1>4
  <2> QED  BY <1>2, <2>1, <2>2 DEF PendingOK
<1>5. ASSUME NEW h \in Creators, Create(h) PROVE PendingOK'
  <2>1. ASSUME NEW pa \in Agents, NEW ca \in Agents, NEW p \in DOMAIN perms,
               NEW t \in DelegTerms, CheckRootDelegation(h, pa, ca, p, t)
        PROVE  PendingOK'
    <3>1. PICK row : row = NewRow(pa, ca, p, None, t, 1, t.maxDepth)
      OBVIOUS
    <3>2. NarrowRow(row) /\ OneOrgRow(row) /\ AcyclicRow(row)
      BY <2>1, <3>1, CheckedRow DEF CheckRootDelegation
    <3> QED  BY <1>4, <2>1, <3>1, <3>2 DEF CheckRootDelegation
  <2>2. ASSUME NEW pa \in Agents, NEW ca \in Agents, NEW p \in DOMAIN perms,
               NEW t \in DelegTerms, NEW above \in DOMAIN delegs,
               CheckChainedDelegation(h, pa, ca, p, above, t)
        PROVE  PendingOK'
    <3>1. PICK row : row = NewRow(pa, ca, p, above, t, delegs[above].depth + 1,
                                  Lesser(delegs[above].maxDepth, t.maxDepth))
      OBVIOUS
    <3>2. NarrowRow(row) /\ OneOrgRow(row) /\ AcyclicRow(row)
      BY <2>2, <3>1, CheckedRow DEF CheckChainedDelegation
    <3> QED  BY <1>4, <2>2, <3>1, <3>2 DEF CheckChainedDelegation
  <2>3. ASSUME NEW d \in Delegs, InsertDelegation(h, d) PROVE PendingOK'
    <3>1. creating'[h] = None /\ \A k \in Creators \ {h} : creating'[k] = creating[k]
      BY <2>3 DEF InsertDelegation
    <3> QED  BY <1>2, <3>1 DEF PendingOK
  <2> QED  BY <1>5, <2>1, <2>2, <2>3 DEF Create
<1>6. ASSUME NEW c \in Callers, CallStep(c) PROVE UNCHANGED creating
  BY <1>6 DEF CallStep, VerifyNode, AcceptNode, RejectNode, VerifyRoot,
              CompleteOrQueue, Respond
<1>7. ASSUME NEW p \in Perms, ExpirePermission(p) \/ RevokePermission(p)
      PROVE  UNCHANGED creating
  BY <1>7 DEF ExpirePermission, RevokePermission
<1> QED
  BY <1>3, <1>5, <1>6, <1>7
  DEF Next, Arrive, vars, Tick, PatchAgent, RetireAgent, CreatePermission,
      RevokeDelegation, StartCall

-----------------------------------------------------------------------------
(* Requests in progress.                                                   *)

\* Narrowing is transitive, and the narrower limit is what accumulates.
LEMMA NoWiderTransitive ==
    ASSUME NEW x \in MaybeLimit, NEW y \in MaybeLimit, NEW z \in MaybeLimit,
           NoWider(x, y), NoWider(y, z)
    PROVE  NoWider(x, z)
BY DEF NoWider, MaybeLimit, Limits, Amounts

\* The accumulated limit of a narrowing chain is the leaf's.
LEMMA TighterKeepsNarrow ==
    ASSUME NEW x \in MaybeLimit, NEW y \in MaybeLimit, NoWider(x, y)
    PROVE  Tighter(x, y) = x
BY NoneIsNoLimit DEF NoWider, Tighter, MaybeLimit, Limits, Amounts

\* Money a narrower limit covers is covered by the wider one.
LEMMA NarrowCovers ==
    ASSUME NEW x \in MaybeLimit, NEW y \in MaybeLimit, NEW m \in MaybeLimit,
           NoWider(x, y), Covers(x, m), y # None
    PROVE  Covers(y, m)
BY NoneIsNoLimit DEF NoWider, Covers, MaybeLimit, Limits, Amounts

\* A walk starts consistently.
LEMMA StartOK ==
    ASSUME IInv, NEW c \in Callers, NEW a \in Agents, NEW d \in DOMAIN delegs,
           NEW s \in Scopes, NEW m \in Money, StartCall(c, a, d, s, m),
           calls'[c].stage \in Working
    PROVE  CallOK(calls'[c])
<1> DEFINE call == calls'[c]
<1>1. call = [stage |-> "walking", at |-> clock, agent |-> a, leaf |-> d,
              scope |-> s, money |-> m,
              current |-> d, nodes |-> {}, loaded |-> {a}, seen |-> {},
              approval |-> FALSE, effective |-> None,
              revoked |-> {e \in DOMAIN delegs : delegs[e].status = "REVOKED"},
              dead |-> {p \in DOMAIN perms : perms[p].status # "ACTIVE"}]
  BY DEF StartCall, RejectedCall, Working, IInv, TypeOK
<1> HIDE DEF call
<1>2. delegs[d].limit \in MaybeLimit
  BY DEF IInv, TypeOK, DelegRow
<1>3. WalkOK(call) /\ ApprovalOK(call) /\ RevokedOK(call)
  BY <1>1 DEF WalkOK, ApprovalOK, RevokedOK
<1>4. NoWider(delegs[d].limit, delegs[d].limit)
  BY <1>2 DEF NoWider, MaybeLimit, Limits, Amounts
<1>5. LimitOK(call)
  BY <1>1, <1>4 DEF LimitOK
<1> QED  BY <1>3, <1>5 DEF CallOK, call

\* A node that verify_delegation_chain passes extends the walk consistently.
LEMMA AcceptOK ==
    ASSUME IInv, NEW c \in Callers, AcceptNode(c)
    PROVE  CallOK(calls'[c])
<1> DEFINE old == calls[c]
           new == calls'[c]
           node == delegs[old.current]
<1>1. /\ old.stage = "walking" /\ old \in CallRecord /\ CallOK(old)
      /\ NodePasses(old, node)
  BY WorkingCall DEF AcceptNode, IInv, CallsOK, Working
<1>2. /\ new.stage = IF node.parent = None THEN "root" ELSE "walking"
      /\ new.current = IF node.parent = None THEN old.current ELSE node.parent
      /\ new.nodes = old.nodes \cup {old.current}
      /\ new.approval = (old.approval \/ node.approval)
      /\ new.effective = Tighter(old.effective, node.limit)
      /\ new.leaf = old.leaf /\ new.money = old.money
      /\ new.revoked = old.revoked /\ new.dead = old.dead
  BY <1>1 DEF AcceptNode, IInv, TypeOK, CallRecord
<1>3. old.current \in DOMAIN delegs /\ old.leaf \in DOMAIN delegs
  BY <1>1 DEF CallOK, WalkOK
<1>4. NarrowRow(node)
  BY <1>3 DEF IInv, NarrowerThanAbove
<1>5. \A e \in DOMAIN delegs : delegs[e].limit \in MaybeLimit
  BY DEF IInv, TypeOK, DelegRow
<1>6. NoWider(delegs[old.leaf].limit, node.limit)
  BY <1>1 DEF CallOK, LimitOK
<1> HIDE DEF old, new
<1>7. WalkOK(new)
  <2>1. new.current \in DOMAIN delegs /\ delegs[new.current].perm = node.perm
    BY <1>2, <1>3, <1>4 DEF NarrowRow
  <2>2. new.leaf \in new.nodes
    BY <1>1, <1>2 DEF CallOK, WalkOK
  <2>3. \A e \in new.nodes : delegs[e].parent # None =>
           \/ delegs[e].parent \in new.nodes
           \/ new.stage = "walking" /\ delegs[e].parent = new.current
    BY <1>1, <1>2 DEF CallOK, WalkOK
  <2> QED  BY <1>1, <1>2, <1>3, <2>1, <2>2, <2>3 DEF CallOK, WalkOK
<1>8. LimitOK(new)
  <2>1. NoWider(delegs[old.leaf].limit, delegs[new.current].limit)
    <3>1. CASE node.parent = None
      BY <1>2, <1>6, <3>1
    <3>2. CASE node.parent # None
      <4>1. node.parent \in DOMAIN delegs /\ NoWider(node.limit, delegs[node.parent].limit)
        BY <1>4, <3>2 DEF NarrowRow, Narrows
      <4> QED  BY <1>2, <1>3, <1>5, <1>6, <3>2, <4>1, NoWiderTransitive
    <3> QED  BY <3>1, <3>2
  <2>2. new.effective = delegs[old.leaf].limit
    <3>1. CASE old.nodes = {}
      <4>1. old.effective = None /\ old.current = old.leaf
        BY <1>1, <3>1 DEF CallOK, WalkOK, LimitOK
      <4> QED  BY <1>2, <4>1 DEF Tighter
    <3>2. CASE old.nodes # {}
      <4>1. old.effective = delegs[old.leaf].limit
        BY <1>1, <3>2 DEF CallOK, LimitOK
      <4> QED  BY <1>2, <1>3, <1>5, <1>6, <4>1, TighterKeepsNarrow
    <3> QED  BY <3>1, <3>2
  <2>3. \A e \in new.nodes \cup {new.current} :
           NoWider(delegs[new.leaf].limit, delegs[e].limit)
    BY <1>1, <1>2, <2>1 DEF CallOK, LimitOK
  <2> QED  BY <1>2, <2>2, <2>3 DEF LimitOK
<1>9. ApprovalOK(new)
  BY <1>1, <1>2 DEF CallOK, ApprovalOK
<1>10. RevokedOK(new)
  BY <1>1, <1>2 DEF CallOK, RevokedOK, NodePasses
<1> QED  BY <1>7, <1>8, <1>9, <1>10 DEF CallOK, new

\* The check of the root permission completes the accumulated restrictions.
LEMMA RootOK ==
    ASSUME IInv, NEW c \in Callers, VerifyRoot(c), calls'[c].stage \in Working
    PROVE  CallOK(calls'[c])
<1> DEFINE old == calls[c]
           new == calls'[c]
           root == perms[delegs[old.current].perm]
<1>1. old.stage = "root" /\ old \in CallRecord /\ CallOK(old)
  BY WorkingCall DEF VerifyRoot, IInv, CallsOK, Working
<1>2. RootPasses(old, root)
  BY DEF VerifyRoot, RejectedCall, Working, IInv, TypeOK
<1>3. /\ new.stage = "verified" /\ new.current = old.current
      /\ new.nodes = old.nodes /\ new.leaf = old.leaf /\ new.money = old.money
      /\ new.approval = (old.approval \/ root.approval)
      /\ new.effective = Tighter(old.effective, root.limit)
      /\ new.revoked = old.revoked /\ new.dead = old.dead
  BY <1>1, <1>2 DEF VerifyRoot, IInv, TypeOK, CallRecord
<1>4. /\ old.current \in DOMAIN delegs /\ old.leaf \in DOMAIN delegs
      /\ delegs[old.current].perm = delegs[old.leaf].perm /\ old.nodes # {}
  BY <1>1 DEF CallOK, WalkOK
<1>5. /\ delegs[old.current].parent = None /\ NarrowRow(delegs[old.current])
      /\ NoWider(delegs[old.leaf].limit, delegs[old.current].limit)
      /\ old.effective = delegs[old.leaf].limit
  BY <1>1, <1>4 DEF CallOK, LimitOK, IInv, NarrowerThanAbove
<1>6. NoWider(delegs[old.current].limit, root.limit)
  BY <1>5 DEF NarrowRow, Narrows
<1>7. /\ root.limit \in MaybeLimit /\ delegs[old.leaf].limit \in MaybeLimit
      /\ delegs[old.current].limit \in MaybeLimit
  BY <1>4 DEF IInv, NarrowerThanAbove, NarrowRow, TypeOK, DelegRow, PermRow
<1>8. NoWider(delegs[old.leaf].limit, root.limit)
  BY <1>5, <1>6, <1>7, NoWiderTransitive
<1>9. Tighter(old.effective, root.limit) = delegs[old.leaf].limit
  BY <1>5, <1>7, <1>8, TighterKeepsNarrow
<1>10. Covers(delegs[old.leaf].limit, old.money) /\ root.status = "ACTIVE"
  BY <1>2, <1>9 DEF RootPasses, IsUsable
<1> HIDE DEF old, new
<1>11. WalkOK(new)
  BY <1>1, <1>3 DEF CallOK, WalkOK
<1>12. LimitOK(new)
  BY <1>1, <1>3, <1>4, <1>8, <1>9, <1>10 DEF CallOK, LimitOK
<1>13. ApprovalOK(new)
  BY <1>1, <1>3, <1>4 DEF CallOK, ApprovalOK
<1>14. RevokedOK(new)
  BY <1>1, <1>3, <1>4, <1>10 DEF CallOK, RevokedOK
<1> QED  BY <1>11, <1>12, <1>13, <1>14 DEF CallOK, new

\* The answer follows what the walk has accumulated.
LEMMA CompleteOK ==
    ASSUME IInv, NEW c \in Callers, NEW gate \in Gates, CompleteOrQueue(c, gate),
           calls'[c].stage \in Working
    PROVE  CallOK(calls'[c])
<1> DEFINE old == calls[c]
           new == calls'[c]
<1>1. old.stage = "verified" /\ old \in CallRecord /\ CallOK(old)
  BY WorkingCall DEF CompleteOrQueue, IInv, CallsOK, Working
<1>2. /\ new.stage = Decision(gate, old.approval) /\ new.current = old.current
      /\ new.nodes = old.nodes /\ new.leaf = old.leaf /\ new.money = old.money
      /\ new.approval = old.approval /\ new.effective = old.effective
      /\ new.revoked = old.revoked /\ new.dead = old.dead
  BY <1>1 DEF CompleteOrQueue, IInv, TypeOK, CallRecord
<1>3. /\ new.stage \in {"APPROVED", "PENDING", "REJECTED"}
      /\ new.stage = "APPROVED" => ~old.approval
  BY <1>2 DEF Decision, Gates
<1>4. new.stage \in {"APPROVED", "PENDING"}
  BY <1>3 DEF Working
<1> HIDE DEF old, new
<1>5. WalkOK(new)
  BY <1>1, <1>2 DEF CallOK, WalkOK
<1>6. LimitOK(new)
  BY <1>1, <1>2, <1>4 DEF CallOK, LimitOK
<1>7. ApprovalOK(new)
  BY <1>1, <1>2, <1>3 DEF CallOK, ApprovalOK
<1>8. RevokedOK(new)
  BY <1>1, <1>2 DEF CallOK, RevokedOK
<1> QED  BY <1>5, <1>6, <1>7, <1>8 DEF CallOK, new

\* Every step keeps every walk consistent.
LEMMA CallsStep ==
    ASSUME IInv, [Next]_vars
    PROVE  CallsOK'
<1> USE DEF IInv
<1>1. PermsStable /\ DelegsStable
  BY GrantsStable
<1>2. ASSUME NEW c \in Callers, calls'[c] = calls[c], calls'[c].stage \in Working
      PROVE  CallOK(calls[c])'
  <2>1. PICK call : call = calls[c]
    OBVIOUS
  <2>2. CallOK(call)
    BY <1>2, <2>1 DEF CallsOK
  <2>3. CallOK(call)'
    BY <1>1, <2>2, CallStable
  <2> QED  BY <1>2, <2>1, <2>3
<1>3. ASSUME UNCHANGED calls PROVE CallsOK'
  BY <1>2, <1>3 DEF CallsOK
<1>4. ASSUME NEW c \in Callers, UNCHANGED tables,
             calls' = [calls EXCEPT ![c] = calls'[c]],
             calls'[c].stage \in Working => CallOK(calls'[c])
      PROVE  CallsOK'
  <2>1. PICK call : call = calls'[c]
    OBVIOUS
  <2>2. call.stage \in Working => CallOK(call)'
    BY <1>1, <1>4, <2>1, CallStable
  <2>3. calls'[c].stage \in Working => CallOK(calls[c])'
    BY <2>1, <2>2
  <2>4. \A k \in Callers \ {c} : calls'[k] = calls[k]
    BY <1>4 DEF TypeOK
  <2> QED  BY <1>2, <2>3, <2>4 DEF CallsOK
<1>5. ASSUME NEW c \in Callers, NEW a \in Agents, NEW d \in DOMAIN delegs,
             NEW s \in Scopes, NEW m \in Money, StartCall(c, a, d, s, m)
      PROVE  CallsOK'
  <2>1. UNCHANGED tables /\ calls' = [calls EXCEPT ![c] = calls'[c]]
    BY <1>5 DEF StartCall, TypeOK
  <2> QED  BY <1>4, <1>5, <2>1, StartOK
<1>6. ASSUME NEW c \in Callers, CallStep(c) PROVE CallsOK'
  <2>1. UNCHANGED tables /\ calls' = [calls EXCEPT ![c] = calls'[c]]
    BY <1>6 DEF CallStep, VerifyNode, AcceptNode, RejectNode, VerifyRoot,
                CompleteOrQueue, Respond, TypeOK
  <2>2. ASSUME RejectNode(c) \/ Respond(c)
        PROVE  calls'[c].stage \notin Working
    BY <2>2 DEF RejectNode, Respond, RejectedCall, IdleCall, Working, TypeOK
  <2>3. calls'[c].stage \in Working => CallOK(calls'[c])
    BY <1>6, <2>2, AcceptOK, RootOK, CompleteOK DEF CallStep, VerifyNode
  <2> QED  BY <1>4, <2>1, <2>3
<1>7. ASSUME NEW p \in Perms, ExpirePermission(p) \/ RevokePermission(p)
      PROVE  UNCHANGED calls
  BY <1>7 DEF ExpirePermission, RevokePermission
<1>8. ASSUME NEW h \in Creators, Create(h) PROVE UNCHANGED calls
  BY <1>8 DEF Create, CheckRootDelegation, CheckChainedDelegation, InsertDelegation
<1> QED
  BY <1>3, <1>5, <1>6, <1>7, <1>8
  DEF Next, Arrive, vars, Tick, PatchAgent, RetireAgent, CreatePermission, RevokeDelegation

-----------------------------------------------------------------------------
(* The theorems.                                                           *)

\* IInv is inductive.
THEOREM Invariance == Spec => []IInv
<1>1. Init => IInv
  BY InitOK
<1>2. IInv /\ [Next]_vars => IInv'
  BY TypeStep, RowsStep, AcyclicStep, PendingStep, CallsStep DEF IInv
<1> QED  BY <1>1, <1>2, PTL DEF Spec

\* The tables and the requests in progress are always well formed.
THEOREM TypeCorrect == Spec => []TypeOK
<1>1. IInv => TypeOK
  BY DEF IInv
<1> QED  BY <1>1, Invariance, PTL

\* Every delegation create_delegation ever stores is no wider than the grants
\* above it, stays in its organization, and closes no cycle.
THEOREM Monotonicity ==
    Spec => [](NarrowerThanAbove /\ WithinOneOrganization /\ NoAgentTwiceInChain)
<1>1. IInv => NarrowerThanAbove /\ WithinOneOrganization /\ NoAgentTwiceInChain
  BY DEF IInv
<1> QED  BY <1>1, Invariance, PTL

\* The table of delegations is well-formed: the promise of create_delegation in one.
THEOREM ChainSafety == Spec => []ChainWellFormed
BY TypeCorrect, Monotonicity, PTL DEF ChainWellFormed

\* A verified request has walked the whole chain of its delegation.
LEMMA WalkedWholeChain ==
    ASSUME IInv, NEW c \in Callers, Verified(c)
    PROVE  /\ CallOK(calls[c]) /\ calls[c] \in CallRecord
           /\ Chain(calls[c].leaf) \subseteq calls[c].nodes
<1>1. calls[c].stage \in Working /\ calls[c].stage # "walking"
  BY DEF Verified, Working
<1>2. CallOK(calls[c]) /\ calls[c] \in CallRecord
  BY <1>1, WorkingCall DEF IInv, CallsOK
<1>3. /\ calls[c].leaf \in calls[c].nodes /\ UpwardClosed(calls[c].nodes)
      /\ calls[c].nodes \in SUBSET DOMAIN delegs
  BY <1>1, <1>2 DEF CallOK, WalkOK, UpwardClosed
<1> QED  BY <1>2, <1>3, ChainLeast

\* No request gets past a revocation that was committed before it began.
THEOREM RevocationSafety == Spec => []RevocationHonoured
<1>1. ASSUME IInv PROVE RevocationHonoured
  <2> SUFFICES ASSUME NEW c \in Callers, Verified(c)
               PROVE  /\ Chain(calls[c].leaf) \cap calls[c].revoked = {}
                      /\ delegs[calls[c].leaf].perm \notin calls[c].dead
    BY DEF RevocationHonoured
  <2>1. CallOK(calls[c]) /\ Chain(calls[c].leaf) \subseteq calls[c].nodes
    BY <1>1, WalkedWholeChain
  <2> QED  BY <2>1 DEF CallOK, RevokedOK, Verified
<1> QED  BY <1>1, Invariance, PTL

\* No approved or queued amount exceeds a limit anywhere on its chain.
THEOREM MoneySafety == Spec => []MoneyWithinWholeChain
<1>1. ASSUME IInv PROVE MoneyWithinWholeChain
  <2> SUFFICES ASSUME NEW c \in Callers, Verified(c), calls[c].money # None
               PROVE  /\ \A d \in Chain(calls[c].leaf) :
                            delegs[d].limit # None =>
                               Covers(delegs[d].limit, calls[c].money)
                      /\ perms[delegs[calls[c].leaf].perm].limit # None =>
                           Covers(perms[delegs[calls[c].leaf].perm].limit,
                                  calls[c].money)
    BY DEF MoneyWithinWholeChain
  <2>1. /\ CallOK(calls[c]) /\ calls[c] \in CallRecord
        /\ Chain(calls[c].leaf) \subseteq calls[c].nodes
    BY <1>1, WalkedWholeChain
  <2>2. /\ calls[c].leaf \in DOMAIN delegs /\ calls[c].nodes \subseteq DOMAIN delegs
        /\ Covers(delegs[calls[c].leaf].limit, calls[c].money)
        /\ NoWider(delegs[calls[c].leaf].limit, perms[delegs[calls[c].leaf].perm].limit)
        /\ \A d \in calls[c].nodes : NoWider(delegs[calls[c].leaf].limit, delegs[d].limit)
    BY <2>1 DEF CallOK, WalkOK, LimitOK, Verified
  <2>3. /\ calls[c].money \in MaybeLimit
        /\ \A d \in DOMAIN delegs : delegs[d].limit \in MaybeLimit
        /\ perms[delegs[calls[c].leaf].perm].limit \in MaybeLimit
    BY <1>1, <2>1, <2>2
    DEF IInv, TypeOK, CallRecord, DelegRow, PermRow, NarrowerThanAbove, NarrowRow
  <2> QED  BY <2>1, <2>2, <2>3, NarrowCovers
<1> QED  BY <1>1, Invariance, PTL

\* A human approval required anywhere on the chain is never skipped.
THEOREM ApprovalSafety == Spec => []ApprovalNeverBypassed
<1>1. ASSUME IInv PROVE ApprovalNeverBypassed
  <2> SUFFICES ASSUME NEW c \in Callers, calls[c].stage = "APPROVED"
               PROVE  /\ \A d \in Chain(calls[c].leaf) : ~delegs[d].approval
                      /\ ~perms[delegs[calls[c].leaf].perm].approval
    BY DEF ApprovalNeverBypassed
  <2>1. CallOK(calls[c]) /\ Chain(calls[c].leaf) \subseteq calls[c].nodes
    BY <1>1, WalkedWholeChain DEF Verified
  <2> QED  BY <2>1 DEF CallOK, ApprovalOK
<1> QED  BY <1>1, Invariance, PTL
=============================================================================
