------------------------------ MODULE CrossOrg ------------------------------
(***************************************************************************)
(* Trust between two organizations, and what one agent of the source asks  *)
(* of one agent of the target: services/cross_organization_trust.py and    *)
(* services/cross_org_authorization.py.                                    *)
(*                                                                         *)
(* The rows of one ordered pair of organizations: its trust relationship,  *)
(* the trust policy, the target's inbound policy, one agent connection,    *)
(* and the requests.  No handler locks any of them: each loads what it     *)
(* needs, and commits later what it made of it.                            *)
(***************************************************************************)
EXTENDS Naturals, FiniteSets, UnitOfWork

CONSTANTS
    Callers,        \* sessions that serve requests
    Orgs,           \* "source", "target", and others
    FedWorlds,      \* what clients may do: operations on the trust, and the keys of requests
    XKeys, XRows,   \* idempotency keys, cross_organization_requests rows
    Payloads,       \* what agents ask for
    SourceGrants,   \* what the source agent may hold: permission or delegation
    MaxFedTime      \* bound on the clock

VARIABLES
    fedNow,
    bond,       \* the four rows about the pair: trust, conn, tpolicy, gpolicy
    xreq,       \* xreq[r]: request r with its approvals
    task,       \* task[s]: what session s has loaded
    overlapped, \* history: what two handlers worked on at the same time
    clients     \* the world of this behaviour

fedVars == <<fedNow, bond, xreq, task, overlapped, clients>>

Never == 0              \* no expiry; also no limit and no amount
Parties == {"source", "target"}
Stages == Parties       \* an organization has at most one approval per request

TrustStatuses == {"none", "PENDING", "ACTIVE", "REJECTED", "REVOKED", "EXPIRED"}
TrustRow == [status : TrustStatuses, expires : Nat]
\* revoked: revoked_at, of which "no" is null and two marks tell two times apart.
ConnRow == [status : {"none", "ACTIVE", "REVOKED"}, expires : Nat, revoked : {"no", "t1", "t2"}]
\* actions and resources are lists, and an empty list allows everything.
PolicyRows == [actions : SUBSET {p.action : p \in Payloads},
               resources : SUBSET {p.resource : p \in Payloads},
               max : Nat, human : BOOLEAN, threshold : Nat, by : SUBSET Stages]
OpenPolicy(by) == [actions |-> {}, resources |-> {}, max |-> Never, human |-> FALSE,
                   threshold |-> Never, by |-> by]
ApprovalStatus == {"none", "PENDING", "APPROVED", "REJECTED"}
XRequestRow == [status : ApprovalStatus, key : XKeys, payload : Payloads,
                approval : [Stages -> ApprovalStatus]]

\* amount 0: the payload states none.
CrossOrgPayload(p) == DOMAIN p = {"action", "resource", "amount"} /\ p.amount \in Nat
ASSUME PayloadsAssumption == \A p \in Payloads : CrossOrgPayload(p)
ASSUME WorldsAssumption ==
    \A w \in FedWorlds :
        /\ w.keys \subseteq XKeys
        /\ \A x \in w.offers :
             /\ x.op \in {"request", "accept", "reject", "revoke", "connect", "disconnect",
                          "tpolicy", "gpolicy"}
             /\ x.op \in {"request", "connect"} => x.expires \in Nat
             /\ x.op \in {"tpolicy", "gpolicy"} => x.to \in PolicyRows
ASSUME PartiesAssumption ==
    Parties \subseteq Orgs /\ XKeys # {} /\ Payloads # {} /\ MaxFedTime \in Nat \ {0}

FedIdle == [stage |-> "idle"]
NoRequest == [status |-> "none", key |-> CHOOSE k \in XKeys : TRUE,
              payload |-> CHOOSE p \in Payloads : TRUE, approval |-> [o \in Stages |-> "none"]]

FedInit ==
    /\ fedNow = 1
    /\ bond = [trust   |-> [status |-> "none", expires |-> Never],
               conn    |-> [status |-> "none", expires |-> Never, revoked |-> "no"],
               tpolicy |-> OpenPolicy({"target"}),
               gpolicy |-> OpenPolicy({"target"})]
    /\ xreq = [r \in XRows |-> NoRequest]
    /\ task = [s \in Callers |-> FedIdle]
    /\ overlapped = {}
    /\ clients \in FedWorlds

FedTick ==
    /\ fedNow < MaxFedTime
    /\ fedNow' = fedNow + 1
    /\ UNCHANGED <<bond, xreq, task, overlapped, clients>>

Past(e) == e # Never /\ e <= fedNow

\* A handler on x begins, perhaps while another is at work on x.
Begin(s, x, t) ==
    /\ task[s] = FedIdle
    /\ task' = [task EXCEPT ![s] = t]
    /\ overlapped' = IF \E q \in Callers : task[q] # FedIdle /\ task[q].on = x
                     THEN overlapped \cup {x} ELSE overlapped
End(s) == task' = [task EXCEPT ![s] = FedIdle]

(***************************************************************************)
(* Operations on the trust, its policies and the agent connection.         *)
(***************************************************************************)
\* get_trust_relationship: either party, and nobody else.
get_trust_relationship(org) == bond.trust.status # "none" /\ org \in Parties

AwaitsTarget == bond.trust.status = "PENDING"

Admissible(org, x) ==
    CASE x.op = "request"    -> org = "source" /\ bond.trust.status \notin {"ACTIVE", "PENDING"}
      [] x.op \in {"accept", "reject"} -> org = "target" /\ AwaitsTarget
      [] x.op = "revoke"     -> get_trust_relationship(org)
      [] x.op = "tpolicy"    -> get_trust_relationship(org)
      [] x.op = "connect"    -> /\ get_trust_relationship(org)
                                /\ bond.trust.status = "ACTIVE"
                                /\ bond.conn.status # "ACTIVE"
      [] x.op = "disconnect" -> get_trust_relationship(org) /\ bond.conn.status # "none"
      [] x.op = "gpolicy"    -> org = "target"

LoadTrust(s, org, x) ==
    /\ Admissible(org, x)
    /\ Begin(s, "trust", [stage |-> "trust", on |-> "trust", offer |-> x, loaded |-> bond])
    /\ UNCHANGED <<fedNow, clients, bond, xreq>>

NextMark(t) == IF t = "t1" THEN "t2" ELSE "t1"

Disconnected(c) == [c EXCEPT !.status = "REVOKED", !.revoked = NextMark(@)]

create_trust_request(b, e) == [b EXCEPT !.trust = [status |-> "PENDING", expires |-> e]]

accept_trust_request(b) ==
    [b EXCEPT !.trust.status = IF Past(b.trust.expires) THEN "EXPIRED" ELSE "ACTIVE"]

reject_trust_request(b) == [b EXCEPT !.trust.status = "REJECTED"]

revoke_trust_relationship(b) ==
    [b EXCEPT !.trust.status = "REVOKED",
              !.conn = IF @.status = "ACTIVE" THEN Disconnected(@) ELSE @]

create_agent_connection(b, e) ==
    [b EXCEPT !.conn = [status |-> "ACTIVE", expires |-> e, revoked |-> "no"]]

revoke_agent_connection(b) == [b EXCEPT !.conn = Disconnected(@)]

update_trust_policy(b, to) == [b EXCEPT !.tpolicy = to]

update_target_policy(b, to) == [b EXCEPT !.gpolicy = to]

Edited(b, x) ==
    CASE x.op = "request"    -> create_trust_request(b, x.expires)
      [] x.op = "accept"     -> accept_trust_request(b)
      [] x.op = "reject"     -> reject_trust_request(b)
      [] x.op = "revoke"     -> revoke_trust_relationship(b)
      [] x.op = "connect"    -> create_agent_connection(b, x.expires)
      [] x.op = "disconnect" -> revoke_agent_connection(b)
      [] x.op = "tpolicy"    -> update_trust_policy(b, x.to)
      [] x.op = "gpolicy"    -> update_target_policy(b, x.to)

\* An INSERT of a row that exists by now violates the pair's unique constraint.
InsertFails(x, loaded) ==
    \/ x.op = "request" /\ loaded.trust.status = "none" /\ bond.trust.status # "none"
    \/ x.op = "connect" /\ loaded.conn.status = "none" /\ bond.conn.status # "none"

Flushed(b, loaded, edited) ==
    [row \in DOMAIN b |-> Flush(b[row], loaded[row], edited[row])]

CommitTrust(s) ==
    LET t == task[s] IN
    /\ t.stage = "trust"
    /\ bond' = IF InsertFails(t.offer, t.loaded) THEN bond
               ELSE Flushed(bond, t.loaded, Edited(t.loaded, t.offer))
    /\ End(s)
    /\ UNCHANGED <<fedNow, clients, xreq, overlapped>>

(***************************************************************************)
(* authorize_cross_organization_action.                                    *)
(***************************************************************************)
Holding(k) == {r \in XRows : xreq[r].status # "none" /\ xreq[r].key = k}

\* With a row for the key the handler answers from it (409 for another payload)
\* and changes nothing.
MayProceed(k, p) == Holding(k) = {}

\* A caller that presents an API key must be of the source organization.
MayCall(org) == org \in {"source", "no key"}

\* The signature, both organizations and both agents are verified in this step.
BeginAuthorize(s, org, k, p) ==
    /\ MayCall(org) /\ MayProceed(k, p)
    /\ Begin(s, k, [stage |-> "verified", on |-> k, key |-> k, payload |-> p])
    /\ UNCHANGED <<fedNow, clients, bond, xreq>>

\* Without a usable permission or delegation, or without a trust relationship, the
\* rejection is answered and not recorded: the key stays unused.
ReadTrust(s, g) ==
    LET t == task[s] IN
    /\ t.stage = "verified"
    /\ task' = [task EXCEPT ![s] =
                  IF g.kind = "none" \/ bond.trust.status = "none" THEN FedIdle
                  ELSE [stage |-> "trusted", on |-> t.key, key |-> t.key, payload |-> t.payload,
                        grant |-> g, trust |-> bond.trust]]
    /\ UNCHANGED <<fedNow, clients, bond, xreq, overlapped>>

\* Mutant: an expired relationship that is still ACTIVE passes.
InForceByStatus(t) == t.status = "ACTIVE"

InForce(t) == t.status = "ACTIVE" /\ ~Past(t.expires)

is_usable(c) == c.status = "ACTIVE" /\ ~Past(c.expires) /\ c.revoked = "no"

Within(pol, p) ==
    /\ pol.actions # {} => p.action \in pol.actions
    /\ pol.resources # {} => p.resource \in pol.resources
    /\ pol.max # Never => p.amount # Never /\ p.amount <= pol.max

NeedsHuman(pol, p) ==
    pol.human /\ (pol.threshold = Never \/ (p.amount # Never /\ p.amount >= pol.threshold))

Permitted(t) ==
    /\ InForce(t.trust) /\ is_usable(bond.conn)
    /\ Within(bond.tpolicy, t.payload) /\ Within(bond.gpolicy, t.payload)
    /\ ~(t.grant.max # Never /\ t.payload.amount # Never /\ t.payload.amount > t.grant.max)

ApprovalStages(t) ==
    (IF t.grant.approval THEN {"source"} ELSE {})
      \cup (IF NeedsHuman(bond.tpolicy, t.payload) THEN bond.tpolicy.by ELSE {})
      \cup (IF NeedsHuman(bond.gpolicy, t.payload) THEN {"target"} ELSE {})

NewRequest(t) ==
    LET asked == IF Permitted(t) THEN ApprovalStages(t) ELSE {} IN
    [status   |-> CASE ~Permitted(t) -> "REJECTED" [] asked # {} -> "PENDING" [] OTHER -> "APPROVED",
     key      |-> t.key,
     payload  |-> t.payload,
     approval |-> [o \in Stages |-> IF o \in asked THEN "PENDING" ELSE "none"]]

Judge(s) ==
    /\ task[s].stage = "trusted"
    /\ task' = [task EXCEPT ![s] = [stage |-> "judged", on |-> @.key, key |-> @.key,
                                    row |-> NewRequest(@)]]
    /\ UNCHANGED <<fedNow, clients, bond, xreq, overlapped>>

\* _record_and_return_rejection, or the row with its approvals; the key's index is
\* not unique.
Record(s, r) ==
    /\ task[s].stage = "judged" /\ xreq[r].status = "none"
    /\ xreq' = [xreq EXCEPT ![r] = task[s].row]
    /\ End(s)
    /\ UNCHANGED <<fedNow, clients, bond, overlapped>>

(***************************************************************************)
(* decide_cross_org_approval.                                              *)
(***************************************************************************)

Decidable(r, org) == xreq[r].status = "PENDING" /\ xreq[r].approval[org] = "PENDING"

LoadDecision(s, r, org, d) ==
    /\ org \in Stages /\ Decidable(r, org)
    /\ Begin(s, r, [stage |-> "deciding", on |-> r, org |-> org, decision |-> d, last |-> FALSE])
    /\ UNCHANGED <<fedNow, clients, bond, xreq>>

\* The UPDATE of the approval is flushed before the query for the remaining ones, and
\* locks the approval's row until the commit.
Unlocked(s) ==
    \A q \in Callers : ~(task[q].stage = "flushed" /\ task[q].on = task[s].on /\ task[q].org = task[s].org)

\* Mutant: another organization's approval is not waited for.
NoneRemainingOfMine(t) == TRUE

NoneRemaining(t) == \A o \in Stages \ {t.org} : xreq[t.on].approval[o] # "PENDING"

FlushApproval(s) ==
    /\ task[s].stage = "deciding" /\ task[s].decision = "APPROVED" /\ Unlocked(s)
    /\ task' = [task EXCEPT ![s].stage = "flushed", ![s].last = NoneRemaining(task[s])]
    /\ UNCHANGED <<fedNow, clients, bond, xreq, overlapped>>

CommitDecision(s) ==
    LET t == task[s] IN
    /\ \/ t.stage = "flushed"
       \/ t.stage = "deciding" /\ t.decision = "REJECTED" /\ Unlocked(s)
    /\ xreq' = [xreq EXCEPT ![t.on].approval[t.org] = t.decision,
                            ![t.on].status = CASE t.decision = "REJECTED" -> "REJECTED"
                                               [] t.decision = "APPROVED" /\ t.last -> "APPROVED"
                                               [] OTHER -> @]
    /\ End(s)
    /\ UNCHANGED <<fedNow, clients, bond, overlapped>>

FedNext ==
    \/ FedTick
    \/ \E s \in Callers, org \in Orgs, x \in clients.offers : LoadTrust(s, org, x)
    \/ \E s \in Callers : CommitTrust(s) \/ Judge(s) \/ FlushApproval(s) \/ CommitDecision(s)
    \/ \E s \in Callers, org \in Orgs \cup {"no key"}, k \in clients.keys, p \in Payloads :
          BeginAuthorize(s, org, k, p)
    \/ \E s \in Callers, g \in SourceGrants : ReadTrust(s, g)
    \/ \E s \in Callers, r \in XRows : Record(s, r)
    \/ \E s \in Callers, r \in XRows, org \in Orgs, d \in {"APPROVED", "REJECTED"} :
          LoadDecision(s, r, org, d)

FedSpec == FedInit /\ [][FedNext]_fedVars

(***************************************************************************)
(* Properties.                                                             *)
(***************************************************************************)
\* Every row has its type, and the policies stay policies however their columns are
\* written.
FedTypeOK ==
    /\ fedNow \in 1 .. MaxFedTime
    /\ bond.trust \in TrustRow /\ bond.conn \in ConnRow
    /\ bond.tpolicy \in PolicyRows /\ bond.gpolicy \in PolicyRows
    /\ xreq \in [XRows -> XRequestRow]
    /\ \A s \in Callers : task[s].stage \in {"idle", "trust", "verified", "trusted", "judged",
                                             "deciding", "flushed"}

\* Unless two handlers of the relationship overlapped: a revoked relationship has no
\* active connection (the connection would work again once the relationship is
\* renewed), and a connection is ACTIVE exactly when it has no time of revocation.
SerialTrust ==
    "trust" \notin overlapped =>
        /\ bond.trust.status # "ACTIVE" => bond.conn.status # "ACTIVE"
        /\ (bond.conn.status = "REVOKED") <=> (bond.conn.revoked # "no")

\* Unless two handlers of the relationship overlapped, a policy row is one that a
\* client submitted: updates of overlapping handlers may be mixed column by column.
PolicyAsSubmitted ==
    "trust" \notin overlapped =>
        \A f \in {"tpolicy", "gpolicy"} :
            bond[f] = OpenPolicy({"target"}) \/ \E x \in clients.offers : x.op = f /\ x.to = bond[f]

\* However handlers interleave, a revoked relationship is ACTIVE again only after a
\* new request, except by the acceptance of a request that was PENDING when the
\* handler loaded it.
RevocationStands ==
    [][(bond.trust.status = "REVOKED" /\ bond'.trust.status \notin {"REVOKED", "PENDING"})
          => \E s \in Callers : /\ task[s].stage = "trust" /\ task'[s] = FedIdle
                                /\ task[s].loaded.trust.status = "PENDING"]_fedVars

\* A request with two required approvals is settled by them: unless two decisions
\* overlapped, APPROVED means that every required approval is, REJECTED by a decision
\* that one is, and a request that is PENDING has an approval somebody may still give.
DecisionsAgree ==
    \A r \in XRows : (xreq[r].status # "none" /\ r \notin overlapped) =>
        LET given == {xreq[r].approval[o] : o \in Stages} \ {"none"} IN
        CASE xreq[r].status = "APPROVED" -> given \subseteq {"APPROVED"}
          [] xreq[r].status = "REJECTED" -> given = {} \/ "REJECTED" \in given
          [] xreq[r].status = "PENDING"  -> "PENDING" \in given /\ "REJECTED" \notin given

\* An idempotency key has one row, unless two requests with it overlapped.
OneRowPerKey ==
    \A k \in XKeys : k \notin overlapped => Cardinality(Holding(k)) <= 1

\* A request enters the table APPROVED or PENDING only if the relationship it was
\* judged under had not expired when it was judged, even though nothing moves an
\* expired relationship out of ACTIVE.
NoExpiredTrust ==
    [][\A s \in Callers :
          (task[s].stage = "trusted" /\ task'[s].stage = "judged"
             /\ task'[s].row.status # "REJECTED")
              => ~Past(task[s].trust.expires) /\ ~Past(bond.conn.expires)]_fedVars

\* Unless handlers of the two organizations overlapped: a revoked trust has no active
\* connection, a policy is one that was submitted, the status of a request agrees with the
\* approvals given, and a key has one request.
TrustHolds == FedTypeOK /\ SerialTrust /\ PolicyAsSubmitted /\ DecisionsAgree /\ OneRowPerKey
=============================================================================
