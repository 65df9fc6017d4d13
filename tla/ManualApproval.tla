--------------------------- MODULE ManualApproval ---------------------------
(***************************************************************************)
(* Authorization requests that wait for a human: the second half of        *)
(* authorize_action (services/authorization.py: _complete_or_queue,        *)
(* _save_pending_request) and services/authorization_requests.py (decide,  *)
(* and the expiry that every listing performs).                            *)
(*                                                                         *)
(* A decision takes the request row FOR UPDATE, but reads the agent and    *)
(* the permission without a lock and took its clock reading before it      *)
(* waited for the row.  A decision is therefore four steps (read the       *)
(* clock, lock, validate, commit), and so two operators, an expiry sweep   *)
(* and the writers of permissions and agents interleave with it.           *)
(***************************************************************************)
EXTENDS Grants, Sequences

CONSTANTS
    Agents, Perms, Reqs,      \* Reqs: the pool of request ids
    PermTerms,                \* PermTerms[p]: the immutable columns of p
    Authorizers, Deciders,    \* request threads
    Money,                    \* amounts (or None) authorize is called with
    Window,                   \* MANUAL_APPROVAL_WINDOW
    MaxTime                   \* bound on the clock

PermTermSet ==
    [agent : Agents, scope : Scopes, limit : MaybeLimit, approval : BOOLEAN,
     from : Nat, exp : Nat]

ASSUME TermsAssumption == PermTerms \in [Perms -> PermTermSet]
ASSUME MoneyAssumption == Money \subseteq MaybeLimit
ASSUME NatAssumption == Window \in Nat /\ MaxTime \in Nat
ASSUME NoThreadIsNone == None \notin Deciders

VARIABLES
    clock,
    active,      \* active[a]: agents.status = ACTIVE
    permStatus,  \* permissions.status
    requests,    \* authorization_requests: a function on the queued ids
    audits,      \* audits[r]: the decisions in audit_logs for request id r
    lock,        \* lock[r]: the thread that holds row r FOR UPDATE, or None
    queueing,    \* queueing[w]: a request that found its permission, or None
    deciding     \* deciding[d]: the decision thread d is working on

tables == <<active, permStatus, requests, audits>>
threads == <<lock, queueing, deciding>>
vars == <<clock, active, permStatus, requests, audits, lock, queueing, deciding>>

PermStatuses == {"ACTIVE", "REVOKED", "EXPIRED"}
RequestRow ==
    [agent : Agents, perm : Perms, scope : Scopes, money : MaybeLimit,
     exp : Nat, status : {"PENDING", "APPROVED", "REJECTED", "EXPIRED"}]

Idle == [stage |-> "idle"]

Init ==
    /\ clock = 0
    /\ active = [a \in Agents |-> TRUE]
    /\ permStatus = [p \in Perms |-> "ACTIVE"]
    /\ requests = [r \in {} |-> None]
    /\ audits = [r \in Reqs |-> <<>>]
    /\ lock = [r \in Reqs |-> None]
    /\ queueing = [w \in Authorizers |-> None]
    /\ deciding = [d \in Deciders |-> Idle]

-----------------------------------------------------------------------------
(* The surroundings: time, and the writers of agents and permissions.      *)

Tick ==
    /\ clock < MaxTime
    /\ clock' = clock + 1
    /\ UNCHANGED <<tables, threads>>

SetAgent(a, isActive) ==
    /\ active[a] # isActive
    /\ active' = [active EXCEPT ![a] = isActive]
    /\ UNCHANGED <<clock, permStatus, requests, audits, threads>>

\* As in Delegation: revocation and expiry can only overwrite each other.
ExpirePermission(p) ==
    /\ permStatus[p] = "ACTIVE" /\ PermTerms[p].exp <= clock
    /\ permStatus' = [permStatus EXCEPT ![p] = "EXPIRED"]
    /\ UNCHANGED <<clock, active, requests, audits, threads>>

RevokePermission(p) ==
    /\ permStatus[p] = "ACTIVE" /\ clock < PermTerms[p].exp
    /\ permStatus' = [permStatus EXCEPT ![p] = "REVOKED"]
    /\ UNCHANGED <<clock, active, requests, audits, threads>>

-----------------------------------------------------------------------------
(* authorize_action.                                                       *)

\* The permission is live at the time, as the cascade of authorize_action and
\* _validate_for_approval both require.
Live(p, at) == permStatus[p] = "ACTIVE" /\ InWindow(PermTerms[p], at)

\* An amount is required exactly when the permission has a limit.
MoneyFits(p, money) ==
    IF money = None THEN PermTerms[p].limit = None
                    ELSE Covers(PermTerms[p].limit, money)

FreshId(r) == r \notin DOMAIN requests /\ audits[r] = <<>>

\* Bound: a request is only made while the pool has an id for it.
IdsLeft == \E r \in Reqs : FreshId(r)

\* The direct path, up to a matching permission of the acting agent: any of the
\* matching ones, whichever the cascade picks.  A request that matches none is
\* answered REJECTED and leaves only its audit.
MatchPermission(w, a, p, money) ==
    /\ queueing[w] = None /\ IdsLeft
    /\ active[a]
    /\ PermTerms[p].agent = a
    /\ Live(p, clock)
    /\ MoneyFits(p, money)
    /\ queueing' = [queueing EXCEPT ![w] =
          [agent |-> a, perm |-> p, money |-> money, at |-> clock]]
    /\ UNCHANGED <<clock, tables, lock, deciding>>

\* The delegated path: verify_delegation_chain has accepted an acting agent
\* that is not the permission's own (module Delegation).
MatchDelegated(w, a, p, money) ==
    /\ queueing[w] = None /\ IdsLeft
    /\ active[a] /\ active[PermTerms[p].agent]
    /\ PermTerms[p].agent # a
    /\ Live(p, clock)
    /\ money # None => Covers(PermTerms[p].limit, money)
    /\ queueing' = [queueing EXCEPT ![w] =
          [agent |-> a, perm |-> p, money |-> money, at |-> clock]]
    /\ UNCHANGED <<clock, tables, lock, deciding>>

Earlier(s, t) == IF s <= t THEN s ELSE t

\* expires_at of a queued request.
RequestExpiry(p, at) == Earlier(PermTerms[p].exp, at + Window)

\* _save_audit_log: a request decided on the spot.
DecideAtOnce(w, r, decision) ==
    /\ queueing[w] # None /\ FreshId(r)
    /\ decision = "APPROVED" => ~PermTerms[queueing[w].perm].approval
    /\ audits' = [audits EXCEPT ![r] = Append(@, decision)]
    /\ queueing' = [queueing EXCEPT ![w] = None]
    /\ UNCHANGED <<clock, active, permStatus, requests, lock, deciding>>

\* _save_pending_request: the permission, the chain, the risk engine or a
\* policy asks for a human.
Queue(w, r) ==
    /\ queueing[w] # None /\ FreshId(r)
    /\ LET q == queueing[w]
           row == [agent |-> q.agent, perm |-> q.perm,
                   scope |-> PermTerms[q.perm].scope, money |-> q.money,
                   exp |-> RequestExpiry(q.perm, q.at), status |-> "PENDING"]
       IN  requests' = [k \in DOMAIN requests \cup {r} |->
                          IF k = r THEN row ELSE requests[k]]
    /\ queueing' = [queueing EXCEPT ![w] = None]
    /\ UNCHANGED <<clock, active, permStatus, audits, lock, deciding>>

-----------------------------------------------------------------------------
(* authorization_requests.py.                                              *)

\* _finalize: one status, one audit entry; an expiry is audited as REJECTED.
AuditOf(status) == IF status = "APPROVED" THEN "APPROVED" ELSE "REJECTED"

\* _expire_records, run by every GET of the requests: all rows it matches are
\* locked, finalized and committed together, so it waits for locked ones.
Expired(r) ==
    r \in DOMAIN requests /\ requests[r].status = "PENDING"
                          /\ requests[r].exp <= clock

ExpireRecords ==
    /\ \E r \in DOMAIN requests : Expired(r)
    /\ \A r \in DOMAIN requests : Expired(r) => lock[r] = None
    /\ requests' = [r \in DOMAIN requests |->
          IF Expired(r) THEN [requests[r] EXCEPT !.status = "EXPIRED"]
                        ELSE requests[r]]
    /\ audits' = [r \in Reqs |->
          IF Expired(r) THEN Append(audits[r], AuditOf("EXPIRED")) ELSE audits[r]]
    /\ UNCHANGED <<clock, active, permStatus, threads>>

\* decide_owned_request begins: checked_at = utc_now().  found is history:
\* the permission's status when the operator's request arrived.
StartDecision(d, r, approve) ==
    /\ deciding[d].stage = "idle"
    /\ deciding' = [deciding EXCEPT ![d] =
          [stage |-> "waiting", req |-> r, approve |-> approve, at |-> clock,
           outcome |-> "PENDING", found |-> permStatus[requests[r].perm]]]
    /\ UNCHANGED <<clock, tables, lock, queueing>>

\* SELECT ... FOR UPDATE returns the row as last committed.
LockRecord(d) ==
    /\ deciding[d].stage = "waiting"
    /\ lock[deciding[d].req] = None
    /\ lock' = [lock EXCEPT ![deciding[d].req] = d]
    /\ deciding' = [deciding EXCEPT ![d].stage = "locked"]
    /\ UNCHANGED <<clock, tables, queueing>>

\* _validate_for_approval.
Validates(row, at) ==
    /\ active[row.agent]
    /\ Live(row.perm, at)
    /\ PermTerms[row.perm].agent = row.agent
    /\ PermTerms[row.perm].scope = row.scope
    /\ MoneyFits(row.perm, row.money)

\* Mutants: the status is not read again under the lock; the decision is not
\* checked against the request's own expiry.
OutcomeUnchecked(row, approve, at) ==
    CASE at >= row.exp -> "EXPIRED"
      [] at < row.exp -> IF approve /\ Validates(row, at) THEN "APPROVED" ELSE "REJECTED"
OutcomeIgnoresExpiry(row, approve, at) ==
    CASE row.status # "PENDING" -> "NONE"
      [] OTHER -> IF approve /\ Validates(row, at) THEN "APPROVED" ELSE "REJECTED"

\* What decide_owned_request concludes; NONE is RequestAlreadyDecided.
Outcome(row, approve, at) ==
    CASE row.status # "PENDING" -> "NONE"
      [] row.status = "PENDING" /\ at >= row.exp -> "EXPIRED"
      [] row.status = "PENDING" /\ at < row.exp ->
            IF approve /\ Validates(row, at) THEN "APPROVED" ELSE "REJECTED"

\* The agent and the permission are loaded, without a lock, and checked.
Validate(d) ==
    LET job == deciding[d]
    IN  /\ job.stage = "locked"
        /\ deciding' = [deciding EXCEPT
              ![d].stage = "decided",
              ![d].outcome = Outcome(requests[job.req], job.approve, job.at)]
        /\ UNCHANGED <<clock, tables, lock, queueing>>

\* Mutant: RequestAlreadyDecided leaves the transaction open.
CommitKeepsLock(d) ==
    LET job == deciding[d]
    IN  /\ job.stage = "decided"
        /\ IF job.outcome = "NONE"
           THEN UNCHANGED <<requests, audits, lock>>
           ELSE /\ requests' = [requests EXCEPT ![job.req].status = job.outcome]
                /\ audits' = [audits EXCEPT ![job.req] =
                                 Append(@, AuditOf(job.outcome))]
                /\ lock' = [lock EXCEPT ![job.req] = None]
        /\ deciding' = [deciding EXCEPT ![d] = Idle]
        /\ UNCHANGED <<clock, active, permStatus, queueing>>

\* The transaction ends: _finalize's writes are committed, or there were none.
Commit(d) ==
    LET job == deciding[d]
    IN  /\ job.stage = "decided"
        /\ IF job.outcome = "NONE"
           THEN UNCHANGED <<requests, audits>>
           ELSE /\ requests' = [requests EXCEPT ![job.req].status = job.outcome]
                /\ audits' = [audits EXCEPT ![job.req] =
                                 Append(@, AuditOf(job.outcome))]
        /\ lock' = [lock EXCEPT ![job.req] = None]
        /\ deciding' = [deciding EXCEPT ![d] = Idle]
        /\ UNCHANGED <<clock, active, permStatus, queueing>>

\* The process or its connection dies: the transaction is rolled back.
Abort(d) ==
    /\ deciding[d].stage \in {"waiting", "locked", "decided"}
    /\ lock' = [r \in Reqs |-> IF lock[r] = d THEN None ELSE lock[r]]
    /\ deciding' = [deciding EXCEPT ![d] = Idle]
    /\ UNCHANGED <<clock, tables, queueing>>

-----------------------------------------------------------------------------
DecideStep(d) == LockRecord(d) \/ Validate(d) \/ Commit(d)

Next ==
    \/ Tick
    \/ \E a \in Agents, b \in BOOLEAN : SetAgent(a, b)
    \/ \E p \in Perms : ExpirePermission(p) \/ RevokePermission(p)
    \/ \E w \in Authorizers, a \in Agents, p \in Perms, m \in Money :
          MatchPermission(w, a, p, m) \/ MatchDelegated(w, a, p, m)
    \/ \E w \in Authorizers, r \in Reqs :
          \/ Queue(w, r)
          \/ \E decision \in {"APPROVED", "REJECTED"} : DecideAtOnce(w, r, decision)
    \/ ExpireRecords
    \/ \E d \in Deciders, r \in DOMAIN requests, b \in BOOLEAN : StartDecision(d, r, b)
    \/ \E d \in Deciders : DecideStep(d) \/ Abort(d)

Spec == Init /\ [][Next]_vars

\* A started decision keeps running; PostgreSQL queues waiters for a row lock.
FairSpec ==
    /\ Spec
    /\ \A d \in Deciders :
          WF_vars(DecideStep(d)) /\ SF_vars(LockRecord(d))

-----------------------------------------------------------------------------
(* Properties.                                                             *)

JobRec ==
    [stage : {"waiting", "locked", "decided"}, req : Reqs, approve : BOOLEAN,
     at : Nat, found : PermStatuses,
     outcome : {"PENDING", "NONE", "EXPIRED", "APPROVED", "REJECTED"}]
QueueRec == [agent : Agents, perm : Perms, money : MaybeLimit, at : Nat]

\* Type invariant of the tables, the locks and the threads.
TypeOK ==
    /\ clock \in Nat
    /\ active \in [Agents -> BOOLEAN]
    /\ permStatus \in [Perms -> PermStatuses]
    /\ DOMAIN requests \subseteq Reqs /\ requests \in [DOMAIN requests -> RequestRow]
    /\ audits \in [Reqs -> Seq({"APPROVED", "REJECTED"})]
    /\ lock \in [Reqs -> Deciders \cup {None}]
    /\ queueing \in [Authorizers -> QueueRec \cup {None}]
    /\ deciding \in [Deciders -> JobRec \cup {Idle}]

\* However many operators and sweeps act on it, a request is decided once: it
\* has no audit entry while PENDING, exactly one afterwards, and that entry
\* says what the row says (_finalize, the FOR UPDATE in decide_owned_request
\* and _expire_records).
DecidedOnce ==
    \A r \in DOMAIN requests :
        audits[r] = IF requests[r].status = "PENDING" THEN <<>>
                    ELSE <<AuditOf(requests[r].status)>>

\* A decision is never overturned, and never forgotten.
FinalIsFinal ==
    [][\A r \in DOMAIN requests :
          /\ r \in DOMAIN requests'
          /\ requests[r].status # "PENDING" => requests'[r] = requests[r]]_vars

\* An operator's yes is honoured only inside the request's own window, which
\* never outlives the permission, and never when the permission had been
\* revoked or expired before the yes arrived.
ApprovalWasLive ==
    \A d \in Deciders : deciding[d].stage = "decided" /\ deciding[d].outcome = "APPROVED" =>
        LET row == requests[deciding[d].req]
        IN  /\ deciding[d].at < row.exp
            /\ deciding[d].at < PermTerms[row.perm].exp
            /\ deciding[d].found = "ACTIVE"

\* A queued request's window ends with its permission at the latest, so that no
\* expiry sweep is needed to keep a request from being approved too late.
RequestEndsWithPermission ==
    \A r \in DOMAIN requests :
        requests[r].exp <= PermTerms[requests[r].perm].exp

\* What is approved fits its permission: the agent, the scope and the money of
\* an APPROVED request are the permission's.
ApprovedFitsPermission ==
    \A r \in DOMAIN requests : requests[r].status = "APPROVED" =>
        /\ requests[r].agent = PermTerms[requests[r].perm].agent
        /\ requests[r].scope = PermTerms[requests[r].perm].scope
        /\ MoneyFits(requests[r].perm, requests[r].money)

\* What decide_owned_request and _expire_records promise of every request, however
\* operators, sweeps and revocations overlap: it is decided once, and approved
\* only in time, within its permission and while that permission was live.
DecisionSound ==
    /\ TypeOK /\ DecidedOnce /\ ApprovalWasLive
    /\ RequestEndsWithPermission /\ ApprovedFitsPermission

\* What a client can rely on (module Verdicts): a request is approved only on a yes
\* that came in time and while its permission was live, and what became of it is
\* told once, with it, and stays.
Standing ==
    [r \in Reqs |-> IF r \in DOMAIN requests THEN requests[r].status
                    ELSE IF audits[r] = <<>> THEN "none" ELSE audits[r][1]]
LastTold == [r \in Reqs |-> IF audits[r] = <<>> THEN None ELSE audits[r][Len(audits[r])]]
Alive == {r \in DOMAIN requests : permStatus[requests[r].perm] = "ACTIVE"}
Overdue == {r \in DOMAIN requests : requests[r].exp <= clock}
YesInTime(job) ==
    /\ job.stage # "idle" /\ job.approve /\ job.found = "ACTIVE"
    /\ job.at < requests[job.req].exp
Backed == [d \in Deciders |-> IF YesInTime(deciding[d]) THEN deciding[d].req ELSE None]
AbstractVerdicts == INSTANCE Verdicts WITH
    Requests <- Reqs, Backers <- Deciders, Nothing <- None, standing <- Standing,
    told <- LastTold, alive <- Alive, overdue <- Overdue, backed <- Backed
ImplementsVerdicts == AbstractVerdicts!VerdictsSpec

\* No decision waits for ever: row locks are always released.
EveryDecisionEnds ==
    \A d \in Deciders : deciding[d].stage = "waiting" ~> deciding[d].stage = "idle"

\* docs/AGENT_DELEGATION.md: a delegated request that needs approval is PENDING
\* and its owner is notified to approve it.  So the owner's yes in time should
\* not become a rejection when the agent is active, the permission is live and
\* the money fits.
DelegatedCanBeApproved ==
    [][\A d \in Deciders :
          LET job == deciding[d]
              row == requests[job.req]
          IN  /\ job.stage = "locked" /\ deciding'[d].stage = "decided"
              /\ job.approve /\ row.status = "PENDING" /\ job.at < row.exp
              /\ active[row.agent] /\ Live(row.perm, job.at)
              /\ MoneyFits(row.perm, row.money)
              => deciding'[d].outcome = "APPROVED"]_vars
=============================================================================
