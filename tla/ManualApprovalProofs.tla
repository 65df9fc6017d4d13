------------------------ MODULE ManualApprovalProofs ------------------------
(***************************************************************************)
(* For any number of operators, requests, agents and permissions: a        *)
(* request is decided once and for all, by a decision that fits its        *)
(* permission and was made within the request's window.                    *)
(*                                                                         *)
(* The argument is row-lock ownership: a decision that has read the row    *)
(* holds its lock until it commits (LocksHeld), nobody else writes a       *)
(* locked row, so what the decision read is still true when it commits     *)
(* (DecisionsOK).  What it read of the permission need not be; only what   *)
(* can never come back to life is kept (the history variable found).            *)
(***************************************************************************)
EXTENDS ManualApproval, TLAPS

\* A row that fits its permission in agent, scope and money.
Fits(row) ==
    /\ row.agent = PermTerms[row.perm].agent
    /\ row.scope = PermTerms[row.perm].scope
    /\ MoneyFits(row.perm, row.money)

\* Whoever has read a request row holds its lock.
LocksHeld ==
    \A d \in Deciders : deciding[d].stage \in {"locked", "decided"} =>
        lock[deciding[d].req] = d

\* A decision is about an existing request, and one whose operator came too
\* late for the permission stays too late.
JobsOK ==
    \A d \in Deciders : deciding[d].stage # "idle" =>
        /\ deciding[d].req \in DOMAIN requests
        /\ deciding[d].found # "ACTIVE" => permStatus[requests[deciding[d].req].perm] # "ACTIVE"

\* The outcome a decision is about to commit.
OutcomeOK(job, row) ==
    /\ job.outcome # "PENDING"
    /\ job.outcome # "NONE" => row.status = "PENDING"
    /\ job.outcome = "APPROVED" => Fits(row) /\ job.at < row.exp /\ job.found = "ACTIVE"

DecisionsOK ==
    \A d \in Deciders : deciding[d].stage = "decided" =>
        OutcomeOK(deciding[d], requests[deciding[d].req])

IInv ==
    /\ TypeOK
    /\ LocksHeld /\ JobsOK /\ DecisionsOK
    /\ DecidedOnce /\ RequestEndsWithPermission /\ ApprovedFitsPermission

-----------------------------------------------------------------------------
\* _save_pending_request takes the smaller of the two deadlines.
LEMMA ExpiryCapped ==
    ASSUME NEW p \in Perms, NEW at \in Nat
    PROVE  RequestExpiry(p, at) \in Nat /\ RequestExpiry(p, at) <= PermTerms[p].exp
BY TermsAssumption, NatAssumption DEF RequestExpiry, Earlier, PermTermSet

\* Outcome yields a final status or NONE, and its verdicts are justified.
LEMMA OutcomeSound ==
    ASSUME NEW row \in RequestRow, NEW approve \in BOOLEAN, NEW at \in Nat
    PROVE  LET o == Outcome(row, approve, at)
           IN  /\ o \in {"NONE", "EXPIRED", "APPROVED", "REJECTED"}
               /\ o # "NONE" => row.status = "PENDING"
               /\ o = "APPROVED" =>
                    Validates(row, at) /\ at < row.exp
<1>1. row.status \in {"PENDING", "APPROVED", "REJECTED", "EXPIRED"} /\ row.exp \in Nat
  BY DEF RequestRow
<1>2. CASE row.status # "PENDING"
  BY <1>1, <1>2 DEF Outcome
<1>3. CASE row.status = "PENDING" /\ at >= row.exp
  BY <1>1, <1>3 DEF Outcome
<1>4. CASE row.status = "PENDING" /\ at < row.exp
  BY <1>1, <1>4 DEF Outcome
<1> QED  BY <1>1, <1>2, <1>3, <1>4

\* The invariant holds with empty tables.
LEMMA InitOK == Init => IInv
<1> SUFFICES ASSUME Init  PROVE IInv
  OBVIOUS
<1>1. TypeOK
  BY DEF Init, TypeOK, Idle, PermStatuses
<1>2. LocksHeld /\ JobsOK /\ DecisionsOK
  BY DEF Init, LocksHeld, JobsOK, DecisionsOK, Idle
<1>3. DecidedOnce /\ RequestEndsWithPermission /\ ApprovedFitsPermission
  BY DEF Init, DecidedOnce, RequestEndsWithPermission, ApprovedFitsPermission
<1> QED  BY <1>1, <1>2, <1>3 DEF IInv

-----------------------------------------------------------------------------
(* Steps that leave the requests and the decisions alone.                  *)

\* Permissions do not come back to life.
PermsOnlyDie ==
    \A p \in Perms : permStatus[p] # "ACTIVE" => permStatus'[p] # "ACTIVE"

\* A step that writes no request, audit, lock or decision preserves the invariant
\* if no permission comes back to life.
LEMMA BystanderOK ==
    ASSUME IInv, TypeOK', PermsOnlyDie, UNCHANGED <<requests, lock, deciding>>,
           \A r \in DOMAIN requests : audits'[r] = audits[r]
    PROVE  IInv'
<1>1. LocksHeld' /\ DecisionsOK'
  BY DEF IInv, LocksHeld, DecisionsOK
<1>2. JobsOK'
  <2> SUFFICES ASSUME NEW d \in Deciders, deciding[d].stage # "idle"
               PROVE  /\ deciding[d].req \in DOMAIN requests
                      /\ deciding[d].found # "ACTIVE" =>
                           permStatus'[requests[deciding[d].req].perm] # "ACTIVE"
    BY DEF JobsOK
  <2>1. deciding[d].req \in DOMAIN requests
    BY DEF IInv, JobsOK
  <2>2. requests[deciding[d].req].perm \in Perms
    BY <2>1 DEF IInv, TypeOK, RequestRow
  <2> QED  BY <2>1, <2>2 DEF IInv, JobsOK, PermsOnlyDie
<1>3. DecidedOnce'
  BY DEF IInv, DecidedOnce
<1>4. RequestEndsWithPermission' /\ ApprovedFitsPermission'
  BY DEF IInv, RequestEndsWithPermission, ApprovedFitsPermission
<1> QED  BY <1>1, <1>2, <1>3, <1>4 DEF IInv

\* Time may pass.
LEMMA TickOK ==
    ASSUME IInv, Tick
    PROVE  IInv'
<1>1. TypeOK'
  BY DEF IInv, TypeOK, Tick, tables, threads
<1> QED  BY <1>1, BystanderOK DEF Tick, tables, threads, PermsOnlyDie

\* Agents may change their status.
LEMMA SetAgentOK ==
    ASSUME IInv, NEW a \in Agents, NEW b \in BOOLEAN, SetAgent(a, b)
    PROVE  IInv'
<1>1. TypeOK'
  BY DEF IInv, TypeOK, SetAgent, threads
<1> QED  BY <1>1, BystanderOK DEF SetAgent, threads, PermsOnlyDie

\* Permissions expire and are revoked for good.
LEMMA PermissionOK ==
    ASSUME IInv, NEW p \in Perms, ExpirePermission(p) \/ RevokePermission(p)
    PROVE  IInv'
<1>1. TypeOK'
  BY DEF IInv, TypeOK, ExpirePermission, RevokePermission, threads, PermStatuses
<1>2. PermsOnlyDie
  BY DEF IInv, TypeOK, ExpirePermission, RevokePermission, PermsOnlyDie
<1> QED
  BY <1>1, <1>2, BystanderOK DEF ExpirePermission, RevokePermission, threads

\* authorize_action reads only.
LEMMA MatchOK ==
    ASSUME IInv, NEW w \in Authorizers, NEW a \in Agents, NEW p \in Perms,
           NEW m \in Money, MatchPermission(w, a, p, m) \/ MatchDelegated(w, a, p, m)
    PROVE  IInv'
<1>1. [agent |-> a, perm |-> p, money |-> m, at |-> clock] \in QueueRec
  BY MoneyAssumption DEF IInv, TypeOK, QueueRec
<1>2. TypeOK'
  BY <1>1 DEF IInv, TypeOK, MatchPermission, MatchDelegated, tables
<1> QED
  BY <1>2, BystanderOK DEF MatchPermission, MatchDelegated, tables, PermsOnlyDie

\* A decision on the spot uses a fresh request id.
LEMMA DecideAtOnceOK ==
    ASSUME IInv, NEW w \in Authorizers, NEW r \in Reqs,
           NEW decision \in {"APPROVED", "REJECTED"}, DecideAtOnce(w, r, decision)
    PROVE  IInv'
<1>1. /\ r \notin DOMAIN requests /\ audits[r] \in Seq({"APPROVED", "REJECTED"})
      /\ audits' = [audits EXCEPT ![r] = Append(audits[r], decision)]
  BY DEF IInv, TypeOK, DecideAtOnce, FreshId
<1>2. Append(audits[r], decision) \in Seq({"APPROVED", "REJECTED"})
  BY <1>1
<1>3. TypeOK'
  BY <1>1, <1>2 DEF IInv, TypeOK, DecideAtOnce
<1>4. \A k \in DOMAIN requests : audits'[k] = audits[k]
  BY <1>1 DEF IInv, TypeOK
<1> QED  BY <1>3, <1>4, BystanderOK DEF DecideAtOnce, PermsOnlyDie

-----------------------------------------------------------------------------
(* Steps that add or change requests.                                      *)

\* A queued request ends with its permission.
LEMMA QueueOK ==
    ASSUME IInv, NEW w \in Authorizers, NEW r \in Reqs, Queue(w, r)
    PROVE  IInv'
<1>1. PICK q \in QueueRec : q = queueing[w]
  BY DEF IInv, TypeOK, Queue
<1>2. PICK row : row = [agent |-> q.agent, perm |-> q.perm,
                        scope |-> PermTerms[q.perm].scope, money |-> q.money,
                        exp |-> RequestExpiry(q.perm, q.at), status |-> "PENDING"]
  OBVIOUS
<1>3. row \in RequestRow
  BY <1>2, ExpiryCapped, TermsAssumption DEF QueueRec, RequestRow, PermTermSet
<1>4. /\ r \notin DOMAIN requests /\ audits[r] = <<>> /\ audits' = audits
      /\ lock' = lock /\ deciding' = deciding /\ permStatus' = permStatus
      /\ requests' = [k \in DOMAIN requests \cup {r} |->
                        IF k = r THEN row ELSE requests[k]]
  BY <1>1, <1>2 DEF Queue, FreshId
<1>5. /\ DOMAIN requests' = DOMAIN requests \cup {r} /\ requests'[r] = row
      /\ \A k \in DOMAIN requests : requests'[k] = requests[k]
  BY <1>4
<1>6. TypeOK'
  <2>1. /\ DOMAIN requests' \subseteq Reqs
        /\ requests' \in [DOMAIN requests' -> RequestRow]
    BY <1>3, <1>4 DEF IInv, TypeOK
  <2> QED  BY <2>1 DEF IInv, TypeOK, Queue
<1>7. LocksHeld' /\ JobsOK' /\ DecisionsOK'
  <2>1. \A d \in Deciders : deciding[d].stage # "idle" =>
           requests'[deciding[d].req] = requests[deciding[d].req]
    BY <1>5 DEF IInv, JobsOK
  <2> QED  BY <1>4, <1>5, <2>1 DEF IInv, LocksHeld, JobsOK, DecisionsOK
<1>8. DecidedOnce'
  BY <1>2, <1>4, <1>5 DEF IInv, DecidedOnce
<1>9. RequestEndsWithPermission' /\ ApprovedFitsPermission'
  BY <1>1, <1>2, <1>5, ExpiryCapped
     DEF IInv, RequestEndsWithPermission, ApprovedFitsPermission, QueueRec
<1> QED  BY <1>6, <1>7, <1>8, <1>9 DEF IInv

\* The expiry sweep decides only unlocked PENDING requests.
LEMMA ExpireRecordsOK ==
    ASSUME IInv, ExpireRecords
    PROVE  IInv'
<1> DEFINE Swept == {r \in DOMAIN requests : Expired(r)}
<1>1. /\ DOMAIN requests' = DOMAIN requests
      /\ lock' = lock /\ deciding' = deciding /\ permStatus' = permStatus
      /\ \A r \in Swept : /\ requests'[r] = [requests[r] EXCEPT !.status = "EXPIRED"]
                          /\ audits'[r] = Append(audits[r], "REJECTED")
                          /\ lock[r] = None
                          /\ requests[r].status = "PENDING"
      /\ \A r \in DOMAIN requests \ Swept : requests'[r] = requests[r]
      /\ \A r \in Reqs \ Swept : audits'[r] = audits[r]
  BY DEF IInv, TypeOK, ExpireRecords, threads, Expired, AuditOf
<1>2. \A r \in DOMAIN requests : requests[r] \in RequestRow
  BY DEF IInv, TypeOK
<1>3. \A r \in DOMAIN requests :
        /\ requests'[r] \in RequestRow
        /\ requests'[r].agent = requests[r].agent /\ requests'[r].perm = requests[r].perm
        /\ requests'[r].scope = requests[r].scope /\ requests'[r].money = requests[r].money
        /\ requests'[r].exp = requests[r].exp
  BY <1>1, <1>2 DEF RequestRow
<1>4. TypeOK'
  <2>1. requests' \in [DOMAIN requests' -> RequestRow]
    BY <1>1, <1>3 DEF ExpireRecords
  <2>2. audits' \in [Reqs -> Seq({"APPROVED", "REJECTED"})]
    <3>1. \A r \in Reqs : /\ Append(audits[r], AuditOf("EXPIRED")) \in Seq({"APPROVED", "REJECTED"})
                          /\ audits[r] \in Seq({"APPROVED", "REJECTED"})
      BY DEF IInv, TypeOK, AuditOf
    <3> QED  BY <3>1 DEF ExpireRecords
  <2> QED  BY <1>1, <2>1, <2>2 DEF IInv, TypeOK, ExpireRecords, threads
<1>5. \A d \in Deciders : deciding[d].stage = "decided" =>
        requests'[deciding[d].req] = requests[deciding[d].req]
  <2> SUFFICES ASSUME NEW d \in Deciders, deciding[d].stage = "decided"
               PROVE  requests'[deciding[d].req] = requests[deciding[d].req]
    OBVIOUS
  <2>1. deciding[d].req \in DOMAIN requests /\ lock[deciding[d].req] # None
    BY NoThreadIsNone DEF IInv, JobsOK, LocksHeld
  <2> QED  BY <1>1, <2>1
<1>6. LocksHeld' /\ DecisionsOK'
  BY <1>1, <1>5 DEF IInv, LocksHeld, DecisionsOK
<1>7. JobsOK'
  BY <1>1, <1>3 DEF IInv, JobsOK
<1>8. DecidedOnce'
  <2> SUFFICES ASSUME NEW r \in DOMAIN requests
               PROVE  audits'[r] = IF requests'[r].status = "PENDING" THEN <<>>
                                   ELSE <<AuditOf(requests'[r].status)>>
    BY <1>1 DEF DecidedOnce
  <2>1. CASE r \in Swept
    <3>1. requests'[r].status = "EXPIRED" /\ audits[r] = <<>>
      BY <1>1, <1>2, <2>1 DEF IInv, DecidedOnce, RequestRow
    <3>2. audits'[r] = <<"REJECTED">>
      BY <1>1, <2>1, <3>1
    <3> QED  BY <3>1, <3>2 DEF AuditOf
  <2>2. CASE r \notin Swept
    BY <1>1, <2>2 DEF IInv, TypeOK, DecidedOnce
  <2> QED  BY <2>1, <2>2
<1>9. RequestEndsWithPermission' /\ ApprovedFitsPermission'
  <2>1. \A r \in DOMAIN requests : requests'[r].status = "APPROVED" =>
           requests[r].status = "APPROVED"
    BY <1>1, <1>2 DEF RequestRow
  <2> QED
    BY <1>1, <1>3, <2>1 DEF IInv, RequestEndsWithPermission, ApprovedFitsPermission
<1> QED  BY <1>4, <1>6, <1>7, <1>8, <1>9 DEF IInv

-----------------------------------------------------------------------------
(* The steps of a decision.                                                *)

\* An operator's request arrives.
LEMMA StartDecisionOK ==
    ASSUME IInv, NEW d \in Deciders, NEW r \in DOMAIN requests, NEW b \in BOOLEAN,
           StartDecision(d, r, b)
    PROVE  IInv'
<1>1. PICK job : job = [stage |-> "waiting", req |-> r, approve |-> b, at |-> clock,
                        outcome |-> "PENDING",
                        found |-> permStatus[requests[r].perm]]
  OBVIOUS
<1>2. /\ deciding' = [deciding EXCEPT ![d] = job]
      /\ UNCHANGED <<requests, lock, permStatus, audits>>
  BY <1>1 DEF StartDecision, tables
<1>3. job \in JobRec
  BY <1>1 DEF IInv, TypeOK, JobRec, RequestRow
<1>4. /\ deciding'[d] = job
      /\ \A e \in Deciders \ {d} : deciding'[e] = deciding[e]
  BY <1>2 DEF IInv, TypeOK
<1>5. TypeOK'
  BY <1>2, <1>3 DEF IInv, TypeOK, StartDecision, tables
<1>6. LocksHeld' /\ JobsOK' /\ DecisionsOK'
  <2>1. LocksHeld' /\ DecisionsOK'
    BY <1>1, <1>2, <1>4 DEF IInv, LocksHeld, DecisionsOK
  <2>2. /\ deciding'[d].req = r
        /\ deciding'[d].found = permStatus[requests[r].perm]
    BY <1>1, <1>4
  <2>3. JobsOK'
    BY <1>2, <1>4, <2>2 DEF IInv, JobsOK
  <2> QED  BY <2>1, <2>3
<1>7. DecidedOnce' /\ RequestEndsWithPermission' /\ ApprovedFitsPermission'
  BY <1>2 DEF IInv, DecidedOnce, RequestEndsWithPermission, ApprovedFitsPermission
<1> QED  BY <1>5, <1>6, <1>7 DEF IInv

\* The row lock has one owner.
LEMMA LockRecordOK ==
    ASSUME IInv, NEW d \in Deciders, LockRecord(d)
    PROVE  IInv'
<1>1. /\ deciding[d].stage = "waiting" /\ deciding[d] \in JobRec
      /\ lock[deciding[d].req] = None /\ deciding[d].req \in Reqs
  BY DEF IInv, TypeOK, LockRecord, Idle, JobRec
<1>2. /\ lock' = [lock EXCEPT ![deciding[d].req] = d]
      /\ UNCHANGED <<requests, permStatus, audits>>
  BY DEF LockRecord, tables
<1>3. /\ deciding'[d] = [deciding[d] EXCEPT !.stage = "locked"]
      /\ \A e \in Deciders \ {d} : deciding'[e] = deciding[e]
  BY DEF IInv, TypeOK, LockRecord
<1>4. deciding'[d] \in JobRec
  BY <1>1, <1>3 DEF JobRec
<1>5. TypeOK'
  <2>1. deciding' \in [Deciders -> JobRec \cup {Idle}]
    BY <1>4 DEF IInv, TypeOK, LockRecord
  <2> QED  BY <1>1, <1>2, <2>1 DEF IInv, TypeOK, LockRecord, tables
<1>6. LocksHeld'
  <2> SUFFICES ASSUME NEW e \in Deciders, deciding'[e].stage \in {"locked", "decided"}
               PROVE  lock'[deciding'[e].req] = e
    BY DEF LocksHeld
  <2>1. CASE e = d
    BY <1>1, <1>2, <1>3, <2>1 DEF IInv, TypeOK, JobRec
  <2>2. CASE e # d
    BY <1>1, <1>2, <1>3, <2>2, NoThreadIsNone DEF IInv, TypeOK, LocksHeld
  <2> QED  BY <2>1, <2>2
<1>7. JobsOK' /\ DecisionsOK'
  BY <1>1, <1>2, <1>3 DEF IInv, JobsOK, DecisionsOK, JobRec
<1>8. DecidedOnce' /\ RequestEndsWithPermission' /\ ApprovedFitsPermission'
  BY <1>2 DEF IInv, DecidedOnce, RequestEndsWithPermission, ApprovedFitsPermission
<1> QED  BY <1>5, <1>6, <1>7, <1>8 DEF IInv

\* What is concluded under the lock is justified by the row.
LEMMA ValidateOK ==
    ASSUME IInv, NEW d \in Deciders, Validate(d)
    PROVE  IInv'
<1>1. /\ deciding[d].stage = "locked" /\ deciding[d] \in JobRec
      /\ deciding[d].req \in DOMAIN requests
  BY DEF IInv, TypeOK, JobsOK, Validate, Idle
<1>2. PICK row \in RequestRow : row = requests[deciding[d].req]
  BY <1>1 DEF IInv, TypeOK
<1>3. PICK o : o = Outcome(row, deciding[d].approve, deciding[d].at)
  OBVIOUS
<1>4. /\ deciding'[d] = [deciding[d] EXCEPT !.stage = "decided", !.outcome = o]
      /\ \A e \in Deciders \ {d} : deciding'[e] = deciding[e]
      /\ UNCHANGED <<requests, lock, permStatus, audits>>
  BY <1>2, <1>3 DEF IInv, TypeOK, Validate, tables
<1>5. /\ o \in {"NONE", "EXPIRED", "APPROVED", "REJECTED"}
      /\ o # "NONE" => row.status = "PENDING"
      /\ o = "APPROVED" => Validates(row, deciding[d].at) /\ deciding[d].at < row.exp
  BY <1>1, <1>3, OutcomeSound DEF JobRec
<1>6. deciding'[d] \in JobRec
  BY <1>1, <1>4, <1>5 DEF JobRec
<1>7. TypeOK'
  <2>1. deciding' \in [Deciders -> JobRec \cup {Idle}]
    BY <1>6 DEF IInv, TypeOK, Validate
  <2> QED  BY <2>1 DEF IInv, TypeOK, Validate, tables
<1>8. LocksHeld' /\ JobsOK'
  <2>1. deciding'[d].req = deciding[d].req /\ deciding'[d].found = deciding[d].found
    BY <1>1, <1>4 DEF JobRec
  <2>2. LocksHeld'
    BY <1>1, <1>4, <2>1 DEF IInv, LocksHeld
  <2>3. JobsOK'
    <3> SUFFICES ASSUME NEW e \in Deciders, deciding'[e].stage # "idle"
                 PROVE  /\ deciding'[e].req \in DOMAIN requests
                        /\ deciding'[e].found # "ACTIVE" =>
                             permStatus[requests[deciding'[e].req].perm] # "ACTIVE"
      BY <1>4 DEF JobsOK
    <3>1. /\ deciding[e].stage # "idle" /\ deciding'[e].req = deciding[e].req
          /\ deciding'[e].found = deciding[e].found
      BY <1>1, <1>4, <2>1
    <3> QED  BY <3>1 DEF IInv, JobsOK
  <2> QED  BY <2>2, <2>3
<1>9. OutcomeOK(deciding'[d], row)
  <2>1. o = "APPROVED" => Fits(row) /\ deciding[d].found = "ACTIVE"
    BY <1>1, <1>2, <1>5 DEF Validates, Live, Fits, IInv, JobsOK
  <2> QED  BY <1>1, <1>4, <1>5, <2>1 DEF OutcomeOK, JobRec
<1>10. DecisionsOK'
  BY <1>1, <1>2, <1>4, <1>9 DEF IInv, DecisionsOK, JobRec
<1>11. DecidedOnce' /\ RequestEndsWithPermission' /\ ApprovedFitsPermission'
  BY <1>4 DEF IInv, DecidedOnce, RequestEndsWithPermission, ApprovedFitsPermission
<1> QED  BY <1>7, <1>8, <1>10, <1>11 DEF IInv

\* The effect of a commit that writes.
LEMMA CommitOK ==
    ASSUME IInv, NEW d \in Deciders, Commit(d)
    PROVE  IInv'
<1>1. /\ deciding[d].stage = "decided" /\ deciding[d] \in JobRec
      /\ deciding[d].req \in DOMAIN requests /\ lock[deciding[d].req] = d
      /\ OutcomeOK(deciding[d], requests[deciding[d].req])
  BY DEF IInv, TypeOK, JobsOK, LocksHeld, DecisionsOK, Commit, Idle
<1>2. PICK r \in Reqs : r = deciding[d].req
  BY <1>1 DEF JobRec
<1>3. /\ deciding'[d] = Idle /\ lock' = [lock EXCEPT ![r] = None]
      /\ \A e \in Deciders \ {d} : deciding'[e] = deciding[e]
      /\ permStatus' = permStatus
  BY <1>2 DEF IInv, TypeOK, Commit
<1>4. deciding' \in [Deciders -> JobRec \cup {Idle}] /\ lock' \in [Reqs -> Deciders \cup {None}]
  BY <1>2 DEF IInv, TypeOK, Commit
<1>5. LocksHeld'
  <2> SUFFICES ASSUME NEW e \in Deciders, deciding'[e].stage \in {"locked", "decided"}
               PROVE  lock'[deciding'[e].req] = e
    BY DEF LocksHeld
  <2>1. e # d /\ deciding'[e] = deciding[e] /\ lock[deciding[e].req] = e
    BY <1>3 DEF IInv, LocksHeld, Idle
  <2>2. deciding[e].req # r
    BY <1>1, <1>2, <2>1
  <2> QED  BY <1>3, <2>1, <2>2 DEF IInv, TypeOK
<1>6. CASE deciding[d].outcome = "NONE"
  <2>1. requests' = requests /\ audits' = audits
    BY <1>6 DEF Commit
  <2>2. TypeOK'
    BY <1>4, <2>1 DEF IInv, TypeOK, Commit
  <2>3. JobsOK' /\ DecisionsOK'
    BY <1>3, <2>1 DEF IInv, JobsOK, DecisionsOK, Idle
  <2>4. DecidedOnce' /\ RequestEndsWithPermission' /\ ApprovedFitsPermission'
    BY <2>1 DEF IInv, DecidedOnce, RequestEndsWithPermission, ApprovedFitsPermission
  <2> QED  BY <1>5, <2>2, <2>3, <2>4 DEF IInv
<1>7. CASE deciding[d].outcome # "NONE"
  <2>1. PICK o \in {"EXPIRED", "APPROVED", "REJECTED"} : o = deciding[d].outcome
    BY <1>1, <1>7 DEF JobRec, OutcomeOK
  <2>2. PICK row \in RequestRow : row = requests[r] /\ row.status = "PENDING"
    BY <1>1, <1>2, <1>7 DEF IInv, TypeOK, OutcomeOK
  <2>3. /\ DOMAIN requests' = DOMAIN requests
        /\ requests'[r] = [row EXCEPT !.status = o]
        /\ \A k \in DOMAIN requests \ {r} : requests'[k] = requests[k]
        /\ audits'[r] = Append(audits[r], AuditOf(o))
        /\ \A k \in Reqs \ {r} : audits'[k] = audits[k]
    BY <1>1, <1>2, <1>7, <2>1, <2>2 DEF IInv, TypeOK, Commit
  <2>4. /\ requests'[r] \in RequestRow /\ requests'[r].status = o
        /\ requests'[r].agent = row.agent /\ requests'[r].perm = row.perm
        /\ requests'[r].scope = row.scope /\ requests'[r].money = row.money
        /\ requests'[r].exp = row.exp
    BY <2>3 DEF RequestRow
  <2>5. audits[r] = <<>> /\ audits'[r] = <<AuditOf(o)>>
    <3>1. audits[r] = <<>>
      BY <1>1, <1>2, <2>2 DEF IInv, DecidedOnce
    <3> QED  BY <2>3, <3>1
  <2>6. TypeOK'
    <3>1. requests' \in [DOMAIN requests' -> RequestRow]
      BY <1>2, <1>7, <2>3, <2>4 DEF IInv, TypeOK, Commit
    <3>2. audits' \in [Reqs -> Seq({"APPROVED", "REJECTED"})]
      <4>1. Append(audits[r], AuditOf(o)) \in Seq({"APPROVED", "REJECTED"})
        BY DEF IInv, TypeOK, AuditOf
      <4> QED  BY <1>2, <1>7, <2>1, <4>1 DEF IInv, TypeOK, Commit
    <3> QED  BY <1>4, <2>3, <3>1, <3>2 DEF IInv, TypeOK, Commit
  <2>7. JobsOK'
    <3>1. \A k \in DOMAIN requests : requests'[k].perm = requests[k].perm
      BY <1>2, <2>2, <2>3, <2>4
    <3> QED  BY <1>3, <2>3, <3>1 DEF IInv, JobsOK, Idle
  <2>8. DecisionsOK'
    <3>1. \A e \in Deciders : deciding'[e].stage = "decided" =>
             e # d /\ deciding'[e] = deciding[e] /\ deciding[e].req # r
      BY <1>1, <1>2, <1>3 DEF IInv, LocksHeld, Idle
    <3> QED  BY <1>2, <2>3, <3>1 DEF IInv, JobsOK, DecisionsOK
  <2>9. DecidedOnce'
    BY <1>2, <2>3, <2>4, <2>5 DEF IInv, TypeOK, DecidedOnce
  <2>10. RequestEndsWithPermission'
    <3>1. \A k \in DOMAIN requests : requests'[k].perm = requests[k].perm
                                     /\ requests'[k].exp = requests[k].exp
      BY <1>2, <2>2, <2>3, <2>4
    <3> QED  BY <2>3, <3>1 DEF IInv, RequestEndsWithPermission
  <2>11. ApprovedFitsPermission'
    <3>1. o = "APPROVED" => Fits(row)
      BY <1>1, <1>2, <2>1, <2>2 DEF OutcomeOK
    <3> SUFFICES ASSUME NEW k \in DOMAIN requests, requests'[k].status = "APPROVED"
                 PROVE  Fits(requests'[k])
      BY <2>3 DEF ApprovedFitsPermission, Fits
    <3>2. CASE k = r
      BY <1>2, <2>4, <3>1, <3>2 DEF Fits
    <3>3. CASE k # r
      BY <2>3, <3>3 DEF IInv, ApprovedFitsPermission, Fits
    <3> QED  BY <3>2, <3>3
  <2> QED  BY <1>5, <2>6, <2>7, <2>8, <2>9, <2>10, <2>11 DEF IInv
<1> QED  BY <1>6, <1>7

\* A rolled-back decision leaves no trace.
LEMMA AbortOK ==
    ASSUME IInv, NEW d \in Deciders, Abort(d)
    PROVE  IInv'
<1>1. /\ lock' = [r \in Reqs |-> IF lock[r] = d THEN None ELSE lock[r]]
      /\ deciding'[d] = Idle
      /\ \A e \in Deciders \ {d} : deciding'[e] = deciding[e]
      /\ UNCHANGED <<requests, permStatus, audits>>
  BY DEF IInv, TypeOK, Abort, tables
<1>2. TypeOK'
  BY DEF IInv, TypeOK, Abort, tables
<1>3. LocksHeld'
  <2> SUFFICES ASSUME NEW e \in Deciders, deciding'[e].stage \in {"locked", "decided"}
               PROVE  lock'[deciding'[e].req] = e
    BY DEF LocksHeld
  <2>1. e # d /\ deciding'[e] = deciding[e] /\ lock[deciding[e].req] = e
    BY <1>1 DEF IInv, LocksHeld, Idle
  <2>2. deciding[e].req \in Reqs
    BY <2>1 DEF IInv, TypeOK, JobsOK, Idle
  <2> QED  BY <1>1, <2>1, <2>2
<1>4. JobsOK' /\ DecisionsOK'
  BY <1>1 DEF IInv, JobsOK, DecisionsOK, Idle
<1>5. DecidedOnce' /\ RequestEndsWithPermission' /\ ApprovedFitsPermission'
  BY <1>1 DEF IInv, DecidedOnce, RequestEndsWithPermission, ApprovedFitsPermission
<1> QED  BY <1>2, <1>3, <1>4, <1>5 DEF IInv

\* Every step preserves the invariant.
LEMMA NextOK == IInv /\ [Next]_vars => IInv'
<1> SUFFICES ASSUME IInv, [Next]_vars  PROVE IInv'
  OBVIOUS
<1>1. CASE UNCHANGED vars
  <2>1. TypeOK'
    BY <1>1 DEF IInv, TypeOK, vars
  <2> QED  BY <1>1, <2>1, BystanderOK DEF vars, PermsOnlyDie
<1>2. CASE ExpireRecords
  BY <1>2, ExpireRecordsOK
<1>3. ASSUME NEW w \in Authorizers, NEW r \in Reqs,
             Queue(w, r) \/ \E decision \in {"APPROVED", "REJECTED"} :
                               DecideAtOnce(w, r, decision)
      PROVE  IInv'
  BY <1>3, QueueOK, DecideAtOnceOK
<1>4. ASSUME NEW d \in Deciders, DecideStep(d) \/ Abort(d)
      PROVE  IInv'
  BY <1>4, LockRecordOK, ValidateOK, CommitOK, AbortOK DEF DecideStep
<1> QED
  BY <1>1, <1>2, <1>3, <1>4, TickOK, SetAgentOK, PermissionOK, MatchOK,
     StartDecisionOK DEF Next

-----------------------------------------------------------------------------
\* Every reachable state satisfies the inductive invariant.
THEOREM Invariance == Spec => []IInv
BY InitOK, NextOK, PTL DEF Spec

\* Type correctness of the request table, the locks and the decisions.
THEOREM TypeCorrect == Spec => []TypeOK
BY Invariance, PTL DEF IInv

\* decide_owned_request and _expire_records: a request has one decision, in the
\* table and in the audit log.
THEOREM OneDecision == Spec => []DecidedOnce
BY Invariance, PTL DEF IInv

\* _save_pending_request: no request outlives its permission.
THEOREM DeadlineSafety == Spec => []RequestEndsWithPermission
BY Invariance, PTL DEF IInv

\* _validate_for_approval: what a human approved fits its permission.
THEOREM FitSafety == Spec => []ApprovedFitsPermission
BY Invariance, PTL DEF IInv

\* A yes is honoured only within the request's window, and never when the
\* permission had been revoked or expired before the yes arrived.
THEOREM LiveApproval == Spec => []ApprovalWasLive
<1>1. IInv => ApprovalWasLive
  <2> SUFFICES ASSUME IInv, NEW d \in Deciders, deciding[d].stage = "decided",
                      deciding[d].outcome = "APPROVED"
               PROVE  LET row == requests[deciding[d].req]
                      IN  /\ deciding[d].at < row.exp
                          /\ deciding[d].at < PermTerms[row.perm].exp
                          /\ deciding[d].found = "ACTIVE"
    BY DEF ApprovalWasLive
  <2>1. /\ deciding[d].req \in DOMAIN requests /\ deciding[d] \in JobRec
        /\ OutcomeOK(deciding[d], requests[deciding[d].req])
    BY DEF IInv, TypeOK, JobsOK, DecisionsOK, Idle
  <2>2. PICK row \in RequestRow : row = requests[deciding[d].req]
    BY <2>1 DEF IInv, TypeOK
  <2>3. row.exp <= PermTerms[row.perm].exp
    BY <2>1, <2>2 DEF IInv, RequestEndsWithPermission
  <2>4. row.exp \in Nat /\ deciding[d].at \in Nat /\ PermTerms[row.perm].exp \in Nat
    BY <2>1, <2>2, TermsAssumption DEF JobRec, RequestRow, PermTermSet
  <2> QED  BY <2>1, <2>2, <2>3, <2>4 DEF OutcomeOK
<1> QED  BY <1>1, Invariance, PTL

\* Every request is decided soundly: the promise of decide_owned_request in one.
THEOREM SoundDecision == Spec => []DecisionSound
BY TypeCorrect, OneDecision, LiveApproval, DeadlineSafety, FitSafety, PTL
   DEF DecisionSound

\* _finalize is the only writer of a decision, and it never writes twice.
THEOREM Finality == Spec => FinalIsFinal
<1> DEFINE Kept == \A r \in DOMAIN requests :
                     /\ r \in DOMAIN requests'
                     /\ requests[r].status # "PENDING" => requests'[r] = requests[r]
<1>1. IInv /\ [Next]_vars => [Kept]_vars
  <2> SUFFICES ASSUME IInv, Next  PROVE Kept
    OBVIOUS
  <2>1. CASE requests' = requests
    BY <2>1
  <2>2. ASSUME NEW w \in Authorizers, NEW r \in Reqs, Queue(w, r)
        PROVE  Kept
    BY <2>2 DEF Queue, FreshId
  <2>3. CASE ExpireRecords
    BY <2>3 DEF ExpireRecords, Expired
  <2>4. ASSUME NEW d \in Deciders, Commit(d), requests' # requests
        PROVE  Kept
    <3>1. /\ deciding[d].stage = "decided" /\ deciding[d].outcome # "NONE"
          /\ requests' = [requests EXCEPT ![deciding[d].req].status = deciding[d].outcome]
      BY <2>4 DEF Commit
    <3>2. requests[deciding[d].req].status = "PENDING"
      BY <3>1 DEF IInv, DecisionsOK, OutcomeOK
    <3> QED  BY <3>1, <3>2 DEF IInv, TypeOK
  <2> QED
    BY <2>1, <2>2, <2>3, <2>4
       DEF Next, Tick, SetAgent, ExpirePermission, RevokePermission, MatchPermission,
           MatchDelegated, DecideAtOnce, StartDecision, DecideStep, LockRecord,
           Validate, Abort, tables
<1> QED  BY <1>1, Invariance, PTL DEF Spec, FinalIsFinal

-----------------------------------------------------------------------------
(* The refinement of the abstract authorization service (module Verdicts). *)

\* No decision is from the future; what a decision is about to commit, beyond
\* OutcomeOK: an expiry that is overdue, an approval that was asked for.
TimelyJob(job) ==
    job.stage # "idle" =>
        /\ job.at <= clock
        /\ job.stage = "decided" =>
             /\ job.outcome = "EXPIRED" => requests[job.req].exp <= job.at
             /\ job.outcome = "APPROVED" => job.approve
Timely == \A d \in Deciders : TimelyJob(deciding[d])

\* What never changes of a queued request.
RowsStay ==
    \A r \in DOMAIN requests :
        /\ r \in DOMAIN requests'
        /\ requests'[r].perm = requests[r].perm /\ requests'[r].exp = requests[r].exp

\* A decision in progress, seen with the types of its fields and of its row.
LEMMA JobFacts ==
    ASSUME IInv, NEW d \in Deciders, deciding[d].stage # "idle"
    PROVE  /\ deciding[d] \in JobRec /\ deciding[d].req \in DOMAIN requests
           /\ deciding[d].req \in Reqs /\ deciding[d].at \in Nat /\ deciding[d].approve \in BOOLEAN
           /\ requests[deciding[d].req] \in RequestRow
<1>1. deciding[d] \in JobRec /\ deciding[d].req \in DOMAIN requests
  BY DEF IInv, TypeOK, JobsOK, Idle
<1> QED  BY <1>1 DEF IInv, TypeOK, JobRec

\* The conclusions of decide_owned_request are what its inputs say.
LEMMA OutcomeTimely ==
    ASSUME NEW row \in RequestRow, NEW approve \in BOOLEAN, NEW at \in Nat
    PROVE  /\ Outcome(row, approve, at) = "EXPIRED" => row.exp <= at
           /\ Outcome(row, approve, at) = "APPROVED" => approve
<1>1. row.status \in {"PENDING", "APPROVED", "REJECTED", "EXPIRED"} /\ row.exp \in Nat
  BY DEF RequestRow
<1>2. CASE row.status # "PENDING"
  BY <1>1, <1>2 DEF Outcome
<1>3. CASE row.status = "PENDING" /\ at >= row.exp
  BY <1>1, <1>3 DEF Outcome
<1>4. CASE row.status = "PENDING" /\ at < row.exp
  BY <1>1, <1>4 DEF Outcome
<1> QED  BY <1>1, <1>2, <1>3, <1>4

\* Every step keeps the rows of the queued requests, but for their status.
LEMMA RowsStayOK ==
    ASSUME IInv, [Next]_vars
    PROVE  RowsStay
<1>1. \A r \in DOMAIN requests : requests[r] \in RequestRow
  BY DEF IInv, TypeOK
<1>2. CASE requests' = requests
  BY <1>2 DEF RowsStay
<1>3. ASSUME NEW w \in Authorizers, NEW r \in Reqs, Queue(w, r)
      PROVE  RowsStay
  BY <1>3 DEF Queue, FreshId, RowsStay
<1>4. CASE ExpireRecords
  <2>1. DOMAIN requests' = DOMAIN requests
    BY <1>4 DEF ExpireRecords
  <2>2. \A r \in DOMAIN requests :
          requests'[r] = [requests[r] EXCEPT !.status = "EXPIRED"] \/ requests'[r] = requests[r]
    BY <1>4 DEF ExpireRecords
  <2> QED  BY <1>1, <2>1, <2>2 DEF RowsStay, RequestRow
<1>5. ASSUME NEW d \in Deciders, Commit(d), requests' # requests
      PROVE  RowsStay
  <2>1. requests' = [requests EXCEPT ![deciding[d].req].status = deciding[d].outcome]
    BY <1>5 DEF Commit
  <2>2. /\ DOMAIN requests' = DOMAIN requests
        /\ \A r \in DOMAIN requests :
             requests'[r] = [requests[r] EXCEPT !.status = deciding[d].outcome]
             \/ requests'[r] = requests[r]
    BY <2>1 DEF IInv, TypeOK
  <2> QED  BY <1>1, <2>2 DEF RowsStay, RequestRow
<1> QED
  BY <1>2, <1>3, <1>4, <1>5
     DEF Next, vars, Tick, SetAgent, ExpirePermission, RevokePermission, MatchPermission,
         MatchDelegated, DecideAtOnce, StartDecision, DecideStep, LockRecord,
         Validate, Abort, tables

\* A decision that is left alone stays timely.
LEMMA TimelyStays ==
    ASSUME IInv, Timely, RowsStay, clock' \in Nat, clock <= clock',
           NEW d \in Deciders, deciding'[d] = deciding[d]
    PROVE  TimelyJob(deciding[d])'
<1> SUFFICES ASSUME deciding[d].stage # "idle"
             PROVE  /\ deciding[d].at <= clock'
                    /\ deciding[d].stage = "decided" =>
                         /\ deciding[d].outcome = "EXPIRED" => requests'[deciding[d].req].exp <= deciding[d].at
                         /\ deciding[d].outcome = "APPROVED" => deciding[d].approve
  BY DEF TimelyJob
<1>1. deciding[d].at \in Nat /\ clock \in Nat /\ requests'[deciding[d].req].exp = requests[deciding[d].req].exp
  BY JobFacts DEF RowsStay, IInv, TypeOK
<1>2. TimelyJob(deciding[d])
  BY DEF Timely
<1> QED  BY <1>1, <1>2 DEF TimelyJob

\* The clock of a decision is read when it starts, and its verdict follows from it.
LEMMA TimelyOK ==
    ASSUME IInv, Timely, [Next]_vars
    PROVE  Timely'
<1>1. RowsStay
  BY RowsStayOK
<1>2. clock \in Nat /\ clock' \in Nat /\ clock <= clock'
  <2>1. IInv'
    BY NextOK
  <2>2. clock' = clock \/ clock' = clock + 1
    BY DEF Next, vars, Tick, SetAgent, ExpirePermission, RevokePermission, MatchPermission,
           MatchDelegated, DecideAtOnce, Queue, ExpireRecords, StartDecision, DecideStep,
           LockRecord, Validate, Commit, Abort
  <2> QED  BY <2>1, <2>2 DEF IInv, TypeOK
<1>3. CASE deciding' = deciding
  BY <1>1, <1>2, <1>3, TimelyStays DEF Timely
<1>4. ASSUME NEW d \in Deciders, TimelyJob(deciding[d])',
             \A e \in Deciders \ {d} : deciding'[e] = deciding[e]
      PROVE  Timely'
  BY <1>1, <1>2, <1>4, TimelyStays DEF Timely
<1>5. ASSUME NEW d \in Deciders, NEW r \in DOMAIN requests, NEW b \in BOOLEAN, StartDecision(d, r, b)
      PROVE  Timely'
  <2>1. deciding'[d] = [stage |-> "waiting", req |-> r, approve |-> b, at |-> clock,
                        outcome |-> "PENDING", found |-> permStatus[requests[r].perm]]
    BY <1>5 DEF IInv, TypeOK, StartDecision
  <2>2. /\ deciding'[d].stage = "waiting" /\ deciding'[d].at = clock
        /\ \A e \in Deciders \ {d} : deciding'[e] = deciding[e]
    BY <1>5, <2>1 DEF IInv, TypeOK, StartDecision
  <2> QED  BY <1>2, <1>4, <2>2 DEF TimelyJob
<1>6. ASSUME NEW d \in Deciders, LockRecord(d)
      PROVE  Timely'
  <2>1. deciding[d].stage = "waiting" /\ deciding[d] \in JobRec
    BY <1>6, JobFacts DEF LockRecord
  <2>2. /\ deciding'[d] = [deciding[d] EXCEPT !.stage = "locked"]
        /\ \A e \in Deciders \ {d} : deciding'[e] = deciding[e]
    BY <1>6 DEF IInv, TypeOK, LockRecord
  <2>3. deciding'[d].stage = "locked" /\ deciding'[d].at = deciding[d].at
    BY <2>1, <2>2 DEF JobRec
  <2>4. deciding[d].at <= clock /\ deciding[d].at \in Nat
    BY <2>1 DEF Timely, TimelyJob, JobRec
  <2>5. TimelyJob(deciding[d])'
    BY <1>2, <2>3, <2>4 DEF TimelyJob
  <2> QED  BY <1>4, <2>2, <2>5
<1>7. ASSUME NEW d \in Deciders, Validate(d)
      PROVE  Timely'
  <2>1. deciding[d].stage = "locked" /\ deciding[d] \in JobRec /\ deciding[d].req \in DOMAIN requests
    BY <1>7, JobFacts DEF Validate
  <2>2. PICK row \in RequestRow : row = requests[deciding[d].req]
    BY <2>1, JobFacts
  <2>3. PICK o : o = Outcome(row, deciding[d].approve, deciding[d].at)
    OBVIOUS
  <2>4. /\ deciding'[d] = [deciding[d] EXCEPT !.stage = "decided", !.outcome = o]
        /\ requests' = requests
        /\ \A e \in Deciders \ {d} : deciding'[e] = deciding[e]
    BY <1>7, <2>2, <2>3 DEF IInv, TypeOK, Validate, tables
  <2>5. /\ deciding'[d].at = deciding[d].at /\ deciding'[d].outcome = o
        /\ deciding'[d].req = deciding[d].req /\ deciding'[d].approve = deciding[d].approve
    BY <2>1, <2>4 DEF JobRec
  <2>6. (o = "EXPIRED" => row.exp <= deciding[d].at) /\ (o = "APPROVED" => deciding[d].approve)
    BY <2>1, <2>3, OutcomeTimely DEF JobRec
  <2>7. deciding[d].at <= clock /\ deciding[d].at \in Nat
    BY <2>1 DEF Timely, TimelyJob, JobRec
  <2>8. TimelyJob(deciding[d])'
    BY <1>2, <2>2, <2>4, <2>5, <2>6, <2>7 DEF TimelyJob
  <2> QED  BY <1>4, <2>4, <2>8
<1>8. ASSUME NEW d \in Deciders, Commit(d) \/ Abort(d)
      PROVE  Timely'
  <2>1. deciding'[d].stage = "idle" /\ \A e \in Deciders \ {d} : deciding'[e] = deciding[e]
    BY <1>8 DEF IInv, TypeOK, Commit, Abort, Idle
  <2> QED  BY <1>4, <2>1 DEF TimelyJob
<1> QED
  BY <1>3, <1>5, <1>6, <1>7, <1>8
     DEF Next, vars, Tick, SetAgent, ExpirePermission, RevokePermission, MatchPermission,
         MatchDelegated, DecideAtOnce, Queue, ExpireRecords, DecideStep, threads

\* Nothing has been decided before the first step.
THEOREM Timeliness == Spec => []Timely
<1>1. Init => Timely
  BY DEF Init, Timely, TimelyJob, Idle
<1>2. IInv /\ Timely /\ [Next]_vars => Timely'
  BY TimelyOK
<1> QED  BY <1>1, <1>2, Invariance, PTL DEF Spec

-----------------------------------------------------------------------------
\* What a step leaves of the abstract state.  Who is overdue and whose yes is in
\* time depend on the rows only through what never changes of them.
LEMMA BackedStays ==
    ASSUME IInv, RowsStay, NEW d \in Deciders, deciding'[d] = deciding[d]
    PROVE  Backed'[d] = Backed[d]
<1>1. deciding[d].stage # "idle" =>
        requests'[deciding[d].req].exp = requests[deciding[d].req].exp
  BY JobFacts DEF RowsStay
<1>2. YesInTime(deciding[d])' <=> YesInTime(deciding[d])
  BY <1>1 DEF YesInTime
<1> QED  BY <1>2 DEF Backed

\* The grants and the deadlines of the queued requests, in a step that queues none.
LEMMA GrantsStay ==
    ASSUME IInv, RowsStay, DOMAIN requests' = DOMAIN requests
    PROVE  /\ permStatus' = permStatus => Alive' = Alive
           /\ clock' = clock => Overdue' = Overdue
<1>1. permStatus' = permStatus => Alive' = Alive
  BY DEF RowsStay, Alive
<1>2. clock' = clock => Overdue' = Overdue
  BY DEF RowsStay, Overdue
<1> QED  BY <1>1, <1>2

\* The verdicts, in a step that writes none.
LEMMA VerdictsStay ==
    ASSUME UNCHANGED <<requests, audits>>
    PROVE  Standing' = Standing /\ LastTold' = LastTold
BY DEF Standing, LastTold

\* The deciders, in a step that leaves them alone.
LEMMA BackersStay ==
    ASSUME IInv, RowsStay, deciding' = deciding
    PROVE  Backed' = Backed
<1>1. \A d \in Deciders : Backed'[d] = Backed[d]
  BY BackedStays
<1> QED  BY <1>1 DEF Backed

\* A step of one decider.
LEMMA BackerMoves ==
    ASSUME IInv, RowsStay, NEW d \in Deciders, NEW b, Backed'[d] = b,
           \A e \in Deciders \ {d} : deciding'[e] = deciding[e]
    PROVE  Backed' = [Backed EXCEPT ![d] = b]
<1>1. \A e \in Deciders \ {d} : Backed'[e] = Backed[e]
  BY BackedStays
<1> QED  BY <1>1 DEF Backed

\* Tick: requests only become overdue.
LEMMA TickRefines ==
    ASSUME IInv, RowsStay, Tick
    PROVE  AbstractVerdicts!Elapse
<1>1. /\ UNCHANGED <<requests, audits, permStatus, deciding>> /\ clock' = clock + 1 /\ clock \in Nat
      /\ \A r \in DOMAIN requests : requests[r].exp \in Nat
  BY DEF IInv, TypeOK, RequestRow, Tick, tables, threads
<1>2. Overdue \subseteq Overdue'
  BY <1>1 DEF Overdue
<1>3. Standing' = Standing /\ LastTold' = LastTold /\ Alive' = Alive /\ Backed' = Backed
  BY <1>1, VerdictsStay, BackersStay, GrantsStay
<1> QED  BY <1>2, <1>3 DEF AbstractVerdicts!Elapse

\* A permission that is revoked or expires takes its requests' grants with it.
LEMMA PermissionRefines ==
    ASSUME IInv, RowsStay, NEW p \in Perms, ExpirePermission(p) \/ RevokePermission(p)
    PROVE  AbstractVerdicts!Wither
<1>1. /\ UNCHANGED <<requests, audits, clock, deciding>>
      /\ \A q \in Perms : permStatus'[q] = "ACTIVE" => permStatus[q] = "ACTIVE"
      /\ \A r \in DOMAIN requests : requests[r].perm \in Perms
  BY DEF IInv, TypeOK, RequestRow, ExpirePermission, RevokePermission, threads
<1>2. Alive' \subseteq Alive
  BY <1>1 DEF Alive
<1>3. Standing' = Standing /\ LastTold' = LastTold /\ Overdue' = Overdue /\ Backed' = Backed
  BY <1>1, VerdictsStay, BackersStay, GrantsStay
<1> QED  BY <1>2, <1>3 DEF AbstractVerdicts!Wither

\* A step that writes neither a request nor an audit nor a permission, and in which no
\* yes comes or goes, is none of the abstract service.
LEMMA VerdictStutter ==
    ASSUME IInv, RowsStay, UNCHANGED <<requests, audits, permStatus, clock>>, Backed' = Backed
    PROVE  UNCHANGED AbstractVerdicts!verdictVars
BY VerdictsStay, GrantsStay DEF AbstractVerdicts!verdictVars

\* _save_audit_log: an answer on the spot.
LEMMA AtOnceRefines ==
    ASSUME IInv, RowsStay, NEW w \in Authorizers, NEW r \in Reqs,
           NEW v \in {"APPROVED", "REJECTED"}, DecideAtOnce(w, r, v)
    PROVE  AbstractVerdicts!AtOnce(r, v)
<1>1. /\ UNCHANGED <<requests, permStatus, clock, deciding>>
      /\ r \notin DOMAIN requests /\ audits[r] = <<>>
      /\ audits' = [audits EXCEPT ![r] = Append(audits[r], v)]
  BY DEF DecideAtOnce, FreshId
<1>2. audits'[r] = <<v>> /\ \A k \in Reqs \ {r} : audits'[k] = audits[k]
  BY <1>1 DEF IInv, TypeOK
<1>3. audits'[r] # <<>> /\ audits'[r][1] = v /\ Len(audits'[r]) = 1
  BY <1>2
<1>4. Standing[r] = "none" /\ Standing'[r] = v /\ \A k \in Reqs \ {r} : Standing'[k] = Standing[k]
  BY <1>1, <1>2, <1>3 DEF Standing
<1>5. LastTold'[r] = v /\ \A k \in Reqs \ {r} : LastTold'[k] = LastTold[k]
  BY <1>2, <1>3 DEF LastTold
<1>6. Standing' = [Standing EXCEPT ![r] = v]
  BY <1>4 DEF Standing
<1>7. LastTold' = [LastTold EXCEPT ![r] = v]
  BY <1>5 DEF LastTold
<1>8. Alive' = Alive /\ Overdue' = Overdue /\ Backed' = Backed
  BY <1>1, BackersStay, GrantsStay
<1> QED  BY <1>4, <1>6, <1>7, <1>8 DEF AbstractVerdicts!AtOnce

\* _save_pending_request.
LEMMA QueueRefines ==
    ASSUME IInv, RowsStay, NEW w \in Authorizers, NEW r \in Reqs, Queue(w, r)
    PROVE  AbstractVerdicts!Wait(r)
<1>1. PICK row : /\ requests' = [k \in DOMAIN requests \cup {r} |-> IF k = r THEN row ELSE requests[k]]
                 /\ row.status = "PENDING"
  BY DEF Queue
<1>2. /\ r \notin DOMAIN requests /\ audits[r] = <<>>
      /\ UNCHANGED <<audits, permStatus, clock, deciding>>
  BY DEF Queue, FreshId
<1>3. /\ DOMAIN requests' = DOMAIN requests \cup {r} /\ requests'[r] = row
      /\ \A k \in DOMAIN requests : requests'[k] = requests[k]
  BY <1>1, <1>2
<1>4. Standing[r] = "none" /\ Standing'[r] = "PENDING" /\ \A k \in Reqs \ {r} : Standing'[k] = Standing[k]
  BY <1>1, <1>2, <1>3 DEF Standing
<1>5. Standing' = [Standing EXCEPT ![r] = "PENDING"]
  BY <1>4 DEF Standing
<1>6. LastTold' = LastTold /\ Backed' = Backed
  BY <1>2, BackersStay DEF LastTold
<1>7. Alive' \in {Alive, Alive \cup {r}}
  BY <1>2, <1>3 DEF Alive
<1>8. Overdue' \in {Overdue, Overdue \cup {r}}
  BY <1>2, <1>3 DEF Overdue
<1> QED  BY <1>4, <1>5, <1>6, <1>7, <1>8 DEF AbstractVerdicts!Wait

\* _expire_records: all the rows it matches lapse together.
LEMMA SweepRefines ==
    ASSUME IInv, RowsStay, ExpireRecords
    PROVE  \E R \in SUBSET Reqs : AbstractVerdicts!Lapse(R)
<1> DEFINE Swept == {r \in DOMAIN requests : Expired(r)}
<1>1. /\ DOMAIN requests' = DOMAIN requests /\ UNCHANGED <<permStatus, clock, deciding>>
      /\ \A r \in Swept : /\ requests'[r] = [requests[r] EXCEPT !.status = "EXPIRED"]
                          /\ audits'[r] = Append(audits[r], "REJECTED")
                          /\ requests[r].status = "PENDING" /\ r \in Reqs
                          /\ requests[r].exp <= clock /\ requests[r] \in RequestRow
      /\ \A r \in DOMAIN requests \ Swept : requests'[r] = requests[r]
      /\ \A r \in Reqs \ Swept : audits'[r] = audits[r]
  BY DEF IInv, TypeOK, ExpireRecords, threads, Expired, AuditOf
<1>2. \A r \in Swept : requests'[r].status = "EXPIRED" /\ audits[r] = <<>>
  BY <1>1 DEF RequestRow, IInv, DecidedOnce
<1>3. \A r \in Swept : audits'[r] = <<"REJECTED">>
  BY <1>1, <1>2
<1>4. \A r \in Swept : audits'[r] # <<>> /\ audits'[r][Len(audits'[r])] = "REJECTED"
  BY <1>3
<1>5. \A r \in Swept : Standing[r] = "PENDING" /\ Standing'[r] = "EXPIRED" /\ LastTold'[r] = "REJECTED"
  BY <1>1, <1>2, <1>4 DEF Standing, LastTold
<1>6. \A r \in Reqs \ Swept : Standing'[r] = Standing[r] /\ LastTold'[r] = LastTold[r]
  BY <1>1 DEF Standing, LastTold
<1>7. AbstractVerdicts!Told("EXPIRED") = "REJECTED"
  BY DEF AbstractVerdicts!Told
<1>8. Standing' = [r \in Reqs |-> IF r \in Swept THEN "EXPIRED" ELSE Standing[r]]
  BY <1>5, <1>6 DEF Standing
<1>9. LastTold' = [r \in Reqs |-> IF r \in Swept THEN AbstractVerdicts!Told("EXPIRED") ELSE LastTold[r]]
  <2>1. \A r \in Reqs : LastTold'[r] = IF r \in Swept THEN "REJECTED" ELSE LastTold[r]
    BY <1>5, <1>6
  <2>2. LastTold' = [r \in Reqs |-> LastTold'[r]]
    BY DEF LastTold
  <2> QED  BY <1>7, <2>1, <2>2
<1>10. Alive' = Alive /\ Overdue' = Overdue /\ Backed' = Backed
  BY <1>1, BackersStay, GrantsStay
<1>11. Swept \in SUBSET Reqs /\ Swept \subseteq Overdue
  BY <1>1 DEF Overdue
<1>12. \A r \in Swept : Standing[r] = "PENDING"
  BY <1>5
<1> HIDE DEF Swept
<1>13. AbstractVerdicts!Lapse(Swept)
  BY <1>8, <1>9, <1>10, <1>11, <1>12 DEF AbstractVerdicts!Lapse
<1> QED  BY <1>11, <1>13

\* A yes that comes in time, while the permission is live, backs the request.
LEMMA StartRefines ==
    ASSUME IInv, RowsStay, NEW d \in Deciders, NEW r \in DOMAIN requests, NEW b \in BOOLEAN,
           StartDecision(d, r, b)
    PROVE  AbstractVerdicts!Back(d, r) \/ UNCHANGED AbstractVerdicts!verdictVars
<1>1. deciding'[d] = [stage |-> "waiting", req |-> r, approve |-> b, at |-> clock,
                      outcome |-> "PENDING", found |-> permStatus[requests[r].perm]]
  BY DEF IInv, TypeOK, StartDecision
<1>2. /\ deciding'[d].stage = "waiting" /\ deciding'[d].req = r /\ deciding'[d].approve = b
      /\ deciding'[d].at = clock /\ deciding'[d].found = permStatus[requests[r].perm]
  BY <1>1
<1>3. /\ deciding[d].stage = "idle" /\ UNCHANGED <<requests, audits, permStatus, clock>>
      /\ \A e \in Deciders \ {d} : deciding'[e] = deciding[e]
  BY DEF IInv, TypeOK, StartDecision, tables
<1>4. Backed[d] = None
  BY <1>3 DEF Backed, YesInTime
<1>5. clock \in Nat /\ requests[r].exp \in Nat
  BY DEF IInv, TypeOK, RequestRow
<1>6. CASE b /\ permStatus[requests[r].perm] = "ACTIVE" /\ clock < requests[r].exp
  <2>1. YesInTime(deciding[d])'
    BY <1>2, <1>3, <1>6 DEF YesInTime
  <2>2. Backed'[d] = r
    BY <1>2, <2>1 DEF Backed
  <2>3. Backed' = [Backed EXCEPT ![d] = r]
    BY <1>3, <2>2, BackerMoves
  <2>4. r \in Alive \ Overdue
    BY <1>5, <1>6 DEF Alive, Overdue
  <2>5. Standing' = Standing /\ LastTold' = LastTold /\ Alive' = Alive /\ Overdue' = Overdue
    BY <1>3, VerdictsStay, GrantsStay
  <2> QED  BY <1>4, <2>3, <2>4, <2>5 DEF AbstractVerdicts!Back
<1>7. CASE ~(b /\ permStatus[requests[r].perm] = "ACTIVE" /\ clock < requests[r].exp)
  <2>1. ~YesInTime(deciding[d])'
    BY <1>2, <1>3, <1>7 DEF YesInTime
  <2>2. Backed'[d] = None
    BY <2>1 DEF Backed
  <2>3. Backed' = [Backed EXCEPT ![d] = None]
    BY <1>3, <2>2, BackerMoves
  <2>4. Backed' = Backed
    BY <1>4, <2>3 DEF Backed
  <2> QED  BY <1>3, <2>4, VerdictStutter
<1> QED  BY <1>6, <1>7

\* The lock and the validation change neither who said yes nor when.
LEMMA JobStepRefines ==
    ASSUME IInv, RowsStay, NEW d \in Deciders, LockRecord(d) \/ Validate(d)
    PROVE  UNCHANGED AbstractVerdicts!verdictVars
<1>1. deciding[d].stage \in {"waiting", "locked"} /\ deciding[d] \in JobRec
  BY JobFacts DEF LockRecord, Validate
<1>2. PICK o : deciding'[d] = [deciding[d] EXCEPT !.stage = "locked"]
               \/ deciding'[d] = [deciding[d] EXCEPT !.stage = "decided", !.outcome = o]
  BY DEF IInv, TypeOK, LockRecord, Validate
<1>3. /\ deciding'[d].stage # "idle" /\ deciding'[d].req = deciding[d].req
      /\ deciding'[d].approve = deciding[d].approve /\ deciding'[d].at = deciding[d].at
      /\ deciding'[d].found = deciding[d].found
  BY <1>1, <1>2 DEF JobRec
<1>4. /\ UNCHANGED <<requests, audits, permStatus, clock>>
      /\ \A e \in Deciders \ {d} : deciding'[e] = deciding[e]
  BY DEF IInv, TypeOK, LockRecord, Validate, tables
<1>5. YesInTime(deciding[d])' <=> YesInTime(deciding[d])
  BY <1>1, <1>3, <1>4 DEF YesInTime
<1>6. Backed'[d] = Backed[d]
  BY <1>3, <1>5 DEF Backed
<1>7. Backed' = [Backed EXCEPT ![d] = Backed[d]]
  BY <1>4, <1>6, BackerMoves
<1>8. Backed' = Backed
  BY <1>7 DEF Backed
<1> QED  BY <1>4, <1>8, VerdictStutter

\* A decider that is done backs nothing.
LEMMA DoneBacksNothing ==
    ASSUME IInv, RowsStay, NEW d \in Deciders, Commit(d) \/ Abort(d)
    PROVE  Backed' = [Backed EXCEPT ![d] = None]
<1>1. deciding'[d].stage = "idle" /\ \A e \in Deciders \ {d} : deciding'[e] = deciding[e]
  BY DEF IInv, TypeOK, Commit, Abort, Idle
<1>2. Backed'[d] = None
  BY <1>1 DEF Backed, YesInTime
<1> QED  BY <1>1, <1>2, BackerMoves

\* A decision that ends without a verdict, because it was aborted or came second.
LEMMA NoVerdictRefines ==
    ASSUME IInv, RowsStay, NEW d \in Deciders,
           Abort(d) \/ (Commit(d) /\ deciding[d].outcome = "NONE")
    PROVE  AbstractVerdicts!Withdraw(d)
<1>1. UNCHANGED <<requests, audits, permStatus, clock>>
  BY DEF Abort, Commit, tables
<1>2. Standing' = Standing /\ LastTold' = LastTold /\ Alive' = Alive /\ Overdue' = Overdue
  BY <1>1, VerdictsStay, GrantsStay
<1>3. Backed' = [Backed EXCEPT ![d] = None]
  BY DoneBacksNothing
<1> QED  BY <1>2, <1>3 DEF AbstractVerdicts!Withdraw

\* _finalize: the verdict is told with the status, an approval on a yes in time, an
\* expiry of an overdue request.
LEMMA VerdictRefines ==
    ASSUME IInv, Timely, RowsStay, NEW d \in Deciders, Commit(d), deciding[d].outcome # "NONE"
    PROVE  \E r \in Reqs, v \in {"APPROVED", "REJECTED", "EXPIRED"} : AbstractVerdicts!Decide(d, r, v)
<1>1. /\ deciding[d].stage = "decided" /\ deciding[d] \in JobRec
      /\ deciding[d].req \in DOMAIN requests /\ requests[deciding[d].req] \in RequestRow
      /\ OutcomeOK(deciding[d], requests[deciding[d].req]) /\ TimelyJob(deciding[d])
  BY JobFacts DEF IInv, DecisionsOK, Commit, Timely
<1>2. PICK r \in Reqs : r = deciding[d].req
  BY <1>1 DEF JobRec
<1>3. PICK v \in {"EXPIRED", "APPROVED", "REJECTED"} : v = deciding[d].outcome
  BY <1>1 DEF JobRec, OutcomeOK
<1>4. PICK row \in RequestRow : row = requests[r] /\ row.status = "PENDING"
  BY <1>1, <1>2 DEF OutcomeOK
<1>5. /\ DOMAIN requests' = DOMAIN requests
      /\ requests'[r] = [row EXCEPT !.status = v]
      /\ \A k \in DOMAIN requests \ {r} : requests'[k] = requests[k]
      /\ audits'[r] = Append(audits[r], AuditOf(v))
      /\ \A k \in Reqs \ {r} : audits'[k] = audits[k]
      /\ permStatus' = permStatus /\ clock' = clock
  BY <1>1, <1>2, <1>3, <1>4 DEF IInv, TypeOK, Commit
<1>6. r \in DOMAIN requests /\ requests'[r].status = v /\ audits[r] = <<>>
  BY <1>1, <1>2, <1>4, <1>5 DEF RequestRow, IInv, DecidedOnce
<1>7. audits'[r] = <<AuditOf(v)>>
  BY <1>5, <1>6
<1>8. audits'[r] # <<>> /\ audits'[r][Len(audits'[r])] = AuditOf(v)
  BY <1>7
<1>9. AuditOf(v) = AbstractVerdicts!Told(v)
  BY DEF AuditOf, AbstractVerdicts!Told
<1>10. Standing[r] = "PENDING" /\ Standing'[r] = v /\ \A k \in Reqs \ {r} : Standing'[k] = Standing[k]
  BY <1>4, <1>5, <1>6 DEF Standing
<1>11. LastTold'[r] = AbstractVerdicts!Told(v) /\ \A k \in Reqs \ {r} : LastTold'[k] = LastTold[k]
  BY <1>5, <1>8, <1>9 DEF LastTold
<1>12. Standing' = [Standing EXCEPT ![r] = v]
  BY <1>10 DEF Standing
<1>13. LastTold' = [LastTold EXCEPT ![r] = AbstractVerdicts!Told(v)]
  BY <1>11 DEF LastTold
<1>14. Alive' = Alive /\ Overdue' = Overdue /\ Backed' = [Backed EXCEPT ![d] = None]
  BY <1>5, GrantsStay, DoneBacksNothing
<1>15. v = "APPROVED" => Backed[d] = r
  BY <1>1, <1>2, <1>3, <1>4 DEF OutcomeOK, TimelyJob, Backed, YesInTime
<1>16. v = "EXPIRED" => r \in Overdue
  <2>1. deciding[d].at \in Nat /\ clock \in Nat /\ row.exp \in Nat /\ deciding[d].at <= clock
    BY <1>1, <1>4 DEF JobRec, RequestRow, IInv, TypeOK, TimelyJob
  <2>2. v = "EXPIRED" => row.exp <= deciding[d].at
    BY <1>1, <1>2, <1>3, <1>4 DEF TimelyJob
  <2> QED  BY <1>4, <1>6, <2>1, <2>2 DEF Overdue
<1>17. AbstractVerdicts!Decide(d, r, v)
  BY <1>10, <1>12, <1>13, <1>14, <1>15, <1>16 DEF AbstractVerdicts!Decide
<1> QED  BY <1>3, <1>17

\* Every step of the requests is a step of the abstract service, or none of it.
LEMMA VerdictStep ==
    ASSUME IInv, Timely, [Next]_vars
    PROVE  [AbstractVerdicts!VerdictsNext]_(AbstractVerdicts!verdictVars)
<1> DEFINE Goal == AbstractVerdicts!VerdictsNext \/ UNCHANGED AbstractVerdicts!verdictVars
<1>1. RowsStay
  BY RowsStayOK
<1>2. ASSUME Tick  PROVE Goal
  BY <1>1, <1>2, TickRefines DEF AbstractVerdicts!VerdictsNext
<1>3. ASSUME NEW p \in Perms, ExpirePermission(p) \/ RevokePermission(p)  PROVE Goal
  BY <1>1, <1>3, PermissionRefines DEF AbstractVerdicts!VerdictsNext
<1>4. ASSUME UNCHANGED <<requests, audits, permStatus, clock, deciding>>  PROVE Goal
  BY <1>1, <1>4, BackersStay, VerdictStutter
<1>5. ASSUME NEW w \in Authorizers, NEW r \in Reqs, NEW v \in {"APPROVED", "REJECTED"},
             DecideAtOnce(w, r, v)
      PROVE  Goal
  BY <1>1, <1>5, AtOnceRefines DEF AbstractVerdicts!VerdictsNext
<1>6. ASSUME NEW w \in Authorizers, NEW r \in Reqs, Queue(w, r)  PROVE Goal
  BY <1>1, <1>6, QueueRefines DEF AbstractVerdicts!VerdictsNext
<1>7. ASSUME ExpireRecords  PROVE Goal
  BY <1>1, <1>7, SweepRefines DEF AbstractVerdicts!VerdictsNext
<1>8. ASSUME NEW d \in Deciders, NEW r \in DOMAIN requests, NEW b \in BOOLEAN, StartDecision(d, r, b)
      PROVE  Goal
  <2>1. r \in Reqs
    BY DEF IInv, TypeOK
  <2> QED  BY <1>1, <1>8, <2>1, StartRefines DEF AbstractVerdicts!VerdictsNext
<1>9. ASSUME NEW d \in Deciders, LockRecord(d) \/ Validate(d)  PROVE Goal
  BY <1>1, <1>9, JobStepRefines
<1>10. ASSUME NEW d \in Deciders, Commit(d) \/ Abort(d)  PROVE Goal
  <2>1. CASE Abort(d) \/ deciding[d].outcome = "NONE"
    BY <1>1, <1>10, <2>1, NoVerdictRefines DEF AbstractVerdicts!VerdictsNext
  <2>2. CASE Commit(d) /\ deciding[d].outcome # "NONE"
    BY <1>1, <2>2, VerdictRefines DEF AbstractVerdicts!VerdictsNext
  <2> QED  BY <1>10, <2>1, <2>2
<1>11. ASSUME NEW a \in Agents, NEW b \in BOOLEAN, SetAgent(a, b)  PROVE Goal
  BY <1>4, <1>11 DEF SetAgent, threads
<1>12. ASSUME NEW w \in Authorizers, NEW a \in Agents, NEW p \in Perms, NEW m \in Money,
              MatchPermission(w, a, p, m) \/ MatchDelegated(w, a, p, m)
       PROVE  Goal
  BY <1>4, <1>12 DEF MatchPermission, MatchDelegated, tables
<1>13. ASSUME UNCHANGED vars  PROVE Goal
  BY <1>4, <1>13 DEF vars
<1> HIDE DEF Goal
<1>14. ASSUME NEW d \in Deciders, DecideStep(d) \/ Abort(d)  PROVE Goal
  BY <1>9, <1>10, <1>14 DEF DecideStep
<1>15. ASSUME Next  PROVE Goal
  BY <1>2, <1>3, <1>5, <1>6, <1>7, <1>8, <1>11, <1>12, <1>14, <1>15 DEF Next
<1>16. Goal
  BY <1>13, <1>15
<1> QED  BY <1>16 DEF Goal

\* Before the first request nothing stands, is told or is backed.
LEMMA VerdictInitOK == Init => AbstractVerdicts!VerdictsInit
<1> SUFFICES ASSUME Init  PROVE AbstractVerdicts!VerdictsInit
  OBVIOUS
<1>1. Standing = [r \in Reqs |-> "none"] /\ LastTold = [r \in Reqs |-> None]
  BY DEF Init, Standing, LastTold
<1>2. Alive = {} /\ Overdue = {}
  BY DEF Init, Alive, Overdue
<1>3. Backed = [d \in Deciders |-> None]
  BY DEF Init, Backed, YesInTime, Idle
<1> QED  BY <1>1, <1>2, <1>3 DEF AbstractVerdicts!VerdictsInit

\* authorize_action, decide_owned_request and _expire_records implement the abstract
\* authorization service: a queued request is approved only on a yes that came in time and
\* while its permission was live, expired only when overdue, and told once, for good.
THEOREM VerdictsTheorem == Spec => ImplementsVerdicts
<1>1. Init => AbstractVerdicts!VerdictsInit
  BY VerdictInitOK
<1>2. IInv /\ Timely /\ [Next]_vars => [AbstractVerdicts!VerdictsNext]_(AbstractVerdicts!verdictVars)
  BY VerdictStep
<1> QED
  BY <1>1, <1>2, Invariance, Timeliness, PTL
     DEF Spec, ImplementsVerdicts, AbstractVerdicts!VerdictsSpec
=============================================================================
