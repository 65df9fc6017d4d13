---------------------------- MODULE AgentsProofs ----------------------------
(***************************************************************************)
(* What holds of an agent for any number of agents, users, sessions and    *)
(* credentials, however handlers that loaded a row overlap.                *)
(*                                                                         *)
(* Governance: a session writes the columns it changed in its copy, so     *)
(* what matters of the copy is what survives other commits: a row that was *)
(* loaded exists, and a review period that was loaded is still there       *)
(* (LoadedOK).                                                             *)
(*                                                                         *)
(* Credentials: what a registrar that signs, and a verifier between its    *)
(* reads, still know (SigningOK, VerifyingOK).                             *)
(*                                                                         *)
(* CrossOrg: the rows of a pair of organizations, unless handlers that     *)
(* work on the same row overlapped (OneAtWork).                            *)
(*                                                                         *)
(* AgentServices: the chain that an unbroken line of calls passes on is    *)
(* the line itself (ChainOK); an endpoint's row in hand is what its one    *)
(* handler loaded (HoldsOK, SvLoadedOK), and a failure of it that is not   *)
(* on the row yet is being counted (HealthOK).                             *)
(***************************************************************************)
EXTENDS AgentTrust, FiniteSetTheorems, SequenceTheorems, TLAPS

HistoryRow == [old : Users, new : NewOwners]
JobRec ==
    [stage : {"loaded", "bulk"}, req : Requests, todo : SUBSET Agents,
     rows : UNION {[D -> AgentRow] : D \in SUBSET Agents}]

\* The tables, and the jobs as functions.
Typed ==
    /\ GovTypeOK
    /\ job \in [Sessions -> {GovIdle} \cup JobRec]
    /\ trail \in [Agents -> Seq(HistoryRow)]

\* What a copy still says of the row, whatever was committed since.
CopyOK(s, b) ==
    /\ agent[b].status # "none" /\ job[s].rows[b].status # "none"
    /\ job[s].rows[b].until # None => agent[b].until # None
    /\ job[s].req.kind = "scan" => job[s].rows[b].status = "active"
LoadedOK ==
    \A s \in Sessions : job[s].stage = "loaded" =>
        DOMAIN job[s].rows # {} /\ \A b \in DOMAIN job[s].rows : CopyOK(s, b)

\* An agent that does not exist has no history.
UnbornOK == \A a \in Agents : agent[a].status = "none" => trail[a] = <<>>

GovInv == Typed /\ LoadedOK /\ UnbornOK /\ ActiveHasWindow /\ OwnerTrail

-----------------------------------------------------------------------------
(* The handler's copy.                                                     *)

\* A commit writes a column exactly where the copy was changed.
LEMMA FlushFacts ==
    ASSUME NEW row \in AgentRow, NEW loaded \in AgentRow, NEW edited \in AgentRow,
           NEW new, new = Flush(row, loaded, edited)
    PROVE  /\ new \in AgentRow
           /\ new.status = IF edited.status = loaded.status THEN row.status ELSE edited.status
           /\ new.owner = IF edited.owner = loaded.owner THEN row.owner ELSE edited.owner
           /\ new.until = IF edited.until = loaded.until THEN row.until ELSE edited.until
<1>1. DOMAIN row = {"status", "owner", "until", "described"}
  BY DEF AgentRow
<1>2. /\ DOMAIN new = {"status", "owner", "until", "described"}
      /\ \A f \in DOMAIN row : new[f] = IF edited[f] = loaded[f] THEN row[f] ELSE edited[f]
  BY <1>1 DEF Flush
<1>3. new = [status |-> new.status, owner |-> new.owner, until |-> new.until, described |-> new.described]
  BY <1>1, <1>2 DEF Flush
<1>4. /\ new.status \in Statuses \cup {"none"} /\ new.owner \in Users
      /\ new.until \in Nat \cup {None} /\ new.described \in BOOLEAN
  BY <1>1, <1>2 DEF AgentRow
<1>5. new \in AgentRow
  BY <1>3, <1>4 DEF AgentRow
<1> QED  BY <1>1, <1>2, <1>5

\* A transition aims at a status of the state machine.
LEMMA AimTyped ==
    ASSUME NEW r \in Requests, r.kind \in {"transition", "retire"}
    PROVE  Aim(r) \in Statuses
<1>1. r.kind = "transition" => r.target \in Statuses
  BY RequestsAssumption DEF AllRequests
<1> QED  BY <1>1 DEF Aim, normalize_status, Statuses

\* What an operation makes of its copy: the columns that it may change, and how.
LEMMA EditFacts ==
    ASSUME NEW row \in AgentRow, NEW r \in Requests, row.status # "none", govNow \in Nat, policy \in PolicyRow,
           NEW e, e = Edit(row, r)
    PROVE  /\ e \in AgentRow /\ e.status # "none"
           /\ e.until = row.until \/ e.until # None
           /\ e.owner = IF r.kind = "transfer" /\ r.to.type = "USER" THEN r.to.id ELSE row.owner
           /\ (e.status = "active" /\ e.status # row.status) =>
                 e.until # None \/ (r.kind = "patch" /\ r.status = "active")
<1>0. Window \in Nat /\ Window # None
  BY PeriodAssumption DEF Window, None
<1>1. CASE r.kind \in {"transition", "retire"}
  <2>1. Aim(r) \in Statuses
    BY <1>1, AimTyped
  <2>2. e = Transitioned(row, Aim(r)) /\ r.kind # "transfer"
    BY <1>1 DEF Edit
  <2>3. /\ e \in AgentRow /\ e.status = Aim(r) /\ e.owner = row.owner
        /\ e.until = IF Aim(r) = "active" /\ row.until = None THEN Window ELSE row.until
    BY <1>0, <2>1, <2>2 DEF Transitioned, AgentRow
  <2> QED  BY <1>0, <2>1, <2>2, <2>3 DEF Statuses
<1>2. CASE r.kind = "transfer"
  <2>1. r.to \in NewOwners
    BY <1>2, RequestsAssumption DEF AllRequests
  <2>2. r.to.type = "USER" => r.to.id \in Users
    BY <2>1 DEF NewOwners
  <2>3. e = IF r.to.type = "USER" THEN [row EXCEPT !.owner = r.to.id] ELSE row
    BY <1>2 DEF Edit
  <2> QED  BY <1>2, <2>2, <2>3 DEF AgentRow
<1>3. CASE r.kind = "patch"
  <2>1. r.status \in Statuses
    BY <1>3, RequestsAssumption DEF AllRequests
  <2>2. e = [row EXCEPT !.status = r.status]
    BY <1>3 DEF Edit
  <2> QED  BY <1>3, <2>1, <2>2 DEF AgentRow, Statuses
<1>4. CASE r.kind = "describe"
  <2>1. e = [row EXCEPT !.described = TRUE]
    BY <1>4 DEF Edit
  <2> QED  BY <1>4, <2>1 DEF AgentRow
<1>5. CASE r.kind = "review"
  BY <1>5 DEF Edit
<1>6. CASE r.kind = "decide"
  <2>1. e = Decided(row, r.decision)
    BY <1>6 DEF Edit
  <2> QED  BY <1>0, <1>6, <2>1 DEF Decided, AgentRow, Statuses
<1>7. CASE r.kind = "scan"
  <2>1. e = Expired(row)
    BY <1>7 DEF Edit
  <2>2. \E w \in {"suspended", "review_required", row.status} : e = [row EXCEPT !.status = w]
    BY <2>1 DEF Expired
  <2> QED  BY <1>7, <2>2 DEF AgentRow, Statuses
<1>8. r.kind \in {"transition", "retire", "transfer", "patch", "describe", "review", "decide", "scan"}
  BY RequestsAssumption DEF AllRequests
<1> QED  BY <1>1, <1>2, <1>3, <1>4, <1>5, <1>6, <1>7, <1>8

-----------------------------------------------------------------------------
(* Steps of the handlers before they commit.                               *)

\* What GovTypeOK says of a job.
LEMMA JobFits ==
    ASSUME NEW j \in {GovIdle} \cup JobRec
    PROVE  j = GovIdle \/ (/\ j.stage \in {"loaded", "bulk"}
                           /\ j.req \in Requests /\ j.todo \subseteq Agents
                           /\ j.rows \in UNION {[D -> AgentRow] : D \in SUBSET Agents}
                           /\ DOMAIN j.rows \subseteq Agents
                           /\ \A b \in DOMAIN j.rows : j.rows[b] \in AgentRow)
<1> SUFFICES ASSUME j # GovIdle
             PROVE  /\ DOMAIN j.rows \subseteq Agents
                    /\ \A b \in DOMAIN j.rows : j.rows[b] \in AgentRow
  BY DEF JobRec
<1>1. PICK D \in SUBSET Agents : j.rows \in [D -> AgentRow]
  BY DEF JobRec
<1> QED  BY <1>1

\* A session's job changes, and the tables do not.
LEMMA JobStep ==
    ASSUME GovInv, NEW s \in Sessions, NEW j \in {GovIdle} \cup JobRec,
           job' = [job EXCEPT ![s] = j],
           UNCHANGED <<govNow, agent, policy, cert, live, trail, patched>>,
           j # GovIdle /\ j.stage = "loaded" => DOMAIN j.rows # {} /\
               \A b \in DOMAIN j.rows :
                   /\ agent[b].status # "none" /\ j.rows[b].status # "none"
                   /\ j.rows[b].until # None => agent[b].until # None
                   /\ j.req.kind = "scan" => j.rows[b].status = "active"
    PROVE  GovInv'
<1>1. job' \in [Sessions -> {GovIdle} \cup JobRec]
  BY DEF GovInv, Typed
<1>2. GovTypeOK'
  BY <1>1, JobFits DEF GovInv, Typed, GovTypeOK
<1>3. LoadedOK'
  <2> SUFFICES ASSUME NEW t \in Sessions, job'[t].stage = "loaded"
               PROVE  DOMAIN job'[t].rows # {} /\ \A b \in DOMAIN job'[t].rows : CopyOK(t, b)'
    BY DEF LoadedOK
  <2>1. CASE t = s
    <3>1. job'[t] = j /\ j # GovIdle
      BY <2>1 DEF GovInv, Typed, GovIdle
    <3> QED  BY <3>1 DEF CopyOK
  <2>2. CASE t # s
    <3>1. job'[t] = job[t]
      BY <2>2 DEF GovInv, Typed
    <3> QED  BY <3>1 DEF CopyOK, GovInv, LoadedOK
  <2> QED  BY <2>1, <2>2
<1> QED  BY <1>1, <1>2, <1>3 DEF GovInv, Typed, UnbornOK, ActiveHasWindow, OwnerTrail, LastEffective

\* The rows that a request is about are agents' rows.
LEMMA TargetsTyped ==
    ASSUME GovInv, NEW r \in Requests, NEW a \in Agents
    PROVE  Targets(r, a) \subseteq Agents
<1>1. r.kind = "decide" => r.cert \in Certs
  BY RequestsAssumption DEF AllRequests
<1>2. r.kind = "decide" => cert[r.cert].agent \in Agents
  BY <1>1 DEF GovInv, Typed, GovTypeOK, CertRow
<1> QED  BY <1>2 DEF Targets

\* A copy that is loaded is the row.
LEMMA LoadOK ==
    ASSUME GovInv, NEW s \in Sessions, NEW r \in Requests, NEW a \in Agents,
           NEW todo \in SUBSET Agents, Load(s, r, a, todo)
    PROVE  GovInv'
<1> DEFINE D == Targets(r, a)
           copy == [b \in D |-> agent[b]]
           j == [stage |-> "loaded", req |-> r, todo |-> todo, rows |-> copy]
<1>1. D \subseteq Agents
  BY TargetsTyped
<1>2. copy \in [D -> AgentRow]
  BY <1>1 DEF GovInv, Typed, GovTypeOK
<1>3. copy \in UNION {[E -> AgentRow] : E \in SUBSET Agents}
  BY <1>1, <1>2
<1>4. j \in JobRec
  BY <1>3 DEF JobRec
<1>5. job' = [job EXCEPT ![s] = j] /\ UNCHANGED <<govNow, agent, policy, cert, live, trail, patched>>
  BY DEF Load
<1>6. D # {} /\ \A b \in D : agent[b].status # "none"
  BY DEF Load
<1>7. r.kind = "scan" => \A b \in D : agent[b].status = "active"
  BY DEF Targets, Overdue
<1>8. j.rows = copy /\ j.req = r /\ DOMAIN copy = D /\ \A b \in D : copy[b] = agent[b]
  OBVIOUS
<1> HIDE DEF j, copy, D
<1> QED  BY <1>4, <1>5, <1>6, <1>7, <1>8, JobStep

\* A job that is done is given up, or goes on to the next agent of its bulk request.
LEMMA DoneTyped ==
    ASSUME GovInv, NEW s \in Sessions, job[s].stage = "loaded"
    PROVE  \E j \in {GovIdle} \cup JobRec :
               Done(s) = [job EXCEPT ![s] = j] /\ (j # GovIdle => j.stage = "bulk")
<1>1. job[s] \in JobRec
  BY DEF GovInv, Typed, GovIdle
<1>2. PICK j : j = IF job[s].todo = {} THEN GovIdle ELSE [job[s] EXCEPT !.stage = "bulk"]
  OBVIOUS
<1>3. j \in {GovIdle} \cup JobRec /\ (j # GovIdle => j.stage = "bulk")
  BY <1>1, <1>2 DEF JobRec
<1>4. Done(s) = [job EXCEPT ![s] = j]
  BY <1>2 DEF Done
<1> QED  BY <1>3, <1>4

LEMMA RefusedOK ==
    ASSUME GovInv, NEW s \in Sessions, NEW u \in Users, Refused(s, u)
    PROVE  GovInv'
<1>1. PICK j \in {GovIdle} \cup JobRec :
         Done(s) = [job EXCEPT ![s] = j] /\ (j # GovIdle => j.stage = "bulk")
  BY DoneTyped DEF Refused
<1> QED  BY <1>1, JobStep DEF Refused

-----------------------------------------------------------------------------
(* The tables.                                                             *)

LEMMA InitOK == GovInit => GovInv
<1> SUFFICES ASSUME GovInit  PROVE GovInv
  OBVIOUS
<1>1. (CHOOSE u \in Users : TRUE) \in Users /\ (CHOOSE a \in Agents : TRUE) \in Agents
  BY PopulationAssumption
<1>2. \A a \in Agents : agent[a] = [status |-> "none", owner |-> CHOOSE u \in Users : TRUE,
                                     until |-> None, described |-> FALSE]
  BY DEF GovInit
<1>3. agent \in [Agents -> AgentRow]
  BY <1>1 DEF GovInit, AgentRow
<1>4. cert \in [Certs -> CertRow]
  BY <1>1 DEF GovInit, CertRow
<1>5. trail \in [Agents -> Seq(HistoryRow)] /\ job \in [Sessions -> {GovIdle} \cup JobRec]
  BY DEF GovInit
<1>6. GovTypeOK
  BY <1>3, <1>4, <1>5, PeriodAssumption, PoliciesAssumption DEF GovInit, GovTypeOK, HistoryRow
<1>7. LoadedOK /\ UnbornOK /\ ActiveHasWindow /\ OwnerTrail
  BY <1>2 DEF GovInit, LoadedOK, GovIdle, UnbornOK, ActiveHasWindow, OwnerTrail, LastEffective
<1> QED  BY <1>5, <1>6, <1>7 DEF GovInv, Typed

\* The clock, and grants of links, concern no agent's row.
LEMMA OutsideOK ==
    ASSUME GovInv, GovTick \/ (\E l \in Links : GrantLink(l)) \/ UNCHANGED govVars
    PROVE  GovInv'
<1>1. UNCHANGED <<agent, policy, cert, job, trail, patched>> /\ live' \subseteq Links
      /\ govNow' \in 0 .. MaxTime
  BY PeriodAssumption DEF GovTick, GrantLink, govVars, GovInv, Typed, GovTypeOK
<1> QED  BY <1>1 DEF GovInv, Typed, GovTypeOK, LoadedOK, CopyOK, UnbornOK, ActiveHasWindow, OwnerTrail, LastEffective

\* An agent that comes into being had no history, and was in no session's copy.
LEMMA BirthOK ==
    ASSUME GovInv, NEW a \in Agents, NEW u \in Users, NEW d \in BOOLEAN,
           Register(a, u) \/ ImportAgent(a, u, d)
    PROVE  GovInv'
<1>1. /\ agent[a].status = "none" /\ agent[a] \in AgentRow
      /\ UNCHANGED <<govNow, policy, cert, job, live, trail, patched>>
  BY DEF Register, ImportAgent, GovInv, Typed, GovTypeOK
<1>2. PICK row \in AgentRow : agent' = [agent EXCEPT ![a] = row] /\ row.status = "registered"
                              /\ row.until = agent[a].until
  <2>1. CASE Register(a, u)
    <3>1. PICK row : row = [agent[a] EXCEPT !.status = "registered", !.owner = u]
      OBVIOUS
    <3>2. row \in AgentRow /\ row.status = "registered" /\ row.until = agent[a].until
      BY <1>1, <3>1 DEF AgentRow, Statuses
    <3>3. agent' = [agent EXCEPT ![a] = row]
      BY <2>1, <3>1 DEF Register, GovInv, Typed, GovTypeOK
    <3> QED  BY <3>2, <3>3
  <2>2. CASE ImportAgent(a, u, d)
    <3>1. PICK row : row = [agent[a] EXCEPT !.status = "registered", !.owner = u, !.described = d]
      OBVIOUS
    <3>2. row \in AgentRow /\ row.status = "registered" /\ row.until = agent[a].until
      BY <1>1, <3>1 DEF AgentRow, Statuses
    <3>3. agent' = [agent EXCEPT ![a] = row]
      BY <2>2, <3>1 DEF ImportAgent, GovInv, Typed, GovTypeOK
    <3> QED  BY <3>2, <3>3
  <2> QED  BY <2>1, <2>2
<1>3. agent' \in [Agents -> AgentRow] /\ agent'[a] = row /\ \A b \in Agents \ {a} : agent'[b] = agent[b]
  BY <1>2 DEF GovInv, Typed, GovTypeOK
<1>4. Typed'
  BY <1>1, <1>3 DEF GovInv, Typed, GovTypeOK
<1>5. LoadedOK'
  <2> SUFFICES ASSUME NEW s \in Sessions, job[s].stage = "loaded"
               PROVE  DOMAIN job[s].rows # {} /\ \A b \in DOMAIN job[s].rows : CopyOK(s, b)'
    BY <1>1 DEF LoadedOK
  <2>1. DOMAIN job[s].rows # {} /\ \A b \in DOMAIN job[s].rows : CopyOK(s, b)
    BY DEF GovInv, LoadedOK
  <2>2. DOMAIN job[s].rows \subseteq Agents
    BY JobFits DEF GovInv, Typed, GovIdle
  <2> QED  BY <1>1, <1>3, <2>1, <2>2 DEF CopyOK
<1>6. UnbornOK' /\ ActiveHasWindow'
  BY <1>1, <1>2, <1>3 DEF GovInv, UnbornOK, ActiveHasWindow
<1>7. OwnerTrail'
  <2>1. DOMAIN trail[a] = {}
    BY <1>1 DEF GovInv, UnbornOK
  <2> QED  BY <1>1, <1>3, <2>1 DEF GovInv, OwnerTrail, LastEffective
<1> QED  BY <1>4, <1>5, <1>6, <1>7 DEF GovInv

-----------------------------------------------------------------------------
(* The commit.                                                             *)

\* A copy whose edit may be committed: what becomes of the row.
LEMMA CommitRow ==
    ASSUME GovInv, NEW s \in Sessions, NEW u \in Users, Commit(s, u), NEW b \in DOMAIN job[s].rows
    PROVE  LET row == job[s].rows[b]  r == job[s].req IN
           /\ b \in Agents /\ row \in AgentRow /\ agent'[b] \in AgentRow /\ r \in Requests
           /\ agent'[b].status # "none"
           /\ agent[b].until # None => agent'[b].until # None
           /\ (agent'[b].status = "active" /\ agent'[b].until = None) => b \in patched'
           /\ agent'[b].owner =
                 IF r.kind = "transfer" /\ r.to.type = "USER" /\ r.to.id # row.owner
                 THEN r.to.id ELSE agent[b].owner
<1> DEFINE row == job[s].rows[b]
           r == job[s].req
<1>1. /\ job[s] \in JobRec /\ b \in Agents /\ row \in AgentRow /\ r \in Requests
      /\ agent[b] \in AgentRow /\ govNow \in Nat /\ policy \in PolicyRow
  <2>1. job[s] \in JobRec
    BY DEF Commit, GovInv, Typed, GovIdle
  <2>2. b \in Agents /\ row \in AgentRow /\ r \in Requests
    BY <2>1, JobFits DEF Commit, GovIdle
  <2> QED  BY <2>1, <2>2, PeriodAssumption DEF GovInv, Typed, GovTypeOK
<1>2. CopyOK(s, b)
  BY DEF Commit, GovInv, LoadedOK
<1>3. PICK e : e = Edit(row, r)
  OBVIOUS
<1>4. /\ e \in AgentRow /\ e.status # "none"
      /\ e.until = row.until \/ e.until # None
      /\ e.owner = IF r.kind = "transfer" /\ r.to.type = "USER" THEN r.to.id ELSE row.owner
      /\ (e.status = "active" /\ e.status # row.status) =>
            e.until # None \/ (r.kind = "patch" /\ r.status = "active")
  BY <1>1, <1>2, <1>3, EditFacts DEF CopyOK
<1>5. agent'[b] = Flush(agent[b], row, e)
  BY <1>1, <1>3 DEF Commit
<1>6. PICK new : new = agent'[b]
  OBVIOUS
<1>7. /\ new \in AgentRow
      /\ new.status = IF e.status = row.status THEN agent[b].status ELSE e.status
      /\ new.owner = IF e.owner = row.owner THEN agent[b].owner ELSE e.owner
      /\ new.until = IF e.until = row.until THEN agent[b].until ELSE e.until
  BY <1>1, <1>4, <1>5, <1>6, FlushFacts
<1>8. patched \subseteq patched' /\ (r.kind = "patch" /\ r.status = "active" => b \in patched')
  BY DEF Commit
<1>9. (agent[b].status = "active" /\ agent[b].until = None) => b \in patched
  BY <1>1 DEF GovInv, ActiveHasWindow
<1>10. (new.status = "active" /\ new.until = None) => b \in patched'
  BY <1>2, <1>4, <1>7, <1>8, <1>9 DEF CopyOK
<1>11. (agent[b].until # None => new.until # None) /\ new.status # "none"
  BY <1>2, <1>4, <1>7 DEF CopyOK
<1>12. new.owner = IF r.kind = "transfer" /\ r.to.type = "USER" /\ r.to.id # row.owner
                   THEN r.to.id ELSE agent[b].owner
  BY <1>4, <1>7
<1> HIDE DEF row, r
<1>13. /\ b \in Agents /\ row \in AgentRow /\ agent'[b] \in AgentRow /\ r \in Requests
       /\ agent'[b].status # "none"
       /\ agent[b].until # None => agent'[b].until # None
       /\ (agent'[b].status = "active" /\ agent'[b].until = None) => b \in patched'
       /\ agent'[b].owner =
             IF r.kind = "transfer" /\ r.to.type = "USER" /\ r.to.id # row.owner
             THEN r.to.id ELSE agent[b].owner
  BY <1>1, <1>6, <1>7, <1>10, <1>11, <1>12
<1> QED  BY <1>13 DEF row, r

\* The rows of a commit keep their types, and so do the reviews and the ownership history.
LEMMA CommitTyped ==
    ASSUME GovInv, NEW s \in Sessions, NEW u \in Users, Commit(s, u)
    PROVE  Typed'
<1> DEFINE held == job[s].rows
           r == job[s].req
<1>1. /\ job[s] \in JobRec /\ DOMAIN held \subseteq Agents /\ DOMAIN held # {} /\ r \in Requests
      /\ \A b \in DOMAIN held : held[b] \in AgentRow
  BY JobFits DEF Commit, GovInv, Typed, GovIdle, LoadedOK
<1>2. agent' \in [Agents -> AgentRow]
  <2>1. \A b \in DOMAIN held : agent'[b] \in AgentRow
    BY CommitRow
  <2>2. /\ DOMAIN agent' = Agents /\ agent' = [b \in Agents |-> agent'[b]]
        /\ \A b \in Agents \ DOMAIN held : agent'[b] = agent[b]
    BY DEF Commit
  <2> QED  BY <2>1, <2>2 DEF GovInv, Typed, GovTypeOK
<1>3. cert' \in [Certs -> CertRow]
  <2>1. PICK a : a = CHOOSE b \in DOMAIN held : TRUE
    OBVIOUS
  <2>2. a \in Agents
    BY <1>1, <2>1
  <2>3. cert \in [Certs -> CertRow] /\ cert' = CertWrite(r, held)
    BY DEF GovInv, Typed, GovTypeOK, Commit
  <2>4. CASE r.kind = "review"
    <3>1. r.cert \in Certs
      BY <1>1, <2>4, RequestsAssumption DEF AllRequests
    <3>2. cert' = [cert EXCEPT ![r.cert] = [agent |-> a, status |-> "PENDING"]]
      BY <2>1, <2>3, <2>4 DEF CertWrite
    <3>3. [agent |-> a, status |-> "PENDING"] \in CertRow
      BY <2>2 DEF CertRow
    <3> QED  BY <2>3, <3>1, <3>2, <3>3
  <2>5. CASE r.kind = "decide"
    <3>1. r.cert \in Certs /\ r.decision \in {"APPROVED", "REJECTED"}
      BY <1>1, <2>5, RequestsAssumption DEF AllRequests
    <3>2. PICK c : c = [cert[r.cert] EXCEPT !.status = r.decision]
      OBVIOUS
    <3>3. c \in CertRow
      BY <2>3, <3>1, <3>2 DEF CertRow
    <3>4. cert' = [cert EXCEPT ![r.cert] = c]
      BY <2>3, <2>5, <3>2 DEF CertWrite
    <3> QED  BY <2>3, <3>3, <3>4
  <2>6. CASE r.kind \notin {"review", "decide"}
    BY <2>3, <2>6 DEF CertWrite
  <2> QED  BY <2>4, <2>5, <2>6
<1>4. trail' \in [Agents -> Seq(HistoryRow)]
  <2>1. \A b \in DOMAIN held : Recorded(b, held[b], r) \in Seq(HistoryRow)
    <3> SUFFICES ASSUME NEW b \in DOMAIN held  PROVE Recorded(b, held[b], r) \in Seq(HistoryRow)
      OBVIOUS
    <3>1. trail[b] \in Seq(HistoryRow) /\ held[b].owner \in Users
      BY <1>1 DEF GovInv, Typed, AgentRow
    <3>2. CASE r.kind = "transfer"
      <4>1. PICK h : h = [old |-> held[b].owner, new |-> r.to]
        OBVIOUS
      <4>2. r.to \in NewOwners
        BY <1>1, <3>2, RequestsAssumption DEF AllRequests
      <4>3. h \in HistoryRow
        BY <3>1, <4>1, <4>2 DEF HistoryRow
      <4>4. Recorded(b, held[b], r) = Append(trail[b], h)
        BY <3>2, <4>1 DEF Recorded
      <4> QED  BY <3>1, <4>3, <4>4
    <3>3. CASE r.kind # "transfer"
      BY <3>1, <3>3 DEF Recorded
    <3> QED  BY <3>2, <3>3
  <2>2. trail' = [b \in Agents |-> IF b \in DOMAIN held THEN Recorded(b, held[b], r) ELSE trail[b]]
    BY DEF Commit
  <2> QED  BY <1>1, <2>1, <2>2 DEF GovInv, Typed
<1>5. live' \subseteq Links /\ UNCHANGED <<govNow, policy>>
  BY DEF Commit, Cleanup, GovInv, Typed, GovTypeOK
<1>6. job' \in [Sessions -> {GovIdle} \cup JobRec]
  BY DoneTyped DEF Commit, GovInv, Typed
<1>7. \A t \in Sessions : job'[t] = GovIdle \/ (/\ job'[t].stage \in {"loaded", "bulk"}
                              /\ job'[t].req \in Requests /\ job'[t].todo \subseteq Agents
                              /\ \A b \in DOMAIN job'[t].rows : job'[t].rows[b] \in AgentRow)
  BY <1>6, JobFits
<1>8. trail' \in [Agents -> Seq([old : Users, new : NewOwners])]
  BY <1>4 DEF HistoryRow
<1> QED  BY <1>2, <1>3, <1>4, <1>5, <1>6, <1>7, <1>8 DEF GovInv, Typed, GovTypeOK

\* A commit writes what was changed in the copy: copies that others loaded stay true of the row,
\* a review period is opened with the activation, and the owner moves with a record.
LEMMA CommitOK ==
    ASSUME GovInv, NEW s \in Sessions, NEW u \in Users, Commit(s, u)
    PROVE  GovInv'
<1> DEFINE held == job[s].rows
           r == job[s].req
<1>1. /\ job[s] \in JobRec /\ DOMAIN held \subseteq Agents /\ r \in Requests
      /\ \A b \in DOMAIN held : held[b] \in AgentRow
  BY JobFits DEF Commit, GovInv, Typed, GovIdle
<1>2. /\ \A b \in Agents \ DOMAIN held : agent'[b] = agent[b] /\ trail'[b] = trail[b]
      /\ \A b \in DOMAIN held : trail'[b] = Recorded(b, held[b], r)
      /\ patched \subseteq patched'
  BY <1>1 DEF Commit
<1>3. \A b \in Agents : /\ (b \in DOMAIN held \/ agent[b].status # "none") => agent'[b].status # "none"
                        /\ agent[b].until # None => agent'[b].until # None
  BY <1>2, CommitRow
<1>4. LoadedOK'
  <2> SUFFICES ASSUME NEW t \in Sessions, job'[t].stage = "loaded"
               PROVE  DOMAIN job'[t].rows # {} /\ \A b \in DOMAIN job'[t].rows : CopyOK(t, b)'
    BY DEF LoadedOK
  <2>1. t # s /\ job'[t] = job[t]
    BY DoneTyped DEF Commit, GovInv, Typed, GovIdle
  <2>2. DOMAIN job[t].rows # {} /\ \A b \in DOMAIN job[t].rows : CopyOK(t, b)
    BY <2>1 DEF GovInv, LoadedOK
  <2>3. DOMAIN job[t].rows \subseteq Agents
    BY <2>1, JobFits DEF GovInv, Typed, GovIdle
  <2> QED  BY <1>3, <2>1, <2>2, <2>3 DEF CopyOK
<1>5. UnbornOK'
  <2> SUFFICES ASSUME NEW a \in Agents, agent'[a].status = "none"  PROVE trail'[a] = <<>>
    BY DEF UnbornOK
  <2>1. a \notin DOMAIN held
    BY <1>3
  <2> QED  BY <1>2, <2>1 DEF GovInv, UnbornOK
<1>6. ActiveHasWindow'
  <2> SUFFICES ASSUME NEW a \in Agents, agent'[a].status = "active", agent'[a].until = None
               PROVE  a \in patched'
    BY DEF ActiveHasWindow
  <2>1. CASE a \in DOMAIN held
    BY <2>1, CommitRow
  <2>2. CASE a \notin DOMAIN held
    BY <1>2, <2>2 DEF GovInv, ActiveHasWindow
  <2> QED  BY <2>1, <2>2
<1>7. OwnerTrail'
  <2> SUFFICES ASSUME NEW a \in Agents, NEW i \in DOMAIN trail'[a], LastEffective(a, i)'
               PROVE  agent'[a].owner = trail'[a][i].new.id
    BY DEF OwnerTrail
  <2>1. i \in DOMAIN trail'[a] /\ Effective(trail'[a][i])
        /\ \A j \in DOMAIN trail'[a] : j > i => ~Effective(trail'[a][j])
    BY DEF LastEffective
  <2>2. trail[a] \in Seq(HistoryRow)
    BY DEF GovInv, Typed
  <2>3. ASSUME trail'[a] = trail[a], agent'[a].owner = agent[a].owner
        PROVE  agent'[a].owner = trail'[a][i].new.id
    BY <2>1, <2>3 DEF GovInv, OwnerTrail, LastEffective
  <2>4. CASE a \in DOMAIN held /\ r.kind = "transfer"
    <3>1. PICK h : h = [old |-> held[a].owner, new |-> r.to]
      OBVIOUS
    <3>2. trail'[a] = Append(trail[a], h)
      BY <1>2, <2>4, <3>1 DEF Recorded
    <3>3. agent'[a].owner = IF Effective(h) THEN h.new.id ELSE agent[a].owner
      BY <2>4, <3>1, CommitRow DEF Effective
    <3>4. /\ DOMAIN trail'[a] = 1 .. Len(trail[a]) + 1 /\ DOMAIN trail[a] = 1 .. Len(trail[a])
          /\ Len(trail[a]) \in Nat /\ trail'[a][Len(trail[a]) + 1] = h
          /\ \A j \in 1 .. Len(trail[a]) : trail'[a][j] = trail[a][j]
      BY <2>2, <3>2
    <3>5. CASE Effective(h)
      <4>1. i = Len(trail[a]) + 1
        BY <2>1, <3>4, <3>5
      <4> QED  BY <3>3, <3>4, <3>5, <4>1
    <3>6. CASE ~Effective(h)
      <4>1. i \in DOMAIN trail[a] /\ trail'[a][i] = trail[a][i]
        BY <2>1, <3>4, <3>6
      <4>2. LastEffective(a, i)
        BY <2>1, <3>4, <4>1 DEF LastEffective
      <4> QED  BY <3>3, <3>6, <4>1, <4>2 DEF GovInv, OwnerTrail
    <3> QED  BY <3>5, <3>6
  <2>5. CASE a \in DOMAIN held /\ r.kind # "transfer"
    <3>1. trail'[a] = trail[a]
      BY <1>2, <2>5 DEF Recorded
    <3>2. agent'[a].owner = agent[a].owner
      BY <2>5, CommitRow
    <3> QED  BY <2>3, <3>1, <3>2
  <2>6. CASE a \notin DOMAIN held
    BY <1>2, <2>3, <2>6
  <2> QED  BY <2>4, <2>5, <2>6
<1> QED  BY <1>4, <1>5, <1>6, <1>7, CommitTyped DEF GovInv

-----------------------------------------------------------------------------
(* Theorems of the lifecycle.                                              *)

LEMMA GovNextOK ==
    ASSUME GovInv, [GovNext]_govVars
    PROVE  GovInv'
<1>1. CASE GovTick \/ (\E l \in Links : GrantLink(l)) \/ UNCHANGED govVars
  BY <1>1, OutsideOK
<1>2. ASSUME NEW a \in Agents, NEW u \in Users, NEW d \in BOOLEAN,
             Register(a, u) \/ ImportAgent(a, u, d)
      PROVE  GovInv'
  BY <1>2, BirthOK
<1>3. ASSUME NEW s \in Sessions, NEW r \in Requests, NEW a \in Agents, Serve(s, r, a)
      PROVE  GovInv'
  BY <1>3, LoadOK DEF Serve
<1>4. ASSUME NEW s \in Sessions, NEW r \in Requests, NEW todo \in SUBSET Agents,
             execute_bulk_governance(s, r, todo)
      PROVE  GovInv'
  <2>1. PICK a \in todo : Load(s, r, a, todo \ {a})
    BY <1>4 DEF execute_bulk_governance
  <2> QED  BY <2>1, LoadOK
<1>5. ASSUME NEW s \in Sessions, BulkNext(s)  PROVE GovInv'
  <2>1. PICK a \in job[s].todo : Load(s, job[s].req, a, job[s].todo \ {a})
    BY <1>5 DEF BulkNext
  <2>2. job[s].req \in Requests /\ job[s].todo \subseteq Agents
    BY <1>5, JobFits DEF BulkNext, GovInv, Typed, GovIdle
  <2> QED  BY <2>1, <2>2, LoadOK
<1>6. ASSUME NEW s \in Sessions, NEW u \in Users, Refused(s, u) \/ Commit(s, u)
      PROVE  GovInv'
  BY <1>6, RefusedOK, CommitOK
<1> QED  BY <1>1, <1>2, <1>3, <1>4, <1>5, <1>6 DEF GovNext

\* The inductive invariant holds for any number of agents, users, sessions and requests.
THEOREM GovInvariance == GovSpec => []GovInv
<1> QED  BY InitOK, GovNextOK, PTL DEF GovSpec

\* However handlers overlap: an ACTIVE agent has a review period unless PATCH made it ACTIVE, the
\* ownership history explains the owner, and the scan finds what the dashboard shows.
THEOREM GovernanceTheorem == GovSpec => []GovernanceHolds
<1>1. ScanMatchesSignals
  BY DEF ScanMatchesSignals, Overdue, evaluate_governance_signals
<1>2. GovInv => GovernanceHolds
  BY <1>1 DEF GovInv, Typed, GovernanceHolds
<1> QED  BY <1>2, GovInvariance, PTL

\* A retired agent comes back only by PATCH, by a rejected certification under SUSPEND, or by a
\* handler that had loaded it before.
THEOREM RetirementTheorem == GovSpec => RetirementUndone
<1> DEFINE Undone(a) ==
        \E s \in Sessions : /\ job[s] # job'[s] /\ job[s].stage = "loaded"
                            /\ \/ Stale(s, a)
                               \/ job[s].req.kind = "patch"
                               \/ job[s].req.kind = "decide" /\ policy.expiry = "SUSPEND"
           Good == \A a \in Agents :
                      (agent[a].status = "retired" /\ agent'[a].status # "retired") => Undone(a)
<1>1. ASSUME GovInv, GovNext, NEW a \in Agents,
             agent[a].status = "retired", agent'[a].status # "retired"
      PROVE  Undone(a)
  <2>1. PICK s \in Sessions, u \in Users : Commit(s, u)
    <3>1. ~\E b \in Agents, v \in Users, d \in BOOLEAN : Register(b, v) \/ ImportAgent(b, v, d)
      BY <1>1 DEF Register, ImportAgent, GovInv, Typed, GovTypeOK
    <3> QED  BY <1>1, <3>1 DEF GovNext, GovTick, GrantLink, Serve, Load, execute_bulk_governance,
                               BulkNext, Refused
  <2> DEFINE row == job[s].rows[a]
             r == job[s].req
  <2>2. job[s].stage = "loaded" /\ job[s] # job'[s]
    <3>1. PICK j \in {GovIdle} \cup JobRec :
             job' = [job EXCEPT ![s] = j] /\ (j # GovIdle => j.stage = "bulk")
      BY <1>1, <2>1, DoneTyped DEF Commit
    <3> QED  BY <1>1, <2>1, <3>1 DEF Commit, GovInv, Typed, GovIdle
  <2>3. a \in DOMAIN job[s].rows /\ agent'[a] = Flush(agent[a], row, Edit(row, r))
    BY <1>1, <2>1 DEF Commit
  <2>4. row \in AgentRow /\ agent[a] \in AgentRow /\ r \in Requests /\ CopyOK(s, a)
        /\ govNow \in Nat /\ policy \in PolicyRow
    <3>1. row \in AgentRow /\ r \in Requests
      BY <1>1, <2>1, <2>3, CommitRow
    <3>2. CopyOK(s, a)
      BY <1>1, <2>2, <2>3 DEF GovInv, LoadedOK
    <3>3. agent[a] \in AgentRow /\ govNow \in Nat /\ policy \in PolicyRow
      BY <1>1, PeriodAssumption DEF GovInv, Typed, GovTypeOK
    <3> QED  BY <3>1, <3>2, <3>3
  <2>5. CASE row.status # "retired"
    BY <2>2, <2>3, <2>5 DEF Stale
  <2>6. CASE row.status = "retired"
    <3>1. PICK e : e = Edit(row, r)
      OBVIOUS
    <3>2. e \in AgentRow
      BY <2>4, <2>6, <3>1, EditFacts
    <3>3. e.status # "retired"
      BY <1>1, <2>3, <2>4, <2>6, <3>1, <3>2, FlushFacts
    <3>4. r.kind \notin {"transition", "retire"}
      BY <2>1, <2>3, <2>6 DEF Commit, MayCommit, MayTransition
    <3>5. r.kind # "scan"
      BY <2>4, <2>6 DEF CopyOK
    <3>6. r.kind \in {"transition", "retire", "transfer", "patch", "describe", "review", "decide", "scan"}
      BY <2>4, RequestsAssumption DEF AllRequests
    <3>7. CASE r.kind \in {"transfer", "describe", "review"}
      <4>1. e.status = row.status
        BY <2>4, <3>1, <3>7 DEF Edit, AgentRow
      <4> QED  BY <2>6, <3>3, <4>1
    <3>8. CASE r.kind = "decide"
      <4>1. e = Decided(row, r.decision)
        BY <3>1, <3>8 DEF Edit
      <4>2. policy.expiry = "SUSPEND"
        BY <2>4, <2>6, <3>3, <4>1 DEF Decided, AgentRow
      <4> QED  BY <2>2, <3>8, <4>2
    <3>9. CASE r.kind = "patch"
      BY <2>2, <3>9
    <3> QED  BY <3>4, <3>5, <3>6, <3>7, <3>8, <3>9
  <2> QED  BY <2>5, <2>6
<1>2. GovInv /\ [GovNext]_govVars => [Good]_govVars
  BY <1>1
<1>3. [][Good]_govVars => RetirementUndone
  BY DEF RetirementUndone
<1> QED  BY <1>2, <1>3, GovInvariance, PTL DEF GovSpec

-----------------------------------------------------------------------------
(***************************************************************************)
(* The trust registry.                                                     *)
(***************************************************************************)
Verifying == {"issuer-ok", "signature-ok", "row-ok", "accepted"}
WorkRec ==
    {RegIdle}
      \cup [stage : {"rotating"}, issuer : Issuers, old : SUBSET IssuerKeys]
      \cup [stage : {"signing"}, issuer : Issuers, key : IssuerKeys, caps : SUBSET Capabilities]
      \cup [stage : Verifying, presented : Envelope, expected : Environments,
            began : [revoked : BOOLEAN, badkey : BOOLEAN]]

\* A key that is there belongs to an issuer that is there, a credential to the issuer of its key.
RowsOK ==
    /\ \A k \in IssuerKeys : ikey[k].status # "none" => issuer[ikey[k].issuer] # "none"
    /\ \A c \in Creds : credential[c].status # "none" =>
          /\ credential[c].envelope.id = c
          /\ ikey[credential[c].key].issuer = credential[c].envelope.issuer
          /\ ikey[credential[c].key].status # "none"

\* The keys that a rotation loaded are its issuer's; but for overlaps it is the only rotation, and
\* they are still the ACTIVE ones.
RotationGood(s, i) ==
    /\ issuer[i] # "none"
    /\ \A k \in work[s].old : ikey[k].issuer = i /\ ikey[k].status # "none"
    /\ i \notin raced =>
          /\ work[s].old = ActiveKeys(i)
          /\ \A q \in Registrars : work[q].stage = "rotating" /\ work[q].issuer = i => q = s
RotationsOK ==
    \A s \in Registrars, i \in Issuers :
        work[s].stage = "rotating" /\ work[s].issuer = i => RotationGood(s, i)

\* The key that an issuance loaded is its issuer's, and the agent was active, but for overlaps.
SigningGood(w) ==
    /\ ikey[w.key].issuer = w.issuer /\ ikey[w.key].status # "none"
    /\ subject.status = "retired" => "agent" \in raced
SigningOK == \A s \in Registrars : work[s].stage = "signing" => SigningGood(work[s])

\* What was revoked when a verification began still is, and what it has checked still holds.
VerifyingGood(w) ==
    LET row == credential[w.presented.id] IN
    /\ row.status # "none" /\ row.envelope.issuer = w.presented.issuer
    /\ w.expected = "production" => w.presented.env = "production"
    /\ w.began.revoked = TRUE => row.status = "REVOKED"
    /\ w.began.badkey = TRUE /\ w.presented.issuer \notin raced => ikey[row.key].status = "REVOKED"
    /\ w.stage # "issuer-ok" =>
          /\ row.envelope = w.presented
          /\ w.presented.issuer \notin raced => w.began.badkey = FALSE
    /\ w.stage \in {"row-ok", "accepted"} => w.began.revoked = FALSE
VerifyingOK == \A s \in Registrars : work[s].stage \in Verifying => VerifyingGood(work[s])

SingleKeys ==
    \A i \in Issuers : issuer[i] # "none" /\ i \notin raced =>
        \E k \in IssuerKeys : ActiveKeys(i) = {k}

RegInv ==
    /\ RegTypeOK /\ work \in [Registrars -> WorkRec]
    /\ RowsOK /\ RotationsOK /\ SigningOK /\ VerifyingOK /\ SingleKeys /\ RetiredHoldsNone

\* The kinds of jobs are told apart by their stage.
LEMMA WorkKinds ==
    ASSUME NEW w \in WorkRec
    PROVE  /\ w.stage \in {"idle", "rotating", "signing"} \cup Verifying
           /\ w.stage = "idle" => w = RegIdle
           /\ w.stage = "rotating" =>
                w \in [stage : {"rotating"}, issuer : Issuers, old : SUBSET IssuerKeys]
           /\ w.stage = "signing" =>
                w \in [stage : {"signing"}, issuer : Issuers, key : IssuerKeys, caps : SUBSET Capabilities]
           /\ w.stage \in Verifying =>
                w \in [stage : Verifying, presented : Envelope, expected : Environments,
                       began : [revoked : BOOLEAN, badkey : BOOLEAN]]
BY DEF WorkRec, RegIdle, Verifying

\* Nothing is there before the first issuer.
LEMMA RegInitOK == RegInit => RegInv
<1> SUFFICES ASSUME RegInit  PROVE RegInv
  OBVIOUS
<1>1. /\ AnyIssuer \in Issuers /\ (CHOOSE k \in IssuerKeys : TRUE) \in IssuerKeys
      /\ (CHOOSE c \in Creds : TRUE) \in Creds
  BY RegistryAssumption DEF AnyIssuer
<1>2. NoCredential \in CredentialRow /\ NoCredential.status = "none"
  BY <1>1 DEF NoCredential, CredentialRow, Envelope, Environments
<1>3. ikey \in [IssuerKeys -> KeyRow] /\ \A k \in IssuerKeys : ikey[k].status = "none"
  BY <1>1 DEF RegInit, KeyRow, IssuerKeyStatus
<1>4. work \in [Registrars -> WorkRec] /\ \A s \in Registrars : work[s].stage = "idle"
  BY DEF RegInit, WorkRec, RegIdle
<1>5. credential \in [Creds -> CredentialRow] /\ \A c \in Creds : credential[c].status = "none"
  BY <1>2 DEF RegInit
<1>6. RegTypeOK
  BY <1>3, <1>4, <1>5, RegTimeAssumption DEF RegInit, RegTypeOK, IssuerStatus
<1>7. RowsOK /\ RotationsOK /\ SigningOK /\ VerifyingOK
  BY <1>3, <1>4, <1>5 DEF RowsOK, RotationsOK, SigningOK, VerifyingOK, Verifying
<1>8. SingleKeys /\ RetiredHoldsNone
  BY <1>5 DEF RegInit, SingleKeys, RetiredHoldsNone
<1> QED  BY <1>4, <1>6, <1>7, <1>8 DEF RegInv

\* A session's job changes, and the tables do not.
LEMMA RegJobStep ==
    ASSUME RegInv, NEW s \in Registrars, NEW w \in WorkRec, work' = [work EXCEPT ![s] = w],
           UNCHANGED <<subject, issuer, ikey, credential, raced>>, regNow' \in 0 .. MaxRegTime,
           w.stage # "rotating", w.stage = "signing" => SigningGood(w),
           w.stage \in Verifying => VerifyingGood(w)
    PROVE  RegInv'
<1>1. /\ work' \in [Registrars -> WorkRec] /\ work'[s] = w
      /\ \A q \in Registrars \ {s} : work'[q] = work[q]
  BY DEF RegInv
<1>2. \A q \in Registrars : work'[q].stage \in {"idle", "rotating", "signing"} \cup Verifying
  BY <1>1, WorkKinds
<1>3. RegTypeOK'
  BY <1>2 DEF RegInv, RegTypeOK, Verifying
<1>4. \A i : ActiveKeys(i)' = ActiveKeys(i)
  BY DEF ActiveKeys
<1>5. RotationsOK'
  <2>1. \A q \in Registrars : work'[q].stage = "rotating" => q # s /\ work'[q] = work[q]
    BY <1>1
  <2> QED  BY <1>4, <2>1 DEF RegInv, RotationsOK, RotationGood
<1>6. SigningOK' /\ VerifyingOK'
  BY <1>1 DEF RegInv, SigningOK, SigningGood, VerifyingOK, VerifyingGood
<1>7. RowsOK' /\ SingleKeys' /\ RetiredHoldsNone'
  BY <1>4 DEF RegInv, RowsOK, SingleKeys, RetiredHoldsNone
<1> QED  BY <1>1, <1>3, <1>5, <1>6, <1>7 DEF RegInv

\* A credential is presented as it is, but for its environment.
LEMMA PresentOK ==
    ASSUME RegInv, NEW s \in Registrars, NEW c \in Creds, NEW env \in Environments,
           NEW expected \in Environments, Present(s, c, env, expected)
    PROVE  RegInv'
<1>1. credential[c] \in CredentialRow /\ ikey[credential[c].key] \in KeyRow
  BY DEF RegInv, RegTypeOK, CredentialRow
<1>2. PICK e : e = [credential[c].envelope EXCEPT !.env = env]
  OBVIOUS
<1>3. e \in Envelope /\ e.id = c /\ e.issuer = credential[c].envelope.issuer /\ e.env = env
  BY <1>1, <1>2 DEF Present, CredentialRow, Envelope, RegInv, RowsOK
<1>4. PICK r \in BOOLEAN : r = (credential[c].status = "REVOKED")
  OBVIOUS
<1>5. PICK k \in BOOLEAN : k = (ikey[credential[c].key].status = "REVOKED")
  OBVIOUS
<1>6. PICK w : w = [stage |-> "issuer-ok", presented |-> e, expected |-> expected,
                    began |-> [revoked |-> r, badkey |-> k]]
  OBVIOUS
<1>7. w \in WorkRec /\ w.stage = "issuer-ok"
  BY <1>3, <1>6 DEF WorkRec, Verifying
<1>8. work' = [work EXCEPT ![s] = w] /\ UNCHANGED <<regNow, subject, issuer, ikey, credential, raced>>
  BY <1>2, <1>4, <1>5, <1>6 DEF Present
<1>9. /\ w.presented = e /\ w.expected = expected /\ w.began.revoked = r /\ w.began.badkey = k
  BY <1>6
<1>10. r = TRUE => credential[c].status = "REVOKED"
  BY <1>4
<1>11. k = TRUE => ikey[credential[c].key].status = "REVOKED"
  BY <1>5
<1>12. credential[c].status # "none" /\ (expected = "production" => env = "production")
  BY DEF Present, Environments
<1>13. VerifyingGood(w)
  BY <1>3, <1>7, <1>9, <1>10, <1>11, <1>12 DEF VerifyingGood
<1> QED  BY <1>7, <1>8, <1>13, RegJobStep DEF RegInv, RegTypeOK, Verifying

\* A read that passes takes the verification to its next stage.
LEMMA StageFacts ==
    ASSUME RegInv, NEW s \in Registrars, work[s].stage \in Verifying, NEW to \in Verifying,
           NEW w, w = [work[s] EXCEPT !.stage = to]
    PROVE  /\ VerifyingGood(work[s]) /\ w \in WorkRec
           /\ w.stage = to /\ w.presented = work[s].presented
           /\ w.expected = work[s].expected /\ w.began = work[s].began
           /\ work[s].began.revoked \in BOOLEAN /\ work[s].began.badkey \in BOOLEAN
<1>1. work[s] \in WorkRec /\ VerifyingGood(work[s])
  BY DEF RegInv, VerifyingOK
<1>2. work[s] \in [stage : Verifying, presented : Envelope, expected : Environments,
                   began : [revoked : BOOLEAN, badkey : BOOLEAN]]
  BY <1>1, WorkKinds
<1>3. w \in [stage : Verifying, presented : Envelope, expected : Environments,
             began : [revoked : BOOLEAN, badkey : BOOLEAN]]
  BY <1>2
<1>4. w \in WorkRec
  BY <1>3 DEF WorkRec
<1> QED  BY <1>1, <1>2, <1>4

\* Each of the reads of a verification.
LEMMA VerifyOK ==
    ASSUME RegInv, NEW s \in Registrars, verify_agent_credential(s)
    PROVE  RegInv'
<1> DEFINE row == credential[work[s].presented.id]
           Others == UNCHANGED <<regNow, subject, issuer, ikey, credential, raced>>
<1>0. /\ RegIdle \in WorkRec /\ RegIdle.stage \notin {"rotating", "signing"} \cup Verifying
      /\ regNow \in 0 .. MaxRegTime
      /\ "issuer-ok" \in Verifying /\ "signature-ok" \in Verifying
      /\ "row-ok" \in Verifying /\ "accepted" \in Verifying
  BY DEF WorkRec, RegIdle, RegInv, RegTypeOK, Verifying
<1>1. CASE VerifySignature(s)
  <2>1. Others /\ work[s].stage = "issuer-ok"
    BY <1>1 DEF VerifySignature, Step
  <2>2. \/ work' = [work EXCEPT ![s] = RegIdle]
        \/ ikey[row.key].status # "REVOKED" /\ row.envelope = work[s].presented /\ work' = [work EXCEPT ![s] = [work[s] EXCEPT !.stage = "signature-ok"]]
    BY <1>1 DEF VerifySignature, Step, KeyUsable, build_atc_canonical_ascii
  <2>3. CASE work' = [work EXCEPT ![s] = RegIdle]
    BY <1>0, <2>1, <2>3, RegJobStep
  <2>4. CASE ikey[row.key].status # "REVOKED" /\ row.envelope = work[s].presented /\ work' = [work EXCEPT ![s] = [work[s] EXCEPT !.stage = "signature-ok"]]
    <3>1. PICK w : w = [work[s] EXCEPT !.stage = "signature-ok"]
      OBVIOUS
    <3>2. /\ VerifyingGood(work[s]) /\ w \in WorkRec
          /\ w.stage = "signature-ok" /\ w.presented = work[s].presented
          /\ w.expected = work[s].expected /\ w.began = work[s].began
          /\ work[s].began.revoked \in BOOLEAN /\ work[s].began.badkey \in BOOLEAN
      BY <1>0, <2>1, <3>1, StageFacts
    <3>3. VerifyingGood(w)
      BY <2>1, <2>4, <3>2 DEF VerifyingGood
    <3> QED  BY <1>0, <2>1, <2>4, <3>1, <3>2, <3>3, RegJobStep
  <2> QED  BY <2>2, <2>3, <2>4
<1>2. CASE VerifyRow(s)
  <2>1. Others /\ work[s].stage = "signature-ok"
    BY <1>2 DEF VerifyRow, Step
  <2>2. \/ work' = [work EXCEPT ![s] = RegIdle]
        \/ row.status # "REVOKED" /\ work' = [work EXCEPT ![s] = [work[s] EXCEPT !.stage = "row-ok"]]
    BY <1>2 DEF VerifyRow, Step, NotRevoked
  <2>3. CASE work' = [work EXCEPT ![s] = RegIdle]
    BY <1>0, <2>1, <2>3, RegJobStep
  <2>4. CASE row.status # "REVOKED" /\ work' = [work EXCEPT ![s] = [work[s] EXCEPT !.stage = "row-ok"]]
    <3>1. PICK w : w = [work[s] EXCEPT !.stage = "row-ok"]
      OBVIOUS
    <3>2. /\ VerifyingGood(work[s]) /\ w \in WorkRec
          /\ w.stage = "row-ok" /\ w.presented = work[s].presented
          /\ w.expected = work[s].expected /\ w.began = work[s].began
          /\ work[s].began.revoked \in BOOLEAN /\ work[s].began.badkey \in BOOLEAN
      BY <1>0, <2>1, <3>1, StageFacts
    <3>3. VerifyingGood(w)
      BY <2>1, <2>4, <3>2 DEF VerifyingGood
    <3> QED  BY <1>0, <2>1, <2>4, <3>1, <3>2, <3>3, RegJobStep
  <2> QED  BY <2>2, <2>3, <2>4
<1>3. CASE VerifySubject(s)
  <2>1. Others /\ work[s].stage = "row-ok"
    BY <1>3 DEF VerifySubject, Step
  <2>2. \/ work' = [work EXCEPT ![s] = RegIdle]
        \/ subject.status = "active" /\ work' = [work EXCEPT ![s] = [work[s] EXCEPT !.stage = "accepted"]]
    BY <1>3 DEF VerifySubject, Step
  <2>3. CASE work' = [work EXCEPT ![s] = RegIdle]
    BY <1>0, <2>1, <2>3, RegJobStep
  <2>4. CASE subject.status = "active" /\ work' = [work EXCEPT ![s] = [work[s] EXCEPT !.stage = "accepted"]]
    <3>1. PICK w : w = [work[s] EXCEPT !.stage = "accepted"]
      OBVIOUS
    <3>2. /\ VerifyingGood(work[s]) /\ w \in WorkRec
          /\ w.stage = "accepted" /\ w.presented = work[s].presented
          /\ w.expected = work[s].expected /\ w.began = work[s].began
          /\ work[s].began.revoked \in BOOLEAN /\ work[s].began.badkey \in BOOLEAN
      BY <1>0, <2>1, <3>1, StageFacts
    <3>3. VerifyingGood(w)
      BY <2>1, <2>4, <3>2 DEF VerifyingGood
    <3> QED  BY <1>0, <2>1, <2>4, <3>1, <3>2, <3>3, RegJobStep
  <2> QED  BY <2>2, <2>3, <2>4
<1>4. CASE Answer(s)
  BY <1>0, <1>4, RegJobStep DEF Answer, Finish
<1> QED  BY <1>1, <1>2, <1>3, <1>4 DEF verify_agent_credential

\* An issuance that begins has loaded an active agent and a key of its issuer.
LEMMA LoadIssueOK ==
    ASSUME RegInv, NEW s \in Registrars, NEW i \in Issuers, NEW caps \in SUBSET Capabilities,
           LoadIssue(s, i, caps)
    PROVE  RegInv'
<1>1. PICK k \in ActiveKeys(i) :
         work' = [work EXCEPT ![s] = [stage |-> "signing", issuer |-> i, key |-> k, caps |-> caps]]
  BY DEF LoadIssue
<1>2. PICK w : w = [stage |-> "signing", issuer |-> i, key |-> k, caps |-> caps]
  OBVIOUS
<1>3. k \in IssuerKeys /\ ikey[k].issuer = i /\ ikey[k].status = "ACTIVE"
  BY DEF ActiveKeys
<1>4. w \in WorkRec /\ w.stage = "signing" /\ w.key = k /\ w.issuer = i
  BY <1>2, <1>3 DEF WorkRec
<1>5. SigningGood(w) /\ UNCHANGED <<regNow, subject, issuer, ikey, credential, raced>>
  BY <1>3, <1>4 DEF SigningGood, LoadIssue
<1> QED  BY <1>1, <1>2, <1>4, <1>5, RegJobStep DEF RegInv, RegTypeOK, Verifying

\* A rotation that overlaps none is the only one of its issuer, and has loaded its ACTIVE keys.
LEMMA LoadRotationOK ==
    ASSUME RegInv, NEW s \in Registrars, NEW i \in Issuers, LoadRotation(s, i)
    PROVE  RegInv'
<1>1. PICK w : w = [stage |-> "rotating", issuer |-> i, old |-> ActiveKeys(i)]
  OBVIOUS
<1>2. ActiveKeys(i) \subseteq IssuerKeys
  BY DEF ActiveKeys
<1>3. w \in WorkRec /\ w.stage = "rotating" /\ w.issuer = i /\ w.old = ActiveKeys(i)
  BY <1>1, <1>2 DEF WorkRec
<1>4. /\ work' = [work EXCEPT ![s] = w]
      /\ UNCHANGED <<regNow, subject, issuer, ikey, credential>>
      /\ raced \subseteq raced' /\ raced' \subseteq raced \cup {i}
      /\ i \notin raced' => \A q \in Registrars : ~(work[q].stage = "rotating" /\ work[q].issuer = i)
  BY <1>1 DEF LoadRotation
<1>5. /\ work' \in [Registrars -> WorkRec] /\ work'[s] = w
      /\ \A q \in Registrars \ {s} : work'[q] = work[q]
  BY <1>3, <1>4 DEF RegInv
<1>6. RegTypeOK'
  <2>1. \A q \in Registrars : work'[q].stage \in {"idle", "rotating", "signing"} \cup Verifying
    BY <1>5, WorkKinds
  <2> QED  BY <1>4, <2>1 DEF RegInv, RegTypeOK, Verifying
<1>7. \A j : ActiveKeys(j)' = ActiveKeys(j)
  BY <1>4 DEF ActiveKeys
<1>8. RotationsOK'
  <2> SUFFICES ASSUME NEW q \in Registrars, NEW j \in Issuers,
                      work'[q].stage = "rotating", work'[q].issuer = j
               PROVE  RotationGood(q, j)'
    BY DEF RotationsOK
  <2>1. CASE q = s
    <3>1. issuer[i] # "none" /\ \A k \in ActiveKeys(i) : ikey[k].issuer = i /\ ikey[k].status # "none"
      BY DEF LoadRotation, ActiveKeys
    <3> QED  BY <1>3, <1>4, <1>5, <1>7, <2>1, <3>1 DEF RotationGood
  <2>2. CASE q # s
    <3>1. work'[q] = work[q] /\ RotationGood(q, j)
      BY <1>5, <2>2 DEF RegInv, RotationsOK
    <3>2. j \notin raced' => j # i
      BY <1>4, <2>2, <3>1
    <3> QED  BY <1>3, <1>4, <1>5, <1>7, <3>1, <3>2 DEF RotationGood
  <2> QED  BY <2>1, <2>2
<1>9. SigningOK'
  <2>1. \A q \in Registrars : work'[q].stage = "signing" => work'[q] = work[q]
    BY <1>3, <1>5
  <2> QED  BY <1>4, <2>1 DEF RegInv, SigningOK, SigningGood
<1>10. VerifyingOK'
  <2>1. \A q \in Registrars : work'[q].stage \in Verifying => work'[q] = work[q]
    BY <1>3, <1>5 DEF Verifying
  <2> QED  BY <1>4, <2>1 DEF RegInv, VerifyingOK, VerifyingGood
<1>11. RowsOK' /\ SingleKeys' /\ RetiredHoldsNone'
  BY <1>4, <1>7 DEF RegInv, RowsOK, SingleKeys, RetiredHoldsNone
<1> QED  BY <1>5, <1>6, <1>8, <1>9, <1>10, <1>11 DEF RegInv

\* Keys that are added or retired, and revoked keys that stay revoked, leave credentials, issuances
\* and verifications as they were.
LEMMA KeysStep ==
    ASSUME RegInv, UNCHANGED <<regNow, subject, credential, raced>>,
           ikey' \in [IssuerKeys -> KeyRow], issuer' \in [Issuers -> IssuerStatus],
           \A k \in IssuerKeys : ikey[k].status # "none" =>
               ikey'[k].issuer = ikey[k].issuer /\ ikey'[k].status # "none",
           \A k \in IssuerKeys : ikey[k].status = "REVOKED" /\ ikey[k].issuer \notin raced =>
               ikey'[k].status = "REVOKED",
           \A k \in IssuerKeys : ikey'[k].status # "none" => issuer'[ikey'[k].issuer] # "none",
           work' \in [Registrars -> WorkRec],
           \A q \in Registrars : work'[q] = work[q] \/ work'[q] = RegIdle
    PROVE  /\ RegTypeOK' /\ RowsOK' /\ SigningOK' /\ VerifyingOK' /\ RetiredHoldsNone'
<1>1. RegTypeOK'
  <2>1. \A q \in Registrars : work'[q].stage \in {"idle", "rotating", "signing"} \cup Verifying
    BY WorkKinds
  <2> QED  BY <2>1 DEF RegInv, RegTypeOK, Verifying
<1>2. \A c \in Creds : credential[c] \in CredentialRow /\ credential[c].key \in IssuerKeys
  BY DEF RegInv, RegTypeOK, CredentialRow
<1>3. RowsOK'
  BY <1>2 DEF RegInv, RowsOK
<1>4. \A q \in Registrars : work'[q].stage # "idle" => work'[q] = work[q]
  BY DEF RegIdle
<1>5. SigningOK'
  <2> SUFFICES ASSUME NEW q \in Registrars, NEW w, w = work'[q], w.stage = "signing"
               PROVE  SigningGood(w)'
    BY DEF SigningOK, SigningGood
  <2>1. w = work[q] /\ SigningGood(w) /\ w.key \in IssuerKeys
    BY <1>4, WorkKinds DEF RegInv, SigningOK
  <2> QED  BY <2>1 DEF SigningGood
<1>6. VerifyingOK'
  <2> SUFFICES ASSUME NEW q \in Registrars, NEW w, w = work'[q], w.stage \in Verifying
               PROVE  VerifyingGood(w)'
    BY DEF VerifyingOK, VerifyingGood
  <2>1. w = work[q] /\ VerifyingGood(w) /\ w.presented.id \in Creds
    BY <1>4, WorkKinds DEF RegInv, VerifyingOK, Verifying, Envelope
  <2>2. PICK row : row = credential[w.presented.id]
    OBVIOUS
  <2>3. /\ row.key \in IssuerKeys
        /\ row.status # "none" => ikey[row.key].issuer = row.envelope.issuer
    BY <1>2, <2>1, <2>2 DEF RegInv, RowsOK
  <2> QED  BY <2>1, <2>2, <2>3 DEF VerifyingGood
<1> QED  BY <1>1, <1>3, <1>5, <1>6 DEF RegInv, RetiredHoldsNone

\* An issuer comes with its first key, which nobody had used.
LEMMA CreateIssuerOK ==
    ASSUME RegInv, NEW i \in Issuers, NEW k \in IssuerKeys, create_credential_issuer(i, k)
    PROVE  RegInv'
<1>1. /\ issuer[i] = "none" /\ ikey[k].status = "none"
      /\ UNCHANGED <<regNow, subject, credential, work, raced>>
      /\ issuer' = [issuer EXCEPT ![i] = "ACTIVE"]
      /\ ikey' = [ikey EXCEPT ![k] = [status |-> "ACTIVE", issuer |-> i]]
  BY DEF create_credential_issuer
<1>2. /\ ikey' \in [IssuerKeys -> KeyRow] /\ ikey'[k].status = "ACTIVE" /\ ikey'[k].issuer = i
      /\ \A m \in IssuerKeys \ {k} : ikey'[m] = ikey[m]
  BY <1>1 DEF RegInv, RegTypeOK, KeyRow, IssuerKeyStatus
<1>3. /\ issuer' \in [Issuers -> IssuerStatus] /\ issuer'[i] = "ACTIVE"
      /\ \A j \in Issuers \ {i} : issuer'[j] = issuer[j]
  BY <1>1 DEF RegInv, RegTypeOK, IssuerStatus
<1>4. \A m \in IssuerKeys : ikey[m] \in KeyRow /\ ikey[m].issuer \in Issuers
  BY DEF RegInv, RegTypeOK, KeyRow
<1>5. \A m \in IssuerKeys : ikey'[m].status # "none" => issuer'[ikey'[m].issuer] # "none"
  BY <1>1, <1>2, <1>3, <1>4 DEF RegInv, RowsOK
<1>6. RegTypeOK' /\ RowsOK' /\ SigningOK' /\ VerifyingOK' /\ RetiredHoldsNone'
  BY <1>1, <1>2, <1>3, <1>5, KeysStep DEF RegInv
<1>7. \A j \in Issuers \ {i} : ActiveKeys(j)' = ActiveKeys(j)
  BY <1>1, <1>2 DEF ActiveKeys
<1>8. ActiveKeys(i)' = {k}
  BY <1>1, <1>2, <1>4 DEF ActiveKeys, RegInv, RowsOK
<1>9. RotationsOK'
  <2> SUFFICES ASSUME NEW q \in Registrars, NEW j \in Issuers,
                      work'[q].stage = "rotating", work'[q].issuer = j
               PROVE  RotationGood(q, j)'
    BY DEF RotationsOK
  <2>1. work'[q] = work[q] /\ RotationGood(q, j) /\ work[q].old \subseteq IssuerKeys
    BY <1>1, WorkKinds DEF RegInv, RotationsOK
  <2>2. j # i /\ \A m \in work[q].old : m # k
    BY <1>1, <2>1 DEF RotationGood
  <2> QED  BY <1>1, <1>2, <1>3, <1>7, <2>1, <2>2 DEF RotationGood
<1>10. SingleKeys'
  BY <1>1, <1>3, <1>7, <1>8 DEF RegInv, SingleKeys
<1> QED  BY <1>1, <1>6, <1>9, <1>10 DEF RegInv

\* An issuer that is stopped keeps its keys.
LEMMA StopIssuerOK ==
    ASSUME RegInv, NEW i \in Issuers, NEW to \in {"SUSPENDED", "REVOKED"}, StopIssuer(i, to)
    PROVE  RegInv'
<1>1. /\ issuer[i] # "none" /\ issuer' = [issuer EXCEPT ![i] = to]
      /\ UNCHANGED <<regNow, subject, ikey, credential, work, raced>>
  BY DEF StopIssuer
<1>2. /\ issuer' \in [Issuers -> IssuerStatus]
      /\ \A j \in Issuers : issuer'[j] # "none" <=> issuer[j] # "none"
  BY <1>1 DEF RegInv, RegTypeOK, IssuerStatus
<1>3. \A m \in IssuerKeys : ikey[m].issuer \in Issuers
  BY DEF RegInv, RegTypeOK, KeyRow
<1>4. RegTypeOK' /\ RowsOK' /\ SigningOK' /\ VerifyingOK' /\ RetiredHoldsNone'
  BY <1>1, <1>2, <1>3, KeysStep DEF RegInv, RegTypeOK, RowsOK
<1>5. \A j : ActiveKeys(j)' = ActiveKeys(j)
  BY <1>1 DEF ActiveKeys
<1>6. RotationsOK' /\ SingleKeys'
  BY <1>1, <1>2, <1>5 DEF RegInv, RotationsOK, RotationGood, SingleKeys
<1> QED  BY <1>1, <1>4, <1>6 DEF RegInv

\* A rotation that overlapped none replaces the one ACTIVE key; one that did changes only keys of
\* its own issuer, which is then known to have raced.
LEMMA RotateOK ==
    ASSUME RegInv, NEW s \in Registrars, NEW k \in IssuerKeys, NEW b \in BOOLEAN,
           rotate_issuer_signing_key(s, k, b)
    PROVE  /\ RegInv'
           /\ \A m \in IssuerKeys : ikey[m].status = "REVOKED" /\ ikey[m].issuer \notin raced =>
                  ikey'[m].status = "REVOKED"
<1>0. PICK i, old : i = work[s].issuer /\ old = work[s].old
  OBVIOUS
<1>1. /\ work[s].stage = "rotating" /\ ikey[k].status = "none"
      /\ ikey' = Rotated(i, old, k, b) /\ work' = [work EXCEPT ![s] = RegIdle]
      /\ UNCHANGED <<regNow, subject, issuer, credential, raced>>
  BY <1>0 DEF rotate_issuer_signing_key, Finish
<1>2. i \in Issuers /\ old \subseteq IssuerKeys /\ RotationGood(s, i)
  BY <1>0, <1>1, WorkKinds DEF RegInv, RotationsOK
<1>3. \A m \in IssuerKeys : ikey[m] \in KeyRow
  BY DEF RegInv, RegTypeOK
<1>4. \A m \in IssuerKeys : /\ OldKey(ikey[m], b) \in KeyRow
                            /\ OldKey(ikey[m], b).issuer = ikey[m].issuer
                            /\ OldKey(ikey[m], b).status \in {"REVOKED", "ROTATED"}
  BY <1>3 DEF OldKey, KeyRow, IssuerKeyStatus
<1>5. k \notin old
  BY <1>0, <1>1, <1>2 DEF RotationGood
<1>6. /\ DOMAIN ikey' = IssuerKeys /\ ikey' = [m \in IssuerKeys |-> ikey'[m]]
      /\ ikey'[k] = [status |-> "ACTIVE", issuer |-> i]
      /\ \A m \in old : ikey'[m] = OldKey(ikey[m], b)
      /\ \A m \in IssuerKeys : m \notin old /\ m # k => ikey'[m] = ikey[m]
  BY <1>1, <1>2, <1>5 DEF Rotated
<1>7. [status |-> "ACTIVE", issuer |-> i] \in KeyRow
  BY <1>2 DEF KeyRow, IssuerKeyStatus
<1>8. \A m \in IssuerKeys : ikey'[m] \in KeyRow
  BY <1>3, <1>4, <1>6, <1>7
<1>9. ikey' \in [IssuerKeys -> KeyRow]
  BY <1>6, <1>8
<1>10. ikey'[k].status = "ACTIVE" /\ ikey'[k].issuer = i
  BY <1>6
<1>11. \A m \in IssuerKeys : ikey[m].status # "none" =>
          ikey'[m].issuer = ikey[m].issuer /\ ikey'[m].status # "none"
  BY <1>1, <1>4, <1>6
<1>12. \A m \in IssuerKeys : ikey[m].status = "REVOKED" /\ ikey[m].issuer \notin raced =>
          ikey'[m].status = "REVOKED"
  <2> SUFFICES ASSUME NEW m \in IssuerKeys, ikey[m].status = "REVOKED", ikey[m].issuer \notin raced
               PROVE  m \notin old /\ m # k
    BY <1>6
  <2>1. m \in old => ikey[m].issuer = i
    BY <1>0, <1>2 DEF RotationGood
  <2>2. m \in old => m \in ActiveKeys(i)
    BY <1>0, <1>2, <2>1 DEF RotationGood
  <2> QED  BY <1>1, <2>2 DEF ActiveKeys
<1>13. \A m \in IssuerKeys : ikey'[m].status # "none" => issuer'[ikey'[m].issuer] # "none"
  <2>1. issuer[i] # "none"
    BY <1>0, <1>2 DEF RotationGood
  <2>2. \A m \in old : issuer[ikey[m].issuer] # "none"
    BY <1>0, <1>2, <2>1 DEF RotationGood
  <2> QED  BY <1>1, <1>4, <1>6, <1>10, <2>1, <2>2 DEF RegInv, RowsOK
<1>14. /\ work' \in [Registrars -> WorkRec] /\ work'[s] = RegIdle
       /\ \A q \in Registrars \ {s} : work'[q] = work[q]
  BY <1>1 DEF RegInv, WorkRec
<1>15. issuer' \in [Issuers -> IssuerStatus]
  BY <1>1 DEF RegInv, RegTypeOK
<1>16. RegTypeOK' /\ RowsOK' /\ SigningOK' /\ VerifyingOK' /\ RetiredHoldsNone'
  BY <1>1, <1>9, <1>11, <1>12, <1>13, <1>14, <1>15, KeysStep
<1>17. \A j \in Issuers \ {i} : ActiveKeys(j)' = ActiveKeys(j)
  <2>1. \A m \in old : ikey[m].issuer = i /\ ikey'[m].issuer = i
    BY <1>0, <1>2, <1>4, <1>6 DEF RotationGood
  <2> QED  BY <1>1, <1>2, <1>6, <1>10, <2>1 DEF ActiveKeys
<1>18. i \notin raced => ActiveKeys(i)' = {k}
  <2>1. i \notin raced => old = ActiveKeys(i)
    BY <1>0, <1>2 DEF RotationGood
  <2>2. \A m \in old : ikey'[m].status # "ACTIVE"
    BY <1>2, <1>4, <1>6
  <2> QED  BY <1>2, <1>6, <1>10, <2>1, <2>2 DEF ActiveKeys
<1>19. RotationsOK'
  <2> SUFFICES ASSUME NEW q \in Registrars, NEW j \in Issuers,
                      work'[q].stage = "rotating", work'[q].issuer = j
               PROVE  RotationGood(q, j)'
    BY DEF RotationsOK
  <2>1. q # s /\ work'[q] = work[q]
    BY <1>14 DEF RegIdle
  <2>2. RotationGood(q, j) /\ work[q].old \subseteq IssuerKeys
    BY <2>1, WorkKinds DEF RegInv, RotationsOK
  <2>3. j \notin raced => j # i
    BY <1>0, <1>1, <2>1, <2>2 DEF RotationGood
  <2>4. \A m \in work[q].old : ikey'[m].issuer = j /\ ikey'[m].status # "none"
    BY <1>0, <1>11, <2>2 DEF RotationGood
  <2>5. issuer'[j] # "none"
    BY <1>0, <1>1, <2>2 DEF RotationGood
  <2>6. j \notin raced' => /\ work'[q].old = ActiveKeys(j)'
                           /\ \A p \in Registrars :
                                 work'[p].stage = "rotating" /\ work'[p].issuer = j => p = q
    BY <1>0, <1>1, <1>14, <1>17, <2>1, <2>2, <2>3 DEF RotationGood, RegIdle
  <2> QED  BY <2>1, <2>4, <2>5, <2>6 DEF RotationGood
<1>20. SingleKeys'
  <2> SUFFICES ASSUME NEW j \in Issuers, issuer'[j] # "none", j \notin raced'
               PROVE  \E m \in IssuerKeys : ActiveKeys(j)' = {m}
    BY DEF SingleKeys
  <2>1. CASE j = i
    BY <1>1, <1>18, <2>1
  <2>2. CASE j # i
    BY <1>1, <1>17, <2>2 DEF RegInv, SingleKeys
  <2> QED  BY <2>1, <2>2
<1> QED  BY <1>12, <1>14, <1>16, <1>19, <1>20 DEF RegInv

\* Credentials that are revoked for good, or added under a fresh id, leave the issuers as they are
\* and the verifications with what they have read.
LEMMA CredentialsStep ==
    ASSUME RegInv, UNCHANGED <<regNow, issuer, ikey>>, raced \subseteq raced',
           \A i \in Issuers : i \in raced' => i \in raced \/ i = "agent",
           credential' \in [Creds -> CredentialRow],
           \A c \in Creds : credential[c].status # "none" =>
               /\ credential'[c].status # "none"
               /\ credential'[c].key = credential[c].key
               /\ credential'[c].envelope = credential[c].envelope
               /\ credential[c].status = "REVOKED" => credential'[c].status = "REVOKED",
           \A c \in Creds : credential'[c].status # "none" =>
               /\ credential'[c].envelope.id = c
               /\ ikey[credential'[c].key].issuer = credential'[c].envelope.issuer
               /\ ikey[credential'[c].key].status # "none",
           subject' \in [status : {"active", "retired"}, caps : SUBSET Capabilities],
           work' \in [Registrars -> WorkRec],
           \A q \in Registrars : work'[q] = work[q] \/ work'[q] = RegIdle
    PROVE  RegTypeOK' /\ RowsOK' /\ RotationsOK' /\ VerifyingOK' /\ SingleKeys'
<1>1. RegTypeOK'
  <2>1. \A q \in Registrars : work'[q].stage \in {"idle", "rotating", "signing"} \cup Verifying
    BY WorkKinds
  <2> QED  BY <2>1 DEF RegInv, RegTypeOK, Verifying
<1>2. RowsOK'
  BY DEF RegInv, RowsOK
<1>3. \A q \in Registrars : work'[q].stage # "idle" => work'[q] = work[q]
  BY DEF RegIdle
<1>4. \A i : ActiveKeys(i)' = ActiveKeys(i)
  BY DEF ActiveKeys
<1>5. RotationsOK' /\ SingleKeys'
  BY <1>3, <1>4 DEF RegInv, RotationsOK, RotationGood, SingleKeys
<1>6. VerifyingOK'
  <2> SUFFICES ASSUME NEW q \in Registrars, NEW w, w = work'[q], w.stage \in Verifying
               PROVE  VerifyingGood(w)'
    BY DEF VerifyingOK, VerifyingGood
  <2>1. w = work[q] /\ VerifyingGood(w) /\ w.presented.id \in Creds
    BY <1>3, WorkKinds DEF RegInv, VerifyingOK, Verifying, Envelope
  <2>2. PICK row, new : row = credential[w.presented.id] /\ new = credential'[w.presented.id]
    OBVIOUS
  <2>3. /\ new.status # "none" /\ new.key = row.key /\ new.envelope = row.envelope
        /\ row.status = "REVOKED" => new.status = "REVOKED"
    BY <2>1, <2>2 DEF VerifyingGood
  <2> QED  BY <2>1, <2>2, <2>3 DEF VerifyingGood
<1> QED  BY <1>1, <1>2, <1>5, <1>6

\* A new credential is under the key that its issuance loaded.
LEMMA IssueOK ==
    ASSUME RegInv, NEW s \in Registrars, NEW c \in Creds, NEW env \in Environments,
           issue_agent_credential(s, c, env)
    PROVE  RegInv'
<1>1. PICK t : t = work[s]
  OBVIOUS
<1>2. /\ t.stage = "signing" /\ t.issuer \in Issuers /\ t.key \in IssuerKeys
      /\ t.caps \in SUBSET Capabilities /\ SigningGood(t)
  BY <1>1, WorkKinds DEF issue_agent_credential, RegInv, SigningOK
<1>3. PICK e : e = [id |-> c, issuer |-> t.issuer, env |-> env, expires |-> regNow + Validity, caps |-> t.caps]
  OBVIOUS
<1>4. PICK row : row = [status |-> "ACTIVE", key |-> t.key, envelope |-> e]
  OBVIOUS
<1>5. regNow + Validity \in Nat
  BY RegTimeAssumption DEF RegInv, RegTypeOK
<1>6. e \in Envelope /\ e.id = c /\ e.issuer = t.issuer
  BY <1>2, <1>3, <1>5 DEF Envelope
<1>7. row \in CredentialRow /\ row.status = "ACTIVE" /\ row.key = t.key /\ row.envelope = e
  BY <1>2, <1>4, <1>6 DEF CredentialRow
<1>8. /\ credential[c].status = "none" /\ credential' = [credential EXCEPT ![c] = row]
      /\ work' = [work EXCEPT ![s] = RegIdle] /\ UNCHANGED <<regNow, subject, issuer, ikey, raced>>
  BY <1>1, <1>3, <1>4 DEF issue_agent_credential, Finish
<1>9. /\ credential' \in [Creds -> CredentialRow] /\ credential'[c] = row
      /\ \A d \in Creds \ {c} : credential'[d] = credential[d]
  BY <1>7, <1>8 DEF RegInv, RegTypeOK
<1>10. /\ work' \in [Registrars -> WorkRec] /\ work'[s] = RegIdle
       /\ \A q \in Registrars \ {s} : work'[q] = work[q]
  BY <1>8 DEF RegInv, WorkRec
<1>11. \A d \in Creds : credential[d].status # "none" =>
               /\ credential'[d].status # "none"
               /\ credential'[d].key = credential[d].key
               /\ credential'[d].envelope = credential[d].envelope
               /\ credential[d].status = "REVOKED" => credential'[d].status = "REVOKED"
  BY <1>8, <1>9
<1>12. \A d \in Creds : credential'[d].status # "none" =>
               /\ credential'[d].envelope.id = d
               /\ ikey[credential'[d].key].issuer = credential'[d].envelope.issuer
               /\ ikey[credential'[d].key].status # "none"
  BY <1>2, <1>6, <1>7, <1>9 DEF RegInv, RowsOK, SigningGood
<1>13. subject' \in [status : {"active", "retired"}, caps : SUBSET Capabilities]
  BY <1>8 DEF RegInv, RegTypeOK
<1>14. RegTypeOK' /\ RowsOK' /\ RotationsOK' /\ VerifyingOK' /\ SingleKeys'
  BY <1>8, <1>9, <1>10, <1>11, <1>12, <1>13, CredentialsStep
<1>15. SigningOK'
  BY <1>8, <1>10 DEF RegInv, SigningOK, SigningGood, RegIdle
<1>16. RetiredHoldsNone'
  BY <1>2, <1>8 DEF RetiredHoldsNone, SigningGood
<1> QED  BY <1>10, <1>14, <1>15, <1>16 DEF RegInv

\* A credential that is revoked stays revoked.
LEMMA RevokeOK ==
    ASSUME RegInv, NEW c \in Creds, revoke_agent_credential(c)
    PROVE  RegInv'
<1>1. credential[c] \in CredentialRow
  BY DEF RegInv, RegTypeOK
<1>2. PICK row : row = [credential[c] EXCEPT !.status = "REVOKED"]
  OBVIOUS
<1>3. /\ row \in CredentialRow /\ row.status = "REVOKED" /\ row.key = credential[c].key
      /\ row.envelope = credential[c].envelope
  BY <1>1, <1>2 DEF CredentialRow
<1>4. /\ credential[c].status # "none" /\ credential' = [credential EXCEPT ![c] = row]
      /\ UNCHANGED <<regNow, subject, issuer, ikey, work, raced>>
  BY <1>2 DEF revoke_agent_credential
<1>5. /\ credential' \in [Creds -> CredentialRow] /\ credential'[c] = row
      /\ \A d \in Creds \ {c} : credential'[d] = credential[d]
  BY <1>3, <1>4 DEF RegInv, RegTypeOK
<1>6. RegTypeOK' /\ RowsOK' /\ RotationsOK' /\ VerifyingOK' /\ SingleKeys'
  BY <1>3, <1>4, <1>5, CredentialsStep DEF RegInv, RegTypeOK, RowsOK
<1>7. SigningOK' /\ RetiredHoldsNone'
  BY <1>3, <1>4, <1>5 DEF RegInv, SigningOK, SigningGood, RetiredHoldsNone
<1> QED  BY <1>4, <1>6, <1>7 DEF RegInv

\* The retirement revokes every credential there is; an issuance under way is a race.
LEMMA RetireOK ==
    ASSUME RegInv, RetireAgent
    PROVE  RegInv'
<1>1. /\ subject' = [subject EXCEPT !.status = "retired"]
      /\ credential' = [c \in Creds |-> _execute_retirement_cleanup(c)]
      /\ raced \subseteq raced' /\ raced' \subseteq raced \cup {"agent"}
      /\ (\E s \in Registrars : work[s].stage = "signing") => "agent" \in raced'
      /\ UNCHANGED <<regNow, issuer, ikey, work>>
  BY DEF RetireAgent
<1>2. \A c \in Creds : /\ credential'[c] \in CredentialRow /\ credential'[c].status # "ACTIVE"
                       /\ credential'[c].key = credential[c].key
                       /\ credential'[c].envelope = credential[c].envelope
                       /\ credential'[c].status = "none" <=> credential[c].status = "none"
                       /\ credential[c].status = "REVOKED" => credential'[c].status = "REVOKED"
  <2> SUFFICES ASSUME NEW c \in Creds
               PROVE  /\ credential'[c] \in CredentialRow /\ credential'[c].status # "ACTIVE"
                      /\ credential'[c].key = credential[c].key
                      /\ credential'[c].envelope = credential[c].envelope
                      /\ credential'[c].status = "none" <=> credential[c].status = "none"
                      /\ credential[c].status = "REVOKED" => credential'[c].status = "REVOKED"
    OBVIOUS
  <2>1. credential[c] \in CredentialRow
    BY DEF RegInv, RegTypeOK
  <2>2. credential'[c] = IF credential[c].status = "ACTIVE"
                         THEN [credential[c] EXCEPT !.status = "REVOKED"] ELSE credential[c]
    BY <1>1 DEF _execute_retirement_cleanup
  <2> QED  BY <2>1, <2>2 DEF CredentialRow
<1>3. credential' \in [Creds -> CredentialRow]
  BY <1>1, <1>2
<1>4. subject' \in [status : {"active", "retired"}, caps : SUBSET Capabilities]
  BY <1>1 DEF RegInv, RegTypeOK
<1>5. RegTypeOK' /\ RowsOK' /\ RotationsOK' /\ VerifyingOK' /\ SingleKeys'
  BY <1>1, <1>2, <1>3, <1>4, CredentialsStep DEF RegInv, RowsOK
<1>6. SigningOK' /\ RetiredHoldsNone'
  BY <1>1, <1>2 DEF RegInv, SigningOK, SigningGood, RetiredHoldsNone
<1> QED  BY <1>1, <1>5, <1>6 DEF RegInv

\* An agent that is restored has no credential that its retirement revoked.
LEMMA RestoreOK ==
    ASSUME RegInv, RestoreAgent
    PROVE  RegInv'
<1>1. subject' = [subject EXCEPT !.status = "active"]
      /\ UNCHANGED <<regNow, issuer, ikey, credential, work, raced>>
  BY DEF RestoreAgent
<1>2. /\ subject' \in [status : {"active", "retired"}, caps : SUBSET Capabilities]
      /\ subject'.status = "active"
  BY <1>1 DEF RegInv, RegTypeOK
<1>3. RegTypeOK' /\ RowsOK' /\ RotationsOK' /\ VerifyingOK' /\ SingleKeys'
  BY <1>1, <1>2, CredentialsStep DEF RegInv, RegTypeOK, RowsOK
<1>4. SigningOK' /\ RetiredHoldsNone'
  BY <1>1, <1>2 DEF RegInv, SigningOK, SigningGood, RetiredHoldsNone
<1> QED  BY <1>1, <1>3, <1>4 DEF RegInv

\* The clock, and stuttering.
LEMMA RegClockOK ==
    ASSUME RegInv, RegTick \/ UNCHANGED regVars
    PROVE  RegInv'
<1>1. /\ UNCHANGED <<subject, issuer, ikey, credential, work, raced>> /\ regNow' \in 0 .. MaxRegTime
  BY RegTimeAssumption DEF RegTick, regVars, RegInv, RegTypeOK
<1>2. \A i : ActiveKeys(i)' = ActiveKeys(i)
  BY <1>1 DEF ActiveKeys
<1>3. RegTypeOK' /\ RowsOK' /\ RetiredHoldsNone'
  BY <1>1 DEF RegInv, RegTypeOK, RowsOK, RetiredHoldsNone
<1>4. RotationsOK' /\ SingleKeys'
  BY <1>1, <1>2 DEF RegInv, RotationsOK, RotationGood, SingleKeys
<1>5. SigningOK' /\ VerifyingOK'
  BY <1>1 DEF RegInv, SigningOK, SigningGood, VerifyingOK, VerifyingGood
<1> QED  BY <1>1, <1>3, <1>4, <1>5 DEF RegInv

-----------------------------------------------------------------------------
(* Theorems of the trust registry.                                         *)

LEMMA RegNextOK ==
    ASSUME RegInv, [RegNext]_regVars
    PROVE  RegInv'
BY RegClockOK, RetireOK, RestoreOK, CreateIssuerOK, StopIssuerOK, LoadRotationOK, RotateOK,
   LoadIssueOK, IssueOK, RevokeOK, PresentOK, VerifyOK DEF RegNext

\* The inductive invariant holds for any number of sessions, issuers, keys and credentials.
THEOREM RegInvariance == RegSpec => []RegInv
<1> QED  BY RegInitOK, RegNextOK, PTL DEF RegSpec

\* However requests overlap: an issuer has one ACTIVE key unless its rotations overlapped; a
\* verification accepts no credential and no key revoked before it began, and none outside its
\* environment; a retired agent holds no ACTIVE credential unless one was being issued.
THEOREM RegistryTheorem == RegSpec => []RegistryHolds
<1>1. RegInv => OneActiveKey
  <2> SUFFICES ASSUME RegInv, NEW i \in Issuers, issuer[i] # "none", i \notin raced
               PROVE  Cardinality(ActiveKeys(i)) = 1
    BY DEF OneActiveKey
  <2>1. PICK k \in IssuerKeys : ActiveKeys(i) = {k}
    BY DEF RegInv, SingleKeys
  <2> QED  BY <2>1, FS_Singleton
<1>2. RegInv => AcceptedWasGood
  <2> SUFFICES ASSUME RegInv, NEW s \in Registrars, work[s].stage = "accepted"
               PROVE  /\ ~work[s].began.revoked
                      /\ work[s].presented.issuer \notin raced => ~work[s].began.badkey
                      /\ work[s].expected = "production" =>
                            credential[work[s].presented.id].envelope.env = "production"
    BY DEF AcceptedWasGood
  <2> QED  BY DEF RegInv, VerifyingOK, VerifyingGood, Verifying
<1>3. RegInv => RegistryHolds
  BY <1>1, <1>2 DEF RegInv, RegistryHolds
<1> QED  BY <1>3, RegInvariance, PTL

\* A key that was revoked stays revoked, unless rotations of its issuer overlapped.
THEOREM KeyRevocationTheorem == RegSpec => KeyRevocationStands
<1> DEFINE Good == \A k \in IssuerKeys : (ikey[k].status = "REVOKED" /\ ikey[k].issuer \notin raced)
                                            => ikey'[k].status = "REVOKED"
<1>1. ASSUME RegInv, RegNext  PROVE Good
  <2>1. CASE UNCHANGED ikey
    BY <2>1
  <2>2. CASE \E i \in Issuers, k \in IssuerKeys : create_credential_issuer(i, k)
    BY <1>1, <2>2 DEF create_credential_issuer, RegInv, RegTypeOK
  <2>3. CASE \E s \in Registrars, k \in IssuerKeys, b \in BOOLEAN : rotate_issuer_signing_key(s, k, b)
    BY <1>1, <2>3, RotateOK
  <2> QED  BY <1>1, <2>1, <2>2, <2>3
           DEF RegNext, RegTick, RetireAgent, RestoreAgent, StopIssuer, LoadRotation, LoadIssue,
               issue_agent_credential, revoke_agent_credential, Present, verify_agent_credential,
               VerifySignature, VerifyRow, VerifySubject, Answer, Step
<1>2. RegInv /\ [RegNext]_regVars => [Good]_regVars
  BY <1>1
<1>3. [][Good]_regVars => KeyRevocationStands
  BY DEF KeyRevocationStands
<1> QED  BY <1>2, <1>3, RegInvariance, PTL DEF RegSpec

-----------------------------------------------------------------------------
(* Trust between organizations.  No handler locks the rows it loads, so the *)
(* promises are for rows that no two handlers worked on at the same time;   *)
(* FedInv adds what a handler has loaded by each stage, and that whoever    *)
(* meets another at work leaves it on record (OneAtWork).                   *)

BondRows == [trust : TrustRow, conn : ConnRow, tpolicy : PolicyRows, gpolicy : PolicyRows]
FedTasks ==
    {FedIdle}
    \cup [stage : {"trust"}, on : {"trust"}, offer : clients.offers, loaded : BondRows]
    \cup [stage : {"verified"}, on : XKeys, key : XKeys, payload : Payloads]
    \cup [stage : {"trusted"}, on : XKeys, key : XKeys, payload : Payloads, grant : SourceGrants,
          trust : TrustRow]
    \cup [stage : {"judged"}, on : XKeys, key : XKeys, row : XRequestRow]
    \cup [stage : {"deciding", "flushed"}, on : XRows, org : Stages,
          decision : {"APPROVED", "REJECTED"}, last : BOOLEAN]

FedTyped ==
    /\ FedTypeOK /\ clients \in FedWorlds
    /\ bond \in BondRows
    /\ task \in [Callers -> FedTasks]

\* What two handlers work on at the same time is on record.
OneAtWork ==
    \A s, q \in Callers :
        (task[s] # FedIdle /\ task[q] # FedIdle /\ task[s].on = task[q].on
           /\ task[s].on \notin overlapped) => s = q

\* What an operation on the trust was admitted for, and that nothing else has changed it.
OfferOK(s) ==
    LET x == task[s].offer  b == task[s].loaded IN
    /\ x.op = "request" => b.trust.status # "ACTIVE"
    /\ x.op \in {"accept", "reject"} => b.trust.status = "PENDING"
    /\ x.op = "connect" => b.trust.status = "ACTIVE"
    /\ "trust" \notin overlapped => b = bond

\* The status of a row agrees with its approvals.
Agrees(row) ==
    /\ row.status = "APPROVED" => \A o \in Stages : row.approval[o] \in {"none", "APPROVED"}
    /\ row.status = "REJECTED" =>
         (\A o \in Stages : row.approval[o] = "none") \/ (\E o \in Stages : row.approval[o] = "REJECTED")
    /\ row.status = "PENDING" =>
         (\E o \in Stages : row.approval[o] = "PENDING") /\ (\A o \in Stages : row.approval[o] # "REJECTED")

\* A request that is being judged has no row yet, and the row it gets agrees with itself.
JudgingOK(s) ==
    /\ task[s].on = task[s].key
    /\ task[s].key \notin overlapped => Holding(task[s].key) = {}
    /\ task[s].stage = "judged" =>
         task[s].row.key = task[s].key /\ task[s].row.status # "none" /\ Agrees(task[s].row)

\* A decision that nothing overlapped finds the request as it loaded it.
DecidingOK(s) ==
    LET r == task[s].on IN
    /\ xreq[r].status # "none"
    /\ r \notin overlapped =>
         /\ xreq[r].status = "PENDING" /\ xreq[r].approval[task[s].org] = "PENDING"
         /\ task[s].stage = "flushed" => task[s].decision = "APPROVED" /\ (task[s].last <=> NoneRemaining(task[s]))

OffersOK == \A s \in Callers : task[s].stage = "trust" => OfferOK(s)
JudgingsOK == \A s \in Callers : task[s].stage \in {"verified", "trusted", "judged"} => JudgingOK(s)
DecidingsOK == \A s \in Callers : task[s].stage \in {"deciding", "flushed"} => DecidingOK(s)
RowsAgree == \A r \in XRows : (xreq[r].status # "none" /\ r \notin overlapped) => Agrees(xreq[r])
KeysSingle ==
    \A r, q \in XRows : (/\ xreq[r].status # "none" /\ xreq[q].status # "none"
                         /\ xreq[r].key = xreq[q].key /\ xreq[r].key \notin overlapped) => r = q

FedInv ==
    /\ FedTyped /\ OneAtWork
    /\ SerialTrust /\ PolicyAsSubmitted
    /\ OffersOK /\ JudgingsOK /\ DecidingsOK
    /\ RowsAgree /\ KeysSingle

-----------------------------------------------------------------------------
(* What a handler is at work on.                                           *)

\* What a handler has loaded, by its stage.
LEMMA FedTaskFacts ==
    ASSUME FedTyped, NEW s \in Callers, NEW t, t = task[s]
    PROVE  /\ t = FedIdle \/ t \in FedTasks \ {FedIdle}
           /\ t.stage \in {"idle", "trust", "verified", "trusted", "judged", "deciding", "flushed"}
           /\ t.stage = "idle" <=> t = FedIdle
           /\ t.stage = "trust" => t.on = "trust" /\ t.offer \in clients.offers /\ t.loaded \in BondRows
           /\ t.stage \in {"verified", "trusted"} => t.on \in XKeys /\ t.key \in XKeys /\ t.payload \in Payloads
           /\ t.stage = "trusted" => t.grant \in SourceGrants /\ t.trust \in TrustRow
           /\ t.stage = "judged" => t.on \in XKeys /\ t.key \in XKeys /\ t.row \in XRequestRow
           /\ t.stage \in {"deciding", "flushed"} =>
                t.on \in XRows /\ t.org \in Stages /\ t.decision \in {"APPROVED", "REJECTED"} /\ t.last \in BOOLEAN
<1>1. t \in FedTasks
  BY DEF FedTyped
<1>2. CASE t = FedIdle
  BY <1>2 DEF FedIdle
<1>3. CASE t \in [stage : {"trust"}, on : {"trust"}, offer : clients.offers, loaded : BondRows]
  BY <1>1, <1>3 DEF FedIdle
<1>4. CASE t \in [stage : {"verified"}, on : XKeys, key : XKeys, payload : Payloads]
  BY <1>1, <1>4 DEF FedIdle
<1>5. CASE t \in [stage : {"trusted"}, on : XKeys, key : XKeys, payload : Payloads, grant : SourceGrants,
                  trust : TrustRow]
  BY <1>1, <1>5 DEF FedIdle
<1>6. CASE t \in [stage : {"judged"}, on : XKeys, key : XKeys, row : XRequestRow]
  BY <1>1, <1>6 DEF FedIdle
<1>7. CASE t \in [stage : {"deciding", "flushed"}, on : XRows, org : Stages,
                  decision : {"APPROVED", "REJECTED"}, last : BOOLEAN]
  BY <1>1, <1>7 DEF FedIdle
<1> QED  BY <1>1, <1>2, <1>3, <1>4, <1>5, <1>6, <1>7 DEF FedTasks

\* A handler that goes on with what it works on, or ends, meets nobody.
LEMMA FedGoesOn ==
    ASSUME FedTyped, OneAtWork, NEW s \in Callers, NEW t, task' = [task EXCEPT ![s] = t],
           UNCHANGED overlapped,
           t = FedIdle \/ (task[s] # FedIdle /\ t.on = task[s].on)
    PROVE  OneAtWork'
<1>1. \A q \in Callers : task'[q] = IF q = s THEN t ELSE task[q]
  BY DEF FedTyped
<1> QED  BY <1>1 DEF OneAtWork

\* A handler that begins on what another is at work on leaves it on record.
LEMMA FedBegins ==
    ASSUME FedTyped, OneAtWork, NEW s \in Callers, NEW x, NEW t, Begin(s, x, t), t.on = x
    PROVE  /\ OneAtWork' /\ overlapped \subseteq overlapped' /\ task[s] = FedIdle
           /\ task' = [task EXCEPT ![s] = t]
           /\ x \notin overlapped' => \A q \in Callers : task[q] # FedIdle => task[q].on # x
<1>1. \A q \in Callers : task'[q] = IF q = s THEN t ELSE task[q]
  BY DEF FedTyped, Begin
<1>2. /\ overlapped \subseteq overlapped'
      /\ x \notin overlapped' => \A q \in Callers : task[q] # FedIdle => task[q].on # x
  BY DEF Begin
<1> QED  BY <1>1, <1>2 DEF OneAtWork, Begin

\* A step that changes what one handler has loaded, and perhaps what is on record, leaves
\* everything else as it was.
LEMMA FedTaskStep ==
    ASSUME FedInv, NEW s \in Callers, NEW t, t \in FedTasks, task' = [task EXCEPT ![s] = t],
           overlapped \subseteq overlapped', OneAtWork', UNCHANGED <<fedNow, clients, bond, xreq>>,
           t.stage = "trust" => OfferOK(s)',
           t.stage \in {"verified", "trusted", "judged"} => JudgingOK(s)',
           t.stage \in {"deciding", "flushed"} => DecidingOK(s)'
    PROVE  FedInv'
<1>1. /\ \A q \in Callers : task'[q] = IF q = s THEN t ELSE task[q]
      /\ task' \in [Callers -> FedTasks] /\ clients' = clients /\ bond' = bond /\ xreq' = xreq
  BY DEF FedInv, FedTyped
<1>2. t.stage \in {"idle", "trust", "verified", "trusted", "judged", "deciding", "flushed"}
  BY DEF FedTasks, FedIdle
<1>3. FedTyped'
  <2>1. FedTypeOK'
    BY <1>1, <1>2 DEF FedInv, FedTyped, FedTypeOK
  <2>2. FedTasks' = FedTasks
    BY DEF FedTasks
  <2> QED  BY <1>1, <2>1, <2>2 DEF FedInv, FedTyped
<1>4. SerialTrust' /\ PolicyAsSubmitted' /\ RowsAgree' /\ KeysSingle'
  <2>1. SerialTrust'
    BY <1>1 DEF FedInv, SerialTrust
  <2>2. PolicyAsSubmitted'
    BY <1>1 DEF FedInv, PolicyAsSubmitted
  <2>3. RowsAgree' /\ KeysSingle'
    BY <1>1 DEF FedInv, RowsAgree, KeysSingle
  <2> QED  BY <2>1, <2>2, <2>3
<1>5. OffersOK'
  <2> SUFFICES ASSUME NEW q \in Callers, q # s, task[q].stage = "trust", OfferOK(q)  PROVE OfferOK(q)'
    BY <1>1 DEF FedInv, OffersOK
  <2> QED  BY <1>1 DEF OfferOK
<1>6. JudgingsOK'
  <2> SUFFICES ASSUME NEW q \in Callers, q # s, task[q].stage \in {"verified", "trusted", "judged"}, JudgingOK(q)
               PROVE  JudgingOK(q)'
    BY <1>1 DEF FedInv, JudgingsOK
  <2> QED  BY <1>1 DEF JudgingOK, Holding
<1>7. DecidingsOK'
  <2> SUFFICES ASSUME NEW q \in Callers, q # s, task[q].stage \in {"deciding", "flushed"}, DecidingOK(q)
               PROVE  DecidingOK(q)'
    BY <1>1 DEF FedInv, DecidingsOK
  <2>1. task'[q] = task[q]
    BY <1>1
  <2>2. NoneRemaining(task[q])' <=> NoneRemaining(task[q])
    BY <1>1, <2>1 DEF NoneRemaining
  <2> QED  BY <1>1, <2>1, <2>2 DEF DecidingOK
<1> QED  BY <1>3, <1>4, <1>5, <1>6, <1>7 DEF FedInv

-----------------------------------------------------------------------------
(* The steps that change only what a handler has loaded.                   *)

LEMMA FedIdleOK ==
    ASSUME FedInv, NEW s \in Callers, task[s] # FedIdle, task' = [task EXCEPT ![s] = FedIdle],
           UNCHANGED <<fedNow, clients, bond, xreq, overlapped>>
    PROVE  FedInv'
<1>1. FedIdle \in FedTasks /\ FedIdle.stage = "idle"
  BY DEF FedTasks, FedIdle
<1>2. OneAtWork'
  BY FedGoesOn DEF FedInv
<1> QED  BY <1>1, <1>2, FedTaskStep

LEMMA LoadTrustOK ==
    ASSUME FedInv, NEW s \in Callers, NEW org \in Orgs, NEW x \in clients.offers, LoadTrust(s, org, x)
    PROVE  FedInv'
<1> DEFINE t == [stage |-> "trust", on |-> "trust", offer |-> x, loaded |-> bond]
<1>1. t \in FedTasks
  BY DEF FedInv, FedTyped, FedTasks
<1>2. /\ OneAtWork' /\ overlapped \subseteq overlapped'
      /\ task' = [task EXCEPT ![s] = t]
  <2>1. Begin(s, "trust", t)
    BY DEF LoadTrust
  <2> QED  BY <2>1, FedBegins DEF FedInv
<1>3. OfferOK(s)'
  <2>1. /\ task'[s].offer = x /\ task'[s].loaded = bond /\ bond' = bond
        /\ Admissible(org, x)
    BY <1>2 DEF FedInv, FedTyped, LoadTrust
  <2>2. /\ x.op = "request" => bond.trust.status # "ACTIVE"
        /\ x.op \in {"accept", "reject"} => bond.trust.status = "PENDING"
        /\ x.op = "connect" => bond.trust.status = "ACTIVE"
    BY <2>1 DEF Admissible, AwaitsTarget
  <2> QED  BY <2>1, <2>2 DEF OfferOK
<1>4. UNCHANGED <<fedNow, clients, bond, xreq>>
  BY DEF LoadTrust
<1> HIDE DEF t
<1>5. t.stage = "trust"
  BY DEF t
<1> QED  BY <1>1, <1>2, <1>3, <1>4, <1>5, FedTaskStep

LEMMA BeginAuthorizeOK ==
    ASSUME FedInv, NEW s \in Callers, NEW org, NEW k \in XKeys, NEW p \in Payloads, BeginAuthorize(s, org, k, p)
    PROVE  FedInv'
<1> DEFINE t == [stage |-> "verified", on |-> k, key |-> k, payload |-> p]
<1>1. t \in FedTasks
  BY DEF FedTasks
<1>2. /\ OneAtWork' /\ overlapped \subseteq overlapped'
      /\ task' = [task EXCEPT ![s] = t]
  <2>1. Begin(s, k, t)
    BY DEF BeginAuthorize
  <2> QED  BY <2>1, FedBegins DEF FedInv
<1>3. JudgingOK(s)'
  <2>1. task'[s].key = k /\ task'[s].on = k /\ task'[s].stage = "verified"
    BY <1>2 DEF FedInv, FedTyped
  <2>2. Holding(k) = {} /\ xreq' = xreq
    BY DEF BeginAuthorize, MayProceed
  <2> QED  BY <2>1, <2>2 DEF JudgingOK, Holding
<1>4. UNCHANGED <<fedNow, clients, bond, xreq>>
  BY DEF BeginAuthorize
<1> HIDE DEF t
<1>5. t.stage = "verified"
  BY DEF t
<1> QED  BY <1>1, <1>2, <1>3, <1>4, <1>5, FedTaskStep

LEMMA ReadTrustOK ==
    ASSUME FedInv, NEW s \in Callers, NEW g \in SourceGrants, ReadTrust(s, g)
    PROVE  FedInv'
<1>1. task[s].stage = "verified" /\ UNCHANGED <<fedNow, clients, bond, xreq, overlapped>>
  BY DEF ReadTrust
<1>2. task[s].on \in XKeys /\ task[s].key \in XKeys /\ task[s].payload \in Payloads /\ task[s] # FedIdle
  BY <1>1, FedTaskFacts DEF FedInv
<1>3. CASE task' = [task EXCEPT ![s] = FedIdle]
  BY <1>1, <1>2, <1>3, FedIdleOK
<1>4. CASE task' = [task EXCEPT ![s] =
                       [stage |-> "trusted", on |-> task[s].key, key |-> task[s].key,
                        payload |-> task[s].payload, grant |-> g, trust |-> bond.trust]]
  <2>1. PICK t : t = [stage |-> "trusted", on |-> task[s].key, key |-> task[s].key,
                      payload |-> task[s].payload, grant |-> g, trust |-> bond.trust]
    OBVIOUS
  <2>2. t \in FedTasks
    BY <1>2, <2>1 DEF FedTasks, FedInv, FedTyped, FedTypeOK
  <2>3. JudgingOK(s)
    BY <1>1 DEF FedInv, JudgingsOK
  <2>4. /\ task' = [task EXCEPT ![s] = t] /\ t.on = task[s].on /\ task'[s] = t
        /\ t.key = task[s].key /\ t.stage = "trusted"
    BY <1>4, <2>1, <2>3 DEF JudgingOK, FedInv, FedTyped
  <2>5. OneAtWork'
    BY <1>1, <1>2, <2>4, FedGoesOn DEF FedInv
  <2>6. JudgingOK(s)'
    BY <1>1, <2>3, <2>4 DEF JudgingOK, Holding
  <2> QED  BY <1>1, <2>2, <2>4, <2>5, <2>6, FedTaskStep
<1> QED  BY <1>3, <1>4 DEF ReadTrust

\* The row of a request that was judged agrees with itself.
LEMMA NewRequestFacts ==
    ASSUME FedTypeOK, NEW t, t.key \in XKeys, t.payload \in Payloads, NEW row, row = NewRequest(t)
    PROVE  /\ row \in XRequestRow /\ row.key = t.key /\ row.status # "none" /\ Agrees(row)
           /\ row.status # "REJECTED" => Permitted(t)
<1>1. PICK asked : /\ asked \subseteq Stages
                   /\ Permitted(t) => asked = ApprovalStages(t)
                   /\ ~Permitted(t) => asked = {}
  <2>1. ApprovalStages(t) \subseteq Stages
    BY DEF ApprovalStages, FedTypeOK, PolicyRows, Stages, Parties
  <2>2. CASE Permitted(t)
    BY <2>1, <2>2
  <2>3. CASE ~Permitted(t)
    BY <2>3
  <2> QED  BY <2>2, <2>3
<1>2. PICK ap : ap = [o \in Stages |-> IF o \in asked THEN "PENDING" ELSE "none"]
  OBVIOUS
<1>3. PICK st : st = CASE ~Permitted(t) -> "REJECTED" [] asked # {} -> "PENDING" [] OTHER -> "APPROVED"
  OBVIOUS
<1>4. row = [status |-> st, key |-> t.key, payload |-> t.payload, approval |-> ap]
  BY <1>1, <1>2, <1>3 DEF NewRequest
<1>5. /\ ~Permitted(t) => st = "REJECTED" /\ asked = {}
      /\ Permitted(t) /\ asked # {} => st = "PENDING"
      /\ Permitted(t) /\ asked = {} => st = "APPROVED"
  BY <1>1, <1>3
<1>6. ap \in [Stages -> ApprovalStatus] /\ st \in ApprovalStatus /\ st # "none"
  BY <1>2, <1>5 DEF ApprovalStatus
<1>7. row \in XRequestRow /\ row.key = t.key /\ row.status = st /\ row.approval = ap
  BY <1>4, <1>6 DEF XRequestRow
<1>8. Agrees(row)
  BY <1>1, <1>2, <1>5, <1>7 DEF Agrees
<1> QED  BY <1>5, <1>6, <1>7, <1>8

LEMMA JudgeOK ==
    ASSUME FedInv, NEW s \in Callers, Judge(s)
    PROVE  FedInv'
<1>1. task[s].stage = "trusted" /\ UNCHANGED <<fedNow, clients, bond, xreq, overlapped>>
  BY DEF Judge
<1>2. task[s].on \in XKeys /\ task[s].key \in XKeys /\ task[s].payload \in Payloads /\ task[s] # FedIdle
  BY <1>1, FedTaskFacts DEF FedInv
<1>3. PICK row : row = NewRequest(task[s])
  OBVIOUS
<1>4. row \in XRequestRow /\ row.key = task[s].key /\ row.status # "none" /\ Agrees(row)
  BY <1>2, <1>3, NewRequestFacts DEF FedInv, FedTyped
<1>5. PICK t : t = [stage |-> "judged", on |-> task[s].key, key |-> task[s].key, row |-> row]
  OBVIOUS
<1>6. t \in FedTasks
  BY <1>2, <1>4, <1>5 DEF FedTasks
<1>7. JudgingOK(s)
  BY <1>1 DEF FedInv, JudgingsOK
<1>8. task' = [task EXCEPT ![s] = t] /\ task'[s] = t
  BY <1>3, <1>5 DEF Judge, FedInv, FedTyped
<1>9. t.on = task[s].on /\ t.key = task[s].key /\ t.stage = "judged" /\ t.row = row
  BY <1>5, <1>7 DEF JudgingOK
<1>10. OneAtWork'
  BY <1>1, <1>2, <1>8, <1>9, FedGoesOn DEF FedInv
<1>11. JudgingOK(s)'
  BY <1>1, <1>4, <1>7, <1>8, <1>9 DEF JudgingOK, Holding, Agrees
<1> QED  BY <1>1, <1>6, <1>8, <1>9, <1>10, <1>11, FedTaskStep

LEMMA LoadDecisionOK ==
    ASSUME FedInv, NEW s \in Callers, NEW r \in XRows, NEW org \in Orgs, NEW d \in {"APPROVED", "REJECTED"},
           LoadDecision(s, r, org, d)
    PROVE  FedInv'
<1>1. PICK t : t = [stage |-> "deciding", on |-> r, org |-> org, decision |-> d, last |-> FALSE]
  OBVIOUS
<1>2. t \in FedTasks
  BY <1>1 DEF FedTasks, LoadDecision
<1>3. /\ OneAtWork' /\ overlapped \subseteq overlapped'
      /\ task' = [task EXCEPT ![s] = t]
  <2>1. Begin(s, r, t) /\ t.on = r
    BY <1>1 DEF LoadDecision
  <2> QED  BY <2>1, FedBegins DEF FedInv
<1>4. DecidingOK(s)'
  <2>1. task'[s].on = r /\ task'[s].org = org /\ task'[s].stage = "deciding"
    BY <1>1, <1>3 DEF FedInv, FedTyped
  <2>2. xreq[r].status = "PENDING" /\ xreq[r].approval[org] = "PENDING" /\ xreq' = xreq
    BY DEF LoadDecision, Decidable
  <2> QED  BY <2>1, <2>2 DEF DecidingOK
<1>5. UNCHANGED <<fedNow, clients, bond, xreq>> /\ t.stage = "deciding"
  BY <1>1 DEF LoadDecision
<1> QED  BY <1>2, <1>3, <1>4, <1>5, FedTaskStep

LEMMA FlushApprovalOK ==
    ASSUME FedInv, NEW s \in Callers, FlushApproval(s)
    PROVE  FedInv'
<1>1. /\ task[s].stage = "deciding" /\ task[s].decision = "APPROVED"
      /\ UNCHANGED <<fedNow, clients, bond, xreq, overlapped>>
  BY DEF FlushApproval
<1>2. task[s].on \in XRows /\ task[s].org \in Stages /\ task[s] # FedIdle
  BY <1>1, FedTaskFacts DEF FedInv
<1>3. PICK l : l \in BOOLEAN /\ l = NoneRemaining(task[s]) /\ (l <=> NoneRemaining(task[s]))
  <2>1. NoneRemaining(task[s]) \in BOOLEAN
    BY DEF NoneRemaining
  <2> QED  BY <2>1
<1>4. PICK t : t = [task[s] EXCEPT !.stage = "flushed", !.last = l]
  OBVIOUS
<1>5. /\ t \in FedTasks /\ t.on = task[s].on /\ t.org = task[s].org /\ t.decision = task[s].decision
      /\ t.stage = "flushed" /\ t.last = l
  <2>1. task[s] \in [stage : {"deciding", "flushed"}, on : XRows, org : Stages,
                     decision : {"APPROVED", "REJECTED"}, last : BOOLEAN]
    <3>1. task[s] \in FedTasks
      BY DEF FedInv, FedTyped
    <3> QED  BY <3>1, <1>1 DEF FedTasks, FedIdle
  <2>2. t \in [stage : {"deciding", "flushed"}, on : XRows, org : Stages,
               decision : {"APPROVED", "REJECTED"}, last : BOOLEAN]
    BY <2>1, <1>3, <1>4
  <2>3. t \in FedTasks
    BY <2>2 DEF FedTasks
  <2> QED  BY <2>1, <2>3, <1>4
<1>6. task' = [task EXCEPT ![s] = t] /\ task'[s] = t
  BY <1>3, <1>4 DEF FlushApproval, FedInv, FedTyped
<1>7. OneAtWork'
  BY <1>1, <1>2, <1>5, <1>6, FedGoesOn DEF FedInv
<1>8. DecidingOK(s)
  BY <1>1 DEF FedInv, DecidingsOK
<1>9. DecidingOK(s)'
  <2>1. NoneRemaining(task[s])' <=> NoneRemaining(task[s])
    BY <1>1, <1>5, <1>6 DEF NoneRemaining
  <2> QED  BY <1>1, <1>3, <1>5, <1>6, <1>8, <2>1 DEF DecidingOK
<1> QED  BY <1>1, <1>5, <1>6, <1>7, <1>9, FedTaskStep

LEMMA FedTickOK == FedInv /\ FedTick => FedInv'
<1> SUFFICES ASSUME FedInv, FedTick  PROVE FedInv'
  OBVIOUS
<1>1. fedNow' \in 1 .. MaxFedTime /\ UNCHANGED <<bond, xreq, task, overlapped, clients>>
  <2>1. fedNow \in 1 .. MaxFedTime
    BY DEF FedInv, FedTyped, FedTypeOK
  <2> QED  BY <2>1, PartiesAssumption DEF FedTick
<1>2. FedTyped'
  BY <1>1 DEF FedInv, FedTyped, FedTypeOK, FedTasks
<1>3. OneAtWork' /\ SerialTrust' /\ PolicyAsSubmitted'
  BY <1>1 DEF FedInv, OneAtWork, SerialTrust, PolicyAsSubmitted
<1>4. OffersOK' /\ JudgingsOK' /\ DecidingsOK'
  BY <1>1 DEF FedInv, OffersOK, OfferOK, JudgingsOK, JudgingOK, Holding, DecidingsOK, DecidingOK, NoneRemaining
<1>5. RowsAgree' /\ KeysSingle'
  BY <1>1 DEF FedInv, RowsAgree, KeysSingle
<1> QED  BY <1>2, <1>3, <1>4, <1>5 DEF FedInv

-----------------------------------------------------------------------------
(* The steps that write a request.                                         *)

LEMMA RecordOK ==
    ASSUME FedInv, NEW s \in Callers, NEW r \in XRows, Record(s, r)
    PROVE  FedInv'
<1> DEFINE k == task[s].key  row == task[s].row
<1>1. /\ task[s].stage = "judged" /\ xreq[r].status = "none"
      /\ xreq' = [xreq EXCEPT ![r] = row] /\ task' = [task EXCEPT ![s] = FedIdle]
      /\ UNCHANGED <<fedNow, clients, bond, overlapped>>
  BY DEF Record, End
<1>2. task[s].on \in XKeys /\ k \in XKeys /\ row \in XRequestRow /\ task[s] # FedIdle
  BY <1>1, FedTaskFacts DEF FedInv
<1>3. /\ task[s].on = k /\ (k \notin overlapped => Holding(k) = {})
      /\ row.key = k /\ row.status # "none" /\ Agrees(row)
  <2>1. JudgingOK(s)
    BY <1>1 DEF FedInv, JudgingsOK
  <2> QED  BY <1>1, <2>1 DEF JudgingOK
<1> HIDE DEF k, row
<1>4. /\ task' \in [Callers -> FedTasks]
      /\ \A q \in Callers : task'[q] = IF q = s THEN FedIdle ELSE task[q]
      /\ xreq' \in [XRows -> XRequestRow]
      /\ \A q \in XRows : xreq'[q] = IF q = r THEN row ELSE xreq[q]
  <2>1. task \in [Callers -> FedTasks] /\ xreq \in [XRows -> XRequestRow]
    BY DEF FedInv, FedTyped, FedTypeOK
  <2> QED  BY <1>1, <1>2, <2>1 DEF FedTasks
<1>5. FedTyped'
  <2>1. FedTypeOK'
    BY <1>1, <1>4 DEF FedInv, FedTyped, FedTypeOK, FedIdle
  <2>2. FedTasks' = FedTasks
    BY <1>1 DEF FedTasks
  <2> QED  BY <1>1, <1>4, <2>1, <2>2 DEF FedInv, FedTyped
<1>6. OneAtWork'
  BY <1>1, FedGoesOn DEF FedInv
<1>7. SerialTrust' /\ PolicyAsSubmitted'
  BY <1>1 DEF FedInv, SerialTrust, PolicyAsSubmitted
<1>8. OffersOK'
  <2> SUFFICES ASSUME NEW q \in Callers, q # s, task[q].stage = "trust", OfferOK(q)  PROVE OfferOK(q)'
    BY <1>4 DEF FedInv, OffersOK, FedIdle
  <2> QED  BY <1>1, <1>4 DEF OfferOK
<1>9. JudgingsOK'
  <2> SUFFICES ASSUME NEW q \in Callers, q # s, task[q].stage \in {"verified", "trusted", "judged"}
               PROVE  JudgingOK(q)'
    BY <1>4 DEF JudgingsOK, FedIdle
  <2>1. JudgingOK(q) /\ task'[q] = task[q] /\ task[q] # FedIdle
    BY <1>4 DEF FedInv, JudgingsOK, FedIdle
  <2>2. task[q].key \notin overlapped => task[q].key # k
    BY <1>2, <1>3, <2>1 DEF FedInv, OneAtWork, JudgingOK
  <2>3. task[q].key \notin overlapped => Holding(task[q].key)' = {}
    BY <1>1, <1>3, <1>4, <2>1, <2>2 DEF JudgingOK, Holding
  <2> QED  BY <1>1, <2>1, <2>3 DEF JudgingOK, Agrees
<1>10. DecidingsOK'
  <2> SUFFICES ASSUME NEW q \in Callers, q # s, task[q].stage \in {"deciding", "flushed"}
               PROVE  DecidingOK(q)'
    BY <1>4 DEF DecidingsOK, FedIdle
  <2>1. DecidingOK(q) /\ task'[q] = task[q] /\ task[q].on \in XRows
    BY <1>4, FedTaskFacts DEF FedInv, DecidingsOK
  <2>2. xreq'[task[q].on] = xreq[task[q].on]
    BY <1>1, <1>4, <2>1 DEF DecidingOK
  <2>3. NoneRemaining(task[q])' <=> NoneRemaining(task[q])
    BY <2>1, <2>2 DEF NoneRemaining
  <2> QED  BY <1>1, <2>1, <2>2, <2>3 DEF DecidingOK
<1>11. RowsAgree'
  BY <1>1, <1>3, <1>4 DEF FedInv, RowsAgree, Agrees
<1>12. KeysSingle'
  <2> SUFFICES ASSUME NEW p \in XRows, NEW q \in XRows, xreq'[p].status # "none", xreq'[q].status # "none",
                      xreq'[p].key = xreq'[q].key, xreq'[p].key \notin overlapped, p # q
               PROVE  FALSE
    BY <1>1 DEF KeysSingle
  <2>1. CASE p # r /\ q # r
    BY <1>4, <2>1 DEF FedInv, KeysSingle
  <2>2. CASE p = r
    BY <1>3, <1>4, <2>2 DEF Holding
  <2>3. CASE q = r
    BY <1>3, <1>4, <2>3 DEF Holding
  <2> QED  BY <2>1, <2>2, <2>3
<1> QED  BY <1>5, <1>6, <1>7, <1>8, <1>9, <1>10, <1>11, <1>12 DEF FedInv

\* A decision settles the request or leaves it to the other organization.
LEMMA DecidedAgrees ==
    ASSUME NEW old \in XRequestRow, NEW org \in Stages, NEW d \in {"APPROVED", "REJECTED"}, NEW last,
           NEW new, new.approval = [old.approval EXCEPT ![org] = d],
           d = "REJECTED" => new.status = "REJECTED",
           d = "APPROVED" /\ last => new.status = "APPROVED",
           d = "APPROVED" /\ ~last => new.status = old.status,
           Agrees(old), old.status = "PENDING",
           d = "APPROVED" => (last <=> \A o \in Stages \ {org} : old.approval[o] # "PENDING")
    PROVE  Agrees(new)
<1>1. /\ old.approval \in [Stages -> ApprovalStatus]
      /\ \A o \in Stages : new.approval[o] = IF o = org THEN d ELSE old.approval[o]
  BY DEF XRequestRow
<1>2. CASE d = "REJECTED"
  BY <1>1, <1>2 DEF Agrees
<1>3. CASE d = "APPROVED" /\ last
  BY <1>1, <1>3 DEF Agrees, ApprovalStatus
<1>4. CASE d = "APPROVED" /\ ~last
  BY <1>1, <1>4 DEF Agrees, ApprovalStatus
<1> QED  BY <1>2, <1>3, <1>4

LEMMA CommitDecisionOK ==
    ASSUME FedInv, NEW s \in Callers, CommitDecision(s)
    PROVE  FedInv'
<1> DEFINE t == task[s]
<1> DEFINE old == xreq[t.on]
<1>1. PICK st : /\ t.decision = "REJECTED" => st = "REJECTED"
                /\ t.decision = "APPROVED" /\ t.last => st = "APPROVED"
                /\ t.decision = "APPROVED" /\ ~t.last => st = old.status
                /\ xreq' = [xreq EXCEPT ![t.on].approval[t.org] = t.decision, ![t.on].status = st]
  <2> DEFINE st == CASE t.decision = "REJECTED" -> "REJECTED"
                     [] t.decision = "APPROVED" /\ t.last -> "APPROVED"
                     [] OTHER -> old.status
  <2>1. xreq' = [xreq EXCEPT ![t.on].approval[t.org] = t.decision, ![t.on].status = st]
    BY DEF CommitDecision
  <2>2. /\ t.decision = "REJECTED" => st = "REJECTED"
        /\ t.decision = "APPROVED" /\ t.last => st = "APPROVED"
        /\ t.decision = "APPROVED" /\ ~t.last => st = old.status
    <3>1. t.decision \in {"APPROVED", "REJECTED"}
      BY FedTaskFacts DEF FedInv, CommitDecision
    <3> QED  BY <3>1
  <2> HIDE DEF st
  <2> QED  BY <2>1, <2>2
<1>2. /\ t.stage = "flushed" \/ (t.stage = "deciding" /\ t.decision = "REJECTED")
      /\ task' = [task EXCEPT ![s] = FedIdle]
      /\ UNCHANGED <<fedNow, clients, bond, overlapped>>
  BY DEF CommitDecision, End
<1>3. /\ t # FedIdle /\ t.on \in XRows /\ t.org \in Stages /\ t.decision \in {"APPROVED", "REJECTED"}
      /\ t.last \in BOOLEAN
  BY <1>2, FedTaskFacts DEF FedInv
<1>4. DecidingOK(s)
  BY <1>2 DEF FedInv, DecidingsOK
<1> DEFINE new == [old EXCEPT !.approval[t.org] = t.decision, !.status = st]
<1>5. old \in XRequestRow /\ old.status # "none"
  BY <1>3, <1>4 DEF FedInv, FedTyped, FedTypeOK, DecidingOK
<1>6. st \in ApprovalStatus /\ st # "none"
  <2>1. old.status \in ApprovalStatus
    BY <1>5 DEF XRequestRow
  <2>2. st \in {"REJECTED", "APPROVED", old.status}
    BY <1>1, <1>3
  <2> QED  BY <1>5, <2>1, <2>2 DEF ApprovalStatus
<1>7. /\ new \in XRequestRow /\ new.key = old.key /\ new.status = st
      /\ new.approval = [old.approval EXCEPT ![t.org] = t.decision]
  BY <1>3, <1>5, <1>6 DEF XRequestRow, ApprovalStatus
<1>8. /\ task' \in [Callers -> FedTasks]
      /\ \A q \in Callers : task'[q] = IF q = s THEN FedIdle ELSE task[q]
      /\ xreq' \in [XRows -> XRequestRow]
      /\ \A q \in XRows : xreq'[q] = IF q = t.on THEN new ELSE xreq[q]
  <2>1. task \in [Callers -> FedTasks] /\ xreq \in [XRows -> XRequestRow]
    BY DEF FedInv, FedTyped, FedTypeOK
  <2>2. FedIdle \in FedTasks
    BY DEF FedTasks
  <2>3. xreq' = [xreq EXCEPT ![t.on] = new]
    BY <1>1, <1>3, <1>5, <2>1 DEF XRequestRow
  <2> HIDE DEF new
  <2> QED  BY <1>2, <1>3, <1>7, <2>1, <2>2, <2>3
<1>9. t.on \notin overlapped => Agrees(new)
  <2> SUFFICES ASSUME t.on \notin overlapped  PROVE Agrees(new)
    OBVIOUS
  <2>1. Agrees(old) /\ old.status = "PENDING"
    BY <1>3, <1>4, <1>5 DEF FedInv, RowsAgree, DecidingOK
  <2>2. t.decision = "APPROVED" => (t.last <=> \A o \in Stages \ {t.org} : old.approval[o] # "PENDING")
    BY <1>2, <1>4 DEF DecidingOK, NoneRemaining
  <2>3. /\ t.decision = "REJECTED" => new.status = "REJECTED"
        /\ t.decision = "APPROVED" /\ t.last => new.status = "APPROVED"
        /\ t.decision = "APPROVED" /\ ~t.last => new.status = old.status
    BY <1>1, <1>7
  <2> HIDE DEF new, old, t
  <2> QED  BY <1>3, <1>5, <1>7, <2>1, <2>2, <2>3, DecidedAgrees
<1>10. \A q \in XRows : xreq'[q].key = xreq[q].key /\ (xreq'[q].status = "none" <=> xreq[q].status = "none")
  BY <1>5, <1>6, <1>7, <1>8
<1> HIDE DEF new, old
<1>11. FedTyped'
  <2>1. FedTypeOK'
    BY <1>2, <1>8 DEF FedInv, FedTyped, FedTypeOK, FedIdle
  <2>2. FedTasks' = FedTasks
    BY <1>2 DEF FedTasks
  <2> QED  BY <1>2, <1>8, <2>1, <2>2 DEF FedInv, FedTyped
<1>12. OneAtWork'
  BY <1>2, FedGoesOn DEF FedInv
<1>13. SerialTrust' /\ PolicyAsSubmitted'
  BY <1>2 DEF FedInv, SerialTrust, PolicyAsSubmitted
<1>14. OffersOK'
  <2> SUFFICES ASSUME NEW q \in Callers, q # s, task[q].stage = "trust", OfferOK(q)  PROVE OfferOK(q)'
    BY <1>8 DEF FedInv, OffersOK, FedIdle
  <2> QED  BY <1>2, <1>8 DEF OfferOK
<1>15. JudgingsOK'
  <2> SUFFICES ASSUME NEW q \in Callers, q # s, task[q].stage \in {"verified", "trusted", "judged"}, JudgingOK(q)
               PROVE  JudgingOK(q)'
    BY <1>8 DEF FedInv, JudgingsOK, FedIdle
  <2>1. task'[q] = task[q]
    BY <1>8
  <2>2. Holding(task[q].key) = {} => Holding(task[q].key)' = {}
    BY <1>10, <2>1 DEF Holding
  <2> QED  BY <1>2, <2>1, <2>2 DEF JudgingOK, Agrees
<1>16. DecidingsOK'
  <2> SUFFICES ASSUME NEW q \in Callers, q # s, task[q].stage \in {"deciding", "flushed"}
               PROVE  DecidingOK(q)'
    BY <1>8 DEF DecidingsOK, FedIdle
  <2>1. DecidingOK(q) /\ task'[q] = task[q] /\ task[q].on \in XRows /\ task[q] # FedIdle
    BY <1>8, FedTaskFacts DEF FedInv, DecidingsOK
  <2>2. CASE task[q].on = t.on
    <3>1. t.on \in overlapped
      BY <1>3, <2>1, <2>2 DEF FedInv, OneAtWork
    <3> QED  BY <1>2, <1>10, <2>1, <2>2, <3>1 DEF DecidingOK
  <2>3. CASE task[q].on # t.on
    <3>1. xreq'[task[q].on] = xreq[task[q].on]
      BY <1>8, <2>1, <2>3
    <3>2. NoneRemaining(task[q])' <=> NoneRemaining(task[q])
      BY <2>1, <3>1 DEF NoneRemaining
    <3> QED  BY <1>2, <2>1, <3>1, <3>2 DEF DecidingOK
  <2> QED  BY <2>2, <2>3
<1>17. RowsAgree'
  <2> SUFFICES ASSUME NEW q \in XRows, xreq'[q].status # "none", q \notin overlapped
               PROVE  Agrees(xreq'[q])
    BY <1>2 DEF RowsAgree, Agrees
  <2> QED  BY <1>8, <1>9, <1>10 DEF FedInv, RowsAgree
<1>18. KeysSingle'
  BY <1>2, <1>10 DEF FedInv, KeysSingle
<1> QED  BY <1>11, <1>12, <1>13, <1>14, <1>15, <1>16, <1>17, <1>18 DEF FedInv

-----------------------------------------------------------------------------
(* The step that writes the rows of the relationship.                      *)

\* Columns that two handlers changed meet in one row, which keeps its type.
LEMMA FlushedTyped ==
    ASSUME NEW b \in BondRows, NEW l \in BondRows, NEW e \in BondRows, NEW new, new = Flushed(b, l, e)
    PROVE  new \in BondRows
<1>1. DOMAIN b = {"trust", "conn", "tpolicy", "gpolicy"}
  BY DEF BondRows
<1>2. /\ new = [trust |-> new.trust, conn |-> new.conn, tpolicy |-> new.tpolicy, gpolicy |-> new.gpolicy]
      /\ new.trust = Flush(b.trust, l.trust, e.trust) /\ new.conn = Flush(b.conn, l.conn, e.conn)
      /\ new.tpolicy = Flush(b.tpolicy, l.tpolicy, e.tpolicy)
      /\ new.gpolicy = Flush(b.gpolicy, l.gpolicy, e.gpolicy)
  BY <1>1 DEF Flushed
<1>3. /\ b.trust \in TrustRow /\ l.trust \in TrustRow /\ e.trust \in TrustRow
      /\ b.conn \in ConnRow /\ l.conn \in ConnRow /\ e.conn \in ConnRow
      /\ b.tpolicy \in PolicyRows /\ l.tpolicy \in PolicyRows /\ e.tpolicy \in PolicyRows
      /\ b.gpolicy \in PolicyRows /\ l.gpolicy \in PolicyRows /\ e.gpolicy \in PolicyRows
  BY DEF BondRows
<1>4. new.trust \in TrustRow
  <2>1. new.trust = [status |-> new.trust.status, expires |-> new.trust.expires]
    BY <1>2, <1>3 DEF Flush, TrustRow
  <2>2. /\ new.trust.status \in {b.trust.status, e.trust.status}
        /\ new.trust.expires \in {b.trust.expires, e.trust.expires}
    BY <1>2, <1>3 DEF Flush, TrustRow
  <2> QED  BY <1>3, <2>1, <2>2 DEF TrustRow
<1>5. new.conn \in ConnRow
  <2>1. new.conn = [status |-> new.conn.status, expires |-> new.conn.expires, revoked |-> new.conn.revoked]
    BY <1>2, <1>3 DEF Flush, ConnRow
  <2>2. /\ new.conn.status \in {b.conn.status, e.conn.status}
        /\ new.conn.expires \in {b.conn.expires, e.conn.expires}
        /\ new.conn.revoked \in {b.conn.revoked, e.conn.revoked}
    BY <1>2, <1>3 DEF Flush, ConnRow
  <2> QED  BY <1>3, <2>1, <2>2 DEF ConnRow
<1>6. ASSUME NEW p \in PolicyRows, NEW q \in PolicyRows, NEW r \in PolicyRows, NEW n, n = Flush(p, q, r)
      PROVE  n \in PolicyRows
  <2>1. n = [actions |-> n.actions, resources |-> n.resources, max |-> n.max, human |-> n.human,
             threshold |-> n.threshold, by |-> n.by]
    BY <1>6 DEF Flush, PolicyRows
  <2>2. /\ n.actions \in {p.actions, r.actions} /\ n.resources \in {p.resources, r.resources}
        /\ n.max \in {p.max, r.max} /\ n.human \in {p.human, r.human}
        /\ n.threshold \in {p.threshold, r.threshold} /\ n.by \in {p.by, r.by}
    BY <1>6 DEF Flush, PolicyRows
  <2> QED  BY <2>1, <2>2 DEF PolicyRows
<1>7. new.tpolicy \in PolicyRows /\ new.gpolicy \in PolicyRows
  BY <1>2, <1>3, <1>6
<1> QED  BY <1>2, <1>4, <1>5, <1>7 DEF BondRows

\* A handler whose rows nobody else has changed writes what it made of them.
LEMMA FlushedAlone ==
    ASSUME NEW b \in BondRows, NEW e \in BondRows
    PROVE  Flushed(b, b, e) = e
<1>1. ASSUME NEW x, NEW y, DOMAIN x = DOMAIN y, y = [f \in DOMAIN y |-> y[f]]
      PROVE  Flush(x, x, y) = y
  BY <1>1 DEF Flush
<1>2. /\ DOMAIN b = {"trust", "conn", "tpolicy", "gpolicy"} /\ DOMAIN e = DOMAIN b
      /\ e = [row \in DOMAIN b |-> e[row]]
  BY DEF BondRows
<1>3. /\ Flush(b.trust, b.trust, e.trust) = e.trust
      /\ Flush(b.conn, b.conn, e.conn) = e.conn
  BY <1>1 DEF BondRows, TrustRow, ConnRow
<1>4. /\ Flush(b.tpolicy, b.tpolicy, e.tpolicy) = e.tpolicy
      /\ Flush(b.gpolicy, b.gpolicy, e.gpolicy) = e.gpolicy
  BY <1>1 DEF BondRows, PolicyRows
<1>5. \A row \in DOMAIN b : Flush(b[row], b[row], e[row]) = e[row]
  BY <1>2, <1>3, <1>4
<1> QED  BY <1>2, <1>5 DEF Flushed

\* What each operation makes of the rows.
LEMMA EditedFacts ==
    ASSUME NEW b \in BondRows, clients \in FedWorlds, NEW x \in clients.offers, NEW e, e = Edited(b, x)
    PROVE  /\ e \in BondRows
           /\ x.op \notin {"revoke", "connect", "disconnect"} => e.conn = b.conn
           /\ x.op \in {"connect", "disconnect", "tpolicy", "gpolicy"} => e.trust = b.trust
           /\ x.op # "tpolicy" => e.tpolicy = b.tpolicy
           /\ x.op # "gpolicy" => e.gpolicy = b.gpolicy
           /\ x.op = "request" => e.trust.status = "PENDING"
           /\ x.op = "accept" => e.trust.status \in {"EXPIRED", "ACTIVE"}
           /\ x.op = "reject" => e.trust.status = "REJECTED"
           /\ x.op = "revoke" =>
                /\ e.trust.status = "REVOKED"
                /\ b.conn.status # "ACTIVE" => e.conn = b.conn
                /\ b.conn.status = "ACTIVE" => e.conn.status = "REVOKED" /\ e.conn.revoked # "no"
           /\ x.op = "connect" => e.conn.status = "ACTIVE" /\ e.conn.revoked = "no"
           /\ x.op = "disconnect" => e.conn.status = "REVOKED" /\ e.conn.revoked # "no"
           /\ x.op = "tpolicy" => e.tpolicy = x.to
           /\ x.op = "gpolicy" => e.gpolicy = x.to
<1>1. /\ x.op \in {"request", "accept", "reject", "revoke", "connect", "disconnect", "tpolicy", "gpolicy"}
      /\ x.op \in {"request", "connect"} => x.expires \in Nat
      /\ x.op \in {"tpolicy", "gpolicy"} => x.to \in PolicyRows
  BY WorldsAssumption
<1>2. \A m : NextMark(m) \in {"t1", "t2"}
  BY DEF NextMark
<1>3. b.trust \in TrustRow /\ b.conn \in ConnRow /\ b.tpolicy \in PolicyRows /\ b.gpolicy \in PolicyRows
  BY DEF BondRows
<1>4. CASE x.op = "request"
  <2>1. e = [b EXCEPT !.trust = [status |-> "PENDING", expires |-> x.expires]]
    BY <1>4 DEF Edited, create_trust_request
  <2>2. [status |-> "PENDING", expires |-> x.expires] \in TrustRow
    BY <1>1, <1>4 DEF TrustRow, TrustStatuses
  <2> QED  BY <1>4, <2>1, <2>2 DEF BondRows
<1>5. CASE x.op = "accept"
  <2>1. PICK st : st \in {"EXPIRED", "ACTIVE"} /\ e = [b EXCEPT !.trust.status = st]
    BY <1>5 DEF Edited, accept_trust_request
  <2>2. [b.trust EXCEPT !.status = st] \in TrustRow /\ [b.trust EXCEPT !.status = st].status = st
    BY <1>3, <2>1 DEF TrustRow, TrustStatuses
  <2>3. e = [b EXCEPT !.trust = [b.trust EXCEPT !.status = st]]
    BY <2>1
  <2> QED  BY <1>5, <2>1, <2>2, <2>3 DEF BondRows
<1>6. CASE x.op = "reject"
  <2>1. e = [b EXCEPT !.trust = [b.trust EXCEPT !.status = "REJECTED"]]
    BY <1>6 DEF Edited, reject_trust_request
  <2>2. /\ [b.trust EXCEPT !.status = "REJECTED"] \in TrustRow
        /\ [b.trust EXCEPT !.status = "REJECTED"].status = "REJECTED"
    BY <1>3 DEF TrustRow, TrustStatuses
  <2> QED  BY <1>6, <2>1, <2>2 DEF BondRows
<1>7. CASE x.op = "revoke"
  <2>1. PICK t, c : /\ t = [b.trust EXCEPT !.status = "REVOKED"]
                    /\ b.conn.status # "ACTIVE" => c = b.conn
                    /\ b.conn.status = "ACTIVE" => c = Disconnected(b.conn)
                    /\ e = [b EXCEPT !.trust = t, !.conn = c]
    <3> DEFINE c == IF b.conn.status = "ACTIVE" THEN Disconnected(b.conn) ELSE b.conn
    <3>1. e = [b EXCEPT !.trust.status = "REVOKED", !.conn = c]
      BY <1>7 DEF Edited, revoke_trust_relationship
    <3>2. /\ b.conn.status # "ACTIVE" => c = b.conn
          /\ b.conn.status = "ACTIVE" => c = Disconnected(b.conn)
      OBVIOUS
    <3> HIDE DEF c
    <3> QED  BY <3>1, <3>2
  <2>2. t \in TrustRow /\ t.status = "REVOKED"
    BY <1>3, <2>1 DEF TrustRow, TrustStatuses
  <2>3. /\ c \in ConnRow
        /\ b.conn.status = "ACTIVE" => c.status = "REVOKED" /\ c.revoked # "no"
    BY <1>2, <1>3, <2>1 DEF ConnRow, Disconnected
  <2>4. e \in BondRows /\ e.trust = t /\ e.conn = c /\ e.tpolicy = b.tpolicy /\ e.gpolicy = b.gpolicy
    <3> HIDE <2>1
    <3>1. e = [b EXCEPT !.trust = t, !.conn = c]
      BY <2>1
    <3> QED  BY <2>2, <2>3, <3>1 DEF BondRows
  <2> QED  BY <1>7, <2>1, <2>2, <2>3, <2>4
<1>8. CASE x.op = "connect"
  <2>1. e = [b EXCEPT !.conn = [status |-> "ACTIVE", expires |-> x.expires, revoked |-> "no"]]
    BY <1>8 DEF Edited, create_agent_connection
  <2>2. [status |-> "ACTIVE", expires |-> x.expires, revoked |-> "no"] \in ConnRow
    BY <1>1, <1>8 DEF ConnRow
  <2> QED  BY <1>8, <2>1, <2>2 DEF BondRows
<1>9. CASE x.op = "disconnect"
  <2>1. PICK c : c = Disconnected(b.conn)
    OBVIOUS
  <2>2. e = [b EXCEPT !.conn = c]
    BY <1>9, <2>1 DEF Edited, revoke_agent_connection
  <2>3. c \in ConnRow /\ c.status = "REVOKED" /\ c.revoked # "no"
    BY <1>2, <1>3, <2>1 DEF ConnRow, Disconnected
  <2> QED  BY <1>9, <2>2, <2>3 DEF BondRows
<1>10. CASE x.op = "tpolicy"
  <2>1. e = [b EXCEPT !.tpolicy = x.to] /\ x.to \in PolicyRows
    BY <1>1, <1>10 DEF Edited, update_trust_policy
  <2> QED  BY <1>10, <2>1 DEF BondRows
<1>11. CASE x.op = "gpolicy"
  <2>1. e = [b EXCEPT !.gpolicy = x.to] /\ x.to \in PolicyRows
    BY <1>1, <1>11 DEF Edited, update_target_policy
  <2> QED  BY <1>11, <2>1 DEF BondRows
<1> QED  BY <1>1, <1>4, <1>5, <1>6, <1>7, <1>8, <1>9, <1>10, <1>11

LEMMA CommitTrustOK ==
    ASSUME FedInv, NEW s \in Callers, CommitTrust(s)
    PROVE  FedInv'
<1> DEFINE x == task[s].offer  l == task[s].loaded
<1>1. /\ task[s].stage = "trust" /\ task' = [task EXCEPT ![s] = FedIdle]
      /\ UNCHANGED <<fedNow, clients, xreq, overlapped>>
      /\ bond' = IF InsertFails(x, l) THEN bond ELSE Flushed(bond, l, Edited(l, x))
  BY DEF CommitTrust, End
<1>2. task[s] # FedIdle /\ task[s].on = "trust" /\ x \in clients.offers /\ l \in BondRows
  BY <1>1, FedTaskFacts DEF FedInv
<1>3. OfferOK(s)
  BY <1>1 DEF FedInv, OffersOK
<1>4. CASE bond' = bond
  BY <1>1, <1>2, <1>4, FedIdleOK
<1>5. CASE bond' = Flushed(bond, l, Edited(l, x))
  <2>1. PICK e : e = Edited(l, x)
    OBVIOUS
  <2>2. bond \in BondRows /\ clients \in FedWorlds
    BY DEF FedInv, FedTyped
  <2>3. e \in BondRows
    BY <1>2, <2>1, <2>2, EditedFacts
  <2>4. bond' \in BondRows
    BY <1>2, <1>5, <2>1, <2>2, <2>3, FlushedTyped
  <2>5. /\ task' \in [Callers -> FedTasks]
        /\ \A q \in Callers : task'[q] = IF q = s THEN FedIdle ELSE task[q]
    BY <1>1 DEF FedInv, FedTyped, FedTasks
  <2>6. FedTyped'
    <3>1. FedTypeOK'
      BY <1>1, <2>4, <2>5 DEF FedInv, FedTyped, FedTypeOK, FedIdle, BondRows
    <3>2. FedTasks' = FedTasks
      BY <1>1 DEF FedTasks
    <3> QED  BY <1>1, <2>2, <2>4, <2>5, <3>1, <3>2 DEF FedTyped
  <2>7. OneAtWork'
    BY <1>1, FedGoesOn DEF FedInv
  <2>8. "trust" \notin overlapped => l = bond /\ bond' = e
    <3> SUFFICES ASSUME "trust" \notin overlapped  PROVE l = bond /\ bond' = e
      OBVIOUS
    <3>1. l = bond
      BY <1>3 DEF OfferOK
    <3>2. Flushed(bond, bond, e) = e
      BY <2>2, <2>3, FlushedAlone
    <3> QED  BY <1>5, <2>1, <3>1, <3>2
  <2>9. SerialTrust'
    <3> SUFFICES ASSUME "trust" \notin overlapped
                 PROVE  /\ e.trust.status # "ACTIVE" => e.conn.status # "ACTIVE"
                        /\ (e.conn.status = "REVOKED") <=> (e.conn.revoked # "no")
      BY <1>1, <2>8 DEF SerialTrust
    <3>1. /\ bond.trust.status # "ACTIVE" => bond.conn.status # "ACTIVE"
          /\ (bond.conn.status = "REVOKED") <=> (bond.conn.revoked # "no")
      BY DEF FedInv, SerialTrust
    <3>2. /\ x.op = "request" => bond.trust.status # "ACTIVE"
          /\ x.op \in {"accept", "reject"} => bond.trust.status = "PENDING"
          /\ x.op = "connect" => bond.trust.status = "ACTIVE"
      BY <1>3, <2>8 DEF OfferOK
    <3>3. x.op \in {"request", "accept", "reject", "revoke", "connect", "disconnect", "tpolicy", "gpolicy"}
      BY <1>2, <2>2, WorldsAssumption
    <3>4. /\ x.op \notin {"revoke", "connect", "disconnect"} => e.conn = bond.conn
          /\ x.op \in {"connect", "disconnect", "tpolicy", "gpolicy"} => e.trust = bond.trust
          /\ x.op = "revoke" =>
                /\ e.trust.status = "REVOKED"
                /\ bond.conn.status # "ACTIVE" => e.conn = bond.conn
                /\ bond.conn.status = "ACTIVE" => e.conn.status = "REVOKED" /\ e.conn.revoked # "no"
          /\ x.op = "connect" => e.conn.status = "ACTIVE" /\ e.conn.revoked = "no"
          /\ x.op = "disconnect" => e.conn.status = "REVOKED" /\ e.conn.revoked # "no"
      BY <1>2, <2>1, <2>2, <2>8, EditedFacts
    <3> QED  BY <3>1, <3>2, <3>3, <3>4
  <2>10. PolicyAsSubmitted'
    <3> SUFFICES ASSUME "trust" \notin overlapped, NEW f \in {"tpolicy", "gpolicy"}
                 PROVE  e[f] = OpenPolicy({"target"}) \/ \E y \in clients.offers : y.op = f /\ y.to = e[f]
      BY <1>1, <2>8 DEF PolicyAsSubmitted, OpenPolicy
    <3>1. bond[f] = OpenPolicy({"target"}) \/ \E y \in clients.offers : y.op = f /\ y.to = bond[f]
      BY DEF FedInv, PolicyAsSubmitted
    <3>2. IF x.op = f THEN e[f] = x.to ELSE e[f] = bond[f]
      BY <1>2, <2>1, <2>2, <2>8, EditedFacts
    <3> QED  BY <1>2, <3>1, <3>2
  <2>11. OffersOK'
    <3> SUFFICES ASSUME NEW q \in Callers, q # s, task[q].stage = "trust"
                 PROVE  OfferOK(q)'
      BY <2>5 DEF OffersOK, FedIdle
    <3>1. OfferOK(q) /\ task'[q] = task[q] /\ task[q].on = "trust" /\ task[q] # FedIdle
      BY <2>5, FedTaskFacts DEF FedInv, OffersOK
    <3>2. "trust" \in overlapped
      BY <1>2, <3>1 DEF FedInv, OneAtWork
    <3> QED  BY <1>1, <3>1, <3>2 DEF OfferOK
  <2>12. JudgingsOK'
    <3> SUFFICES ASSUME NEW q \in Callers, q # s, task[q].stage \in {"verified", "trusted", "judged"}, JudgingOK(q)
                 PROVE  JudgingOK(q)'
      BY <2>5 DEF FedInv, JudgingsOK, FedIdle
    <3> QED  BY <1>1, <2>5 DEF JudgingOK, Holding, Agrees
  <2>13. DecidingsOK'
    <3> SUFFICES ASSUME NEW q \in Callers, q # s, task[q].stage \in {"deciding", "flushed"}, DecidingOK(q)
                 PROVE  DecidingOK(q)'
      BY <2>5 DEF FedInv, DecidingsOK, FedIdle
    <3>1. task'[q] = task[q]
      BY <2>5
    <3>2. NoneRemaining(task[q])' <=> NoneRemaining(task[q])
      BY <1>1, <3>1 DEF NoneRemaining
    <3> QED  BY <1>1, <3>1, <3>2 DEF DecidingOK
  <2>14. RowsAgree' /\ KeysSingle'
    BY <1>1 DEF FedInv, RowsAgree, KeysSingle, Agrees
  <2> QED  BY <2>6, <2>7, <2>9, <2>10, <2>11, <2>12, <2>13, <2>14 DEF FedInv
<1> QED  BY <1>1, <1>4, <1>5

-----------------------------------------------------------------------------
(* The theorems about trust.                                               *)

LEMMA FedInitOK == FedInit => FedInv
<1> SUFFICES ASSUME FedInit  PROVE FedInv
  OBVIOUS
<1>1. FedIdle \in FedTasks /\ FedIdle.stage = "idle"
  BY DEF FedTasks, FedIdle
<1>2. /\ bond = [trust   |-> [status |-> "none", expires |-> Never],
                 conn    |-> [status |-> "none", expires |-> Never, revoked |-> "no"],
                 tpolicy |-> OpenPolicy({"target"}), gpolicy |-> OpenPolicy({"target"})]
      /\ task = [s \in Callers |-> FedIdle] /\ overlapped = {}
      /\ xreq = [r \in XRows |-> NoRequest] /\ clients \in FedWorlds /\ fedNow = 1
  BY DEF FedInit
<1>3. NoRequest \in XRequestRow /\ NoRequest.status = "none"
  <2>1. (CHOOSE k \in XKeys : TRUE) \in XKeys /\ (CHOOSE p \in Payloads : TRUE) \in Payloads
    BY PartiesAssumption
  <2> QED  BY <2>1 DEF NoRequest, XRequestRow, ApprovalStatus
<1>4. OpenPolicy({"target"}) \in PolicyRows
  BY DEF OpenPolicy, PolicyRows, Stages, Parties, Never
<1>5. bond \in BondRows
  <2>1. /\ [status |-> "none", expires |-> Never] \in TrustRow
        /\ [status |-> "none", expires |-> Never, revoked |-> "no"] \in ConnRow
    BY DEF TrustRow, TrustStatuses, ConnRow, Never
  <2> QED  BY <1>2, <1>4, <2>1 DEF BondRows
<1>6. FedTyped
  <2>1. fedNow \in 1 .. MaxFedTime
    BY <1>2, PartiesAssumption
  <2>2. FedTypeOK
    BY <1>1, <1>2, <1>3, <1>5, <2>1 DEF FedTypeOK, BondRows
  <2> QED  BY <1>1, <1>2, <1>5, <2>2 DEF FedTyped
<1>7. OneAtWork /\ OffersOK /\ JudgingsOK /\ DecidingsOK
  BY <1>1, <1>2 DEF OneAtWork, OffersOK, JudgingsOK, DecidingsOK
<1>8. SerialTrust
  BY <1>2 DEF SerialTrust
<1>9. PolicyAsSubmitted
  BY <1>2 DEF PolicyAsSubmitted
<1>10. RowsAgree /\ KeysSingle
  BY <1>2, <1>3 DEF RowsAgree, KeysSingle
<1> QED  BY <1>6, <1>7, <1>8, <1>9, <1>10 DEF FedInv

LEMMA FedNextOK == FedInv /\ [FedNext]_fedVars => FedInv'
<1> SUFFICES ASSUME FedInv, [FedNext]_fedVars  PROVE FedInv'
  OBVIOUS
<1>1. CASE UNCHANGED fedVars
  <2>1. UNCHANGED <<fedNow, bond, xreq, task, overlapped, clients>>
    BY <1>1 DEF fedVars
  <2>2. FedTyped' /\ OneAtWork' /\ SerialTrust' /\ PolicyAsSubmitted'
    BY <2>1 DEF FedInv, FedTyped, FedTypeOK, FedTasks, OneAtWork, SerialTrust, PolicyAsSubmitted
  <2>3. OffersOK' /\ JudgingsOK' /\ DecidingsOK'
    BY <2>1 DEF FedInv, OffersOK, OfferOK, JudgingsOK, JudgingOK, Holding, Agrees, DecidingsOK, DecidingOK,
                NoneRemaining
  <2>4. RowsAgree' /\ KeysSingle'
    BY <2>1 DEF FedInv, RowsAgree, KeysSingle, Agrees
  <2> QED  BY <2>2, <2>3, <2>4 DEF FedInv
<1>2. CASE FedNext
  <2>1. clients.keys \subseteq XKeys
    BY WorldsAssumption DEF FedInv, FedTyped
  <2>2. CASE FedTick
    BY <2>2, FedTickOK
  <2>3. CASE \E s \in Callers, org \in Orgs, x \in clients.offers : LoadTrust(s, org, x)
    BY <2>3, LoadTrustOK
  <2>4. CASE \E s \in Callers : CommitTrust(s) \/ Judge(s) \/ FlushApproval(s) \/ CommitDecision(s)
    BY <2>4, CommitTrustOK, JudgeOK, FlushApprovalOK, CommitDecisionOK
  <2>5. CASE \E s \in Callers, org \in Orgs \cup {"no key"}, k \in clients.keys, p \in Payloads :
                BeginAuthorize(s, org, k, p)
    BY <2>1, <2>5, BeginAuthorizeOK
  <2>6. CASE \E s \in Callers, g \in SourceGrants : ReadTrust(s, g)
    BY <2>6, ReadTrustOK
  <2>7. CASE \E s \in Callers, r \in XRows : Record(s, r)
    BY <2>7, RecordOK
  <2>8. CASE \E s \in Callers, r \in XRows, org \in Orgs, d \in {"APPROVED", "REJECTED"} :
                LoadDecision(s, r, org, d)
    BY <2>8, LoadDecisionOK
  <2> QED  BY <1>2, <2>2, <2>3, <2>4, <2>5, <2>6, <2>7, <2>8 DEF FedNext
<1> QED  BY <1>1, <1>2

\* However handlers of the two organizations interleave (services/
\* cross_organization_trust.py and cross_org_authorization.py), the invariant holds.
THEOREM FedInvariance == FedSpec => []FedInv
<1> QED  BY FedInitOK, FedNextOK, PTL DEF FedSpec

\* Whatever the policies, payloads and worlds of clients, and however many sessions:
\* unless handlers overlapped, a revoked trust has no active connection, a policy is one
\* that was submitted, a settled request agrees with its approvals, and a key has one row.
THEOREM TrustTheorem == FedSpec => []TrustHolds
<1>1. FedInv => TrustHolds
  <2> SUFFICES ASSUME FedInv  PROVE TrustHolds
    OBVIOUS
  <2>1. DecisionsAgree
    <3> SUFFICES ASSUME NEW r \in XRows, xreq[r].status # "none", r \notin overlapped
                 PROVE  LET given == {xreq[r].approval[o] : o \in Stages} \ {"none"} IN
                        CASE xreq[r].status = "APPROVED" -> given \subseteq {"APPROVED"}
                          [] xreq[r].status = "REJECTED" -> given = {} \/ "REJECTED" \in given
                          [] xreq[r].status = "PENDING"  -> "PENDING" \in given /\ "REJECTED" \notin given
      BY DEF DecisionsAgree
    <3> DEFINE given == {xreq[r].approval[o] : o \in Stages} \ {"none"}
    <3>1. Agrees(xreq[r]) /\ xreq[r].status \in {"APPROVED", "REJECTED", "PENDING"}
      BY DEF FedInv, FedTyped, FedTypeOK, RowsAgree, XRequestRow, ApprovalStatus
    <3>2. /\ xreq[r].status = "APPROVED" => given \subseteq {"APPROVED"}
          /\ xreq[r].status = "REJECTED" => given = {} \/ "REJECTED" \in given
          /\ xreq[r].status = "PENDING" => "PENDING" \in given /\ "REJECTED" \notin given
      BY <3>1 DEF Agrees
    <3>3. CASE xreq[r].status = "APPROVED"
      BY <3>2, <3>3
    <3>4. CASE xreq[r].status = "REJECTED"
      BY <3>2, <3>4
    <3>5. CASE xreq[r].status = "PENDING"
      BY <3>2, <3>5
    <3> QED  BY <3>1, <3>3, <3>4, <3>5
  <2>2. OneRowPerKey
    <3> SUFFICES ASSUME NEW k \in XKeys, k \notin overlapped  PROVE Cardinality(Holding(k)) <= 1
      BY DEF OneRowPerKey
    <3>1. CASE Holding(k) = {}
      BY <3>1, FS_EmptySet
    <3>2. CASE Holding(k) # {}
      <4>1. PICK r \in Holding(k) : TRUE
        BY <3>2
      <4>2. Holding(k) = {r}
        BY <4>1 DEF FedInv, KeysSingle, Holding
      <4>3. Cardinality({r}) = 1
        BY FS_Singleton
      <4> QED  BY <4>2, <4>3
    <3> QED  BY <3>1, <3>2
  <2> QED  BY <2>1, <2>2 DEF FedInv, FedTyped, TrustHolds
<1> QED  BY <1>1, FedInvariance, PTL

\* A step that turns a request from loaded to judged is its judgement.
LEMMA OnlyJudge ==
    ASSUME FedInv, FedNext, NEW s \in Callers, task[s].stage = "trusted", task'[s].stage = "judged"
    PROVE  Judge(s)
<1>1. task \in [Callers -> FedTasks] /\ task[s] # FedIdle /\ FedIdle.stage = "idle"
  BY DEF FedInv, FedTyped, FedIdle
<1>2. task'[s] # task[s]
  OBVIOUS
<1>3. CASE FedTick
  BY <1>2, <1>3 DEF FedTick
<1>4. CASE \E q \in Callers, org \in Orgs, x \in clients.offers : LoadTrust(q, org, x)
  BY <1>1, <1>2, <1>4 DEF LoadTrust, Begin
<1>5. CASE \E q \in Callers : CommitTrust(q)
  BY <1>1, <1>5 DEF CommitTrust, End
<1>6. CASE \E q \in Callers : Judge(q)
  BY <1>1, <1>2, <1>6 DEF Judge
<1>7. CASE \E q \in Callers : FlushApproval(q)
  BY <1>1, <1>2, <1>7 DEF FlushApproval
<1>8. CASE \E q \in Callers : CommitDecision(q)
  BY <1>1, <1>8 DEF CommitDecision, End
<1>9. CASE \E q \in Callers, org \in Orgs \cup {"no key"}, k \in clients.keys, p \in Payloads :
              BeginAuthorize(q, org, k, p)
  BY <1>1, <1>2, <1>9 DEF BeginAuthorize, Begin
<1>10. CASE \E q \in Callers, g \in SourceGrants : ReadTrust(q, g)
  BY <1>1, <1>2, <1>10 DEF ReadTrust
<1>11. CASE \E q \in Callers, r \in XRows : Record(q, r)
  BY <1>1, <1>11 DEF Record, End
<1>12. CASE \E q \in Callers, r \in XRows, org \in Orgs, d \in {"APPROVED", "REJECTED"} :
              LoadDecision(q, r, org, d)
  BY <1>1, <1>2, <1>12 DEF LoadDecision, Begin
<1> QED  BY <1>3, <1>4, <1>5, <1>6, <1>7, <1>8, <1>9, <1>10, <1>11, <1>12 DEF FedNext

\* A step that takes a relationship out of REVOKED, but for a new request, commits an
\* acceptance or rejection that was loaded while the relationship was PENDING.
LEMMA OnlyLateAnswers ==
    ASSUME FedInv, NEW s \in Callers, CommitTrust(s), bond.trust.status = "REVOKED",
           bond'.trust.status \notin {"REVOKED", "PENDING"}
    PROVE  task[s].stage = "trust" /\ task'[s] = FedIdle /\ task[s].loaded.trust.status = "PENDING"
<1> DEFINE x == task[s].offer  l == task[s].loaded
<1>1. task[s].stage = "trust" /\ task'[s] = FedIdle
  BY DEF CommitTrust, End, FedInv, FedTyped
<1>2. x \in clients.offers /\ l \in BondRows /\ OfferOK(s)
  BY <1>1, FedTaskFacts DEF FedInv, OffersOK
<1>3. PICK e : e = Edited(l, x)
  OBVIOUS
<1>4. bond \in BondRows /\ clients \in FedWorlds
  BY DEF FedInv, FedTyped
<1>5. bond' = Flushed(bond, l, e)
  BY <1>3 DEF CommitTrust
<1>6. bond'.trust = Flush(bond.trust, l.trust, e.trust) /\ bond.trust \in TrustRow
  BY <1>4, <1>5 DEF Flushed, BondRows
<1>7. bond'.trust.status = IF e.trust.status = l.trust.status THEN bond.trust.status ELSE e.trust.status
  BY <1>6 DEF Flush, TrustRow
<1>8. x.op \in {"accept", "reject"}
  <2>1. x.op \in {"request", "accept", "reject", "revoke", "connect", "disconnect", "tpolicy", "gpolicy"}
    BY <1>2, <1>4, WorldsAssumption
  <2>2. /\ x.op \in {"connect", "disconnect", "tpolicy", "gpolicy"} => e.trust = l.trust
        /\ x.op = "request" => e.trust.status = "PENDING"
        /\ x.op = "revoke" => e.trust.status = "REVOKED"
    BY <1>2, <1>3, <1>4, EditedFacts
  <2> QED  BY <1>7, <2>1, <2>2
<1> QED  BY <1>1, <1>2, <1>8 DEF OfferOK

\* However handlers interleave, a revoked relationship comes back only by a request, or by
\* an answer loaded while it was PENDING; and a request passes only under a relationship and
\* a connection that had not expired when it was judged.
THEOREM TrustRevocationTheorem == FedSpec => RevocationStands /\ NoExpiredTrust
<1> DEFINE Stands == (bond.trust.status = "REVOKED" /\ bond'.trust.status \notin {"REVOKED", "PENDING"})
                        => \E s \in Callers : /\ task[s].stage = "trust" /\ task'[s] = FedIdle
                                              /\ task[s].loaded.trust.status = "PENDING"
           Fresh == \A s \in Callers :
                       (task[s].stage = "trusted" /\ task'[s].stage = "judged"
                          /\ task'[s].row.status # "REJECTED")
                           => ~Past(task[s].trust.expires) /\ ~Past(bond.conn.expires)
<1>1. ASSUME FedInv, FedNext  PROVE Stands
  <2>1. CASE \E s \in Callers : CommitTrust(s)
    BY <1>1, <2>1, OnlyLateAnswers
  <2>2. CASE UNCHANGED bond
    BY <2>2
  <2> QED  BY <1>1, <2>1, <2>2
           DEF FedNext, FedTick, LoadTrust, Judge, FlushApproval, CommitDecision, BeginAuthorize,
               ReadTrust, Record, LoadDecision
<1>2. ASSUME FedInv, FedNext  PROVE Fresh
  <2> SUFFICES ASSUME NEW s \in Callers, task[s].stage = "trusted", task'[s].stage = "judged",
                      task'[s].row.status # "REJECTED"
               PROVE  ~Past(task[s].trust.expires) /\ ~Past(bond.conn.expires)
    OBVIOUS
  <2>1. Judge(s)
    BY <1>2, OnlyJudge
  <2>2. PICK row : row = NewRequest(task[s])
    OBVIOUS
  <2>3. task'[s].row = row
    BY <1>2, <2>1, <2>2 DEF Judge, FedInv, FedTyped
  <2>4. task[s].key \in XKeys /\ task[s].payload \in Payloads
    BY <1>2, FedTaskFacts DEF FedInv
  <2>5. row.status # "REJECTED" => Permitted(task[s])
    BY <1>2, <2>2, <2>4, NewRequestFacts DEF FedInv, FedTyped
  <2> QED  BY <2>3, <2>5 DEF Permitted, InForce, is_usable
<1>3. FedInv /\ [FedNext]_fedVars => [Stands]_fedVars /\ [Fresh]_fedVars
  BY <1>1, <1>2
<1>4. ([][Stands]_fedVars => RevocationStands) /\ ([][Fresh]_fedVars => NoExpiredTrust)
  BY DEF RevocationStands, NoExpiredTrust
<1> QED  BY <1>3, <1>4, FedInvariance, PTL DEF FedSpec

-----------------------------------------------------------------------------
(* Services and the calls between agents.                                  *)
CallRec ==
    [caller : SvAgents, target : SvAgents, key : CallKeys \cup {NoKey}, parent : Desks \cup {NoParent},
     chain : Seq(SvAgents), depth : Nat, path : Seq(SvAgents), aware : BOOLEAN]
DeskRec ==
    {SvIdle}
    \cup [stage : {"creating"}, agent : SvAgents, org : SvOrgs]
    \cup [stage : {"editing"}, agent : SvAgents, org : SvOrgs, row : ServiceRow, edit : Edits]
    \cup [stage : {"verifying"}, holds : SUBSET (Challenges \cup Endpoints), challenge : Challenges,
          endpoint : Endpoints, org : SvOrgs, row : EndpointRow, shown : ServiceVisibility]
    \cup [stage : {"looked", "answered"}, call : CallRec]
    \cup [stage : {"dispatch"}, call : CallRec, eps : Seq(Endpoints)]
    \cup [stage : {"counting"}, call : CallRec, eps : Seq(Endpoints), holds : SUBSET Endpoints, row : EndpointRow]
ChallengeRow == [status : {"PENDING", "EXPIRED", "VERIFIED"}, endpoint : Endpoints, till : Nat]
RecordStatus == {"LOOP_PREVENTED", "DEPTH_EXCEEDED", "PENDING_APPROVAL", "FAILED", "COMPLETED"}

SvTyped ==
    /\ SvTypeOK /\ scene \in Scenes /\ svNow \in Nat
    /\ challenge \in [Challenges -> {NoChallenge} \cup ChallengeRow]
    /\ rows \in [SvAgents -> [CallKeys -> Seq(RecordStatus)]]
    /\ executed \in [SvAgents -> [CallKeys -> Nat]]
    /\ desk \in [Desks -> DeskRec]
    /\ failedSince \in [Endpoints -> Nat] /\ used \in [Challenges -> Nat]

\* A handler of the registry works for the organization of its row, or on an endpoint of a
\* service that was shown to it.
RegistrarOK(s) ==
    /\ desk[s].stage \in {"creating", "editing"} => desk[s].org = OrgOf[desk[s].agent]
    /\ desk[s].stage = "editing" => service[desk[s].agent] # NoService
    /\ desk[s].stage = "verifying" =>
         \/ desk[s].org = OrgOf[HostOf[desk[s].endpoint]]
         \/ desk[s].shown \in {"PUBLIC_DISCOVERABLE", "TRUSTED_ORGANIZATIONS"}

\* The chain that an unbroken line of calls passes on is the line itself.
Calling == {"looked", "dispatch", "counting", "answered"}
Outgoing == {"dispatch", "counting", "answered"}
ChainOK(d) ==
    LET c == d.call IN
    /\ c.chain = c.path /\ c.depth = Len(c.path) /\ IsInjective(c.path)
    /\ d.stage \in Outgoing => Len(c.path) < max_depth /\ \A i \in DOMAIN c.path : c.path[i] # c.target
ChainsOK == \A s \in Desks : (desk[s].stage \in Calling /\ desk[s].call.aware) => ChainOK(desk[s])

\* An endpoint that is routed to, answered for or in hand has a row.
Existing(e) == e \in Endpoints /\ endpoint[e] # NoEndpoint
RowsExist ==
    /\ \A c \in Challenges : challenge[c] # NoChallenge => Existing(challenge[c].endpoint)
    /\ \A s \in Desks : desk[s].stage = "verifying" =>
          Existing(desk[s].endpoint) /\ challenge[desk[s].challenge] # NoChallenge
    /\ \A s \in Desks : desk[s].stage \in {"dispatch", "counting"} =>
          \A i \in DOMAIN desk[s].eps : Existing(desk[s].eps[i])
    /\ \A e \in Endpoints : endpoint[e] = NoEndpoint => failedSince[e] = 0

\* A row in hand is in one handler's, which loaded what it still holds.
InHand(s, x) == desk[s].stage \in {"verifying", "counting"} /\ x \in desk[s].holds
HoldsOK ==
    /\ \A s, q \in Desks, x \in Challenges \cup Endpoints :
          (InHand(s, x) /\ InHand(q, x) /\ x \notin svRaced) => s = q
    /\ \A s \in Desks : desk[s].stage = "verifying" => desk[s].holds = {desk[s].challenge, desk[s].endpoint}
    /\ \A s \in Desks : desk[s].stage = "counting" => desk[s].eps # <<>> /\ desk[s].holds = {Head(desk[s].eps)}
RowIn(d) == IF d.stage = "verifying" THEN d.endpoint ELSE Head(d.eps)
SvLoadedOK == \A s \in Desks : desk[s].stage \in {"verifying", "counting"} =>
    (RowIn(desk[s]) \notin svRaced => desk[s].row = endpoint[RowIn(desk[s])])

\* The failures of an endpoint are on its row, or the last of them is being counted.
HealthMatches(e) == endpoint[e].health = "DEGRADED" <=> endpoint[e].failures >= DegradeAfter
HealthOK ==
    \A e \in Endpoints : (endpoint[e] # NoEndpoint /\ e \notin svRaced) =>
        /\ HealthMatches(e)
        /\ Counting(e) => failedSince[e] = endpoint[e].failures + 1
        /\ ~Counting(e) => failedSince[e] = endpoint[e].failures

\* A challenge that no answer has settled has verified nothing.
ChallengeOK ==
    \A c \in Challenges \ svRaced :
        /\ used[c] <= 1 /\ (challenge[c].status # "VERIFIED" => used[c] = 0)
        /\ \A s \in Desks : (desk[s].stage = "verifying" /\ desk[s].challenge = c) => used[c] = 0

RegistrarsOK == \A s \in Desks : RegistrarOK(s)
DesksOK == RegistrarsOK /\ ChainsOK /\ RowsExist
InHandsOK == HoldsOK /\ SvLoadedOK /\ HealthOK /\ ChallengeOK
SvInv == SvTyped /\ DesksOK /\ InHandsOK

-----------------------------------------------------------------------------
(* Rows, tasks and routes.                                                 *)

LEMMA EndpointFlushFacts ==
    ASSUME NEW row \in EndpointRow, NEW loaded \in EndpointRow, NEW edited \in EndpointRow,
           NEW new, new = Flush(row, loaded, edited)
    PROVE  new \in EndpointRow /\ (row = loaded => new = edited)
<1>1. DOMAIN row = {"health", "failures"}
  BY DEF EndpointRow
<1>2. /\ DOMAIN new = {"health", "failures"}
      /\ \A f \in DOMAIN row : new[f] = IF edited[f] = loaded[f] THEN row[f] ELSE edited[f]
  BY <1>1 DEF Flush
<1>3. new = [health |-> new.health, failures |-> new.failures]
  BY <1>1, <1>2 DEF Flush
<1>4. new.health \in EndpointHealthStatus /\ new.failures \in Nat
  BY <1>1, <1>2 DEF EndpointRow
<1>5. new \in EndpointRow
  BY <1>3, <1>4 DEF EndpointRow
<1>6. row = loaded => new = edited
  <2> SUFFICES ASSUME row = loaded  PROVE new = edited
    OBVIOUS
  <2>1. new.health = edited.health /\ new.failures = edited.failures
    BY <1>1, <1>2
  <2>2. edited = [health |-> edited.health, failures |-> edited.failures]
    BY DEF EndpointRow
  <2> QED  BY <1>3, <2>1, <2>2
<1> QED  BY <1>5, <1>6

LEMMA ServiceFlushFacts ==
    ASSUME NEW row \in ServiceRow, NEW loaded \in ServiceRow, NEW edited \in ServiceRow
    PROVE  Flush(row, loaded, edited) \in ServiceRow
<1>1. PICK new : new = Flush(row, loaded, edited)
  OBVIOUS
<1>2. DOMAIN row = {"status", "visibility"}
  BY DEF ServiceRow
<1>3. /\ DOMAIN new = {"status", "visibility"}
      /\ \A f \in DOMAIN row : new[f] = IF edited[f] = loaded[f] THEN row[f] ELSE edited[f]
  BY <1>1, <1>2 DEF Flush
<1>4. new = [status |-> new.status, visibility |-> new.visibility]
  BY <1>1, <1>2, <1>3 DEF Flush
<1>5. new.status \in ServiceStatus /\ new.visibility \in ServiceVisibility
  BY <1>2, <1>3 DEF ServiceRow
<1> QED  BY <1>1, <1>4, <1>5 DEF ServiceRow

LEMMA NoRowFacts ==
    /\ NoService \notin ServiceRow /\ NoEndpoint \notin EndpointRow /\ NoChallenge \notin ChallengeRow
    /\ NewEndpoint \in EndpointRow /\ NewEndpoint.failures = 0 /\ NewEndpoint.health = "UNKNOWN"
    /\ SvIdle.stage = "idle" /\ SvIdle \in DeskRec /\ "call" \notin DOMAIN SvIdle /\ NoChallenge.status = "none"
BY DEF NoService, NoEndpoint, NoChallenge, ServiceRow, EndpointRow, ChallengeRow, NewEndpoint, ServiceStatus,
       EndpointHealthStatus, SvIdle, DeskRec

\* What a handler has in hand at each stage.
LEMMA DeskFacts ==
    ASSUME NEW d \in DeskRec
    PROVE  /\ d = SvIdle \/ d.stage \in {"creating", "editing", "verifying"} \/ d.stage \in Calling
           /\ d = SvIdle <=> d.stage = "idle"
           /\ d.stage \in {"creating", "editing"} => d.agent \in SvAgents /\ d.org \in SvOrgs
           /\ d.stage = "editing" => d.row \in ServiceRow /\ d.edit \in Edits
           /\ d.stage = "verifying" =>
                /\ d.challenge \in Challenges /\ d.endpoint \in Endpoints /\ d.row \in EndpointRow
                /\ d.shown \in ServiceVisibility
           /\ d.stage \in Calling => d.call \in CallRec
           /\ d.stage \in {"dispatch", "counting"} => d.eps \in Seq(Endpoints)
           /\ d.stage = "counting" => d.row \in EndpointRow
           /\ "call" \in DOMAIN d <=> d.stage \in Calling
<1>1. CASE d = SvIdle
  BY <1>1 DEF SvIdle, Calling
<1>2. CASE d \in [stage : {"creating"}, agent : SvAgents, org : SvOrgs]
  BY <1>2 DEF SvIdle, Calling
<1>3. CASE d \in [stage : {"editing"}, agent : SvAgents, org : SvOrgs, row : ServiceRow, edit : Edits]
  BY <1>3 DEF SvIdle, Calling
<1>4. CASE d \in [stage : {"verifying"}, holds : SUBSET (Challenges \cup Endpoints), challenge : Challenges,
          endpoint : Endpoints, org : SvOrgs, row : EndpointRow, shown : ServiceVisibility]
  BY <1>4 DEF SvIdle, Calling
<1>5. CASE d \in [stage : {"looked", "answered"}, call : CallRec]
  BY <1>5 DEF SvIdle, Calling
<1>6. CASE d \in [stage : {"dispatch"}, call : CallRec, eps : Seq(Endpoints)]
  BY <1>6 DEF SvIdle, Calling
<1>7. CASE d \in [stage : {"counting"}, call : CallRec, eps : Seq(Endpoints), holds : SUBSET Endpoints, row : EndpointRow]
  BY <1>7 DEF SvIdle, Calling
<1> QED  BY <1>1, <1>2, <1>3, <1>4, <1>5, <1>6, <1>7 DEF DeskRec

\* The endpoints of a route have rows.
LEMMA ScoredFacts ==
    ASSUME NEW target, NEW n
    PROVE  Scored(target, n) \in Seq({e \in Endpoints : Existing(e)})
<1>1. PICK S : S = {e \in Endpoints : HostOf[e] = target /\ endpoint[e] # NoEndpoint /\ health_score(e) = n}
  OBVIOUS
<1>2. IsFiniteSet(S)
  <2>1. S \subseteq Endpoints
    BY <1>1
  <2> QED  BY <2>1, ServicesAssumption, FS_Subset
<1>3. Cardinality(S) \in Nat /\ \E f \in [1..Cardinality(S) -> S] : IsInjective(f)
  <2>1. Cardinality(S) \in Nat /\ ExistsBijection(1..Cardinality(S), S)
    BY <1>2, FS_CardinalityType
  <2> QED  BY <2>1 DEF ExistsBijection, Bijection, Injection
<1>4. SetToSeq(S) \in [1..Cardinality(S) -> S]
  BY <1>3 DEF SetToSeq
<1>5. S \subseteq {e \in Endpoints : Existing(e)}
  BY <1>1 DEF Existing
<1>6. SetToSeq(S) \in Seq({e \in Endpoints : Existing(e)})
  BY <1>3, <1>4, <1>5
<1> QED  BY <1>1, <1>6 DEF Scored

LEMMA RouteFacts ==
    ASSUME NEW target
    PROVE  /\ Route(target) \in Seq(Endpoints)
           /\ \A i \in DOMAIN Route(target) : Existing(Route(target)[i])
<1>1. PICK E : E = {e \in Endpoints : Existing(e)}
  OBVIOUS
<1>2. /\ Scored(target, 3) \in Seq(E) /\ Scored(target, 2) \in Seq(E)
      /\ Scored(target, 1) \in Seq(E) /\ Scored(target, 0) \in Seq(E)
  BY <1>1, ScoredFacts
<1>3. Scored(target, 3) \o Scored(target, 2) \in Seq(E)
  BY <1>2, ConcatProperties
<1>4. Scored(target, 3) \o Scored(target, 2) \o Scored(target, 1) \in Seq(E)
  BY <1>2, <1>3, ConcatProperties
<1>5. Route(target) \in Seq(E)
  BY <1>2, <1>4, ConcatProperties DEF Route
<1>6. \A i \in DOMAIN Route(target) : Route(target)[i] \in E
  BY <1>5, LenProperties, ElementOfSeq
<1>7. Seq(E) \subseteq Seq(Endpoints)
  BY <1>1
<1> QED  BY <1>1, <1>5, <1>6, <1>7

-----------------------------------------------------------------------------
(* Handlers that have no row in hand.                                      *)

\* A handler that neither had a row in hand nor takes one disturbs nobody who does.
LEMMA DeskStep ==
    ASSUME SvInv, NEW s \in Desks, NEW d \in DeskRec, desk' = [desk EXCEPT ![s] = d],
           UNCHANGED <<endpoint, failedSince, challenge, used, svRaced>>,
           desk[s].stage \notin {"verifying", "counting"}, d.stage \notin {"verifying", "counting"},
           \A a \in SvAgents : service[a] # NoService => service'[a] # NoService,
           d.stage \in {"creating", "editing"} => d.org = OrgOf[d.agent],
           d.stage = "editing" => service'[d.agent] # NoService,
           (d.stage \in Calling /\ d.call.aware) => ChainOK(d),
           d.stage = "dispatch" => \A i \in DOMAIN d.eps : Existing(d.eps[i])
    PROVE  DesksOK' /\ InHandsOK' /\ desk' \in [Desks -> DeskRec]
<1>1. /\ \A q \in Desks : desk'[q] = IF q = s THEN d ELSE desk[q]
      /\ desk \in [Desks -> DeskRec] /\ desk' \in [Desks -> DeskRec]
  BY DEF SvInv, SvTyped
<1>2. \A e : Existing(e)' <=> Existing(e)
  BY DEF Existing
<1>3. \A q \in Desks, x \in Challenges \cup Endpoints : InHand(q, x)' <=> InHand(q, x)
  BY <1>1 DEF InHand
<1>4. \A e \in Endpoints : Counting(e)' <=> Counting(e)
  BY <1>1 DEF Counting
<1>5. \A q \in Desks : desk'[q].stage \in {"verifying", "counting"} => q # s /\ desk'[q] = desk[q]
  BY <1>1
<1>6. RegistrarsOK'
  <2> SUFFICES ASSUME NEW q \in Desks  PROVE RegistrarOK(q)'
    BY DEF RegistrarsOK
  <2>1. CASE q = s
    BY <1>1, <2>1 DEF RegistrarOK
  <2>2. CASE q # s
    <3>1. desk[q].stage = "editing" => desk[q].agent \in SvAgents
      BY <1>1, DeskFacts
    <3>2. RegistrarOK(q)
      BY DEF SvInv, DesksOK, RegistrarsOK
    <3> QED  BY <1>1, <2>2, <3>1, <3>2 DEF RegistrarOK
  <2> QED  BY <2>1, <2>2
<1>7. ChainsOK'
  BY <1>1 DEF SvInv, DesksOK, ChainsOK
<1>8. RowsExist'
  <2>1. \A q \in Desks : desk'[q].stage \in {"dispatch", "counting"} =>
            \A i \in DOMAIN desk'[q].eps : Existing(desk'[q].eps[i])
    BY <1>1 DEF SvInv, DesksOK, RowsExist
  <2>2. \A q \in Desks : desk'[q].stage = "verifying" =>
            Existing(desk'[q].endpoint) /\ challenge[desk'[q].challenge] # NoChallenge
    BY <1>1, <1>5 DEF SvInv, DesksOK, RowsExist
  <2> QED  BY <1>2, <2>1, <2>2 DEF SvInv, DesksOK, RowsExist
<1>9. HoldsOK'
  <2>1. \A q \in Desks : desk'[q].stage = "verifying" => desk'[q].holds = {desk'[q].challenge, desk'[q].endpoint}
    BY <1>1 DEF SvInv, InHandsOK, HoldsOK
  <2>2. \A q \in Desks : desk'[q].stage = "counting" => desk'[q].eps # <<>> /\ desk'[q].holds = {Head(desk'[q].eps)}
    BY <1>1 DEF SvInv, InHandsOK, HoldsOK
  <2> QED  BY <1>3, <2>1, <2>2 DEF SvInv, InHandsOK, HoldsOK
<1>10. SvLoadedOK'
  BY <1>5 DEF SvInv, InHandsOK, SvLoadedOK, RowIn
<1>11. HealthOK'
  BY <1>4 DEF SvInv, InHandsOK, HealthOK, HealthMatches
<1>12. ChallengeOK'
  BY <1>1 DEF SvInv, InHandsOK, ChallengeOK
<1> QED  BY <1>1, <1>6, <1>7, <1>8, <1>9, <1>10, <1>11, <1>12 DEF DesksOK, InHandsOK

\* A step that no handler takes part in.
LEMMA OutsideStep ==
    ASSUME SvInv, UNCHANGED <<desk, failedSince, used, svRaced>>,
           \A a \in SvAgents : service[a] # NoService => service'[a] # NoService,
           \A e \in Endpoints : endpoint[e] # NoEndpoint => endpoint'[e] = endpoint[e],
           \A e \in Endpoints : endpoint[e] = NoEndpoint => endpoint'[e] \in {NoEndpoint, NewEndpoint},
           \A c \in Challenges :
                \/ challenge'[c] = challenge[c]
                \/ challenge[c].status # "VERIFIED" /\ challenge'[c] # NoChallenge /\ Existing(challenge'[c].endpoint)
    PROVE  DesksOK' /\ InHandsOK'
<1>1. desk \in [Desks -> DeskRec] /\ failedSince \in [Endpoints -> Nat]
  BY DEF SvInv, SvTyped
<1>2. \A e : Existing(e) => Existing(e)' /\ endpoint'[e] = endpoint[e]
  BY DEF Existing
<1>3. \A e \in Endpoints : Counting(e)' <=> Counting(e)
  BY DEF Counting
<1>4. RegistrarsOK'
  BY <1>1, DeskFacts DEF SvInv, DesksOK, RegistrarsOK, RegistrarOK
<1>5. ChainsOK'
  BY DEF SvInv, DesksOK, ChainsOK
<1>6. RowsExist'
  <2>1. \A c \in Challenges : challenge'[c] # NoChallenge =>
            challenge'[c].endpoint \in Endpoints /\ endpoint'[challenge'[c].endpoint] # NoEndpoint
    BY <1>2 DEF SvInv, DesksOK, RowsExist, Existing
  <2>2. \A e \in Endpoints : endpoint'[e] = NoEndpoint => failedSince[e] = 0
    BY DEF SvInv, DesksOK, RowsExist
  <2>3. \A q \in Desks : desk[q].stage = "verifying" =>
            Existing(desk[q].endpoint)' /\ challenge'[desk[q].challenge] # NoChallenge
    BY <1>1, <1>2, DeskFacts DEF SvInv, DesksOK, RowsExist
  <2>4. \A q \in Desks : desk[q].stage \in {"dispatch", "counting"} =>
            \A i \in DOMAIN desk[q].eps : Existing(desk[q].eps[i])'
    BY <1>2 DEF SvInv, DesksOK, RowsExist
  <2> QED  BY <2>1, <2>2, <2>3, <2>4 DEF RowsExist, Existing
<1>7. HoldsOK'
  BY DEF SvInv, InHandsOK, HoldsOK, InHand
<1>8. SvLoadedOK'
  <2> SUFFICES ASSUME NEW s \in Desks, desk[s].stage \in {"verifying", "counting"}, RowIn(desk[s]) \notin svRaced
               PROVE  desk[s].row = endpoint'[RowIn(desk[s])]
    BY DEF SvLoadedOK, RowIn
  <2>1. Existing(RowIn(desk[s]))
    <3>1. CASE desk[s].stage = "verifying"
      BY <3>1 DEF SvInv, DesksOK, RowsExist, RowIn
    <3>2. CASE desk[s].stage = "counting"
      <4>1. desk[s].eps \in Seq(Endpoints) /\ desk[s].eps # <<>>
        BY <1>1, <3>2, DeskFacts DEF SvInv, InHandsOK, HoldsOK
      <4>2. 1 \in DOMAIN desk[s].eps /\ Head(desk[s].eps) = desk[s].eps[1]
        BY <4>1
      <4> QED  BY <3>2, <4>2 DEF SvInv, DesksOK, RowsExist, RowIn
    <3> QED  BY <3>1, <3>2
  <2> QED  BY <1>2, <2>1 DEF SvInv, InHandsOK, SvLoadedOK
<1>9. HealthOK'
  <2> SUFFICES ASSUME NEW e \in Endpoints, endpoint'[e] # NoEndpoint, e \notin svRaced
               PROVE  /\ HealthMatches(e)' /\ (Counting(e) => failedSince[e] = endpoint'[e].failures + 1)
                      /\ (~Counting(e) => failedSince[e] = endpoint'[e].failures)
    BY <1>3 DEF HealthOK
  <2>1. CASE endpoint[e] # NoEndpoint
    BY <2>1 DEF SvInv, InHandsOK, HealthOK, HealthMatches
  <2>2. CASE endpoint[e] = NoEndpoint
    <3>1. endpoint'[e] = NewEndpoint /\ failedSince[e] = 0 /\ 0 < DegradeAfter
      BY <2>2, ServicesAssumption DEF SvInv, DesksOK, RowsExist
    <3>2. ~Counting(e)
      <4> SUFFICES ASSUME NEW s \in Desks, desk[s].stage = "counting", Head(desk[s].eps) = e  PROVE FALSE
        BY DEF Counting
      <4>1. desk[s].eps \in Seq(Endpoints) /\ desk[s].eps # <<>>
        BY <1>1, DeskFacts DEF SvInv, InHandsOK, HoldsOK
      <4>2. 1 \in DOMAIN desk[s].eps /\ Head(desk[s].eps) = desk[s].eps[1]
        BY <4>1
      <4>3. Existing(e)
        BY <4>2 DEF SvInv, DesksOK, RowsExist
      <4> QED  BY <2>2, <4>3 DEF Existing
    <3>3. HealthMatches(e)'
      BY <3>1, NoRowFacts, ServicesAssumption DEF HealthMatches
    <3> QED  BY <3>1, <3>2, <3>3, NoRowFacts
  <2> QED  BY <2>1, <2>2
<1>10. ChallengeOK'
  BY DEF SvInv, InHandsOK, ChallengeOK
<1> QED  BY <1>4, <1>5, <1>6, <1>7, <1>8, <1>9, <1>10 DEF DesksOK, InHandsOK

LEMMA SvOutsideOK ==
    ASSUME SvInv,
           \/ SvTick \/ Outside \/ \E a \in scene.hosts, hold \in {"open", "approval"} : register_capability(a, hold)
    PROVE  SvInv'
<1>1. UNCHANGED <<desk, failedSince, used, svRaced, service, endpoint, challenge, rows, executed, scene>> /\ svNow' \in Nat
  BY DEF SvTick, Outside, register_capability, callVars, SvInv, SvTyped
<1>2. DesksOK' /\ InHandsOK'
  <2>1. \A e \in Endpoints : endpoint'[e] = endpoint[e] /\ (endpoint[e] = NoEndpoint => endpoint'[e] = NoEndpoint)
    BY <1>1
  <2> QED  BY <1>1, <2>1, OutsideStep
<1>3. SvTyped'
  BY <1>1 DEF SvInv, SvTyped, SvTypeOK
<1> QED  BY <1>2, <1>3 DEF SvInv

LEMMA RegisterEndpointOK ==
    ASSUME SvInv, NEW e \in Endpoints, register_endpoint(e)
    PROVE  SvInv'
<1>1. /\ UNCHANGED <<desk, failedSince, used, svRaced, service, challenge, rows, executed, scene, svNow>>
      /\ endpoint[e] = NoEndpoint /\ endpoint' = [endpoint EXCEPT ![e] = NewEndpoint]
  BY DEF register_endpoint, callVars, registryVars
<1>2. endpoint \in [Endpoints -> {NoEndpoint} \cup EndpointRow]
  BY DEF SvInv, SvTyped, SvTypeOK
<1>3. DesksOK' /\ InHandsOK'
  BY <1>1, <1>2, OutsideStep
<1>4. SvTyped'
  BY <1>1, <1>2, NoRowFacts DEF SvInv, SvTyped, SvTypeOK
<1> QED  BY <1>3, <1>4 DEF SvInv

LEMMA InitiateOK ==
    ASSUME SvInv, NEW c \in Challenges, NEW e \in Endpoints, NEW org, initiate_endpoint_verification(c, e, org)
    PROVE  SvInv'
<1>1. PICK r : r = [status |-> "PENDING", endpoint |-> e, till |-> svNow + ChallengeTTL]
  OBVIOUS
<1>2. /\ UNCHANGED <<desk, failedSince, used, svRaced, service, endpoint, rows, executed, scene, svNow>>
      /\ challenge[c] = NoChallenge /\ challenge' = [challenge EXCEPT ![c] = r] /\ endpoint[e] # NoEndpoint
  BY <1>1 DEF initiate_endpoint_verification, callVars
<1>3. r \in ChallengeRow
  <2>1. svNow + ChallengeTTL \in Nat
    BY ServicesAssumption DEF SvInv, SvTyped
  <2> QED  BY <1>1, <2>1 DEF ChallengeRow
<1>4. challenge \in [Challenges -> {NoChallenge} \cup ChallengeRow]
  BY DEF SvInv, SvTyped
<1>5. /\ r # NoChallenge /\ Existing(r.endpoint) /\ challenge[c].status # "VERIFIED"
  BY <1>1, <1>2, <1>3, NoRowFacts DEF Existing
<1>6. DesksOK' /\ InHandsOK'
  BY <1>2, <1>4, <1>5, OutsideStep
<1>7. SvTyped'
  BY <1>2, <1>3, <1>4 DEF SvInv, SvTyped, SvTypeOK
<1> QED  BY <1>6, <1>7 DEF SvInv

\* What the typing of the rest needs of a handler's step.
LEMMA DeskTyped ==
    ASSUME SvInv, desk' \in [Desks -> DeskRec], DesksOK', InHandsOK',
           UNCHANGED <<endpoint, failedSince, challenge, used, scene, svNow>>,
           service' \in [SvAgents -> {NoService} \cup ServiceRow],
           rows' \in [SvAgents -> [CallKeys -> Seq(RecordStatus)]], executed' \in [SvAgents -> [CallKeys -> Nat]]
    PROVE  SvInv'
BY DEF SvInv, SvTyped, SvTypeOK

LEMMA SvFacts ==
    ASSUME SvInv
    PROVE  /\ service \in [SvAgents -> {NoService} \cup ServiceRow]
           /\ endpoint \in [Endpoints -> {NoEndpoint} \cup EndpointRow]
           /\ rows \in [SvAgents -> [CallKeys -> Seq(RecordStatus)]] /\ executed \in [SvAgents -> [CallKeys -> Nat]]
           /\ desk \in [Desks -> DeskRec] /\ \A s \in Desks : desk[s] \in DeskRec
           /\ challenge \in [Challenges -> {NoChallenge} \cup ChallengeRow]
           /\ failedSince \in [Endpoints -> Nat] /\ used \in [Challenges -> Nat]
           /\ scene.hosts \subseteq SvAgents /\ scene.desks \subseteq Desks
           /\ scene.pairs \subseteq SvAgents \X SvAgents /\ scene.keys \subseteq CallKeys \cup {NoKey}
           /\ scene.service \in [SvAgents -> {NoService} \cup ServiceRow]
BY ScenesAssumption DEF SvInv, SvTyped, SvTypeOK

LEMMA LookupNameOK ==
    ASSUME SvInv, NEW s \in Desks, NEW a \in SvAgents, LookupName(s, a)
    PROVE  SvInv'
<1>1. PICK d : d = [stage |-> "creating", agent |-> a, org |-> OrgOf[a]]
  OBVIOUS
<1>2. /\ desk[s] = SvIdle /\ desk' = [desk EXCEPT ![s] = d]
      /\ UNCHANGED <<registryVars, endpoint, callVars, failedSince, svRaced>>
  BY <1>1 DEF LookupName
<1>3. d \in DeskRec /\ d.stage = "creating" /\ d.org = OrgOf[d.agent]
  BY <1>1 DEF DeskRec, SvOrgs
<1>4. DesksOK' /\ InHandsOK' /\ desk' \in [Desks -> DeskRec]
  BY <1>2, <1>3, DeskStep, NoRowFacts DEF registryVars, Calling
<1> QED  BY <1>2, <1>4, DeskTyped, SvFacts DEF registryVars, callVars

LEMMA CreateServiceOK ==
    ASSUME SvInv, NEW s \in Desks, NEW v \in {"ORGANIZATION", "TRUSTED_ORGANIZATIONS"}, create_service(s, v)
    PROVE  SvInv'
<1> DEFINE a == desk[s].agent
<1>1. PICK r : r = [status |-> "ACTIVE", visibility |-> v]
  OBVIOUS
<1>2. /\ desk[s].stage = "creating" /\ desk' = [desk EXCEPT ![s] = SvIdle]
      /\ service' = IF service[a] # NoService THEN service ELSE [service EXCEPT ![a] = r]
      /\ UNCHANGED <<svNow, endpoint, challenge, callVars, failedSince, used, svRaced, scene>>
  BY <1>1 DEF create_service, EndCall
<1>3. r \in ServiceRow /\ r # NoService
  BY <1>1, NoRowFacts DEF ServiceRow, ServiceStatus, ServiceVisibility
<1>4. service' \in [SvAgents -> {NoService} \cup ServiceRow] /\ \A b \in SvAgents : service[b] # NoService => service'[b] # NoService
  BY <1>2, <1>3, SvFacts
<1>5. DesksOK' /\ InHandsOK' /\ desk' \in [Desks -> DeskRec]
  BY <1>2, <1>4, DeskStep, NoRowFacts DEF Calling
<1> QED  BY <1>2, <1>4, <1>5, DeskTyped, SvFacts DEF callVars

LEMMA LoadServiceOK ==
    ASSUME SvInv, NEW s \in Desks, NEW a \in SvAgents, NEW org \in SvOrgs, NEW edit \in Edits, LoadService(s, a, org, edit)
    PROVE  SvInv'
<1>1. PICK d : d = [stage |-> "editing", agent |-> a, org |-> org, row |-> service[a], edit |-> edit]
  OBVIOUS
<1>2. /\ desk[s] = SvIdle /\ desk' = [desk EXCEPT ![s] = d] /\ service[a] # NoService /\ org = OrgOf[a]
      /\ UNCHANGED <<registryVars, endpoint, callVars, failedSince, svRaced>>
  BY <1>1 DEF LoadService, MayEdit, Shown
<1>3. service[a] \in ServiceRow
  BY <1>2, SvFacts
<1>4. d \in DeskRec /\ d.stage = "editing" /\ d.org = OrgOf[d.agent] /\ service'[d.agent] # NoService
  BY <1>1, <1>2, <1>3 DEF DeskRec, registryVars
<1>5. DesksOK' /\ InHandsOK' /\ desk' \in [Desks -> DeskRec]
  BY <1>2, <1>4, DeskStep, NoRowFacts DEF registryVars, Calling
<1> QED  BY <1>2, <1>5, DeskTyped, SvFacts DEF registryVars, callVars

LEMMA ServiceEditedFacts ==
    ASSUME NEW row \in ServiceRow, NEW edit \in Edits
    PROVE  [f \in DOMAIN row |-> IF f \in DOMAIN edit THEN edit[f] ELSE row[f]] \in ServiceRow
<1>1. PICK n : n = [f \in DOMAIN row |-> IF f \in DOMAIN edit THEN edit[f] ELSE row[f]]
  OBVIOUS
<1>2. DOMAIN row = {"status", "visibility"}
  BY DEF ServiceRow
<1>3. n = [status |-> n.status, visibility |-> n.visibility]
  BY <1>1, <1>2
<1>4. CASE \E x \in {"ACTIVE", "DISABLED", RetiredStatus} : edit = [status |-> x]
  <2>1. n.status \in ServiceStatus /\ n.visibility \in ServiceVisibility
    BY <1>1, <1>2, <1>4 DEF ServiceRow, RetiredStatus, ServiceStatus
  <2> QED  BY <1>1, <1>3, <2>1 DEF ServiceRow
<1>5. CASE \E x \in {"ORGANIZATION", "PUBLIC_DISCOVERABLE"} : edit = [visibility |-> x]
  <2>1. n.status \in ServiceStatus /\ n.visibility \in ServiceVisibility
    BY <1>1, <1>2, <1>5 DEF ServiceRow, ServiceVisibility
  <2> QED  BY <1>1, <1>3, <2>1 DEF ServiceRow
<1> QED  BY <1>4, <1>5 DEF Edits

LEMMA UpdateServiceOK ==
    ASSUME SvInv, NEW s \in Desks, update_service(s)
    PROVE  SvInv'
<1> DEFINE d == desk[s]
<1>1. PICK n : n = Flush(service[d.agent], d.row,
                         [f \in DOMAIN d.row |-> IF f \in DOMAIN d.edit THEN d.edit[f] ELSE d.row[f]])
  OBVIOUS
<1>2. /\ d.stage = "editing" /\ desk' = [desk EXCEPT ![s] = SvIdle] /\ service' = [service EXCEPT ![d.agent] = n]
      /\ UNCHANGED <<svNow, endpoint, challenge, callVars, failedSince, used, svRaced, scene>>
  BY <1>1 DEF update_service, EndCall
<1>3. d.agent \in SvAgents /\ d.row \in ServiceRow /\ d.edit \in Edits /\ service[d.agent] \in ServiceRow
  <2>1. service[d.agent] # NoService
    BY <1>2 DEF SvInv, DesksOK, RegistrarsOK, RegistrarOK
  <2> QED  BY <1>2, <2>1, SvFacts, DeskFacts
<1>4. n \in ServiceRow /\ n # NoService
  <2>1. [f \in DOMAIN d.row |-> IF f \in DOMAIN d.edit THEN d.edit[f] ELSE d.row[f]] \in ServiceRow
    BY <1>3, ServiceEditedFacts
  <2> QED  BY <1>1, <1>3, <2>1, ServiceFlushFacts, NoRowFacts
<1>5. service' \in [SvAgents -> {NoService} \cup ServiceRow] /\ \A b \in SvAgents : service[b] # NoService => service'[b] # NoService
  BY <1>2, <1>4, SvFacts
<1>6. DesksOK' /\ InHandsOK' /\ desk' \in [Desks -> DeskRec]
  BY <1>2, <1>5, DeskStep, NoRowFacts DEF Calling
<1> QED  BY <1>2, <1>5, <1>6, DeskTyped, SvFacts DEF callVars

-----------------------------------------------------------------------------
(* Calls.                                                                  *)

\* A line of calls grows by an agent that is not on it yet.
LEMMA AppendFacts ==
    ASSUME NEW path \in Seq(SvAgents), NEW a \in SvAgents,
           IsInjective(path), \A i \in DOMAIN path : path[i] # a
    PROVE  /\ Append(path, a) \in Seq(SvAgents) /\ IsInjective(Append(path, a))
           /\ Len(Append(path, a)) = Len(path) + 1 /\ Chain(path, a) = Append(path, a)
<1>1. /\ Append(path, a) \in Seq(SvAgents) /\ Len(Append(path, a)) = Len(path) + 1
      /\ \A i \in 1..Len(path) : Append(path, a)[i] = path[i]
      /\ Append(path, a)[Len(path) + 1] = a
  BY AppendProperties
<1>2. Len(path) \in Nat /\ DOMAIN path = 1..Len(path) /\ DOMAIN Append(path, a) = 1..(Len(path) + 1)
  BY <1>1, LenProperties
<1>3. IsInjective(Append(path, a))
  <2> SUFFICES ASSUME NEW i \in 1..(Len(path) + 1), NEW j \in 1..(Len(path) + 1),
                      Append(path, a)[i] = Append(path, a)[j]
               PROVE  i = j
    BY <1>2 DEF IsInjective
  <2>1. CASE i \in 1..Len(path) /\ j \in 1..Len(path)
    BY <1>1, <1>2, <2>1 DEF IsInjective
  <2>2. CASE i \in 1..Len(path) /\ j = Len(path) + 1
    BY <1>1, <1>2, <2>2
  <2>3. CASE i = Len(path) + 1 /\ j \in 1..Len(path)
    BY <1>1, <1>2, <2>3
  <2>4. CASE i = Len(path) + 1 /\ j = Len(path) + 1
    BY <2>4
  <2>5. /\ i \in 1..Len(path) \/ i = Len(path) + 1
        /\ j \in 1..Len(path) \/ j = Len(path) + 1
    BY <1>2
  <2> QED  BY <2>1, <2>2, <2>3, <2>4, <2>5
<1>4. Chain(path, a) = Append(path, a)
  <2>1. path # <<>> => Len(path) \in 1..Len(path)
    BY <1>2, EmptySeq
  <2> QED  BY <1>2, <2>1 DEF Chain, Last
<1> QED  BY <1>1, <1>3, <1>4

LEMMA CallOK ==
    ASSUME SvInv, NEW s \in Desks, NEW caller \in SvAgents, NEW target \in SvAgents, NEW k \in CallKeys \cup {NoKey},
           NEW parent \in Desks \cup {NoParent}, NEW aware \in BOOLEAN, Call(s, caller, target, k, parent, aware)
    PROVE  SvInv'
<1> DEFINE above == desk[parent].call
           told == IF parent # NoParent /\ aware THEN above.chain ELSE <<>>
<1>1. PICK c : c = [caller |-> caller, target |-> target, key |-> k, parent |-> parent,
                    chain |-> Chain(told, caller),
                    depth |-> IF parent # NoParent /\ aware THEN above.depth + 1 ELSE 1,
                    path |-> IF parent # NoParent THEN Append(above.path, caller) ELSE <<caller>>,
                    aware |-> aware /\ (parent # NoParent => above.aware)]
  OBVIOUS
<1>2. PICK d : d = [stage |-> "looked", call |-> c]
  OBVIOUS
<1>3. /\ desk[s] = SvIdle /\ desk' = [desk EXCEPT ![s] = d]
      /\ parent # NoParent => desk[parent].stage = "dispatch" /\ above.target = caller
      /\ UNCHANGED <<registryVars, endpoint, rows, executed, failedSince, svRaced>>
  BY <1>1, <1>2 DEF Call
<1>4. parent # NoParent => parent \in Desks /\ above \in CallRec
  BY <1>3, SvFacts, DeskFacts DEF Calling
<1>5. /\ told \in Seq(SvAgents) /\ <<caller>> \in Seq(SvAgents) /\ Append(<<>>, caller) = <<caller>>
      /\ Chain(told, caller) \in Seq(SvAgents)
  <2>1. told \in Seq(SvAgents)
    BY <1>4, EmptySeq DEF CallRec
  <2>2. Append(told, caller) \in Seq(SvAgents)
    BY <2>1, AppendProperties
  <2> HIDE DEF told
  <2> QED  BY <2>1, <2>2 DEF Chain
<1>6. c \in CallRec
  <2>1. parent # NoParent => /\ Append(above.path, caller) \in Seq(SvAgents)
                             /\ above.depth + 1 \in Nat /\ above.aware \in BOOLEAN
    <3> SUFFICES ASSUME parent # NoParent
                 PROVE  Append(above.path, caller) \in Seq(SvAgents) /\ above.depth + 1 \in Nat /\ above.aware \in BOOLEAN
      OBVIOUS
    <3>1. above.path \in Seq(SvAgents) /\ above.depth \in Nat /\ above.aware \in BOOLEAN
      BY <1>4 DEF CallRec
    <3> QED  BY <3>1, AppendProperties
  <2> HIDE DEF told, above
  <2>2. /\ c.path = IF parent # NoParent THEN Append(above.path, caller) ELSE <<caller>>
        /\ c.depth = IF parent # NoParent /\ aware THEN above.depth + 1 ELSE 1
        /\ c.chain = Chain(told, caller)
    BY <1>1
  <2>3. c.path \in Seq(SvAgents) /\ c.depth \in Nat /\ c.chain \in Seq(SvAgents)
    BY <1>5, <2>1, <2>2
  <2>4. c.aware \in BOOLEAN
    BY <1>1
  <2>5. c = [caller |-> caller, target |-> target, key |-> k, parent |-> parent, chain |-> c.chain,
             depth |-> c.depth, path |-> c.path, aware |-> c.aware]
    BY <1>1
  <2> QED  BY <2>3, <2>4, <2>5 DEF CallRec
<1>7. d \in DeskRec /\ d.stage = "looked" /\ d.call = c
  BY <1>2, <1>6 DEF DeskRec
<1>8. ASSUME c.aware  PROVE ChainOK(d)
  <2>1. aware /\ (parent # NoParent => above.aware)
    BY <1>1, <1>8
  <2>2. CASE parent = NoParent
    <3>1. c.chain = Chain(<<>>, caller) /\ c.depth = 1 /\ c.path = <<caller>>
      BY <1>1, <2>2
    <3>2. Chain(<<>>, caller) = <<caller>>
      BY <1>5 DEF Chain
    <3>3. IsInjective(<<caller>>) /\ Len(<<caller>>) = 1
      BY DEF IsInjective
    <3> QED  BY <1>7, <3>1, <3>2, <3>3 DEF ChainOK, Outgoing
  <2>3. CASE parent # NoParent
    <3>1. PICK up : up = above /\ up \in CallRec
      BY <1>4, <2>3
    <3>2. /\ up.chain = up.path /\ up.depth = Len(up.path) /\ IsInjective(up.path)
          /\ \A i \in DOMAIN up.path : up.path[i] # caller
      BY <1>3, <1>4, <2>1, <2>3, <3>1 DEF SvInv, DesksOK, ChainsOK, ChainOK, Calling, Outgoing
    <3>3. c.chain = Chain(up.path, caller) /\ c.depth = Len(up.path) + 1 /\ c.path = Append(up.path, caller)
      BY <1>1, <2>1, <2>3, <3>1, <3>2
    <3>4. up.path \in Seq(SvAgents)
      BY <3>1 DEF CallRec
    <3>5. /\ IsInjective(Append(up.path, caller)) /\ Len(Append(up.path, caller)) = Len(up.path) + 1
          /\ Chain(up.path, caller) = Append(up.path, caller)
      BY <3>2, <3>4, AppendFacts
    <3> QED  BY <1>7, <3>3, <3>5 DEF ChainOK, Outgoing
  <2> QED  BY <2>2, <2>3
<1>9. DesksOK' /\ InHandsOK' /\ desk' \in [Desks -> DeskRec]
  <2>1. UNCHANGED <<endpoint, failedSince, challenge, used, svRaced, service>>
    BY <1>3 DEF registryVars
  <2>2. desk[s].stage = "idle"
    BY <1>3, NoRowFacts
  <2> HIDE DEF told, above
  <2> QED  BY <1>3, <1>7, <1>8, <2>1, <2>2, DeskStep
<1> QED  BY <1>3, <1>9, DeskTyped, SvFacts DEF registryVars

LEMMA WriteRecordFacts ==
    ASSUME SvInv, NEW c \in CallRec, NEW st \in RecordStatus, WriteRecord(c, st)
    PROVE  rows' \in [SvAgents -> [CallKeys -> Seq(RecordStatus)]]
<1>1. CASE c.key = NoKey
  BY <1>1, SvFacts DEF WriteRecord
<1>2. CASE c.key # NoKey
  <2>1. c.caller \in SvAgents /\ c.key \in CallKeys
    BY <1>2 DEF CallRec
  <2>2. rows[c.caller][c.key] \in Seq(RecordStatus)
    BY <2>1, SvFacts
  <2>3. Append(rows[c.caller][c.key], st) \in Seq(RecordStatus)
    BY <2>2, AppendProperties
  <2>4. rows' = [rows EXCEPT ![c.caller][c.key] = Append(rows[c.caller][c.key], st)]
    BY <1>2 DEF WriteRecord
  <2> QED  BY <2>1, <2>3, <2>4, SvFacts
<1> QED  BY <1>1, <1>2

LEMMA ResolveOK ==
    ASSUME SvInv, NEW s \in Desks, Resolve(s)
    PROVE  SvInv'
<1>1. PICK c : c = desk[s].call
  OBVIOUS
<1>2. /\ desk[s].stage = "looked" /\ c \in CallRec
      /\ UNCHANGED <<registryVars, endpoint, calls, executed, failedSince, svRaced>>
  BY <1>1, SvFacts, DeskFacts DEF Resolve, Calling
<1>3. CASE Verdict(c) = "dispatch"
  <2>1. PICK d : d = [stage |-> "dispatch", call |-> c, eps |-> Route(c.target)]
    OBVIOUS
  <2>2. desk' = [desk EXCEPT ![s] = d] /\ UNCHANGED rows
    BY <1>1, <1>3, <2>1 DEF Resolve
  <2>3. d \in DeskRec /\ d.stage = "dispatch" /\ d.call = c /\ \A i \in DOMAIN d.eps : Existing(d.eps[i])
    BY <1>2, <2>1, RouteFacts DEF DeskRec
  <2>4. ~InChain(c.target, c.chain) /\ ~(c.depth >= max_depth)
    BY <1>3 DEF Verdict
  <2>5. c.aware => ChainOK(d)
    <3> SUFFICES ASSUME c.aware  PROVE ChainOK(d)
      OBVIOUS
    <3>1. c.chain = c.path /\ c.depth = Len(c.path) /\ IsInjective(c.path)
      BY <1>1, <1>2 DEF SvInv, DesksOK, ChainsOK, ChainOK, Calling
    <3>2. Len(c.path) < max_depth
      BY <1>2, <2>4, <3>1, ServicesAssumption DEF CallRec
    <3>3. \A i \in DOMAIN c.path : c.path[i] # c.target
      BY <2>4, <3>1 DEF InChain
    <3> QED  BY <2>3, <3>1, <3>2, <3>3 DEF ChainOK
  <2>6. DesksOK' /\ InHandsOK' /\ desk' \in [Desks -> DeskRec]
    BY <1>2, <2>2, <2>3, <2>5, DeskStep DEF registryVars
  <2> QED  BY <1>2, <2>2, <2>6, DeskTyped, SvFacts DEF registryVars
<1>4. CASE Verdict(c) # "dispatch"
  <2>1. desk' = [desk EXCEPT ![s] = SvIdle] /\ (UNCHANGED rows \/ (WriteRecord(c, Verdict(c)) /\ Verdict(c) # "refused"))
    BY <1>1, <1>4 DEF Resolve, EndCall
  <2>2. Verdict(c) \in {"refused"} \cup RecordStatus
    BY <1>4 DEF Verdict, RecordStatus
  <2>3. rows' \in [SvAgents -> [CallKeys -> Seq(RecordStatus)]]
    BY <1>2, <2>1, <2>2, WriteRecordFacts, SvFacts
  <2>4. DesksOK' /\ InHandsOK' /\ desk' \in [Desks -> DeskRec]
    BY <1>2, <2>1, DeskStep, NoRowFacts DEF registryVars, Calling
  <2> QED  BY <1>2, <2>3, <2>4, DeskTyped, SvFacts DEF registryVars
<1> QED  BY <1>3, <1>4

LEMMA RecordCallOK ==
    ASSUME SvInv, NEW s \in Desks, NEW bound \in BOOLEAN, RecordCall(s, bound)
    PROVE  SvInv'
<1>1. /\ desk[s].stage \in {"dispatch", "answered"} /\ desk[s].call \in CallRec
      /\ desk' = [desk EXCEPT ![s] = SvIdle]
      /\ \/ UNCHANGED rows \/ \E st \in {"FAILED", "COMPLETED"} : WriteRecord(desk[s].call, st)
      /\ UNCHANGED <<registryVars, endpoint, calls, executed, failedSince, svRaced>>
  BY SvFacts, DeskFacts DEF RecordCall, EndCall, Calling
<1>2. rows' \in [SvAgents -> [CallKeys -> Seq(RecordStatus)]]
  BY <1>1, WriteRecordFacts, SvFacts DEF RecordStatus
<1>3. DesksOK' /\ InHandsOK' /\ desk' \in [Desks -> DeskRec]
  BY <1>1, DeskStep, NoRowFacts DEF registryVars, Calling
<1> QED  BY <1>1, <1>2, <1>3, DeskTyped, SvFacts DEF registryVars

-----------------------------------------------------------------------------
(* Handlers that take a row in hand, or write the one they have.           *)

LEMMA InHandFacts ==
    ASSUME SvInv
    PROVE  /\ \A x : \A q \in Desks : q \in InHands(x) <=> InHand(q, x)
           /\ \A q \in Desks : desk[q].stage \in {"verifying", "counting"} =>
                 /\ InHand(q, RowIn(desk[q])) /\ Existing(RowIn(desk[q])) /\ endpoint[RowIn(desk[q])] \in EndpointRow
                 /\ desk[q].row \in EndpointRow
           /\ \A q \in Desks : desk[q].stage = "verifying" => InHand(q, desk[q].challenge)
           /\ \A e \in Endpoints, q \in Desks :
                 (desk[q].stage = "counting" /\ Head(desk[q].eps) = e) => InHand(q, e)
<1>1. \A x : \A q \in Desks : q \in InHands(x) <=> InHand(q, x)
  BY DEF InHands, InHand
<1>2. ASSUME NEW q \in Desks, desk[q].stage \in {"verifying", "counting"}
      PROVE  /\ InHand(q, RowIn(desk[q])) /\ Existing(RowIn(desk[q])) /\ endpoint[RowIn(desk[q])] \in EndpointRow
             /\ desk[q].row \in EndpointRow
  <2>1. InHand(q, RowIn(desk[q])) /\ desk[q].row \in EndpointRow
    BY <1>2, SvFacts, DeskFacts DEF SvInv, InHandsOK, HoldsOK, InHand, RowIn
  <2>2. Existing(RowIn(desk[q]))
    <3>1. CASE desk[q].stage = "verifying"
      BY <3>1 DEF SvInv, DesksOK, RowsExist, RowIn
    <3>2. CASE desk[q].stage = "counting"
      <4>1. desk[q].eps \in Seq(Endpoints) /\ desk[q].eps # <<>>
        BY <3>2, SvFacts, DeskFacts DEF SvInv, InHandsOK, HoldsOK
      <4>2. 1 \in DOMAIN desk[q].eps /\ Head(desk[q].eps) = desk[q].eps[1]
        BY <4>1
      <4> QED  BY <3>2, <4>2 DEF SvInv, DesksOK, RowsExist, RowIn
    <3> QED  BY <1>2, <3>1, <3>2
  <2> QED  BY <2>1, <2>2, SvFacts DEF Existing
<1>3. \A q \in Desks : desk[q].stage = "verifying" => InHand(q, desk[q].challenge)
  BY DEF SvInv, InHandsOK, HoldsOK, InHand
<1>4. \A e \in Endpoints, q \in Desks : (desk[q].stage = "counting" /\ Head(desk[q].eps) = e) => InHand(q, e)
  BY DEF SvInv, InHandsOK, HoldsOK, InHand
<1> QED  BY <1>1, <1>2, <1>3, <1>4

\* Whoever meets another at work on a row leaves it on record.
LEMMA TakeInHand ==
    ASSUME SvInv, NEW s \in Desks, NEW d \in DeskRec, desk' = [desk EXCEPT ![s] = d],
           desk[s].stage \notin {"verifying", "counting"}, UNCHANGED endpoint,
           svRaced \subseteq svRaced', \A x \in d.holds : InHands(x) # {} => x \in svRaced',
           \/ d.stage = "verifying" /\ d.holds = {d.challenge, d.endpoint}
           \/ d.stage = "counting" /\ d.eps # <<>> /\ d.holds = {Head(d.eps)},
           d.row = endpoint[RowIn(d)]
    PROVE  HoldsOK' /\ SvLoadedOK'
<1>1. /\ \A q \in Desks : desk'[q] = IF q = s THEN d ELSE desk[q]
  BY SvFacts
<1>2. \A x : /\ InHand(s, x)' <=> x \in d.holds
             /\ \A q \in Desks : q # s => (InHand(q, x)' <=> InHand(q, x))
  BY <1>1 DEF InHand
<1>3. HoldsOK'
  <2>1. ASSUME NEW q \in Desks, NEW r \in Desks, NEW x \in Challenges \cup Endpoints,
               InHand(q, x)', InHand(r, x)', x \notin svRaced', q # r
        PROVE  FALSE
    <3>1. CASE q # s /\ r # s
      BY <1>2, <2>1, <3>1 DEF SvInv, InHandsOK, HoldsOK
    <3>2. CASE q = s
      BY <1>2, <2>1, <3>2, InHandFacts
    <3>3. CASE r = s
      BY <1>2, <2>1, <3>3, InHandFacts
    <3> QED  BY <3>1, <3>2, <3>3
  <2>2. \A q \in Desks : desk'[q].stage = "verifying" => desk'[q].holds = {desk'[q].challenge, desk'[q].endpoint}
    BY <1>1 DEF SvInv, InHandsOK, HoldsOK
  <2>3. \A q \in Desks : desk'[q].stage = "counting" => desk'[q].eps # <<>> /\ desk'[q].holds = {Head(desk'[q].eps)}
    BY <1>1 DEF SvInv, InHandsOK, HoldsOK
  <2> QED  BY <2>1, <2>2, <2>3 DEF HoldsOK
<1>4. SvLoadedOK'
  <2> SUFFICES ASSUME NEW q \in Desks, desk'[q].stage \in {"verifying", "counting"}, RowIn(desk'[q]) \notin svRaced'
               PROVE  desk'[q].row = endpoint[RowIn(desk'[q])]
    BY DEF SvLoadedOK
  <2>1. CASE q = s
    BY <1>1, <2>1
  <2>2. CASE q # s
    BY <1>1, <2>2 DEF SvInv, InHandsOK, SvLoadedOK
  <2> QED  BY <2>1, <2>2
<1> QED  BY <1>3, <1>4

\* A handler writes the row that it had in hand: who else has it knows that it met another.
LEMMA WriteInHand ==
    ASSUME SvInv, NEW s \in Desks, NEW d \in DeskRec, desk' = [desk EXCEPT ![s] = d],
           desk[s].stage \in {"verifying", "counting"}, d.stage \notin {"verifying", "counting"}, UNCHANGED svRaced,
           \A e \in Endpoints : e # RowIn(desk[s]) => endpoint'[e] = endpoint[e]
    PROVE  HoldsOK' /\ SvLoadedOK'
<1>1. /\ \A q \in Desks : desk'[q] = IF q = s THEN d ELSE desk[q]
  BY SvFacts
<1>2. \A q \in Desks : desk'[q].stage \in {"verifying", "counting"} => q # s /\ desk'[q] = desk[q]
  BY <1>1
<1>3. HoldsOK'
  BY <1>2 DEF SvInv, InHandsOK, HoldsOK, InHand
<1>4. SvLoadedOK'
  <2> SUFFICES ASSUME NEW q \in Desks, desk'[q].stage \in {"verifying", "counting"}, RowIn(desk'[q]) \notin svRaced
               PROVE  desk'[q].row = endpoint'[RowIn(desk'[q])]
    BY DEF SvLoadedOK
  <2>1. q # s /\ desk'[q] = desk[q] /\ Existing(RowIn(desk[q])) /\ InHand(q, RowIn(desk[q])) /\ InHand(s, RowIn(desk[s]))
    BY <1>2, InHandFacts
  <2>2. RowIn(desk[q]) # RowIn(desk[s])
    BY <2>1 DEF SvInv, InHandsOK, HoldsOK, Existing
  <2>3. RowIn(desk[q]) \in Endpoints
    BY <2>1 DEF Existing
  <2> QED  BY <2>1, <2>2, <2>3 DEF SvInv, InHandsOK, SvLoadedOK
<1> QED  BY <1>3, <1>4

LEMMA DeskLines ==
    ASSUME SvInv, NEW s \in Desks, NEW d \in DeskRec, desk' = [desk EXCEPT ![s] = d], UNCHANGED service,
           d.stage \notin {"creating", "editing"},
           d.stage = "verifying" => \/ d.org = OrgOf[HostOf[d.endpoint]]
                                    \/ d.shown \in {"PUBLIC_DISCOVERABLE", "TRUSTED_ORGANIZATIONS"},
           (d.stage \in Calling /\ d.call.aware) => ChainOK(d)
    PROVE  RegistrarsOK' /\ ChainsOK' /\ desk' \in [Desks -> DeskRec]
<1>1. /\ \A q \in Desks : desk'[q] = IF q = s THEN d ELSE desk[q]
      /\ desk' \in [Desks -> DeskRec]
  BY SvFacts
<1>2. RegistrarsOK'
  BY <1>1 DEF SvInv, DesksOK, RegistrarsOK, RegistrarOK
<1>3. ChainsOK'
  BY <1>1 DEF SvInv, DesksOK, ChainsOK
<1> QED  BY <1>1, <1>2, <1>3

LEMMA LoadChallengeOK ==
    ASSUME SvInv, NEW s \in Desks, NEW c \in Challenges, NEW org \in SvOrgs, LoadChallenge(s, c, org)
    PROVE  SvInv'
<1>1. PICK e : e = challenge[c].endpoint
  OBVIOUS
<1>2. /\ challenge[c].status = "PENDING" /\ challenge[c] \in ChallengeRow /\ challenge[c] # NoChallenge
      /\ desk[s] = SvIdle /\ Shown(HostOf[e], org)
      /\ UNCHANGED <<svNow, service, endpoint, callVars, failedSince, used, scene>>
  BY <1>1, SvFacts, NoRowFacts DEF LoadChallenge
<1>3. e \in Endpoints /\ endpoint[e] # NoEndpoint /\ Existing(e) /\ endpoint[e] \in EndpointRow
  <2>1. Existing(e)
    BY <1>1, <1>2 DEF SvInv, DesksOK, RowsExist
  <2> QED  BY <2>1, SvFacts DEF Existing
<1>4. CASE /\ challenge' = [challenge EXCEPT ![c].status = "EXPIRED"] /\ UNCHANGED <<desk, svRaced>>
  <2>1. PICK r : r = [challenge[c] EXCEPT !.status = "EXPIRED"]
    OBVIOUS
  <2>2. r \in ChallengeRow /\ r.endpoint = e /\ r # NoChallenge
    <3>1. r \in ChallengeRow /\ r.endpoint = e
      BY <1>1, <1>2, <2>1 DEF ChallengeRow
    <3> QED  BY <3>1, NoRowFacts
  <2>3. challenge' = [challenge EXCEPT ![c] = r]
    BY <1>4, <2>1
  <2>4. \A x \in Challenges :
            \/ challenge'[x] = challenge[x]
            \/ challenge[x].status # "VERIFIED" /\ challenge'[x] # NoChallenge /\ Existing(challenge'[x].endpoint)
    BY <1>2, <1>3, <2>2, <2>3, SvFacts
  <2>5. DesksOK' /\ InHandsOK'
    <3>1. \A x \in Endpoints : endpoint'[x] = endpoint[x] /\ (endpoint[x] = NoEndpoint => endpoint'[x] = NoEndpoint)
      BY <1>2
    <3> QED  BY <1>2, <1>4, <2>4, <3>1, OutsideStep
  <2>6. SvTyped'
    BY <1>2, <1>4, <2>2, <2>3 DEF SvInv, SvTyped, SvTypeOK, callVars
  <2> QED  BY <2>5, <2>6 DEF SvInv
<1>5. CASE /\ desk' = [desk EXCEPT ![s] =
                 [stage |-> "verifying", holds |-> {c, e}, challenge |-> c, endpoint |-> e, org |-> org,
                  row |-> endpoint[e], shown |-> service[HostOf[e]].visibility]]
           /\ svRaced' = svRaced \cup {x \in {c, e} : InHands(x) # {}}
           /\ UNCHANGED challenge
  <2>1. PICK d : d = [stage |-> "verifying", holds |-> {c, e}, challenge |-> c, endpoint |-> e, org |-> org,
                      row |-> endpoint[e], shown |-> service[HostOf[e]].visibility]
    OBVIOUS
  <2>2. /\ desk' = [desk EXCEPT ![s] = d] /\ d.stage = "verifying" /\ d.holds = {d.challenge, d.endpoint}
        /\ d.challenge = c /\ d.endpoint = e /\ d.row = endpoint[e] /\ d.org = org
        /\ d.shown = service[HostOf[e]].visibility
    BY <1>5, <2>1
  <2>3. service[HostOf[e]] \in ServiceRow
    BY <1>2, <1>3, SvFacts, ServicesAssumption DEF Shown
  <2>4. d \in DeskRec
    <3>1. service[HostOf[e]].visibility \in ServiceVisibility
      BY <2>3 DEF ServiceRow
    <3> QED  BY <1>3, <2>1, <3>1 DEF DeskRec
  <2>5. desk[s].stage = "idle" /\ d.stage \notin Calling
    BY <1>2, <2>2, NoRowFacts DEF Calling
  <2>6. RegistrarsOK' /\ ChainsOK' /\ desk' \in [Desks -> DeskRec]
    BY <1>2, <2>2, <2>4, <2>5, DeskLines DEF Shown
  <2>7. HoldsOK' /\ SvLoadedOK'
    <3>1. RowIn(d) = e
      BY <2>2 DEF RowIn
    <3>2. svRaced \subseteq svRaced' /\ \A x \in d.holds : InHands(x) # {} => x \in svRaced'
      BY <1>5, <2>2
    <3> QED  BY <1>2, <2>2, <2>4, <2>5, <3>1, <3>2, TakeInHand
  <2>8. \A q \in Desks : desk'[q] = IF q = s THEN d ELSE desk[q]
    BY <2>2, SvFacts
  <2>9. RowsExist'
    BY <1>2, <1>3, <1>5, <2>2, <2>8 DEF SvInv, DesksOK, RowsExist, Existing
  <2>10. HealthOK'
    <3>1. \A x \in Endpoints : Counting(x)' <=> Counting(x)
      BY <2>2, <2>5, <2>8 DEF Counting
    <3> QED  BY <1>2, <1>5, <3>1 DEF SvInv, InHandsOK, HealthOK, HealthMatches
  <2>11. ChallengeOK'
    BY <1>2, <1>5, <2>2, <2>8 DEF SvInv, InHandsOK, ChallengeOK
  <2>12. SvTyped'
    BY <1>2, <1>5, <2>6 DEF SvInv, SvTyped, SvTypeOK, callVars
  <2> QED  BY <2>6, <2>7, <2>9, <2>10, <2>11, <2>12 DEF SvInv, DesksOK, InHandsOK
<1> QED  BY <1>1, <1>4, <1>5 DEF LoadChallenge

\* An answer settles its challenge and starts the health of the endpoint afresh.
LEMMA VerifyEndpointOK ==
    ASSUME SvInv, NEW s \in Desks, verify_endpoint_challenge(s)
    PROVE  SvInv'
<1>1. PICK c, e : c = desk[s].challenge /\ e = desk[s].endpoint
  OBVIOUS
<1>2. PICK fresh : fresh = [health |-> "HEALTHY", failures |-> 0]
  OBVIOUS
<1>3. PICK n : n = Flush(endpoint[e], desk[s].row, fresh)
  OBVIOUS
<1>4. PICK r : r = [challenge[c] EXCEPT !.status = "VERIFIED"]
  OBVIOUS
<1>5. /\ desk[s].stage = "verifying"
      /\ challenge' = [challenge EXCEPT ![c] = r] /\ endpoint' = [endpoint EXCEPT ![e] = n]
      /\ used' = [used EXCEPT ![c] = used[c] + 1] /\ failedSince' = [failedSince EXCEPT ![e] = 0]
      /\ desk' = [desk EXCEPT ![s] = SvIdle]
      /\ UNCHANGED <<svNow, svAgent, svTrust, service, capability, callVars, svRaced, scene>>
  BY <1>1, <1>2, <1>3, <1>4 DEF verify_endpoint_challenge, Answered, EndCall
<1>6. /\ c \in Challenges /\ e \in Endpoints /\ RowIn(desk[s]) = e /\ Existing(e)
      /\ endpoint[e] \in EndpointRow /\ desk[s].row \in EndpointRow
      /\ challenge[c] \in ChallengeRow /\ InHand(s, c) /\ InHand(s, e)
  <2>1. c \in Challenges /\ e \in Endpoints /\ RowIn(desk[s]) = e
    BY <1>1, <1>5, SvFacts, DeskFacts DEF RowIn
  <2>2. challenge[c] # NoChallenge
    BY <1>1, <1>5 DEF SvInv, DesksOK, RowsExist
  <2> QED  BY <1>1, <1>5, <2>1, <2>2, InHandFacts, SvFacts
<1>7. fresh \in EndpointRow /\ fresh.health = "HEALTHY" /\ fresh.failures = 0
  BY <1>2 DEF EndpointRow, EndpointHealthStatus
<1>8. n \in EndpointRow /\ n # NoEndpoint /\ (e \notin svRaced => n = fresh)
  <2>1. n \in EndpointRow /\ (endpoint[e] = desk[s].row => n = fresh)
    BY <1>3, <1>6, <1>7, EndpointFlushFacts
  <2>2. e \notin svRaced => endpoint[e] = desk[s].row
    BY <1>5, <1>6 DEF SvInv, InHandsOK, SvLoadedOK
  <2> QED  BY <2>1, <2>2, NoRowFacts
<1>9. r \in ChallengeRow /\ r.status = "VERIFIED" /\ r.endpoint = challenge[c].endpoint /\ r # NoChallenge
  <2>1. r \in ChallengeRow /\ r.status = "VERIFIED" /\ r.endpoint = challenge[c].endpoint
    BY <1>4, <1>6 DEF ChallengeRow
  <2> QED  BY <2>1, NoRowFacts
<1>10. /\ \A q \in Desks : desk'[q] = IF q = s THEN SvIdle ELSE desk[q]
       /\ \A x \in Endpoints : /\ endpoint'[x] = IF x = e THEN n ELSE endpoint[x]
                               /\ failedSince'[x] = IF x = e THEN 0 ELSE failedSince[x]
       /\ \A x \in Challenges : /\ challenge'[x] = IF x = c THEN r ELSE challenge[x]
                                /\ used'[x] = IF x = c THEN used[x] + 1 ELSE used[x]
  BY <1>5, SvFacts
<1>11. RegistrarsOK' /\ ChainsOK' /\ desk' \in [Desks -> DeskRec]
  BY <1>5, DeskLines, NoRowFacts DEF Calling
<1>12. HoldsOK' /\ SvLoadedOK'
  <2>1. \A x \in Endpoints : x # RowIn(desk[s]) => endpoint'[x] = endpoint[x]
    BY <1>6, <1>10
  <2>2. /\ SvIdle \in DeskRec /\ SvIdle.stage \notin {"verifying", "counting"}
        /\ desk[s].stage \in {"verifying", "counting"} /\ UNCHANGED svRaced
    BY <1>5, NoRowFacts
  <2> QED  BY <1>5, <2>1, <2>2, WriteInHand
<1>13. RowsExist'
  <2>1. \A x : Existing(x)' <=> Existing(x)
    BY <1>6, <1>8, <1>10 DEF Existing
  <2>2. \A x \in Challenges : challenge'[x] # NoChallenge => Existing(challenge'[x].endpoint)
    BY <1>6, <1>9, <1>10, NoRowFacts DEF SvInv, DesksOK, RowsExist
  <2>3. \A q \in Desks : desk'[q].stage = "verifying" =>
            Existing(desk'[q].endpoint) /\ challenge'[desk'[q].challenge] # NoChallenge
    <3> SUFFICES ASSUME NEW q \in Desks, desk'[q].stage = "verifying"
                 PROVE  Existing(desk'[q].endpoint) /\ challenge'[desk'[q].challenge] # NoChallenge
      OBVIOUS
    <3>1. q # s /\ desk'[q] = desk[q] /\ desk[q].stage = "verifying" /\ desk[q].challenge \in Challenges
      BY <1>10, NoRowFacts, SvFacts, DeskFacts
    <3> QED  BY <1>9, <1>10, <3>1 DEF SvInv, DesksOK, RowsExist
  <2>4. \A q \in Desks : desk'[q].stage \in {"dispatch", "counting"} =>
            \A i \in DOMAIN desk'[q].eps : Existing(desk'[q].eps[i])
    BY <1>10, NoRowFacts DEF SvInv, DesksOK, RowsExist
  <2>5. \A x \in Endpoints : endpoint'[x] = NoEndpoint => failedSince'[x] = 0
    BY <1>8, <1>10 DEF SvInv, DesksOK, RowsExist
  <2>6. \A x \in Challenges : challenge'[x] # NoChallenge =>
            challenge'[x].endpoint \in Endpoints /\ endpoint'[challenge'[x].endpoint] # NoEndpoint
    BY <1>8, <1>10, <2>2 DEF Existing
  <2>7. \A q \in Desks : desk'[q].stage = "verifying" =>
            /\ desk'[q].endpoint \in Endpoints /\ endpoint'[desk'[q].endpoint] # NoEndpoint
            /\ challenge'[desk'[q].challenge] # NoChallenge
    BY <1>8, <1>10, <2>3 DEF Existing
  <2>8. \A q \in Desks : desk'[q].stage \in {"dispatch", "counting"} =>
            \A i \in DOMAIN desk'[q].eps :
                desk'[q].eps[i] \in Endpoints /\ endpoint'[desk'[q].eps[i]] # NoEndpoint
    BY <1>8, <1>10, <2>4 DEF Existing
  <2> QED  BY <2>5, <2>6, <2>7, <2>8 DEF RowsExist, Existing
<1>14. HealthOK'
  <2> SUFFICES ASSUME NEW x \in Endpoints, endpoint'[x] # NoEndpoint, x \notin svRaced
               PROVE  /\ HealthMatches(x)' /\ (Counting(x)' => failedSince'[x] = endpoint'[x].failures + 1)
                      /\ (~Counting(x)' => failedSince'[x] = endpoint'[x].failures)
    BY <1>5 DEF HealthOK
  <2>1. CASE x # e
    <3>1. Counting(x)' <=> Counting(x)
      BY <1>5, <1>10, NoRowFacts DEF Counting
    <3> QED  BY <1>10, <2>1, <3>1 DEF SvInv, InHandsOK, HealthOK, HealthMatches
  <2>2. CASE x = e
    <3>1. ~Counting(x)'
      <4> SUFFICES ASSUME NEW q \in Desks, desk'[q].stage = "counting", Head(desk'[q].eps) = e  PROVE FALSE
        BY <2>2 DEF Counting
      <4>1. q # s /\ desk[q].stage = "counting" /\ Head(desk[q].eps) = e
        BY <1>10, NoRowFacts
      <4>2. InHand(q, e)
        BY <1>6, <4>1, InHandFacts
      <4> QED  BY <1>6, <2>2, <4>1, <4>2 DEF SvInv, InHandsOK, HoldsOK
    <3>2. endpoint'[x] = fresh /\ failedSince'[x] = 0
      BY <1>8, <1>10, <2>2
    <3> QED  BY <1>7, <3>1, <3>2, ServicesAssumption DEF HealthMatches
  <2> QED  BY <2>1, <2>2
<1>15. ChallengeOK'
  <2> SUFFICES ASSUME NEW x \in Challenges, x \notin svRaced
               PROVE  /\ used'[x] <= 1 /\ (challenge'[x].status # "VERIFIED" => used'[x] = 0)
                      /\ \A q \in Desks : (desk'[q].stage = "verifying" /\ desk'[q].challenge = x) => used'[x] = 0
    BY <1>5 DEF ChallengeOK
  <2>1. CASE x # c
    BY <1>10, <2>1, NoRowFacts DEF SvInv, InHandsOK, ChallengeOK
  <2>2. CASE x = c
    <3>1. used[c] = 0
      BY <1>1, <1>5, <2>2 DEF SvInv, InHandsOK, ChallengeOK
    <3>2. ASSUME NEW q \in Desks, desk'[q].stage = "verifying", desk'[q].challenge = x  PROVE FALSE
      <4>1. q # s /\ desk[q].stage = "verifying" /\ desk[q].challenge = c
        BY <1>10, <2>2, <3>2, NoRowFacts
      <4>2. InHand(q, c)
        BY <4>1, InHandFacts
      <4> QED  BY <1>6, <2>2, <4>1, <4>2 DEF SvInv, InHandsOK, HoldsOK
    <3> QED  BY <1>9, <1>10, <2>2, <3>1, <3>2
  <2> QED  BY <2>1, <2>2
<1>16. SvTyped'
  <2>1. used' \in [Challenges -> Nat] /\ failedSince' \in [Endpoints -> Nat]
    <3>1. used[c] + 1 \in Nat
      BY <1>6, SvFacts
    <3> QED  BY <1>5, <3>1, SvFacts
  <2>2. challenge' \in [Challenges -> {NoChallenge} \cup ChallengeRow] /\ endpoint' \in [Endpoints -> {NoEndpoint} \cup EndpointRow]
    BY <1>5, <1>8, <1>9, SvFacts
  <2> QED  BY <1>5, <1>11, <2>1, <2>2 DEF SvInv, SvTyped, SvTypeOK, callVars
<1> QED  BY <1>11, <1>12, <1>13, <1>14, <1>15, <1>16 DEF SvInv, DesksOK, InHandsOK

LEMMA DispatchOK ==
    ASSUME SvInv, NEW s \in Desks, NEW ok \in BOOLEAN, NEW acted \in BOOLEAN, _dispatch_to_endpoint(s, ok, acted)
    PROVE  SvInv'
<1>1. PICK c, e, eps : c = desk[s].call /\ e = Head(desk[s].eps) /\ eps = desk[s].eps
  OBVIOUS
<1>2. /\ desk[s].stage = "dispatch" /\ eps # <<>>
      /\ executed' = IF acted /\ c.key # NoKey THEN [executed EXCEPT ![c.caller][c.key] = @ + 1] ELSE executed
      /\ UNCHANGED <<registryVars, endpoint, rows, calls>>
  BY <1>1 DEF _dispatch_to_endpoint
<1>3. /\ c \in CallRec /\ eps \in Seq(Endpoints) /\ e \in Endpoints /\ Existing(e) /\ endpoint[e] \in EndpointRow
      /\ \A i \in DOMAIN eps : Existing(eps[i])
  <2>1. c \in CallRec /\ eps \in Seq(Endpoints)
    BY <1>1, <1>2, SvFacts, DeskFacts DEF Calling
  <2>2. 1 \in DOMAIN eps /\ e = eps[1]
    BY <1>1, <1>2, <2>1
  <2>3. \A i \in DOMAIN eps : Existing(eps[i])
    BY <1>1, <1>2 DEF SvInv, DesksOK, RowsExist
  <2> QED  BY <2>1, <2>2, <2>3, SvFacts DEF Existing
<1>4. executed' \in [SvAgents -> [CallKeys -> Nat]]
  <2>1. CASE acted /\ c.key # NoKey
    <3>1. c.caller \in SvAgents /\ c.key \in CallKeys
      BY <1>3, <2>1 DEF CallRec
    <3>2. executed[c.caller][c.key] + 1 \in Nat
      BY <3>1, SvFacts
    <3> QED  BY <1>2, <2>1, <3>1, <3>2, SvFacts
  <2>2. CASE ~(acted /\ c.key # NoKey)
    BY <1>2, <2>2, SvFacts
  <2> QED  BY <2>1, <2>2
<1>5. ASSUME NEW d, d.call = c, d.stage \in Outgoing, c.aware  PROVE ChainOK(d)
  BY <1>1, <1>2, <1>5 DEF SvInv, DesksOK, ChainsOK, ChainOK, Calling, Outgoing
<1>6. CASE ok
  <2>1. PICK d : d = [stage |-> "answered", call |-> c]
    OBVIOUS
  <2>2. desk' = [desk EXCEPT ![s] = d] /\ UNCHANGED <<svRaced, failedSince>>
    BY <1>1, <1>6, <2>1 DEF _dispatch_to_endpoint
  <2>3. d \in DeskRec /\ d.stage = "answered" /\ d.call = c
    BY <1>3, <2>1 DEF DeskRec
  <2>4. DesksOK' /\ InHandsOK' /\ desk' \in [Desks -> DeskRec]
    BY <1>2, <1>5, <2>2, <2>3, DeskStep DEF registryVars, Outgoing
  <2> QED  BY <1>2, <1>4, <2>2, <2>4, DeskTyped, SvFacts DEF registryVars
<1>7. CASE ~ok
  <2>1. PICK d : d = [stage |-> "counting", call |-> c, eps |-> eps, holds |-> {e}, row |-> endpoint[e]]
    OBVIOUS
  <2>2. /\ desk' = [desk EXCEPT ![s] = d]
        /\ svRaced' = IF InHands(e) = {} THEN svRaced ELSE svRaced \cup {e}
        /\ failedSince' = [failedSince EXCEPT ![e] = failedSince[e] + 1]
    BY <1>1, <1>7, <2>1 DEF _dispatch_to_endpoint
  <2>3. /\ d \in DeskRec /\ d.stage = "counting" /\ d.call = c /\ d.eps = eps /\ d.holds = {e} /\ d.row = endpoint[e]
        /\ RowIn(d) = e /\ Head(d.eps) = e
    BY <1>1, <1>3, <2>1 DEF DeskRec, RowIn
  <2>4. /\ \A q \in Desks : desk'[q] = IF q = s THEN d ELSE desk[q]
        /\ \A x \in Endpoints : failedSince'[x] = IF x = e THEN failedSince[e] + 1 ELSE failedSince[x]
    BY <2>2, SvFacts
  <2>5. RegistrarsOK' /\ ChainsOK' /\ desk' \in [Desks -> DeskRec]
    BY <1>2, <1>5, <2>2, <2>3, DeskLines DEF registryVars, Outgoing
  <2>6. HoldsOK' /\ SvLoadedOK'
    <3>1. svRaced \subseteq svRaced' /\ \A x \in d.holds : InHands(x) # {} => x \in svRaced'
      BY <2>2, <2>3
    <3> QED  BY <1>2, <2>2, <2>3, <3>1, TakeInHand
  <2>7. RowsExist'
    <3>1. \A q \in Desks : desk'[q].stage \in {"dispatch", "counting"} =>
            \A i \in DOMAIN desk'[q].eps : Existing(desk'[q].eps[i])
      BY <1>3, <2>3, <2>4 DEF SvInv, DesksOK, RowsExist
    <3>2. \A q \in Desks : desk'[q].stage = "verifying" =>
            Existing(desk'[q].endpoint) /\ challenge[desk'[q].challenge] # NoChallenge
      BY <2>3, <2>4 DEF SvInv, DesksOK, RowsExist
    <3>3. \A x \in Endpoints : endpoint[x] = NoEndpoint => failedSince'[x] = 0
      BY <1>3, <2>4 DEF SvInv, DesksOK, RowsExist, Existing
    <3>4. UNCHANGED <<endpoint, challenge>>
      BY <1>2 DEF registryVars
    <3> QED  BY <3>1, <3>2, <3>3, <3>4 DEF SvInv, DesksOK, RowsExist, Existing
  <2>8. HealthOK'
    <3> SUFFICES ASSUME NEW x \in Endpoints, endpoint[x] # NoEndpoint, x \notin svRaced'
                 PROVE  /\ HealthMatches(x) /\ (Counting(x)' => failedSince'[x] = endpoint[x].failures + 1)
                        /\ (~Counting(x)' => failedSince'[x] = endpoint[x].failures)
      BY <1>2 DEF HealthOK, HealthMatches
    <3>1. x \notin svRaced
      BY <2>2
    <3>2. CASE x # e
      <4>1. Counting(x)' <=> Counting(x)
        BY <1>2, <2>3, <2>4, <3>2 DEF Counting
      <4> QED  BY <2>4, <3>1, <3>2, <4>1 DEF SvInv, InHandsOK, HealthOK
    <3>3. CASE x = e
      <4>1. InHands(e) = {}
        BY <2>2, <3>3
      <4>2. ~Counting(e)
        BY <1>3, <4>1, InHandFacts DEF Counting
      <4>3. Counting(e)'
        BY <2>3, <2>4 DEF Counting
      <4> QED  BY <2>4, <3>1, <3>3, <4>2, <4>3 DEF SvInv, InHandsOK, HealthOK
    <3> QED  BY <3>2, <3>3
  <2>9. ChallengeOK'
    BY <1>2, <2>2, <2>3, <2>4 DEF SvInv, InHandsOK, ChallengeOK, registryVars
  <2>10. SvTyped'
    <3>1. failedSince' \in [Endpoints -> Nat]
      <4>1. failedSince[e] + 1 \in Nat
        BY <1>3, SvFacts
      <4> QED  BY <2>2, <4>1, SvFacts
    <3> QED  BY <1>2, <1>4, <2>5, <3>1 DEF SvInv, SvTyped, SvTypeOK, registryVars
  <2> QED  BY <2>5, <2>6, <2>7, <2>8, <2>9, <2>10 DEF SvInv, DesksOK, InHandsOK
<1> QED  BY <1>6, <1>7

LEMMA CountFailureOK ==
    ASSUME SvInv, NEW s \in Desks, CountFailure(s)
    PROVE  SvInv'
<1>1. PICK c, e, eps : c = desk[s].call /\ e = Head(desk[s].eps) /\ eps = desk[s].eps
  OBVIOUS
<1>2. PICK n : n = Flush(endpoint[e], desk[s].row, Failed(desk[s].row))
  OBVIOUS
<1>3. PICK d : d = [stage |-> "dispatch", call |-> c, eps |-> Tail(eps)]
  OBVIOUS
<1>4. /\ desk[s].stage = "counting" /\ endpoint' = [endpoint EXCEPT ![e] = n] /\ desk' = [desk EXCEPT ![s] = d]
      /\ UNCHANGED <<registryVars, callVars, failedSince, svRaced>>
  BY <1>1, <1>2, <1>3 DEF CountFailure
<1>5. /\ c \in CallRec /\ eps \in Seq(Endpoints) /\ eps # <<>> /\ RowIn(desk[s]) = e /\ e \in Endpoints /\ Existing(e)
      /\ endpoint[e] \in EndpointRow /\ desk[s].row \in EndpointRow /\ InHand(s, e)
  <2>1. c \in CallRec /\ eps \in Seq(Endpoints) /\ RowIn(desk[s]) = e /\ eps # <<>>
    BY <1>1, <1>4, SvFacts, DeskFacts DEF Calling, RowIn, SvInv, InHandsOK, HoldsOK
  <2> QED  BY <1>4, <2>1, InHandFacts DEF Existing
<1>6. /\ Tail(eps) \in Seq(Endpoints) /\ \A i \in DOMAIN Tail(eps) : Existing(Tail(eps)[i])
  <2>1. /\ Tail(eps) \in Seq(Endpoints) /\ Len(Tail(eps)) = Len(eps) - 1
        /\ \A i \in 1..Len(Tail(eps)) : Tail(eps)[i] = eps[i + 1]
    BY <1>5, HeadTailProperties
  <2>2. DOMAIN eps = 1..Len(eps) /\ Len(eps) \in Nat /\ DOMAIN Tail(eps) = 1..Len(Tail(eps))
    BY <1>5, <2>1, LenProperties
  <2>3. \A i \in DOMAIN eps : Existing(eps[i])
    BY <1>1, <1>4 DEF SvInv, DesksOK, RowsExist
  <2>4. \A i \in 1..Len(Tail(eps)) : i + 1 \in 1..Len(eps)
    BY <2>1, <2>2
  <2> QED  BY <2>1, <2>2, <2>3, <2>4
<1>7. d \in DeskRec /\ d.stage = "dispatch" /\ d.call = c /\ d.eps = Tail(eps)
  BY <1>3, <1>5, <1>6 DEF DeskRec
<1>8. /\ Failed(desk[s].row) \in EndpointRow
      /\ Failed(desk[s].row).failures = desk[s].row.failures + 1
      /\ Failed(desk[s].row).health = IF desk[s].row.failures + 1 >= DegradeAfter THEN "DEGRADED" ELSE desk[s].row.health
  <2>1. desk[s].row.failures + 1 \in Nat
    BY <1>5 DEF EndpointRow
  <2> QED  BY <1>5, <2>1 DEF Failed, EndpointRow, EndpointHealthStatus
<1>9. n \in EndpointRow /\ n # NoEndpoint /\ (e \notin svRaced => n = Failed(endpoint[e]) /\ desk[s].row = endpoint[e])
  <2>1. n \in EndpointRow /\ (endpoint[e] = desk[s].row => n = Failed(desk[s].row))
    BY <1>2, <1>5, <1>8, EndpointFlushFacts
  <2>2. e \notin svRaced => endpoint[e] = desk[s].row
    BY <1>4, <1>5 DEF SvInv, InHandsOK, SvLoadedOK
  <2> QED  BY <2>1, <2>2, NoRowFacts
<1>10. /\ \A q \in Desks : desk'[q] = IF q = s THEN d ELSE desk[q]
       /\ \A x \in Endpoints : endpoint'[x] = IF x = e THEN n ELSE endpoint[x]
  BY <1>4, SvFacts
<1>11. RegistrarsOK' /\ ChainsOK' /\ desk' \in [Desks -> DeskRec]
  <2>1. c.aware => ChainOK(d)
    BY <1>1, <1>4, <1>7 DEF SvInv, DesksOK, ChainsOK, ChainOK, Calling, Outgoing
  <2> QED  BY <1>4, <1>7, <2>1, DeskLines DEF registryVars
<1>12. HoldsOK' /\ SvLoadedOK'
  <2>1. \A x \in Endpoints : x # RowIn(desk[s]) => endpoint'[x] = endpoint[x]
    BY <1>5, <1>10
  <2> QED  BY <1>4, <1>7, <2>1, WriteInHand
<1>13. RowsExist'
  <2>1. \A x \in Endpoints : endpoint'[x] = NoEndpoint <=> endpoint[x] = NoEndpoint
    BY <1>5, <1>9, <1>10 DEF Existing
  <2>2. \A q \in Desks : desk'[q].stage \in {"dispatch", "counting"} =>
            \A i \in DOMAIN desk'[q].eps : Existing(desk'[q].eps[i])
    BY <1>6, <1>7, <1>10 DEF SvInv, DesksOK, RowsExist
  <2>3. \A q \in Desks : desk'[q].stage = "verifying" =>
            Existing(desk'[q].endpoint) /\ challenge[desk'[q].challenge] # NoChallenge
    BY <1>7, <1>10 DEF SvInv, DesksOK, RowsExist
  <2>4. UNCHANGED <<challenge, failedSince>>
    BY <1>4 DEF registryVars
  <2> QED  BY <2>1, <2>2, <2>3, <2>4 DEF SvInv, DesksOK, RowsExist, Existing
<1>14. HealthOK'
  <2> SUFFICES ASSUME NEW x \in Endpoints, endpoint'[x] # NoEndpoint, x \notin svRaced
               PROVE  /\ HealthMatches(x)' /\ (Counting(x)' => failedSince[x] = endpoint'[x].failures + 1)
                      /\ (~Counting(x)' => failedSince[x] = endpoint'[x].failures)
    BY <1>4 DEF HealthOK
  <2>1. CASE x # e
    <3>1. Counting(x)' <=> Counting(x)
      BY <1>1, <1>4, <1>7, <1>10, <2>1 DEF Counting
    <3> QED  BY <1>10, <2>1, <3>1 DEF SvInv, InHandsOK, HealthOK, HealthMatches
  <2>2. CASE x = e
    <3>1. ~Counting(x)'
      <4> SUFFICES ASSUME NEW q \in Desks, desk'[q].stage = "counting", Head(desk'[q].eps) = e  PROVE FALSE
        BY <2>2 DEF Counting
      <4>1. q # s /\ desk[q].stage = "counting" /\ Head(desk[q].eps) = e
        BY <1>7, <1>10
      <4>2. InHand(q, e)
        BY <1>5, <4>1, InHandFacts
      <4> QED  BY <1>5, <2>2, <4>1, <4>2 DEF SvInv, InHandsOK, HoldsOK
    <3>2. Counting(e)
      BY <1>1, <1>4 DEF Counting
    <3>3. /\ failedSince[e] = endpoint[e].failures + 1 /\ HealthMatches(e)
      BY <1>5, <2>2, <3>2 DEF SvInv, InHandsOK, HealthOK, Existing
    <3>4. /\ endpoint'[e] = n /\ n.failures = endpoint[e].failures + 1
          /\ n.health = IF endpoint[e].failures + 1 >= DegradeAfter THEN "DEGRADED" ELSE endpoint[e].health
      BY <1>8, <1>9, <1>10, <1>5, <2>2
    <3>5. n.health = "DEGRADED" <=> n.failures >= DegradeAfter
      <4>1. endpoint[e].failures \in Nat /\ DegradeAfter \in Nat
        BY <1>5, ServicesAssumption DEF EndpointRow
      <4> QED  BY <3>3, <3>4, <4>1 DEF HealthMatches
    <3> QED  BY <2>2, <3>1, <3>3, <3>4, <3>5 DEF HealthMatches
  <2> QED  BY <2>1, <2>2
<1>15. ChallengeOK'
  BY <1>4, <1>7, <1>10 DEF SvInv, InHandsOK, ChallengeOK, registryVars
<1>16. SvTyped'
  <2>1. endpoint' \in [Endpoints -> {NoEndpoint} \cup EndpointRow]
    BY <1>4, <1>9, SvFacts
  <2> QED  BY <1>4, <1>11, <2>1 DEF SvInv, SvTyped, SvTypeOK, callVars, registryVars
<1> QED  BY <1>11, <1>12, <1>13, <1>14, <1>15, <1>16 DEF SvInv, DesksOK, InHandsOK

-----------------------------------------------------------------------------
(* The invariant, and what it gives.                                       *)

LEMMA SvInitOK == SvInit => SvInv
<1> SUFFICES ASSUME SvInit  PROVE SvInv
  OBVIOUS
<1>1. /\ scene \in Scenes /\ svNow = 0 /\ svRaced = {}
      /\ service = [a \in SvAgents |-> scene.service[a]]
      /\ endpoint = [e \in Endpoints |-> IF e \in scene.endpoints THEN NewEndpoint ELSE NoEndpoint]
      /\ challenge = [c \in Challenges |-> NoChallenge]
      /\ rows = [a \in SvAgents |-> [k \in CallKeys |-> <<>>]]
      /\ desk = [s \in Desks |-> SvIdle]
      /\ executed = [a \in SvAgents |-> [k \in CallKeys |-> 0]]
      /\ failedSince = [e \in Endpoints |-> 0] /\ used = [c \in Challenges |-> 0]
  BY DEF SvInit
<1>2. \A s \in Desks : desk[s].stage = "idle"
  BY <1>1, NoRowFacts
<1>3. SvTyped
  <2>1. scene.service \in [SvAgents -> {NoService} \cup ServiceRow]
    BY <1>1, ScenesAssumption
  <2>2. service \in [SvAgents -> {NoService} \cup ServiceRow]
    BY <1>1, <2>1
  <2>3. endpoint \in [Endpoints -> {NoEndpoint} \cup EndpointRow]
    BY <1>1, NoRowFacts
  <2>4. rows \in [SvAgents -> [CallKeys -> Seq(RecordStatus)]]
    BY <1>1, EmptySeq
  <2>5. desk \in [Desks -> DeskRec]
    BY <1>1, NoRowFacts
  <2>6. challenge \in [Challenges -> {NoChallenge} \cup ChallengeRow] /\ executed \in [SvAgents -> [CallKeys -> Nat]]
    BY <1>1
  <2> QED  BY <1>1, <2>2, <2>3, <2>4, <2>5, <2>6 DEF SvTyped, SvTypeOK
<1>4. DesksOK
  <2>1. RegistrarsOK /\ ChainsOK
    BY <1>2 DEF RegistrarsOK, RegistrarOK, ChainsOK, Calling
  <2>2. RowsExist
    BY <1>1, <1>2 DEF RowsExist
  <2> QED  BY <2>1, <2>2 DEF DesksOK
<1>5. InHandsOK
  <2>1. HoldsOK /\ SvLoadedOK
    BY <1>2 DEF HoldsOK, SvLoadedOK, InHand
  <2>2. HealthOK
    <3> SUFFICES ASSUME NEW e \in Endpoints, endpoint[e] # NoEndpoint
                 PROVE  HealthMatches(e) /\ ~Counting(e) /\ failedSince[e] = endpoint[e].failures
      BY DEF HealthOK
    <3>1. endpoint[e] = NewEndpoint /\ failedSince[e] = 0
      BY <1>1
    <3>2. HealthMatches(e)
      BY <3>1, NoRowFacts, ServicesAssumption DEF HealthMatches
    <3> QED  BY <1>2, <3>1, <3>2, NoRowFacts DEF Counting
  <2>3. ChallengeOK
    BY <1>1, <1>2 DEF ChallengeOK
  <2> QED  BY <2>1, <2>2, <2>3 DEF InHandsOK
<1> QED  BY <1>3, <1>4, <1>5 DEF SvInv

LEMMA SvUnchanged == SvInv /\ UNCHANGED svVars => SvInv'
<1> SUFFICES ASSUME SvInv, UNCHANGED svVars  PROVE SvInv'
  OBVIOUS
<1>1. SvTyped'
  BY DEF svVars, SvInv, SvTyped, SvTypeOK
<1>2. DesksOK'
  BY DEF svVars, SvInv, DesksOK, RegistrarsOK, RegistrarOK, ChainsOK, RowsExist, Existing
<1>3. HoldsOK' /\ SvLoadedOK'
  BY DEF svVars, SvInv, InHandsOK, HoldsOK, InHand, SvLoadedOK
<1>4. HealthOK' /\ ChallengeOK'
  BY DEF svVars, SvInv, InHandsOK, HealthOK, HealthMatches, Counting, ChallengeOK
<1> QED  BY <1>1, <1>2, <1>3, <1>4 DEF SvInv, InHandsOK

LEMMA SvNextOK == SvInv /\ SvNext => SvInv'
<1> SUFFICES ASSUME SvInv, SvNext  PROVE SvInv'
  OBVIOUS
<1>1. CASE \/ SvTick \/ Outside
           \/ \E a \in scene.hosts, hold \in {"open", "approval"} : register_capability(a, hold)
  BY <1>1, SvOutsideOK
<1>2. CASE \E e \in Endpoints : register_endpoint(e)
  BY <1>2, RegisterEndpointOK
<1>3. CASE \E c \in Challenges, e \in Endpoints, org \in SvOrgs : initiate_endpoint_verification(c, e, org)
  BY <1>3, InitiateOK
<1>4. ASSUME NEW s \in scene.desks,
             \/ \E a \in scene.hosts, org \in SvOrgs, edit \in Edits : LoadService(s, a, org, edit)
             \/ \E a \in scene.hosts : LookupName(s, a)
             \/ \E v \in {"ORGANIZATION", "TRUSTED_ORGANIZATIONS"} : create_service(s, v)
             \/ update_service(s)
      PROVE  SvInv'
  BY <1>4, SvFacts, LoadServiceOK, LookupNameOK, CreateServiceOK, UpdateServiceOK
<1>5. ASSUME NEW s \in scene.desks,
             (\E c \in Challenges, org \in SvOrgs : LoadChallenge(s, c, org)) \/ verify_endpoint_challenge(s)
      PROVE  SvInv'
  BY <1>5, SvFacts, LoadChallengeOK, VerifyEndpointOK
<1>6. ASSUME NEW s \in scene.desks, NEW pair \in scene.pairs, NEW k \in scene.keys,
             NEW parent \in Desks \cup {NoParent}, NEW aware \in BOOLEAN,
             Call(s, pair[1], pair[2], k, parent, aware)
      PROVE  SvInv'
  <2>1. s \in Desks /\ pair[1] \in SvAgents /\ pair[2] \in SvAgents /\ k \in CallKeys \cup {NoKey}
    BY SvFacts
  <2> QED  BY <1>6, <2>1, CallOK
<1>7. ASSUME NEW s \in scene.desks, execute_agent_to_agent_call(s)  PROVE SvInv'
  BY <1>7, SvFacts, ResolveOK, CountFailureOK, DispatchOK, RecordCallOK DEF execute_agent_to_agent_call
<1> QED  BY <1>1, <1>2, <1>3, <1>4, <1>5, <1>6, <1>7 DEF SvNext

\* The service handlers keep the invariant: the chain of an unbroken line of calls is the line
\* itself, a row in hand is what its handler loaded, and every failure is counted once.
THEOREM SvInvariance == SvSpec => []SvInv
<1>1. SvInv /\ [SvNext]_svVars => SvInv'
  BY SvNextOK, SvUnchanged
<1> QED  BY SvInitOK, <1>1, PTL DEF SvSpec

\* No agent is called while a call of its own waits in an unbroken chain, fewer than max_depth
\* calls wait for each other, an endpoint's health is that of the failures since it was verified,
\* and a challenge verifies it once, but for handlers that overlapped.
THEOREM ServicesTheorem == SvSpec => []ServicesHold
<1>1. SvInv => ServicesHold
  <2> SUFFICES ASSUME SvInv  PROVE ServicesHold
    OBVIOUS
  <2>1. NoReentry
    <3> SUFFICES ASSUME NEW s \in Desks, desk[s].stage \in Outgoing, desk[s].call.aware
                 PROVE  /\ IsInjective(Append(desk[s].call.path, desk[s].call.target))
                        /\ Len(desk[s].call.path) < max_depth
      BY DEF NoReentry, Outgoing
    <3>1. desk[s].stage \in Calling
      BY DEF Calling, Outgoing
    <3>2. /\ IsInjective(desk[s].call.path) /\ Len(desk[s].call.path) < max_depth
          /\ \A i \in DOMAIN desk[s].call.path : desk[s].call.path[i] # desk[s].call.target
      BY <3>1 DEF SvInv, DesksOK, ChainsOK, ChainOK
    <3>3. desk[s].call \in CallRec
      BY <3>1, SvFacts, DeskFacts
    <3>4. desk[s].call.path \in Seq(SvAgents) /\ desk[s].call.target \in SvAgents
      BY <3>3 DEF CallRec
    <3> QED  BY <3>2, <3>4, AppendFacts
  <2>2. HealthSerial
    BY DEF SvInv, InHandsOK, HealthOK, HealthMatches, HealthSerial
  <2>3. ChallengeOnce
    BY DEF SvInv, InHandsOK, ChallengeOK, ChallengeOnce
  <2> QED  BY <2>1, <2>2, <2>3 DEF SvInv, SvTyped, ServicesHold
<1> QED  BY <1>1, SvInvariance, PTL
\* A key stays settled when neither its records nor anybody at work on it are added.
LEMMA SettledKept ==
    ASSUME SvInv, NEW a \in SvAgents, NEW k \in CallKeys, Settled(a, k), NEW s \in Desks, NEW d \in DeskRec,
           desk' = [desk EXCEPT ![s] = d], rows'[a][k] = rows[a][k],
           d.stage \in Calling => d.call.key # k \/ d.call.caller # a
    PROVE  Settled(a, k)'
<1>1. \A q \in Desks : desk'[q] = IF q = s THEN d ELSE desk[q]
  BY SvFacts
<1>2. \A q \in Desks : "call" \in DOMAIN desk'[q] => desk'[q].call.key # k \/ desk'[q].call.caller # a
  BY <1>1, DeskFacts DEF Settled
<1> QED  BY <1>2 DEF Settled

\* Whoever is at work works on another key.
LEMMA OtherKey ==
    ASSUME SvInv, NEW a \in SvAgents, NEW k \in CallKeys, Settled(a, k),
           NEW s \in Desks, desk[s].stage \in Calling
    PROVE  desk[s].call \in CallRec /\ (desk[s].call.key # k \/ desk[s].call.caller # a)
BY SvFacts, DeskFacts DEF Settled

\* Writing the record of a call leaves those of other keys alone.
LEMMA RecordElsewhere ==
    ASSUME SvInv, NEW a \in SvAgents, NEW k \in CallKeys, NEW c \in CallRec, NEW st,
           c.key # k \/ c.caller # a, WriteRecord(c, st)
    PROVE  rows'[a][k] = rows[a][k]
BY SvFacts DEF WriteRecord, CallRec

LEMMA SettledByCall ==
    ASSUME SvInv, NEW a \in SvAgents, NEW k \in CallKeys, Settled(a, k),
           NEW s \in Desks, execute_agent_to_agent_call(s)
    PROVE  Settled(a, k)' /\ executed'[a][k] = executed[a][k]
<1>1. PICK c : c = desk[s].call
  OBVIOUS
<1>2. desk[s].stage \in Calling
  BY DEF execute_agent_to_agent_call, Resolve, CountFailure, _dispatch_to_endpoint, RecordCall, Calling
<1>3. c \in CallRec /\ (c.key # k \/ c.caller # a)
  BY <1>1, <1>2, OtherKey
<1>4. \A st : WriteRecord(c, st) => rows'[a][k] = rows[a][k]
  BY <1>3, RecordElsewhere
<1>5. ASSUME Resolve(s)  PROVE Settled(a, k)' /\ executed'[a][k] = executed[a][k]
  <2>1. executed' = executed /\ rows'[a][k] = rows[a][k]
    BY <1>1, <1>4, <1>5 DEF Resolve
  <2>2. CASE Verdict(c) = "dispatch"
    <3>1. PICK d : d = [stage |-> "dispatch", call |-> c, eps |-> Route(c.target)]
      OBVIOUS
    <3>2. d \in DeskRec /\ d.call = c /\ desk' = [desk EXCEPT ![s] = d]
      BY <1>1, <1>3, <1>5, <2>2, <3>1, RouteFacts DEF Resolve, DeskRec
    <3> QED  BY <1>3, <2>1, <3>2, SettledKept
  <2>3. CASE Verdict(c) # "dispatch"
    <3>1. desk' = [desk EXCEPT ![s] = SvIdle]
      BY <1>1, <1>5, <2>3 DEF Resolve, EndCall
    <3> QED  BY <2>1, <3>1, SettledKept, NoRowFacts DEF Calling
  <2> QED  BY <2>2, <2>3
<1>6. ASSUME CountFailure(s)  PROVE Settled(a, k)' /\ executed'[a][k] = executed[a][k]
  <2>1. UNCHANGED <<rows, executed>>
    BY <1>6 DEF CountFailure, callVars
  <2>2. \A q \in Desks : "call" \in DOMAIN desk'[q] => desk'[q].call.key # k \/ desk'[q].call.caller # a
    <3>1. \A q \in Desks : q # s => desk'[q] = desk[q]
      BY <1>6, SvFacts DEF CountFailure
    <3>2. desk'[s].call = c
      BY <1>1, <1>6, SvFacts DEF CountFailure
    <3> QED  BY <1>3, <3>1, <3>2 DEF Settled
  <2> QED  BY <2>1, <2>2 DEF Settled
<1>7. ASSUME NEW ok \in BOOLEAN, NEW acted \in BOOLEAN, _dispatch_to_endpoint(s, ok, acted)
      PROVE  Settled(a, k)' /\ executed'[a][k] = executed[a][k]
  <2>1. rows' = rows /\ executed'[a][k] = executed[a][k]
    BY <1>1, <1>3, <1>7, SvFacts DEF _dispatch_to_endpoint, CallRec
  <2>2. \A q \in Desks : "call" \in DOMAIN desk'[q] => desk'[q].call.key # k \/ desk'[q].call.caller # a
    <3>1. \A q \in Desks : q # s => desk'[q] = desk[q]
      BY <1>7, SvFacts DEF _dispatch_to_endpoint
    <3>2. desk'[s].call = c
      <4>1. CASE ok
        BY <1>1, <1>7, <4>1, SvFacts DEF _dispatch_to_endpoint
      <4>2. CASE ~ok
        BY <1>1, <1>7, <4>2, SvFacts DEF _dispatch_to_endpoint
      <4> QED  BY <4>1, <4>2
    <3> QED  BY <1>3, <3>1, <3>2 DEF Settled
  <2> QED  BY <2>1, <2>2 DEF Settled
<1>8. ASSUME NEW bound \in BOOLEAN, RecordCall(s, bound)
      PROVE  Settled(a, k)' /\ executed'[a][k] = executed[a][k]
  <2>1. executed' = executed /\ rows'[a][k] = rows[a][k]
    BY <1>1, <1>4, <1>8 DEF RecordCall
  <2>2. desk' = [desk EXCEPT ![s] = SvIdle]
    BY <1>8 DEF RecordCall, EndCall
  <2> QED  BY <2>1, <2>2, SettledKept, NoRowFacts DEF Calling
<1> QED  BY <1>5, <1>6, <1>7, <1>8 DEF execute_agent_to_agent_call

LEMMA SettledByNext ==
    ASSUME SvInv, SvNext, NEW a \in SvAgents, NEW k \in CallKeys, Settled(a, k)
    PROVE  Settled(a, k)' /\ executed'[a][k] = executed[a][k]
<1> DEFINE Goal == Settled(a, k)' /\ executed'[a][k] = executed[a][k]
<1>1. ASSUME UNCHANGED <<rows, executed, desk>>  PROVE Goal
  BY <1>1 DEF Settled
<1>2. ASSUME NEW s \in Desks, UNCHANGED <<rows, executed>>, NEW d \in DeskRec,
             desk' = [desk EXCEPT ![s] = d], d.stage \notin Calling
      PROVE  Goal
  <2>1. rows'[a][k] = rows[a][k] /\ executed'[a][k] = executed[a][k]
    BY <1>2
  <2> QED  BY <1>2, <2>1, SettledKept
<1>3. ASSUME NEW s \in Desks, NEW x \in SvAgents, LookupName(s, x)  PROVE Goal
  <2>1. PICK d : d = [stage |-> "creating", agent |-> x, org |-> OrgOf[x]]
    OBVIOUS
  <2>2. d \in DeskRec /\ d.stage \notin Calling
    BY <2>1 DEF DeskRec, Calling, SvOrgs
  <2> QED  BY <1>2, <1>3, <2>1, <2>2 DEF LookupName, callVars
<1>4. ASSUME NEW s \in Desks, \/ \E v \in {"ORGANIZATION", "TRUSTED_ORGANIZATIONS"} : create_service(s, v)
                              \/ update_service(s) \/ verify_endpoint_challenge(s)
      PROVE  Goal
  <2>1. UNCHANGED <<rows, executed>> /\ desk' = [desk EXCEPT ![s] = SvIdle]
    BY <1>4 DEF create_service, update_service, verify_endpoint_challenge, EndCall, callVars
  <2>2. SvIdle \in DeskRec /\ SvIdle.stage \notin Calling
    BY NoRowFacts DEF Calling
  <2> QED  BY <1>2, <2>1, <2>2
<1>5. ASSUME NEW s \in Desks, NEW x \in SvAgents, NEW org \in SvOrgs, NEW edit \in Edits,
             LoadService(s, x, org, edit)
      PROVE  Goal
  <2>1. PICK d : d = [stage |-> "editing", agent |-> x, org |-> org, row |-> service[x], edit |-> edit]
    OBVIOUS
  <2>2. desk' = [desk EXCEPT ![s] = d] /\ UNCHANGED <<rows, executed>> /\ service[x] # NoService
    BY <1>5, <2>1 DEF LoadService, MayEdit, Shown, callVars
  <2>3. d \in DeskRec /\ d.stage \notin Calling
    BY <2>1, <2>2, SvFacts DEF DeskRec, Calling
  <2> QED  BY <1>2, <2>2, <2>3
<1>6. ASSUME NEW s \in Desks, NEW c \in Challenges, NEW org \in SvOrgs, LoadChallenge(s, c, org)  PROVE Goal
  <2>1. UNCHANGED <<rows, executed>>
    BY <1>6 DEF LoadChallenge, callVars
  <2>2. PICK e, d : /\ e = challenge[c].endpoint
                    /\ d = [stage |-> "verifying", holds |-> {c, e}, challenge |-> c, endpoint |-> e,
                            org |-> org, row |-> endpoint[e], shown |-> service[HostOf[e]].visibility]
    OBVIOUS
  <2>3. UNCHANGED desk \/ desk' = [desk EXCEPT ![s] = d]
    BY <1>6, <2>2 DEF LoadChallenge
  <2>4. "call" \notin DOMAIN d
    BY <2>2
  <2>5. \A q \in Desks : desk'[q] = desk[q] \/ "call" \notin DOMAIN desk'[q]
    BY <2>3, <2>4, SvFacts
  <2> QED  BY <2>1, <2>5 DEF Settled
<1>7. ASSUME NEW s \in Desks, NEW caller \in SvAgents, NEW target \in SvAgents, NEW key,
             NEW parent, NEW aware, Call(s, caller, target, key, parent, aware)
      PROVE  Goal
  <2>1. /\ UNCHANGED <<rows, executed>> /\ MayRun(caller, key)
        /\ \A q \in Desks : q # s => desk'[q] = desk[q]
        /\ desk'[s].call.key = key /\ desk'[s].call.caller = caller
    BY <1>7, SvFacts DEF Call
  <2>2. key # k \/ caller # a
    <3> SUFFICES ASSUME key = k, caller = a  PROVE FALSE
      OBVIOUS
    <3> QED  BY <2>1, ServicesAssumption DEF MayRun, Settled
  <2> QED  BY <2>1, <2>2 DEF Settled
<1> HIDE DEF Goal
<1>8. CASE SvTick \/ Outside \/ (\E x \in scene.hosts, hold \in {"open", "approval"} : register_capability(x, hold))
           \/ (\E e \in Endpoints : register_endpoint(e))
           \/ (\E c \in Challenges, e \in Endpoints, org \in SvOrgs : initiate_endpoint_verification(c, e, org))
  <2>1. UNCHANGED <<rows, executed, desk>>
    BY <1>8 DEF SvTick, Outside, register_capability, register_endpoint, initiate_endpoint_verification, callVars
  <2> QED  BY <1>1, <2>1 DEF Goal
<1>9. ASSUME NEW s \in scene.desks, NEW pair \in scene.pairs, NEW key \in scene.keys,
             NEW parent \in Desks \cup {NoParent}, NEW aware \in BOOLEAN,
             Call(s, pair[1], pair[2], key, parent, aware)
      PROVE  Goal
  <2>1. s \in Desks /\ pair[1] \in SvAgents /\ pair[2] \in SvAgents
    BY SvFacts
  <2> QED  BY <1>7, <1>9, <2>1
<1>10. scene.desks \subseteq Desks /\ scene.hosts \subseteq SvAgents
  BY SvFacts
<1>11. ASSUME NEW s \in scene.desks, execute_agent_to_agent_call(s)  PROVE Goal
  BY <1>10, <1>11, SettledByCall DEF Goal
<1> QED  BY <1>3, <1>4, <1>5, <1>6, <1>8, <1>9, <1>10, <1>11 DEF SvNext, Goal

\* A call whose key has settled is never carried out again; and a handler changes the services
\* of its own organization only, and verifies an endpoint only if its service was shown to it.
THEOREM ServiceStepsTheorem == SvSpec => ServiceSteps
<1> DEFINE Stays == \A a \in SvAgents, k \in CallKeys :
                        Settled(a, k) => Settled(a, k)' /\ executed'[a][k] = executed[a][k]
           Own == \A s \in Desks :
                      (desk[s].stage \in {"creating", "editing", "verifying"} /\ desk'[s] = SvIdle) =>
                          \/ desk[s].stage # "verifying"
                             /\ \A a \in SvAgents : service'[a] # service[a] => desk[s].org = OrgOf[a]
                          \/ desk[s].stage = "verifying"
                             /\ (\/ desk[s].org = OrgOf[HostOf[desk[s].endpoint]]
                                 \/ desk[s].shown \in {"PUBLIC_DISCOVERABLE", "TRUSTED_ORGANIZATIONS"})
<1>1. ASSUME SvInv, SvNext  PROVE Stays
  BY <1>1, SettledByNext
<1>2. ASSUME SvInv, SvNext  PROVE Own
  <2> SUFFICES ASSUME NEW s \in Desks, desk[s].stage \in {"creating", "editing", "verifying"}, desk'[s] = SvIdle
               PROVE  \/ desk[s].stage # "verifying"
                         /\ \A a \in SvAgents : service'[a] # service[a] => desk[s].org = OrgOf[a]
                      \/ desk[s].stage = "verifying"
                         /\ (\/ desk[s].org = OrgOf[HostOf[desk[s].endpoint]]
                             \/ desk[s].shown \in {"PUBLIC_DISCOVERABLE", "TRUSTED_ORGANIZATIONS"})
    OBVIOUS
  <2>1. RegistrarOK(s)
    BY <1>2 DEF SvInv, DesksOK, RegistrarsOK
  <2>2. ASSUME NEW q \in scene.desks,
               (\E v \in {"ORGANIZATION", "TRUSTED_ORGANIZATIONS"} : create_service(q, v)) \/ update_service(q),
               desk[s].stage # "verifying", NEW a \in SvAgents, service'[a] # service[a]
        PROVE  desk[s].org = OrgOf[a]
    <3>1. q \in Desks /\ desk' = [desk EXCEPT ![q] = SvIdle]
      BY <1>2, <2>2, SvFacts DEF create_service, update_service, EndCall
    <3>2. q = s
      BY <1>2, <3>1, SvFacts, NoRowFacts
    <3>3. \A b \in SvAgents : b # desk[q].agent => service'[b] = service[b]
      BY <1>2, <2>2, SvFacts DEF create_service, update_service
    <3> QED  BY <2>1, <2>2, <3>2, <3>3 DEF RegistrarOK
  <2>3. \/ UNCHANGED service
        \/ \E q \in scene.desks :
              (\E v \in {"ORGANIZATION", "TRUSTED_ORGANIZATIONS"} : create_service(q, v)) \/ update_service(q)
    <3>1. ASSUME NEW q \in scene.desks, execute_agent_to_agent_call(q)  PROVE UNCHANGED service
      BY <3>1 DEF execute_agent_to_agent_call, Resolve, CountFailure, _dispatch_to_endpoint, RecordCall, registryVars
    <3>2. ASSUME NEW q \in scene.desks, NEW pair, NEW k, NEW parent, NEW aware,
                 Call(q, pair[1], pair[2], k, parent, aware)
          PROVE  UNCHANGED service
      BY <3>2 DEF Call, registryVars
    <3>3. ASSUME NEW q \in scene.desks,
                 \/ \E a \in scene.hosts, org \in SvOrgs, edit \in Edits : LoadService(q, a, org, edit)
                 \/ \E a \in scene.hosts : LookupName(q, a)
                 \/ \E c \in Challenges, org \in SvOrgs : LoadChallenge(q, c, org)
                 \/ verify_endpoint_challenge(q)
          PROVE  UNCHANGED service
      BY <3>3 DEF LoadService, LookupName, LoadChallenge, verify_endpoint_challenge, registryVars
    <3>4. CASE \/ SvTick \/ Outside
               \/ \E a \in scene.hosts, hold \in {"open", "approval"} : register_capability(a, hold)
               \/ \E e \in Endpoints : register_endpoint(e)
               \/ \E c \in Challenges, e \in Endpoints, org \in SvOrgs : initiate_endpoint_verification(c, e, org)
      BY <3>4 DEF SvTick, Outside, register_capability, register_endpoint, initiate_endpoint_verification, registryVars
    <3> QED  BY <1>2, <3>1, <3>2, <3>3, <3>4 DEF SvNext
  <2> QED  BY <2>1, <2>2, <2>3 DEF RegistrarOK
<1>3. SvInv /\ [SvNext]_svVars => [Stays]_svVars /\ [Own]_svVars
  BY <1>1, <1>2
<1>4. ([][Stays]_svVars => SettledForGood) /\ ([][Own]_svVars => OwnRowsOnly)
  BY DEF SettledForGood, OwnRowsOnly
<1> QED  BY <1>3, <1>4, SvInvariance, PTL DEF SvSpec, ServiceSteps

-----------------------------------------------------------------------------
\* However the handlers of two organizations, of a registrar and of a verifier interleave: what was
\* revoked comes back only by a new request, an answer loaded before or overlapping rotations, and
\* nothing passes under a trust that had expired.
THEOREM RevocationsTheorem == AgentTrustSpec => RevocationsStand
BY TrustRevocationTheorem, KeyRevocationTheorem, PTL DEF AgentTrustSpec, RevocationsStand
=============================================================================
