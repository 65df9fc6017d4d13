------------------------------ MODULE Discovery ------------------------------
(***************************************************************************)
(* Agent discovery (services/discovery): scans of configured sources,      *)
(* which turn the workloads they find into candidates, and the people who  *)
(* ignore, reject, match or onboard a candidate.                           *)
(*                                                                         *)
(* A scan is one session that commits whenever it inserts a candidate and  *)
(* at its end; what it changes in rows that were there already, and the    *)
(* alarms it raises, wait in the session for the next of those commits.    *)
(* Candidates are looked up by fingerprint, and no index makes the         *)
(* fingerprint unique.  What a source reports is fixed with its            *)
(* configuration: the connectors read nothing else.                        *)
(***************************************************************************)
EXTENDS Naturals, Sequences, FiniteSets, SequencesExt, UnitOfWork

CONSTANTS
    Scanners, People,   \* sessions
    DiSources,
    Candidates, Runs, DiAgents,   \* primary keys
    Lands           \* what a behaviour is about: what each source reports, agents there are,
                    \* sources that need a credential or are broken, sessions, operations, bounds

VARIABLES
    diNow,
    source,     \* source[s]: the discovery_sources row
    run,        \* run[r]: status of the discovery_runs row, "none" before it exists
    cand,       \* cand[c]: the discovery_candidates row, or NoCandidate
    diAgent,    \* diAgent[a]: the agents row, or NoAgentRow
    scan,       \* scan[s]: the scan in session s
    person,     \* person[p]: the handler in session p
    alarm,      \* alarm[c]: "owed" once c was found unmanaged in production, "raised" once committed
    madeBy,     \* history: madeBy[c]: the run that inserted c
    outcome,    \* history: outcome[s]: status of the run of s that settled last
    verdict,    \* history: verdict[c]: what a person last decided about c
    linked,     \* history: linked[c]: the agent a person last linked c with
    diRaced,    \* history: sources and candidates two sessions had in hand at once
    died,       \* history: runs whose session was lost
    land        \* \in Lands

diVars == <<diNow, source, run, cand, diAgent, scan, person, alarm, madeBy, outcome, verdict, linked,
            diRaced, died, land>>

DiscoverySourceStatus == {"CONFIGURED", "ACTIVE", "ERROR"}
DiscoveryRunStatus == {"RUNNING", "COMPLETED", "FAILED"}
DiscoveryCandidateStatus ==
    {"NEEDS_REVIEW", "MATCHED", "UNMANAGED", "REGISTERED", "IGNORED", "FALSE_POSITIVE"}
MatchTypes == {"VERIFIED_MATCH", "STRONG_MATCH", "POSSIBLE_MATCH", "MANUAL_MATCH", "ONBOARDED"}
NoAgent == 0
NoCandidate == [status |-> "none"]
NoAgentRow == [ident |-> <<"none", 0>>]
NoSource == [status |-> "none"]
NoMatch == [agent |-> NoAgent, type |-> "none"]
NewSource == [status |-> "CONFIGURED", error |-> "none", found |-> 0]
DiIdle == [stage |-> "idle"]
\* A scan is of a source there is, and primary keys are not NoAgent.
ASSUME DiscoveryAssumption == IsFiniteSet(Scanners) /\ IsFiniteSet(Candidates) /\ NoAgent \notin DiAgents
ASSUME LandsAssumption ==
    \A l \in Lands : /\ l.scanners \subseteq Scanners /\ l.people \subseteq People
                    /\ DOMAIN l.reports \subseteq DiSources
Rows == {c \in Candidates : cand[c] # NoCandidate}
AgentRows == {a \in DiAgents : diAgent[a] # NoAgentRow}

DiInit ==
    /\ land \in Lands
    /\ diNow = 0 /\ diRaced = {} /\ died = {}
    /\ source = [s \in DiSources |-> NewSource]
    /\ run = [r \in Runs |-> "none"]
    /\ cand = [c \in Candidates |-> NoCandidate]
    /\ diAgent = [a \in DiAgents |-> IF a \in DOMAIN land.agents THEN land.agents[a] ELSE NoAgentRow]
    /\ scan = [s \in Scanners |-> DiIdle]
    /\ person = [p \in People |-> DiIdle]
    /\ alarm = [c \in Candidates |-> "none"]
    /\ madeBy = [c \in Candidates |-> 0]
    /\ outcome = [s \in DiSources |-> "none"]
    /\ verdict = [c \in Candidates |-> "none"]
    /\ linked = [c \in Candidates |-> NoAgent]

DiTick ==
    /\ diNow < land.horizon /\ diNow' = diNow + 1
    /\ UNCHANGED <<source, run, cand, diAgent, scan, person, alarm, madeBy, outcome, verdict, linked,
                   diRaced, died, land>>

(***************************************************************************)
(* What a scan makes of one workload.                                      *)
(***************************************************************************)
Weight == [identity |-> 40, observed |-> 30, framework |-> 30, provider |-> 15, variable |-> 10,
           naming |-> 10, production |-> 5]

classify_workload_evidence(res) ==
    LET score == FoldSet(LAMBDA e, n : n + Weight[e], 0, res.evidence) IN
    IF score > 100 THEN 100 ELSE score

\* Evidence that becomes discovery_evidence rows.
Findings(res) == res.evidence \cap {"framework", "provider", "variable"}

Similar(n, m) == n = m \/ {n, m} \in land.similar

\* The agent the workload says it is, else one with its external reference, else one with a
\* similar name; the queries have no order.
match_candidate_with_inventory(res) ==
    LET Of(S, type) == {[agent |-> a, type |-> type] : a \in S}
        verified == {a \in AgentRows : diAgent[a].ident = res.label}
        strong == {a \in AgentRows : diAgent[a].ref = res.ref}
        possible == {a \in AgentRows : Similar(res.name, diAgent[a].name)}
    IN CASE verified # {} -> Of(verified, "VERIFIED_MATCH")
         [] verified = {} /\ strong # {} -> Of(strong, "STRONG_MATCH")
         [] verified = {} /\ strong = {} /\ possible # {} -> Of(possible, "POSSIBLE_MATCH")
         [] OTHER -> {NoMatch}

StatusOf(res, match) ==
    CASE match.type = "VERIFIED_MATCH" -> "MATCHED"
      [] match.type # "VERIFIED_MATCH" /\ classify_workload_evidence(res) >= 40 -> "UNMANAGED"
      [] OTHER -> "NEEDS_REVIEW"

NewCandidate(res, match, src) ==
    [fp |-> res.fp, name |-> res.name, ref |-> res.ref, source |-> src, status |-> StatusOf(res, match),
     agent |-> match.agent, match |-> match.type, until |-> 0]

\* Mutant: whatever was decided, what the scan says is shown.
SeenAgainAnew(row, res, match, now) == [row EXCEPT !.status = StatusOf(res, match)]

SeenAgain(row, res, match, now) ==
    LET lapsed == row.status = "IGNORED" /\ row.until # 0 /\ row.until < now
        link == match.agent # NoAgent /\ row.agent = NoAgent
    IN [row EXCEPT
          !.status = IF link /\ match.type = "VERIFIED_MATCH" THEN "MATCHED"
                     ELSE IF lapsed THEN StatusOf(res, match) ELSE @,
          !.agent = IF link THEN match.agent ELSE @,
          !.match = IF link THEN match.type ELSE @]

(***************************************************************************)
(* execute_discovery_run.                                                  *)
(***************************************************************************)
Scanning(s) == scan[s] # DiIdle
HeldByScan(s, c) == Scanning(s) /\ \E p \in scan[s].pending : p.id = c
HeldByPerson(p, c) == person[p] # DiIdle /\ person[p].id = c

StartRun(s, src) ==
    /\ s \in land.scanners /\ ~Scanning(s)
    /\ \E r \in Runs :
        /\ run[r] = "none" /\ r <= land.runs /\ \A q \in Runs : q < r => run[q] # "none"
        /\ run' = [run EXCEPT ![r] = "RUNNING"]
        /\ scan' = [scan EXCEPT ![s] =
              [stage |-> "credential", source |-> src, run |-> r, now |-> diNow, at |-> 1, pending |-> {},
               inserting |-> NoMatch, found |-> 0, seen |-> source[src]]]
    /\ diRaced' = IF \E t \in Scanners : Scanning(t) /\ scan[t].source = src
                  THEN diRaced \cup {<<"source", src>>} ELSE diRaced
    /\ UNCHANGED <<diNow, source, cand, diAgent, person, alarm, madeBy, outcome, verdict, linked, died, land>>

\* The columns a failed run writes in its source.
FailedSource(src, seen, code) == Flush(source[src], seen, [seen EXCEPT !.status = "ERROR", !.error = code])

FailRun(s, code) ==
    LET src == scan[s].source IN
    /\ source' = [source EXCEPT ![src] = FailedSource(src, scan[s].seen, code)]
    /\ run' = [run EXCEPT ![scan[s].run] = "FAILED"]
    /\ outcome' = [outcome EXCEPT ![src] = "FAILED"]
    /\ scan' = [scan EXCEPT ![s] = DiIdle]
    /\ UNCHANGED <<diNow, cand, diAgent, person, alarm, madeBy, verdict, linked, diRaced, died, land>>

\* The secret store does not answer.
FailCredential(s) ==
    /\ Scanning(s) /\ scan[s].stage = "credential" /\ scan[s].source \in land.credential
    /\ FailRun(s, "CREDENTIAL_RETRIEVAL_FAILED")

\* The connector raises on what it was configured with.
FailScan(s) ==
    /\ Scanning(s) /\ scan[s].stage = "credential" /\ scan[s].source \in land.broken
    /\ FailRun(s, "SCAN_EXECUTION_ERROR")

Scan(s) ==
    /\ Scanning(s) /\ scan[s].stage = "credential" /\ scan[s].source \notin land.broken
    /\ scan' = [scan EXCEPT ![s].stage = "examine"]
    /\ UNCHANGED <<diNow, source, run, cand, diAgent, person, alarm, madeBy, outcome, verdict, linked,
                   diRaced, died, land>>

\* Candidates of the organization with the fingerprint; the query has no order.
Known(fp, src) == {c \in Rows : cand[c].fp = fp}

\* Classify, match, look the fingerprint up; edit the row there is, or go on to insert one.
Examine(s) ==
    LET me == scan[s]
        reported == land.reports[me.source]
    IN
    /\ Scanning(s) /\ me.stage = "examine" /\ me.at <= Len(reported)
    /\ \E match \in match_candidate_with_inventory(reported[me.at]) :
        LET res == reported[me.at] IN
        \/ /\ Known(res.fp, me.source) = {}
           /\ scan' = [scan EXCEPT ![s].stage = "insert", ![s].inserting = match]
           /\ UNCHANGED diRaced
        \/ \E c \in Known(res.fp, me.source) :
            /\ scan' = [scan EXCEPT ![s].at = @ + 1,
                   ![s].pending = @ \cup {[id |-> c, row |-> cand[c],
                                           edited |-> SeenAgain(cand[c], res, match, me.now)]}]
            /\ diRaced' = IF \/ \E p \in People : HeldByPerson(p, c)
                             \/ \E t \in Scanners : t # s /\ HeldByScan(t, c)
                          THEN diRaced \cup {<<"candidate", c>>} ELSE diRaced
    /\ UNCHANGED <<diNow, source, run, cand, diAgent, person, alarm, madeBy, outcome, verdict, linked, died, land>>

\* What a commit of the session writes in rows that were there.
Written(s, rows) ==
    [c \in Candidates |->
       IF HeldByScan(s, c)
       THEN LET p == CHOOSE q \in scan[s].pending : q.id = c IN Flush(rows[c], p.row, p.edited)
       ELSE rows[c]]

\* Mutant: an alarm is written with the next candidate.
RaiseNext(s) == [c \in Candidates |-> IF alarm[c] = "owed" /\ madeBy[c] = scan[s].run /\ scan[s].stage = "insert"
                                      THEN "raised" ELSE alarm[c]]

\* The alarms the session added since its last commit.
Raise(s) == [c \in Candidates |-> IF alarm[c] = "owed" /\ madeBy[c] = scan[s].run THEN "raised" ELSE alarm[c]]

\* The new row is committed, and all that waited; the alarm about it is added afterwards.
InsertCandidate(s) ==
    LET me == scan[s]
        res == land.reports[me.source][me.at]
        new == NewCandidate(res, me.inserting, me.source)
    IN
    /\ Scanning(s) /\ me.stage = "insert"
    /\ \E c \in Candidates \ Rows :
        /\ \A d \in Candidates \ Rows : c <= d
        /\ cand' = [Written(s, cand) EXCEPT ![c] = new]
        /\ madeBy' = [madeBy EXCEPT ![c] = me.run]
        /\ alarm' = [Raise(s) EXCEPT ![c] =
              IF new.status = "UNMANAGED" /\ "production" \in res.evidence THEN "owed" ELSE "none"]
    /\ scan' = [scan EXCEPT ![s].stage = "examine", ![s].at = @ + 1, ![s].pending = {}, ![s].found = @ + 1,
                   ![s].seen = IF Findings(res) # {} THEN source[me.source] ELSE NoSource]
    /\ UNCHANGED <<diNow, source, run, diAgent, person, outcome, verdict, linked, diRaced, died, land>>

AllExamined(me) == me.at > Len(land.reports[me.source])

\* The source row is read again when a commit has expired it.
Tally(s) ==
    /\ Scanning(s) /\ scan[s].stage = "examine" /\ AllExamined(scan[s])
    /\ scan' = [scan EXCEPT ![s].stage = "complete",
                   ![s].seen = IF @ = NoSource THEN source[scan[s].source] ELSE @]
    /\ UNCHANGED <<diNow, source, run, cand, diAgent, person, alarm, madeBy, outcome, verdict, linked,
                   diRaced, died, land>>

Tallied(me) == me.seen.found + me.found

Complete(s) ==
    LET me == scan[s]
        edited == [status |-> "ACTIVE", error |-> "none", found |-> Tallied(me)]
    IN
    /\ Scanning(s) /\ me.stage = "complete"
    /\ cand' = Written(s, cand)
    /\ alarm' = Raise(s)
    /\ source' = [source EXCEPT ![me.source] = Flush(@, me.seen, edited)]
    /\ run' = [run EXCEPT ![me.run] = "COMPLETED"]
    /\ outcome' = [outcome EXCEPT ![me.source] = "COMPLETED"]
    /\ scan' = [scan EXCEPT ![s] = DiIdle]
    /\ UNCHANGED <<diNow, diAgent, person, madeBy, verdict, linked, diRaced, died, land>>

\* The process stops, or a statement fails inside the loop: nothing settles the run.
Die(s) ==
    /\ "die" \in land.ops /\ Scanning(s)
    /\ died' = died \cup {scan[s].run}
    /\ scan' = [scan EXCEPT ![s] = DiIdle]
    /\ UNCHANGED <<diNow, source, run, cand, diAgent, person, alarm, madeBy, outcome, verdict, linked, diRaced, land>>

(***************************************************************************)
(* People.  Each handler loads the candidate, whatever its status.         *)
(***************************************************************************)
LoadCandidate(p, c, op) ==
    /\ p \in land.people /\ op \in land.ops /\ person[p] = DiIdle /\ c \in Rows
    /\ person' = [person EXCEPT ![p] = [stage |-> op, id |-> c, row |-> cand[c], agent |-> NoAgent]]
    /\ diRaced' = IF \/ \E q \in People \ {p} : HeldByPerson(q, c)
                     \/ \E s \in Scanners : HeldByScan(s, c)
                  THEN diRaced \cup {<<"candidate", c>>} ELSE diRaced
    /\ UNCHANGED <<diNow, source, run, cand, diAgent, scan, alarm, madeBy, outcome, verdict, linked, died, land>>

\* Commit what person p decided about the candidate.
Decide(p, edited, agent) ==
    LET c == person[p].id IN
    /\ cand' = [cand EXCEPT ![c] = Flush(@, person[p].row, edited)]
    /\ verdict' = [verdict EXCEPT ![c] = edited.status]
    /\ linked' = IF agent = NoAgent THEN linked ELSE [linked EXCEPT ![c] = agent]
    /\ person' = [person EXCEPT ![p] = DiIdle]
    /\ UNCHANGED <<diNow, source, run, scan, alarm, madeBy, outcome, diRaced, died, land>>

ignore_candidate(p) ==
    /\ person[p].stage = "ignore"
    /\ Decide(p, [person[p].row EXCEPT !.status = "IGNORED", !.until = diNow + 1], NoAgent)
    /\ UNCHANGED diAgent

mark_candidate_false_positive(p) ==
    /\ person[p].stage = "false_positive"
    /\ Decide(p, [person[p].row EXCEPT !.status = "FALSE_POSITIVE"], NoAgent)
    /\ UNCHANGED diAgent

match_candidate_to_agent(p) ==
    /\ person[p].stage = "match"
    /\ \E a \in AgentRows :
        Decide(p, [person[p].row EXCEPT !.status = "MATCHED", !.agent = a, !.match = "MANUAL_MATCH"], a)
    /\ UNCHANGED diAgent

Identifiers == {diAgent[a].ident : a \in AgentRows}

\* The identifier is made of the name, and of random letters when that is taken.
LookupIdentifier(p) ==
    /\ person[p].stage = "onboard"
    /\ person' = [person EXCEPT ![p].stage = IF <<person[p].row.name, 0>> \in Identifiers THEN "suffixed" ELSE "plain"]
    /\ UNCHANGED <<diNow, source, run, cand, diAgent, scan, alarm, madeBy, outcome, verdict, linked,
                   diRaced, died, land>>

\* The agent is committed first; its unique identifier refuses the later of two alike.
InsertAgent(p) ==
    /\ person[p].stage \in {"plain", "suffixed"}
    /\ \E a \in DiAgents \ AgentRows :
        LET ident == <<person[p].row.name, IF person[p].stage = "plain" THEN 0 ELSE a>> IN
        /\ \A b \in DiAgents \ AgentRows : a <= b
        /\ \/ /\ ident \notin Identifiers
              /\ diAgent' = [diAgent EXCEPT ![a] =
                    [ident |-> ident, ref |-> person[p].row.ref, name |-> person[p].row.name]]
              /\ person' = [person EXCEPT ![p].stage = "link", ![p].agent = a]
           \/ /\ ident \in Identifiers
              /\ person' = [person EXCEPT ![p] = DiIdle]
              /\ UNCHANGED diAgent
    /\ UNCHANGED <<diNow, source, run, cand, scan, alarm, madeBy, outcome, verdict, linked, diRaced, died, land>>

\* The commit expired the candidate: all three columns are written.
LinkAgent(p) ==
    LET c == person[p].id
        a == person[p].agent
    IN
    /\ person[p].stage = "link"
    /\ cand' = [cand EXCEPT ![c].status = "REGISTERED", ![c].agent = a, ![c].match = "ONBOARDED"]
    /\ verdict' = [verdict EXCEPT ![c] = "REGISTERED"]
    /\ linked' = [linked EXCEPT ![c] = a]
    /\ person' = [person EXCEPT ![p] = DiIdle]
    /\ UNCHANGED <<diNow, source, run, diAgent, scan, alarm, madeBy, outcome, diRaced, died, land>>

ScanStep(s) ==
    FailCredential(s) \/ FailScan(s) \/ Scan(s) \/ Examine(s) \/ InsertCandidate(s) \/ Tally(s) \/ Complete(s)
PersonStep(p) ==
    \/ ignore_candidate(p) \/ mark_candidate_false_positive(p) \/ match_candidate_to_agent(p)
    \/ LookupIdentifier(p) \/ InsertAgent(p) \/ LinkAgent(p)

DiNext ==
    \/ DiTick
    \/ \E s \in Scanners : ScanStep(s) \/ Die(s) \/ \E src \in DOMAIN land.reports : StartRun(s, src)
    \/ \E p \in People :
        PersonStep(p) \/ \E c \in Candidates, op \in {"ignore", "false_positive", "match", "onboard"} :
                            LoadCandidate(p, c, op)

DiSpec == DiInit /\ [][DiNext]_diVars

-----------------------------------------------------------------------------
(***************************************************************************)
(* Properties.                                                             *)
(***************************************************************************)
\* Rows and sessions have the shapes the models and the handlers give them.
DiTypeOK ==
    /\ \A s \in DiSources : source[s].status \in DiscoverySourceStatus /\ source[s].found \in Nat
    /\ \A r \in Runs : run[r] \in DiscoveryRunStatus \cup {"none"}
    /\ \A c \in Rows :
        /\ cand[c].status \in DiscoveryCandidateStatus
        /\ cand[c].agent = NoAgent <=> cand[c].match = "none"
        /\ cand[c].agent # NoAgent => cand[c].agent \in AgentRows /\ cand[c].match \in MatchTypes
    /\ \A s \in Scanners : Scanning(s) => run[scan[s].run] = "RUNNING"

\* No two rows of candidates share a fingerprint unless scans overlapped, and then no more
\* of them than scans can run at once: execute_discovery_run looks the fingerprint up before
\* it inserts, and the index over it is not unique.
DuplicatesOnlyByOverlap ==
    \A c \in Rows : Cardinality({d \in Rows : cand[d].fp = cand[c].fp}) <= Cardinality(Scanners)

\* When a run is COMPLETED, every candidate it found unmanaged in production has its security
\* event: the event is added after the commit of the candidate and is raised for new candidates
\* only, so a run that is lost in between is never made good.
CompletedRunsAlerted ==
    \A c \in Rows : run[madeBy[c]] = "COMPLETED" => alarm[c] # "owed"

\* candidates_found_count of a source never exceeds the candidates that came from it: scans that
\* overlap may lose a count, none is made up.
CountNeverOverstates ==
    \A s \in DiSources : source[s].found <= Cardinality({c \in Rows : cand[c].source = s})

\* Unless scans of it overlapped, a source shows how its last run ended, with an error code if
\* and only if that run failed.
SourceTellsLastRun ==
    \A s \in DiSources : <<"source", s>> \notin diRaced =>
        /\ source[s].status = [none |-> "CONFIGURED", COMPLETED |-> "ACTIVE", FAILED |-> "ERROR"][outcome[s]]
        /\ source[s].error # "none" <=> outcome[s] = "FAILED"

\* A candidate that counts as managed, MATCHED or REGISTERED, has an agent, whichever sessions
\* wrote its columns.
ManagedHasAgent ==
    \A c \in Rows : cand[c].status \in {"MATCHED", "REGISTERED"} => cand[c].agent # NoAgent

\* Unless another session had the candidate in hand meanwhile, what a person decided stands: a
\* scan sees the workload again and again, but reopens only what was ignored and has lapsed,
\* or shows a verified match.
VerdictHolds ==
    \A c \in Rows : <<"candidate", c>> \notin diRaced =>
        /\ verdict[c] = "FALSE_POSITIVE" => cand[c].status \in {"FALSE_POSITIVE", "MATCHED"}
        /\ verdict[c] \in {"MATCHED", "REGISTERED"} => cand[c].status = verdict[c]
        /\ verdict[c] = "IGNORED" /\ diNow <= cand[c].until => cand[c].status \in {"IGNORED", "MATCHED"}

\* Unless another session had it in hand meanwhile, a candidate stays linked with the agent a
\* person chose or onboarded, though every later scan matches it anew.
LinkHolds ==
    \A c \in Rows : <<"candidate", c>> \notin diRaced /\ linked[c] # NoAgent => cand[c].agent = linked[c]

\* A run that is RUNNING has its session at work on it, unless that was lost: however the
\* credential, the scan or a candidate fails, the run is closed as COMPLETED or FAILED.
RunsClosed ==
    \A r \in Runs :
        run[r] = "RUNNING" => r \in died \/ \E s \in Scanners : Scanning(s) /\ scan[s].run = r

\* Scans are accounted for: a run is closed unless its session was lost, a completed one has
\* raised the alarms of its candidates, a source counts no candidate too many and tells how
\* its last run ended.
RunsAccounted == DiTypeOK /\ RunsClosed /\ CompletedRunsAlerted /\ CountNeverOverstates /\ SourceTellsLastRun

\* What people decide outlasts the scans that come back: workloads get one candidate, managed
\* ones an agent, and a verdict and a link stand, but for sessions that overlapped.
CandidatesHold == DuplicatesOnlyByOverlap /\ ManagedHasAgent /\ VerdictHolds /\ LinkHolds
=============================================================================
