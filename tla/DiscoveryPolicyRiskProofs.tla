---------------------- MODULE DiscoveryPolicyRiskProofs ----------------------
(***************************************************************************)
(* Discovery, the policy language and the scoring of requests: for any     *)
(* number of scanners, people, sources and candidates and whatever the     *)
(* sources report, for any documents, conditions of any depth and          *)
(* contexts, and for any clerks, settings and requests.                    *)
(*                                                                         *)
(* Discovery.  What a scan or a person has in hand may be out of date when *)
(* it is written.  The invariant says what such a copy still has in common *)
(* with its row (Heir: the fingerprint, the source, an agent once there is *)
(* one), that a candidate in one hand alone is in it as it is (AloneOK),   *)
(* and, for the counts, that a fingerprint has no more rows and insertions *)
(* under way than there are scanners (FewOf), and a source or a scan has   *)
(* counted no more than was found (CountsOK).                              *)
(*                                                                         *)
(* The policy language.  Its functions are recursive along the conditions. *)
(* That such a function exists and is what its definition says is proved   *)
(* by the depth of a condition (RankRecursion), and from that what it      *)
(* computes, by induction over the depth (RankInduction).                  *)
(*                                                                         *)
(* Risk.  One clerk at most creates a policy, no more requests are lost    *)
(* than there are clerks, and with a policy that is there for good and     *)
(* lets low risks only pass, those that have passed at an instant and      *)
(* those about to are never more than the count from which velocity is     *)
(* high and the other clerks together (BurstOK).                           *)
(***************************************************************************)
EXTENDS Discovery, Apl, RiskEngine, FiniteSetTheorems, WellFoundedInduction, TLAPS

\* Sets of numbers that are closed under the successor.
LEMMA Induction ==
    ASSUME NEW S \in SUBSET Nat, 0 \in S, \A n \in S : n + 1 \in S
    PROVE  S = Nat
<1> DEFINE R == {p \in Nat \X Nat : p[1] < p[2]}
<1>1. SUFFICES ASSUME Nat \ S # {} PROVE FALSE
  OBVIOUS
<1>2. IsWellFoundedOn(R, Nat)
  BY NatLessThanWellFounded DEF OpToRel
<1>3. PICK x \in Nat \ S : \A y \in Nat \ S : <<y, x>> \notin R
  <2> HIDE DEF R
  <2>1. Nat \ S \subseteq Nat
    OBVIOUS
  <2> QED  BY <1>1, <1>2, <2>1, WFMin
<1>4. x # 0 /\ x - 1 \in Nat
  OBVIOUS
<1>5. <<x - 1, x>> \in R
  BY <1>4
<1>6. x - 1 \in S
  BY <1>3, <1>4, <1>5
<1> QED  BY <1>6, <1>3

-----------------------------------------------------------------------------
(* Discovery.                                                              *)
\* Shapes.  Labels, names and references may be anything, so a row is described by its fields.
CandShape(r) ==
    r = [fp |-> r.fp, name |-> r.name, ref |-> r.ref, source |-> r.source, status |-> r.status,
         agent |-> r.agent, match |-> r.match, until |-> r.until]
Matched(a, m, A) == (a = NoAgent /\ m = "none") \/ (a \in A /\ m \in MatchTypes)
IsCand(r, A) ==
    /\ CandShape(r) /\ r.source \in DiSources /\ r.status \in DiscoveryCandidateStatus /\ r.until \in Nat
    /\ Matched(r.agent, r.match, A)
    /\ r.status \in {"MATCHED", "REGISTERED"} => r.agent # NoAgent
SourceRow == [status : DiscoverySourceStatus, found : Nat,
              error : {"none", "CREDENTIAL_RETRIEVAL_FAILED", "SCAN_EXECUTION_ERROR"}]
ScanShape(d) ==
    d = [stage |-> d.stage, source |-> d.source, run |-> d.run, now |-> d.now, at |-> d.at,
         pending |-> d.pending, inserting |-> d.inserting, found |-> d.found, seen |-> d.seen]
IsScan(d, A, t) ==
    /\ ScanShape(d) /\ d.stage \in {"credential", "examine", "insert", "complete"}
    /\ d.source \in DiSources /\ d.run \in Runs /\ d.now \in 0..t /\ d.at \in Nat /\ d.found \in Nat
    /\ Matched(d.inserting.agent, d.inserting.type, A)
    /\ d.seen \in SourceRow \cup {NoSource}
    /\ d.stage \in {"credential", "complete"} => d.seen # NoSource
PersonShape(d) == d = [stage |-> d.stage, id |-> d.id, row |-> d.row, agent |-> d.agent]
IsPerson(d, A) ==
    /\ PersonShape(d)
    /\ d.stage \in {"ignore", "false_positive", "match", "onboard", "plain", "suffixed", "link"}
    /\ d.id \in Candidates /\ (d.stage = "link" => d.agent \in A)
DiTyped ==
    /\ land \in Lands /\ diNow \in Nat
    /\ source \in [DiSources -> SourceRow]
    /\ run \in [Runs -> DiscoveryRunStatus \cup {"none"}]
    /\ alarm \in [Candidates -> {"none", "owed", "raised"}]
    /\ outcome \in [DiSources -> {"none", "COMPLETED", "FAILED"}]
    /\ cand = [c \in Candidates |-> cand[c]] /\ \A c \in Rows : IsCand(cand[c], AgentRows) /\ madeBy[c] \in Runs
    /\ diAgent = [a \in DiAgents |-> diAgent[a]]
    /\ scan = [s \in Scanners |-> scan[s]] /\ \A s \in Scanners : Scanning(s) => IsScan(scan[s], AgentRows, diNow)
    /\ person = [p \in People |-> person[p]] /\ \A p \in People : person[p] # DiIdle => IsPerson(person[p], AgentRows)
    /\ madeBy = [c \in Candidates |-> madeBy[c]]
    /\ verdict = [c \in Candidates |-> verdict[c]] /\ linked = [c \in Candidates |-> linked[c]]

\* A run has one session, which is at work on it or was lost.
RunOK ==
    /\ \A s \in Scanners : Scanning(s) => run[scan[s].run] = "RUNNING"
    /\ \A s, t \in Scanners : (Scanning(s) /\ Scanning(t) /\ scan[s].run = scan[t].run) => s = t
    /\ RunsClosed

\* Nobody has decided about a candidate that is not there yet.
Undecided == \A c \in Candidates \ Rows : verdict[c] = "none" /\ linked[c] = NoAgent

\* What became of a row since: its columns are another's, but for those that nothing changes, and
\* an agent once set stays set.
Heir(l, n) == n.fp = l.fp /\ n.source = l.source /\ (l.agent # NoAgent => n.agent # NoAgent)

\* What a scan makes of a row it has loaded by time t.
SeenEdit(l, e, t) ==
    /\ Heir(l, e) /\ e.until = l.until /\ (l.agent # NoAgent => e.agent = l.agent)
    /\ \/ e.status = l.status
       \/ e.status = "MATCHED" /\ l.agent = NoAgent
       \/ l.status = "IGNORED" /\ l.until < t

\* What the copies in hand still say of the rows.
Copy(c, l, A) == c \in Rows /\ IsCand(l, A) /\ Heir(l, cand[c])
CopiesOK ==
    /\ \A s \in Scanners : Scanning(s) => \A q \in scan[s].pending :
          Copy(q.id, q.row, AgentRows) /\ IsCand(q.edited, AgentRows) /\ SeenEdit(q.row, q.edited, diNow)
    /\ \A p \in People : person[p] # DiIdle => Copy(person[p].id, person[p].row, AgentRows)

\* Who has a candidate in hand alone has it as it is.
Alone(c) ==
    /\ \A s, t \in Scanners : (HeldByScan(s, c) /\ HeldByScan(t, c)) => s = t
    /\ \A p, q \in People : (HeldByPerson(p, c) /\ HeldByPerson(q, c)) => p = q
    /\ \A s \in Scanners, p \in People : ~(HeldByScan(s, c) /\ HeldByPerson(p, c))
    /\ \A s \in Scanners : Scanning(s) => \A q \in scan[s].pending : q.id = c => q.row = cand[c]
    /\ \A p \in People : HeldByPerson(p, c) => person[p].row = cand[c]
AloneOK == \A c \in Candidates : <<"candidate", c>> \notin diRaced => Alone(c)

\* A source that is scanned once at a time has the row its scan has seen.
SourceOK ==
    \A s \in DiSources : <<"source", s>> \notin diRaced =>
        /\ \A p, q \in Scanners :
              (Scanning(p) /\ Scanning(q) /\ scan[p].source = s /\ scan[q].source = s) => p = q
        /\ \A p \in Scanners : (Scanning(p) /\ scan[p].source = s /\ scan[p].seen # NoSource) =>
              scan[p].seen = source[s]

\* Rows with a fingerprint, and scans about to insert one.
RowsOf(f) == {c \in Rows : cand[c].fp = f}
InsertersOf(f) == {s \in Scanners : Scanning(s) /\ scan[s].stage = "insert"
                                    /\ land.reports[scan[s].source][scan[s].at].fp = f}
FewOf(f) == Cardinality(RowsOf(f)) + Cardinality(InsertersOf(f)) <= Cardinality(Scanners)

\* Candidates of a source that completed runs found, and those that a run under way has found.
Closed(s) == {c \in Rows : cand[c].source = s /\ run[madeBy[c]] = "COMPLETED"}
Made(r, s) == {c \in Rows : cand[c].source = s /\ madeBy[c] = r}
CountsOK ==
    /\ \A s \in DiSources : source[s].found <= Cardinality(Closed(s))
    /\ \A p \in Scanners, s \in DiSources, r \in Runs :
          (Scanning(p) /\ scan[p].source = s /\ scan[p].run = r) =>
             /\ scan[p].found <= Cardinality(Made(r, s))
             /\ scan[p].seen # NoSource => scan[p].seen.found <= Cardinality(Closed(s))

DiInv ==
    /\ DiTyped /\ RunOK /\ CopiesOK /\ AloneOK /\ SourceOK
    /\ CompletedRunsAlerted /\ SourceTellsLastRun /\ VerdictHolds /\ LinkHolds /\ Undecided
    /\ (\A f : FewOf(f)) /\ CountsOK

LEMMA DiFacts ==
    /\ IsFiniteSet(Scanners) /\ IsFiniteSet(Candidates) /\ NoAgent \notin DiAgents
    /\ \A l \in Lands : l.scanners \subseteq Scanners /\ l.people \subseteq People /\ DOMAIN l.reports \subseteq DiSources
  BY DiscoveryAssumption, LandsAssumption

LEMMA DiNone ==
    /\ \A r : CandShape(r) => r # NoCandidate
    /\ \A d : ScanShape(d) => d # DiIdle
    /\ \A d : PersonShape(d) => d # DiIdle
    /\ \A d \in SourceRow : d # NoSource
    /\ \A i, n, m : [ident |-> i, ref |-> n, name |-> m] # NoAgentRow
<1>1. \A r : CandShape(r) => "fp" \in DOMAIN r
  BY DEF CandShape
<1>2. \A d : ScanShape(d) => "run" \in DOMAIN d
  BY DEF ScanShape
<1>3. \A d : PersonShape(d) => "id" \in DOMAIN d
  BY DEF PersonShape
<1>4. \A d \in SourceRow : "found" \in DOMAIN d
  BY DEF SourceRow
<1>5. \A i, n, m : "ref" \in DOMAIN [ident |-> i, ref |-> n, name |-> m]
  OBVIOUS
<1>6. /\ "fp" \notin DOMAIN NoCandidate /\ "run" \notin DOMAIN DiIdle /\ "id" \notin DOMAIN DiIdle
      /\ "found" \notin DOMAIN NoSource /\ "ref" \notin DOMAIN NoAgentRow
  BY DEF NoCandidate, DiIdle, NoSource, NoAgentRow
<1> QED  BY <1>1, <1>2, <1>3, <1>4, <1>5, <1>6

\* A commit leaves the columns that do not change alone, and writes an agent with its match.
LEMMA FlushCand ==
    ASSUME NEW A, NoAgent \notin A, NEW r, NEW l, NEW e, IsCand(r, A), IsCand(l, A), IsCand(e, A),
           Heir(l, r), Heir(l, e), NEW n, n = Flush(r, l, e)
    PROVE  IsCand(n, A) /\ Heir(r, n) /\ (l = r => n = e)
<1>1. DOMAIN r = {"fp", "name", "ref", "source", "status", "agent", "match", "until"}
  BY DEF IsCand, CandShape
<1>2. /\ n.fp = IF e.fp = l.fp THEN r.fp ELSE e.fp
      /\ n.source = IF e.source = l.source THEN r.source ELSE e.source
      /\ n.status = IF e.status = l.status THEN r.status ELSE e.status
      /\ n.agent = IF e.agent = l.agent THEN r.agent ELSE e.agent
      /\ n.match = IF e.match = l.match THEN r.match ELSE e.match
      /\ n.until = IF e.until = l.until THEN r.until ELSE e.until
      /\ n.name = IF e.name = l.name THEN r.name ELSE e.name
      /\ n.ref = IF e.ref = l.ref THEN r.ref ELSE e.ref
  BY <1>1 DEF Flush
<1>3. n = [fp |-> n.fp, name |-> n.name, ref |-> n.ref, source |-> n.source, status |-> n.status,
           agent |-> n.agent, match |-> n.match, until |-> n.until]
  BY <1>1 DEF Flush
<1>4. CandShape(n)
  BY <1>3 DEF CandShape
<1>5. n.source = r.source /\ n.fp = r.fp
  BY <1>2 DEF Heir
<1>6. Matched(n.agent, n.match, A)
  BY <1>2 DEF IsCand, Heir, Matched, MatchTypes
<1>7. r.agent # NoAgent => n.agent # NoAgent
  BY <1>2 DEF IsCand, Heir, Matched
<1>8. n.status \in {"MATCHED", "REGISTERED"} => n.agent # NoAgent
  BY <1>2 DEF IsCand, Heir, Matched
<1>9. n.status \in DiscoveryCandidateStatus /\ n.until \in Nat
  BY <1>2 DEF IsCand
<1>10. l = r => n = e
  <2> SUFFICES ASSUME l = r  PROVE n = e
    OBVIOUS
  <2>1. /\ n.fp = e.fp /\ n.name = e.name /\ n.ref = e.ref /\ n.source = e.source
        /\ n.status = e.status /\ n.agent = e.agent /\ n.match = e.match /\ n.until = e.until
    BY <1>2
  <2>2. CandShape(e)
    BY DEF IsCand
  <2> QED  BY <1>3, <2>1, <2>2 DEF CandShape
<1>11. IsCand(n, A)
  BY <1>4, <1>5, <1>6, <1>8, <1>9 DEF IsCand
<1>12. Heir(r, n)
  BY <1>5, <1>7 DEF Heir
<1> QED  BY <1>10, <1>11, <1>12

\* What the inventory says a workload is, and what is made of a row that is there.
LEMMA MatchFacts ==
    ASSUME NEW res, NEW m \in match_candidate_with_inventory(res), NoAgent \notin AgentRows
    PROVE  Matched(m.agent, m.type, AgentRows)
<1> DEFINE Of(S, type) == {[agent |-> a, type |-> type] : a \in S}
<1> DEFINE v == {a \in AgentRows : diAgent[a].ident = res.label}
<1> DEFINE w == {a \in AgentRows : diAgent[a].ref = res.ref}
<1> DEFINE x == {a \in AgentRows : Similar(res.name, diAgent[a].name)}
<1>1. \/ m \in Of(v, "VERIFIED_MATCH") \/ m \in Of(w, "STRONG_MATCH") \/ m \in Of(x, "POSSIBLE_MATCH")
      \/ m = NoMatch
  BY DEF match_candidate_with_inventory
<1>2. \A S, type : (S \subseteq AgentRows /\ m \in Of(S, type) /\ type \in MatchTypes) => Matched(m.agent, m.type, AgentRows)
  BY DEF Matched
<1>3. v \subseteq AgentRows /\ w \subseteq AgentRows /\ x \subseteq AgentRows
  OBVIOUS
<1>4. {"VERIFIED_MATCH", "STRONG_MATCH", "POSSIBLE_MATCH"} \subseteq MatchTypes
  BY DEF MatchTypes
<1>5. m = NoMatch => Matched(m.agent, m.type, AgentRows)
  BY DEF NoMatch, Matched
<1> HIDE DEF Of, v, w, x
<1> QED  BY <1>1, <1>2, <1>3, <1>4, <1>5

LEMMA StatusFacts ==
    ASSUME NEW res, NEW m
    PROVE  /\ StatusOf(res, m) \in {"MATCHED", "UNMANAGED", "NEEDS_REVIEW"}
           /\ StatusOf(res, m) = "MATCHED" => m.type = "VERIFIED_MATCH"
  BY DEF StatusOf

LEMMA NewFacts ==
    ASSUME NEW A, NoAgent \notin A, NEW res, NEW m, Matched(m.agent, m.type, A), NEW src \in DiSources,
           NEW n, n = NewCandidate(res, m, src)
    PROVE  IsCand(n, A) /\ n.fp = res.fp /\ n.source = src
<1>1. /\ n.fp = res.fp /\ n.name = res.name /\ n.ref = res.ref /\ n.source = src /\ n.status = StatusOf(res, m)
      /\ n.agent = m.agent /\ n.match = m.type /\ n.until = 0
  BY DEF NewCandidate
<1>2. CandShape(n)
  BY DEF NewCandidate, CandShape
<1>3. n.status \in DiscoveryCandidateStatus
  BY <1>1, StatusFacts DEF DiscoveryCandidateStatus
<1>4. n.status \in {"MATCHED", "REGISTERED"} => n.agent # NoAgent
  <2>1. n.status \in {"MATCHED", "REGISTERED"} => m.type = "VERIFIED_MATCH"
    BY <1>1, StatusFacts
  <2> QED  BY <1>1, <2>1 DEF Matched
<1>5. n.until \in Nat
  BY <1>1
<1>6. IsCand(n, A)
  BY <1>1, <1>2, <1>3, <1>4, <1>5 DEF IsCand
<1> QED  BY <1>1, <1>6

LEMMA SeenAgainFacts ==
    ASSUME NEW A, NoAgent \notin A, NEW row, IsCand(row, A), NEW res, NEW m, Matched(m.agent, m.type, A),
           NEW now \in Nat, NEW t \in Nat, now <= t, NEW e, e = SeenAgain(row, res, m, now)
    PROVE  IsCand(e, A) /\ SeenEdit(row, e, t)
<1> DEFINE lapsed == row.status = "IGNORED" /\ row.until # 0 /\ row.until < now
<1> DEFINE link == m.agent # NoAgent /\ row.agent = NoAgent
<1>1. DOMAIN row = {"fp", "name", "ref", "source", "status", "agent", "match", "until"}
  BY DEF IsCand, CandShape
<1>2. /\ e.fp = row.fp /\ e.name = row.name /\ e.ref = row.ref /\ e.source = row.source /\ e.until = row.until
      /\ e.status = IF link /\ m.type = "VERIFIED_MATCH" THEN "MATCHED"
                    ELSE IF lapsed THEN StatusOf(res, m) ELSE row.status
      /\ e.agent = IF link THEN m.agent ELSE row.agent
      /\ e.match = IF link THEN m.type ELSE row.match
  BY <1>1 DEF SeenAgain
<1>3. e = [fp |-> e.fp, name |-> e.name, ref |-> e.ref, source |-> e.source, status |-> e.status,
           agent |-> e.agent, match |-> e.match, until |-> e.until]
  BY <1>1 DEF SeenAgain
<1>4. CandShape(e)
  BY <1>3 DEF CandShape
<1>5. row.until \in Nat /\ row.source \in DiSources /\ row.status \in DiscoveryCandidateStatus
      /\ Matched(row.agent, row.match, A) /\ (row.status \in {"MATCHED", "REGISTERED"} => row.agent # NoAgent)
  BY DEF IsCand
<1>6. StatusOf(res, m) \in {"MATCHED", "UNMANAGED", "NEEDS_REVIEW"} /\ (StatusOf(res, m) = "MATCHED" => m.type = "VERIFIED_MATCH")
  BY StatusFacts
<1>7. Matched(e.agent, e.match, A)
  BY <1>2, <1>5 DEF Matched
<1>8. e.status \in DiscoveryCandidateStatus
  BY <1>2, <1>5, <1>6 DEF DiscoveryCandidateStatus
<1>9. row.agent # NoAgent => e.agent = row.agent
  BY <1>2
<1>10. m.type = "VERIFIED_MATCH" => m.agent # NoAgent
  BY DEF Matched
<1>11. e.status \in {"MATCHED", "REGISTERED"} => e.agent # NoAgent
  BY <1>2, <1>5, <1>6, <1>10
<1>12. \/ e.status = row.status
       \/ e.status = "MATCHED" /\ row.agent = NoAgent
       \/ row.status = "IGNORED" /\ row.until < t
  BY <1>2, <1>5
<1>13. IsCand(e, A)
  BY <1>2, <1>4, <1>5, <1>7, <1>8, <1>11 DEF IsCand
<1>14. SeenEdit(row, e, t)
  BY <1>2, <1>9, <1>12 DEF SeenEdit, Heir
<1> QED  BY <1>13, <1>14

-----------------------------------------------------------------------------
(* What a step leaves as it was.                                           *)

LEMMA Wider ==
    ASSUME NEW A, NEW B, A \subseteq B, NEW t \in Nat, NEW u \in Nat, t <= u
    PROVE  /\ \A r : IsCand(r, A) => IsCand(r, B)
           /\ \A d : IsScan(d, A, t) => IsScan(d, B, u)
           /\ \A d : IsPerson(d, A) => IsPerson(d, B)
           /\ \A l, e : IsCand(l, A) /\ SeenEdit(l, e, t) => SeenEdit(l, e, u)
<1>1. \A a, m : Matched(a, m, A) => Matched(a, m, B)
  BY DEF Matched
<1>2. ASSUME NEW r, IsCand(r, A)  PROVE IsCand(r, B)
  BY <1>1, <1>2 DEF IsCand
<1>3. ASSUME NEW d, IsScan(d, A, t)  PROVE IsScan(d, B, u)
  <2>1. d.now \in 0..u
    BY <1>3 DEF IsScan
  <2> QED  BY <1>1, <1>3, <2>1 DEF IsScan
<1>4. ASSUME NEW d, IsPerson(d, A)  PROVE IsPerson(d, B)
  BY <1>4 DEF IsPerson
<1>5. ASSUME NEW l, NEW e, IsCand(l, A), SeenEdit(l, e, t)  PROVE SeenEdit(l, e, u)
  <2>1. l.until \in Nat
    BY <1>5 DEF IsCand
  <2> QED  BY <1>5, <2>1 DEF SeenEdit
<1> QED  BY <1>2, <1>3, <1>4, <1>5

\* A step that only looks: the clock, rows, runs and sources stay, and so does what is in hand.
\* The agents of a scope stay, too, or become more.
LEMMA AgentsFacts ==
    ASSUME DiTyped
    PROVE  AgentRows \subseteq DiAgents /\ NoAgent \notin AgentRows
  BY DiFacts DEF AgentRows

LEMMA HandsTyped ==
    ASSUME DiInv
    PROVE  /\ \A s \in Scanners : Scanning(s) => IsScan(scan[s], AgentRows, diNow)
           /\ \A p \in People : person[p] # DiIdle => IsPerson(person[p], AgentRows)
           /\ \A c \in Rows : IsCand(cand[c], AgentRows) /\ madeBy[c] \in Runs /\ c \in Candidates
           /\ diNow \in Nat
  BY DEF DiInv, DiTyped, Rows

LEMMA TypedKept ==
    ASSUME DiInv, AgentRows \subseteq AgentRows', diNow' \in Nat, diNow <= diNow', land' = land,
           source' \in [DiSources -> SourceRow],
           run' \in [Runs -> DiscoveryRunStatus \cup {"none"}],
           alarm' \in [Candidates -> {"none", "owed", "raised"}],
           outcome' \in [DiSources -> {"none", "COMPLETED", "FAILED"}],
           cand' = [c \in Candidates |-> cand'[c]], diAgent' = [a \in DiAgents |-> diAgent'[a]],
           scan' = [s \in Scanners |-> scan'[s]], person' = [p \in People |-> person'[p]],
           madeBy' = [c \in Candidates |-> madeBy'[c]], verdict' = [c \in Candidates |-> verdict'[c]],
           linked' = [c \in Candidates |-> linked'[c]],
           \A c \in Rows' : \/ c \in Rows /\ cand'[c] = cand[c] /\ madeBy'[c] = madeBy[c]
                            \/ IsCand(cand'[c], AgentRows') /\ madeBy'[c] \in Runs,
           \A s \in Scanners : scan'[s] # DiIdle =>
               scan'[s] = scan[s] \/ IsScan(scan'[s], AgentRows', diNow'),
           \A p \in People : person'[p] # DiIdle => person'[p] = person[p] \/ IsPerson(person'[p], AgentRows')
    PROVE  DiTyped'
<1>1. diNow \in Nat /\ land \in Lands
  BY DEF DiInv, DiTyped
<1>2. \A c \in Rows' : IsCand(cand'[c], AgentRows') /\ madeBy'[c] \in Runs
  BY <1>1, HandsTyped, Wider
<1>3. \A s \in Scanners : scan'[s] # DiIdle => IsScan(scan'[s], AgentRows', diNow')
  BY <1>1, HandsTyped, Wider DEF Scanning
<1>4. \A p \in People : person'[p] # DiIdle => IsPerson(person'[p], AgentRows')
  BY <1>1, HandsTyped, Wider
<1> QED  BY <1>1, <1>2, <1>3, <1>4 DEF DiTyped, Scanning

LEMMA RunKept ==
    ASSUME DiInv, run' = run, died' = died,
           \A s \in Scanners : (scan'[s] # DiIdle <=> scan[s] # DiIdle)
                               /\ (scan[s] # DiIdle => scan'[s].run = scan[s].run)
    PROVE  RunOK'
  BY DEF DiInv, RunOK, RunsClosed, Scanning

LEMMA AlarmKept ==
    ASSUME DiInv, Rows' \subseteq Rows, madeBy' = madeBy, alarm' = alarm,
           \A r \in Runs : run'[r] = "COMPLETED" => run[r] = "COMPLETED"
    PROVE  CompletedRunsAlerted'
  BY HandsTyped DEF DiInv, CompletedRunsAlerted

LEMMA CopiesKept ==
    ASSUME DiInv, AgentRows \subseteq AgentRows', diNow' \in Nat, diNow <= diNow',
           \A c \in Rows : c \in Rows' /\ Heir(cand[c], cand'[c]),
           \A s \in Scanners : scan'[s] # DiIdle => \A q \in scan'[s].pending :
               \/ scan[s] # DiIdle /\ q \in scan[s].pending
               \/ /\ q.id \in Rows' /\ IsCand(q.row, AgentRows') /\ Heir(q.row, cand'[q.id])
                  /\ IsCand(q.edited, AgentRows') /\ SeenEdit(q.row, q.edited, diNow'),
           \A p \in People : person'[p] # DiIdle =>
               \/ person[p] # DiIdle /\ person'[p].id = person[p].id /\ person'[p].row = person[p].row
               \/ /\ person'[p].id \in Rows' /\ IsCand(person'[p].row, AgentRows')
                  /\ Heir(person'[p].row, cand'[person'[p].id])
    PROVE  CopiesOK'
<1>1. diNow \in Nat
  BY HandsTyped
<1>2. \A l : \A c \in Rows : Heir(l, cand[c]) => Heir(l, cand'[c])
  BY DEF Heir
<1>3. ASSUME NEW s \in Scanners, scan'[s] # DiIdle, NEW q \in scan'[s].pending
      PROVE  /\ q.id \in Rows' /\ IsCand(q.row, AgentRows') /\ Heir(q.row, cand'[q.id])
             /\ IsCand(q.edited, AgentRows') /\ SeenEdit(q.row, q.edited, diNow')
  <2>1. CASE scan[s] # DiIdle /\ q \in scan[s].pending
    <3>1. Copy(q.id, q.row, AgentRows) /\ IsCand(q.edited, AgentRows) /\ SeenEdit(q.row, q.edited, diNow)
      BY <2>1 DEF DiInv, CopiesOK, Scanning
    <3>2. q.id \in Rows /\ IsCand(q.row, AgentRows) /\ Heir(q.row, cand[q.id])
      BY <3>1 DEF Copy
    <3>3. IsCand(q.row, AgentRows') /\ IsCand(q.edited, AgentRows') /\ SeenEdit(q.row, q.edited, diNow')
      BY <1>1, <3>1, <3>2, Wider
    <3> QED  BY <1>2, <3>2, <3>3
  <2> QED  BY <1>3, <2>1
<1>4. ASSUME NEW p \in People, person'[p] # DiIdle
      PROVE  /\ person'[p].id \in Rows' /\ IsCand(person'[p].row, AgentRows')
             /\ Heir(person'[p].row, cand'[person'[p].id])
  <2>1. CASE person[p] # DiIdle /\ person'[p].id = person[p].id /\ person'[p].row = person[p].row
    <3>1. Copy(person[p].id, person[p].row, AgentRows)
      BY <2>1 DEF DiInv, CopiesOK
    <3>2. person[p].id \in Rows /\ IsCand(person[p].row, AgentRows) /\ Heir(person[p].row, cand[person[p].id])
      BY <3>1 DEF Copy
    <3>3. IsCand(person[p].row, AgentRows')
      BY <1>1, <3>2, Wider
    <3> QED  BY <1>2, <2>1, <3>2, <3>3
  <2> QED  BY <1>4, <2>1
<1> QED  BY <1>3, <1>4 DEF CopiesOK, Copy, Scanning

\* Hands let go of candidates, and what stays in one hand is not written.
LEMMA AloneKept ==
    ASSUME DiInv, diRaced \subseteq diRaced',
           \A s \in Scanners : scan'[s] # DiIdle => \A q \in scan'[s].pending : scan[s] # DiIdle /\ q \in scan[s].pending,
           \A p \in People : person'[p] # DiIdle =>
               person[p] # DiIdle /\ person'[p].id = person[p].id /\ person'[p].row = person[p].row,
           \A c \in Candidates : (<<"candidate", c>> \notin diRaced' /\ cand'[c] # cand[c]) =>
               /\ \A s \in Scanners : ~HeldByScan(s, c)'
               /\ \A p \in People : ~HeldByPerson(p, c)'
    PROVE  AloneOK'
<1> SUFFICES ASSUME NEW c \in Candidates, <<"candidate", c>> \notin diRaced'  PROVE Alone(c)'
  BY DEF AloneOK
<1>1. Alone(c)
  BY DEF DiInv, AloneOK
<1>2. \A s \in Scanners : HeldByScan(s, c)' => HeldByScan(s, c)
  BY DEF HeldByScan, Scanning
<1>3. \A p \in People : HeldByPerson(p, c)' => HeldByPerson(p, c)
  BY DEF HeldByPerson
<1>4. ASSUME NEW s \in Scanners, scan'[s] # DiIdle, NEW q \in scan'[s].pending, q.id = c  PROVE q.row = cand'[c]
  <2>1. HeldByScan(s, c)'
    BY <1>4 DEF HeldByScan, Scanning
  <2>2. cand'[c] = cand[c]
    BY <2>1
  <2>3. scan[s] # DiIdle /\ q \in scan[s].pending
    BY <1>4
  <2> QED  BY <1>1, <1>4, <2>2, <2>3 DEF Alone, Scanning
<1>5. ASSUME NEW p \in People, HeldByPerson(p, c)'  PROVE person'[p].row = cand'[c]
  <2>1. cand'[c] = cand[c]
    BY <1>5
  <2>2. person'[p].row = person[p].row
    BY <1>5 DEF HeldByPerson
  <2> QED  BY <1>1, <1>3, <1>5, <2>1, <2>2 DEF Alone
<1> QED  BY <1>1, <1>2, <1>3, <1>4, <1>5 DEF Alone, Scanning

LEMMA VerdictKept ==
    ASSUME DiInv, diRaced \subseteq diRaced', diNow' \in Nat, diNow <= diNow', Rows' = Rows,
           verdict' = verdict, linked' = linked, cand' = cand
    PROVE  VerdictHolds' /\ LinkHolds' /\ Undecided'
<1>1. \A c \in Rows : cand[c].until \in Nat
  BY HandsTyped DEF IsCand
<1>2. VerdictHolds'
  BY <1>1, HandsTyped DEF DiInv, VerdictHolds
<1>3. LinkHolds'
  BY DEF DiInv, LinkHolds
<1>4. Undecided'
  BY DEF DiInv, Undecided
<1> QED  BY <1>2, <1>3, <1>4

LEMMA FewFacts ==
    ASSUME NEW f
    PROVE  /\ IsFiniteSet(RowsOf(f)) /\ IsFiniteSet(InsertersOf(f))
           /\ Cardinality(RowsOf(f)) \in Nat /\ Cardinality(InsertersOf(f)) \in Nat
           /\ IsFiniteSet(RowsOf(f)') /\ IsFiniteSet(InsertersOf(f)')
           /\ Cardinality(RowsOf(f)') \in Nat /\ Cardinality(InsertersOf(f)') \in Nat
           /\ Cardinality(InsertersOf(f)') <= Cardinality(Scanners) /\ Cardinality(Scanners) \in Nat
<1>1. /\ RowsOf(f) \subseteq Candidates /\ InsertersOf(f) \subseteq Scanners
      /\ RowsOf(f)' \subseteq Candidates /\ InsertersOf(f)' \subseteq Scanners
  BY DEF RowsOf, Rows, InsertersOf
<1>2. /\ IsFiniteSet(RowsOf(f)) /\ IsFiniteSet(InsertersOf(f)) /\ IsFiniteSet(RowsOf(f)') /\ IsFiniteSet(InsertersOf(f)')
      /\ Cardinality(InsertersOf(f)') <= Cardinality(Scanners)
  BY <1>1, DiFacts, FS_Subset
<1> QED  BY <1>2, DiFacts, FS_CardinalityType

LEMMA FewKept ==
    ASSUME DiInv, Rows' \subseteq Rows, land' = land,
           \A c \in Rows : cand'[c].fp = cand[c].fp,
           \A s \in Scanners : (scan'[s] # DiIdle /\ scan'[s].stage = "insert") => scan'[s] = scan[s]
    PROVE  \A f : FewOf(f)'
<1> SUFFICES ASSUME NEW f  PROVE FewOf(f)'
  OBVIOUS
<1>1. RowsOf(f)' \subseteq RowsOf(f)
  BY DEF RowsOf
<1>2. InsertersOf(f)' \subseteq InsertersOf(f)
  BY DEF InsertersOf, Scanning
<1>3. FewOf(f)
  BY DEF DiInv
<1>4. Cardinality(RowsOf(f)') <= Cardinality(RowsOf(f)) /\ Cardinality(InsertersOf(f)') <= Cardinality(InsertersOf(f))
  BY <1>1, <1>2, FewFacts, FS_Subset
<1>5. Cardinality(RowsOf(f)') \in Nat /\ Cardinality(InsertersOf(f)') \in Nat
  BY FewFacts
<1>6. /\ Cardinality(RowsOf(f)) \in Nat /\ Cardinality(InsertersOf(f)) \in Nat /\ Cardinality(Scanners) \in Nat
      /\ Cardinality(RowsOf(f)) + Cardinality(InsertersOf(f)) <= Cardinality(Scanners)
  BY <1>3, FewFacts DEF FewOf
<1> QED  BY <1>4, <1>5, <1>6 DEF FewOf

LEMMA FoundFacts ==
    ASSUME NEW s, NEW r
    PROVE  /\ IsFiniteSet(Closed(s)) /\ IsFiniteSet(Made(r, s))
           /\ Cardinality(Closed(s)) \in Nat /\ Cardinality(Made(r, s)) \in Nat
           /\ IsFiniteSet(Closed(s)') /\ IsFiniteSet(Made(r, s)')
           /\ Cardinality(Closed(s)') \in Nat /\ Cardinality(Made(r, s)') \in Nat
<1>1. /\ Closed(s) \subseteq Candidates /\ Made(r, s) \subseteq Candidates
      /\ Closed(s)' \subseteq Candidates /\ Made(r, s)' \subseteq Candidates
  BY DEF Closed, Made, Rows
<1>2. IsFiniteSet(Closed(s)) /\ IsFiniteSet(Made(r, s)) /\ IsFiniteSet(Closed(s)') /\ IsFiniteSet(Made(r, s)')
  BY <1>1, DiFacts, FS_Subset
<1> QED  BY <1>2, FS_CardinalityType

\* Rows stay where they came from, and completed runs completed.
LEMMA CountsKept ==
    ASSUME DiInv, \A c \in Rows : c \in Rows' /\ cand'[c].source = cand[c].source /\ madeBy'[c] = madeBy[c],
           \A r \in Runs : run[r] = "COMPLETED" => run'[r] = "COMPLETED",
           source' \in [DiSources -> SourceRow],
           \A s \in DiSources : source'[s].found = source[s].found \/ source'[s].found <= Cardinality(Closed(s)'),
           \A p \in Scanners : scan'[p] # DiIdle =>
               \/ /\ scan[p] # DiIdle /\ scan'[p].source = scan[p].source /\ scan'[p].run = scan[p].run
                  /\ scan'[p].found = scan[p].found
                  /\ scan'[p].seen \in {scan[p].seen, NoSource, source[scan[p].source]}
               \/ scan'[p].source \in DiSources /\ scan'[p].found = 0 /\ scan'[p].seen = source[scan'[p].source]
               \/ /\ scan'[p].seen \in {NoSource, source[scan'[p].source]}
                  /\ \A s, r : (scan'[p].source = s /\ scan'[p].run = r) => scan'[p].found <= Cardinality(Made(r, s)')
    PROVE  CountsOK'
<1>1. \A s : Closed(s) \subseteq Closed(s)'
  BY HandsTyped DEF Closed
<1>2. \A s, r : Made(r, s) \subseteq Made(r, s)'
  BY HandsTyped DEF Made
<1>3. ASSUME NEW s
      PROVE  /\ Cardinality(Closed(s)) <= Cardinality(Closed(s)')
             /\ Cardinality(Closed(s)) \in Nat /\ Cardinality(Closed(s)') \in Nat
  BY <1>1, FoundFacts, FS_Subset
<1>8. ASSUME NEW s, NEW r
      PROVE  /\ Cardinality(Made(r, s)) <= Cardinality(Made(r, s)')
             /\ Cardinality(Made(r, s)) \in Nat /\ Cardinality(Made(r, s)') \in Nat
  BY <1>2, FoundFacts, FS_Subset
<1>4. source \in [DiSources -> SourceRow] /\ \A s \in DiSources : source[s].found \in Nat
  BY DEF DiInv, DiTyped, SourceRow
<1>5. ASSUME NEW s \in DiSources  PROVE source[s].found <= Cardinality(Closed(s)')
  <2>1. source[s].found <= Cardinality(Closed(s))
    BY DEF DiInv, CountsOK
  <2> QED  BY <1>3, <1>4, <2>1
<1>6. ASSUME NEW p \in Scanners, NEW s \in DiSources, NEW r \in Runs,
             scan'[p] # DiIdle, scan'[p].source = s, scan'[p].run = r
      PROVE  /\ scan'[p].found <= Cardinality(Made(r, s)')
             /\ scan'[p].seen # NoSource => scan'[p].seen.found <= Cardinality(Closed(s)')
  <2>1. CASE /\ scan[p] # DiIdle /\ scan'[p].source = scan[p].source /\ scan'[p].run = scan[p].run
             /\ scan'[p].found = scan[p].found
             /\ scan'[p].seen \in {scan[p].seen, NoSource, source[scan[p].source]}
    <3>1. IsScan(scan[p], AgentRows, diNow)
      BY <2>1, HandsTyped DEF Scanning
    <3>2. scan[p].found \in Nat /\ (scan[p].seen # NoSource => scan[p].seen.found \in Nat)
      BY <3>1 DEF IsScan, SourceRow
    <3>3. /\ scan[p].found <= Cardinality(Made(r, s))
          /\ scan[p].seen # NoSource => scan[p].seen.found <= Cardinality(Closed(s))
      BY <1>6, <2>1 DEF DiInv, CountsOK, Scanning
    <3>4. scan[p].found <= Cardinality(Made(r, s)')
      BY <1>8, <3>2, <3>3
    <3>5. scan[p].seen # NoSource => scan[p].seen.found <= Cardinality(Closed(s)')
      BY <1>3, <3>2, <3>3
    <3> QED  BY <1>5, <1>6, <2>1, <3>4, <3>5
  <2>2. CASE scan'[p].source \in DiSources /\ scan'[p].found = 0 /\ scan'[p].seen = source[scan'[p].source]
    <3>1. 0 <= Cardinality(Made(r, s)')
      BY <1>8
    <3> QED  BY <1>5, <1>6, <2>2, <3>1
  <2>3. CASE /\ scan'[p].seen \in {NoSource, source[scan'[p].source]}
             /\ \A x, q : (scan'[p].source = x /\ scan'[p].run = q) => scan'[p].found <= Cardinality(Made(q, x)')
    <3>1. scan'[p].found <= Cardinality(Made(r, s)')
      BY <1>6, <2>3
    <3>2. scan'[p].seen # NoSource => scan'[p].seen = source[s]
      BY <1>6, <2>3
    <3> QED  BY <1>5, <3>1, <3>2
  <2> QED  BY <1>6, <2>1, <2>2, <2>3
<1>7. ASSUME NEW s \in DiSources  PROVE source'[s].found <= Cardinality(Closed(s)')
  BY <1>5
<1> QED  BY <1>6, <1>7 DEF CountsOK, Scanning

LEMMA SourceKept ==
    ASSUME DiInv, diRaced \subseteq diRaced', source' = source, outcome' = outcome,
           \A p \in Scanners : scan'[p] # DiIdle =>
               /\ scan[p] # DiIdle /\ scan'[p].source = scan[p].source
               /\ scan'[p].seen \in {scan[p].seen, NoSource, source[scan[p].source]}
    PROVE  SourceOK' /\ SourceTellsLastRun'
<1>1. SourceOK'
  BY DEF DiInv, SourceOK, Scanning
<1>2. SourceTellsLastRun'
  BY DEF DiInv, SourceTellsLastRun
<1> QED  BY <1>1, <1>2

-----------------------------------------------------------------------------
(* The steps of Discovery, one by one.                                     *)

LEMMA Tags ==
    ASSUME NEW a, NEW b
    PROVE  /\ <<"source", a>> # <<"candidate", b>>
           /\ <<"source", a>> = <<"source", b>> <=> a = b
           /\ <<"candidate", a>> = <<"candidate", b>> <=> a = b
  OBVIOUS

\* A record keeps its shape when fields of it change.
LEMMA ScanFields ==
    ASSUME NEW o, ScanShape(o)
    PROVE  /\ DOMAIN o = {"stage", "source", "run", "now", "at", "pending", "inserting", "found", "seen"}
           /\ \A d : d = [f \in DOMAIN o |-> d[f]] => ScanShape(d)
<1>1. DOMAIN o = {"stage", "source", "run", "now", "at", "pending", "inserting", "found", "seen"}
  BY DEF ScanShape
<1>2. ASSUME NEW d, d = [f \in DOMAIN o |-> d[f]]  PROVE ScanShape(d)
  BY <1>1, <1>2 DEF ScanShape
<1> QED  BY <1>1, <1>2

LEMMA ScanPut ==
    ASSUME DiInv, NEW s \in Scanners, NEW d, scan' = [scan EXCEPT ![s] = d]
    PROVE  /\ scan' = [q \in Scanners |-> scan'[q]] /\ scan'[s] = d
           /\ \A q \in Scanners \ {s} : scan'[q] = scan[q]
<1>1. scan = [q \in Scanners |-> scan[q]]
  BY DEF DiInv, DiTyped
<1> QED  BY <1>1

LEMMA PersonPut ==
    ASSUME DiInv, NEW p \in People, NEW d, person' = [person EXCEPT ![p] = d]
    PROVE  /\ person' = [q \in People |-> person'[q]] /\ person'[p] = d
           /\ \A q \in People \ {p} : person'[q] = person[q]
<1>1. person = [q \in People |-> person[q]]
  BY DEF DiInv, DiTyped
<1> QED  BY <1>1

LEMMA DiSame ==
    ASSUME DiInv
    PROVE  /\ land \in Lands /\ diNow \in Nat /\ diNow <= diNow
           /\ source \in [DiSources -> SourceRow] /\ run \in [Runs -> DiscoveryRunStatus \cup {"none"}]
           /\ alarm \in [Candidates -> {"none", "owed", "raised"}]
           /\ outcome \in [DiSources -> {"none", "COMPLETED", "FAILED"}]
           /\ cand = [c \in Candidates |-> cand[c]] /\ diAgent = [a \in DiAgents |-> diAgent[a]]
           /\ scan = [s \in Scanners |-> scan[s]] /\ person = [p \in People |-> person[p]]
           /\ madeBy = [c \in Candidates |-> madeBy[c]]
           /\ verdict = [c \in Candidates |-> verdict[c]] /\ linked = [c \in Candidates |-> linked[c]]
           /\ \A c \in Rows : Heir(cand[c], cand[c])
  BY DEF DiInv, DiTyped, Heir

\* A step of one scan that looks around: what it holds, and the rest, stays.
LEMMA ScanLooks ==
    ASSUME DiInv, NEW s \in Scanners, Scanning(s), NEW d, scan' = [scan EXCEPT ![s] = d],
           UNCHANGED <<diNow, source, run, cand, diAgent, person, alarm, madeBy, outcome, verdict, linked, diRaced, died, land>>,
           IsScan(d, AgentRows, diNow), d.source = scan[s].source, d.run = scan[s].run, d.found = scan[s].found,
           d.pending = scan[s].pending, d.seen \in {scan[s].seen, source[scan[s].source]},
           d.stage = "insert" => RowsOf(land.reports[d.source][d.at].fp) = {}
    PROVE  DiInv'
<1>1. /\ scan' = [q \in Scanners |-> scan'[q]] /\ scan'[s] = d /\ \A q \in Scanners \ {s} : scan'[q] = scan[q]
  BY ScanPut
<1>2. scan[s] # DiIdle /\ d # DiIdle
  BY DiNone DEF Scanning, IsScan
<1>3. AgentRows' = AgentRows /\ Rows' = Rows
  BY DEF AgentRows, Rows
<1>4. DiTyped'
  BY <1>1, <1>3, DiSame, HandsTyped, TypedKept
<1>5. RunOK'
  BY <1>1, <1>2, RunKept
<1>6. CompletedRunsAlerted'
  BY <1>3, AlarmKept
<1>7. CopiesOK'
  BY <1>1, <1>2, <1>3, DiSame, CopiesKept
<1>8. AloneOK'
  BY <1>1, <1>2, AloneKept
<1>9. VerdictHolds' /\ LinkHolds' /\ Undecided'
  BY <1>3, DiSame, VerdictKept
<1>10. \A f : FewOf(f)'
  <2>1. CASE d.stage # "insert"
    BY <1>1, <1>3, <2>1, FewKept
  <2>2. ASSUME d.stage = "insert", NEW f  PROVE FewOf(f)'
    <3>1. RowsOf(f)' = RowsOf(f)
      BY <1>3 DEF RowsOf
    <3>2. CASE land.reports[d.source][d.at].fp = f
      <4>1. RowsOf(f)' = {}
        BY <2>2, <3>1, <3>2
      <4>2. Cardinality(RowsOf(f)') = 0
        BY <4>1, FS_EmptySet
      <4> QED  BY <4>2, FewFacts DEF FewOf
    <3>3. CASE land.reports[d.source][d.at].fp # f
      <4>1. InsertersOf(f)' \subseteq InsertersOf(f)
        BY <1>1, <3>3 DEF InsertersOf, Scanning
      <4>2. Cardinality(InsertersOf(f)') <= Cardinality(InsertersOf(f))
        BY <4>1, FewFacts, FS_Subset
      <4>3. FewOf(f)
        BY DEF DiInv
      <4> QED  BY <3>1, <4>2, <4>3, FewFacts DEF FewOf
    <3> QED  BY <3>2, <3>3
  <2> QED  BY <2>1, <2>2
<1>11. CountsOK'
  BY <1>1, <1>2, <1>3, DiSame, CountsKept
<1>12. SourceOK' /\ SourceTellsLastRun'
  BY <1>1, <1>2, SourceKept
<1> QED  BY <1>4, <1>5, <1>6, <1>7, <1>8, <1>9, <1>10, <1>11, <1>12 DEF DiInv

LEMMA ScanOK ==
    ASSUME DiInv, NEW s \in Scanners, Scan(s)
    PROVE  DiInv'
<1> DEFINE d == [scan[s] EXCEPT !.stage = "examine"]
<1>1. Scanning(s) /\ IsScan(scan[s], AgentRows, diNow)
  BY HandsTyped DEF Scan
<1>2. d = [stage |-> "examine", source |-> scan[s].source, run |-> scan[s].run, now |-> scan[s].now, at |-> scan[s].at,
           pending |-> scan[s].pending, inserting |-> scan[s].inserting, found |-> scan[s].found, seen |-> scan[s].seen]
  BY <1>1 DEF IsScan, ScanShape
<1>3. scan' = [scan EXCEPT ![s] = d]
  BY DEF Scan
<1> HIDE DEF d
<1>4. IsScan(d, AgentRows, diNow)
  BY <1>1, <1>2 DEF IsScan, ScanShape
<1>5. /\ d.source = scan[s].source /\ d.run = scan[s].run /\ d.found = scan[s].found
      /\ d.pending = scan[s].pending /\ d.seen = scan[s].seen /\ d.stage # "insert"
  BY <1>2
<1>6. UNCHANGED <<diNow, source, run, cand, diAgent, person, alarm, madeBy, outcome, verdict, linked, diRaced, died, land>>
  BY DEF Scan
<1> QED  BY <1>1, <1>3, <1>4, <1>5, <1>6, ScanLooks

LEMMA TallyOK ==
    ASSUME DiInv, NEW s \in Scanners, Tally(s)
    PROVE  DiInv'
<1>1. Scanning(s) /\ IsScan(scan[s], AgentRows, diNow)
  BY HandsTyped DEF Tally
<1>2. PICK read : read = IF scan[s].seen = NoSource THEN source[scan[s].source] ELSE scan[s].seen
  OBVIOUS
<1> DEFINE d == [scan[s] EXCEPT !.stage = "complete", !.seen = read]
<1>3. scan' = [scan EXCEPT ![s] = d]
  BY <1>2 DEF Tally
<1>4. DOMAIN scan[s] = {"stage", "source", "run", "now", "at", "pending", "inserting", "found", "seen"}
  BY <1>1 DEF IsScan, ScanShape
<1>5. /\ d.stage = "complete" /\ d.source = scan[s].source /\ d.run = scan[s].run /\ d.now = scan[s].now
      /\ d.at = scan[s].at /\ d.pending = scan[s].pending /\ d.inserting = scan[s].inserting
      /\ d.found = scan[s].found /\ d.seen = read
  BY <1>4
<1>6. d = [f \in DOMAIN scan[s] |-> d[f]]
  BY <1>4
<1>7. ScanShape(d)
  BY <1>1, <1>6, ScanFields DEF IsScan
<1>8. read \in SourceRow /\ read \in {scan[s].seen, source[scan[s].source]}
  <2>1. source[scan[s].source] \in SourceRow
    BY <1>1, DiSame DEF IsScan
  <2> QED  BY <1>1, <1>2, <2>1 DEF IsScan
<1> HIDE DEF d
<1>9. read # NoSource
  BY <1>8, DiNone
<1>10. IsScan(d, AgentRows, diNow)
  BY <1>1, <1>5, <1>8, <1>9, <1>7 DEF IsScan
<1>11. /\ d.source = scan[s].source /\ d.run = scan[s].run /\ d.found = scan[s].found
      /\ d.pending = scan[s].pending /\ d.seen = read /\ d.stage # "insert"
  BY <1>5
<1>12. UNCHANGED <<diNow, source, run, cand, diAgent, person, alarm, madeBy, outcome, verdict, linked, diRaced, died, land>>
  BY DEF Tally
<1> QED  BY <1>1, <1>3, <1>8, <1>10, <1>11, <1>12, ScanLooks

LEMMA DiTickOK ==
    ASSUME DiInv, DiTick
    PROVE  DiInv'
<1>1. /\ diNow' \in Nat /\ diNow <= diNow'
      /\ UNCHANGED <<source, run, cand, diAgent, scan, person, alarm, madeBy, outcome, verdict, linked, diRaced, died, land>>
  BY DiSame DEF DiTick
<1>3. AgentRows' = AgentRows /\ Rows' = Rows
  BY <1>1 DEF AgentRows, Rows
<1>4. DiTyped'
  BY <1>1, <1>3, DiSame, TypedKept
<1>5. RunOK'
  BY <1>1, RunKept
<1>6. CompletedRunsAlerted'
  BY <1>1, <1>3, AlarmKept
<1>7. CopiesOK'
  BY <1>1, <1>3, DiSame, CopiesKept
<1>8. AloneOK'
  BY <1>1, AloneKept
<1>9. VerdictHolds' /\ LinkHolds' /\ Undecided'
  BY <1>1, <1>3, VerdictKept
<1>10. \A f : FewOf(f)'
  BY <1>1, <1>3, FewKept
<1>11. CountsOK'
  BY <1>1, <1>3, DiSame, CountsKept
<1>12. SourceOK' /\ SourceTellsLastRun'
  BY <1>1, SourceKept
<1> QED  BY <1>4, <1>5, <1>6, <1>7, <1>8, <1>9, <1>10, <1>11, <1>12 DEF DiInv

\* A session is lost: what it held is let go, and its run stays as it is.
LEMMA DieOK ==
    ASSUME DiInv, NEW s \in Scanners, Die(s)
    PROVE  DiInv'
<1>1. /\ Scanning(s) /\ scan' = [scan EXCEPT ![s] = DiIdle] /\ died' = died \cup {scan[s].run}
      /\ UNCHANGED <<diNow, source, run, cand, diAgent, person, alarm, madeBy, outcome, verdict, linked, diRaced, land>>
  BY DEF Die
<1>2. /\ scan' = [q \in Scanners |-> scan'[q]] /\ scan'[s] = DiIdle /\ \A q \in Scanners \ {s} : scan'[q] = scan[q]
  BY <1>1, ScanPut
<1>3. AgentRows' = AgentRows /\ Rows' = Rows
  BY <1>1 DEF AgentRows, Rows
<1>4. DiTyped'
  BY <1>1, <1>2, <1>3, DiSame, TypedKept
<1>5. RunOK'
  BY <1>1, <1>2 DEF DiInv, RunOK, RunsClosed, Scanning
<1>6. CompletedRunsAlerted'
  BY <1>1, <1>3, AlarmKept
<1>7. CopiesOK'
  BY <1>1, <1>2, <1>3, DiSame, CopiesKept
<1>8. AloneOK'
  BY <1>1, <1>2, AloneKept
<1>9. VerdictHolds' /\ LinkHolds' /\ Undecided'
  BY <1>1, <1>3, DiSame, VerdictKept
<1>10. \A f : FewOf(f)'
  BY <1>1, <1>2, <1>3, FewKept
<1>11. CountsOK'
  BY <1>1, <1>2, <1>3, DiSame, CountsKept
<1>12. SourceOK' /\ SourceTellsLastRun'
  BY <1>1, <1>2, SourceKept
<1> QED  BY <1>4, <1>5, <1>6, <1>7, <1>8, <1>9, <1>10, <1>11, <1>12 DEF DiInv

\* A row of sources after a commit.
LEMMA FlushSource ==
    ASSUME NEW r \in SourceRow, NEW l \in SourceRow, NEW e \in SourceRow, NEW n, n = Flush(r, l, e)
    PROVE  /\ n \in SourceRow /\ (l = r => n = e)
           /\ n.found = IF e.found = l.found THEN r.found ELSE e.found
<1>1. DOMAIN r = {"status", "error", "found"}
  BY DEF SourceRow
<1>2. /\ n.status = IF e.status = l.status THEN r.status ELSE e.status
      /\ n.error = IF e.error = l.error THEN r.error ELSE e.error
      /\ n.found = IF e.found = l.found THEN r.found ELSE e.found
      /\ n = [status |-> n.status, error |-> n.error, found |-> n.found]
  BY <1>1 DEF Flush
<1>3. n.status \in DiscoverySourceStatus /\ n.found \in Nat
      /\ n.error \in {"none", "CREDENTIAL_RETRIEVAL_FAILED", "SCAN_EXECUTION_ERROR"}
  BY <1>2 DEF SourceRow
<1>4. n \in SourceRow
  BY <1>2, <1>3 DEF SourceRow
<1>5. ASSUME l = r  PROVE n = e
  <2>1. n.status = e.status /\ n.error = e.error /\ n.found = e.found
    BY <1>2, <1>5
  <2> QED  BY <1>4, <2>1 DEF SourceRow
<1> QED  BY <1>2, <1>4, <1>5

LEMMA StartRunOK ==
    ASSUME DiInv, NEW s \in Scanners, NEW src \in DOMAIN land.reports, StartRun(s, src)
    PROVE  DiInv'
<1>1. PICK r \in Runs :
        /\ run[r] = "none" /\ run' = [run EXCEPT ![r] = "RUNNING"]
        /\ scan' = [scan EXCEPT ![s] =
              [stage |-> "credential", source |-> src, run |-> r, now |-> diNow, at |-> 1, pending |-> {},
               inserting |-> NoMatch, found |-> 0, seen |-> source[src]]]
  BY DEF StartRun
<1>2. /\ scan[s] = DiIdle
      /\ UNCHANGED <<diNow, source, cand, diAgent, person, alarm, madeBy, outcome, verdict, linked, died, land>>
      /\ diRaced \subseteq diRaced'
      /\ (\E t \in Scanners : Scanning(t) /\ scan[t].source = src) => <<"source", src>> \in diRaced'
  BY DEF StartRun, Scanning
<1>3. src \in DiSources
  BY DiSame, DiFacts
<1> DEFINE d == [stage |-> "credential", source |-> src, run |-> r, now |-> diNow, at |-> 1, pending |-> {},
                 inserting |-> NoMatch, found |-> 0, seen |-> source[src]]
<1>4. /\ scan' = [q \in Scanners |-> scan'[q]] /\ scan'[s] = d /\ \A q \in Scanners \ {s} : scan'[q] = scan[q]
  BY <1>1, ScanPut
<1>5. IsScan(d, AgentRows, diNow)
  <2>1. d.seen \in SourceRow /\ d.now \in 0..diNow
    BY <1>3, DiSame
  <2>2. Matched(d.inserting.agent, d.inserting.type, AgentRows)
    BY DEF Matched, NoMatch
  <2>3. ScanShape(d)
    BY DEF ScanShape
  <2>4. d.seen # NoSource
    BY <2>1, DiNone
  <2> QED  BY <1>3, <2>1, <2>2, <2>3, <2>4 DEF IsScan
<1>6. /\ d # DiIdle /\ d.stage = "credential" /\ d.source = src /\ d.run = r /\ d.pending = {} /\ d.found = 0
      /\ d.seen = source[src]
  BY <1>5, DiNone DEF IsScan
<1> HIDE DEF d
<1>7. AgentRows' = AgentRows /\ Rows' = Rows
  BY <1>2 DEF AgentRows, Rows
<1>8. /\ run' \in [Runs -> DiscoveryRunStatus \cup {"none"}] /\ run'[r] = "RUNNING"
      /\ \A q \in Runs \ {r} : run'[q] = run[q]
  BY <1>1, DiSame DEF DiscoveryRunStatus
<1>9. DiTyped'
  <2>1. \A q \in Scanners : scan'[q] # DiIdle => scan'[q] = scan[q] \/ IsScan(scan'[q], AgentRows', diNow')
    BY <1>2, <1>4, <1>5, <1>7
  <2> QED  BY <1>2, <1>4, <1>7, <1>8, <2>1, DiSame, TypedKept
<1>10. RunOK'
  <2>1. \A q \in Scanners : scan[q] # DiIdle => scan[q].run # r /\ scan[q].run \in Runs
    BY <1>1, HandsTyped DEF DiInv, RunOK, Scanning, IsScan
  <2> QED  BY <1>2, <1>4, <1>6, <1>8, <2>1 DEF DiInv, RunOK, RunsClosed, Scanning
<1>11. CompletedRunsAlerted'
  BY <1>2, <1>7, <1>8, AlarmKept
<1>12. CopiesOK'
  BY <1>2, <1>4, <1>6, <1>7, DiSame, CopiesKept
<1>13. AloneOK'
  BY <1>2, <1>4, <1>6, AloneKept
<1>14. VerdictHolds' /\ LinkHolds' /\ Undecided'
  BY <1>2, <1>7, DiSame, VerdictKept
<1>15. \A f : FewOf(f)'
  BY <1>2, <1>4, <1>6, <1>7, FewKept
<1>16. CountsOK'
  <2>1. \A q \in Runs : run[q] = "COMPLETED" => run'[q] = "COMPLETED"
    BY <1>1, <1>8
  <2>2. \A p \in Scanners : scan'[p] # DiIdle =>
            \/ scan[p] # DiIdle /\ scan'[p] = scan[p]
            \/ scan'[p].source \in DiSources /\ scan'[p].found = 0 /\ scan'[p].seen = source[scan'[p].source]
    BY <1>3, <1>4, <1>6
  <2> QED  BY <1>2, <1>7, <2>1, <2>2, DiSame, CountsKept
<1>17. SourceOK'
  <2> SUFFICES ASSUME NEW x \in DiSources, <<"source", x>> \notin diRaced'
               PROVE  /\ \A p, q \in Scanners :
                            (scan'[p] # DiIdle /\ scan'[q] # DiIdle /\ scan'[p].source = x /\ scan'[q].source = x) => p = q
                      /\ \A p \in Scanners : (scan'[p] # DiIdle /\ scan'[p].source = x /\ scan'[p].seen # NoSource) =>
                            scan'[p].seen = source[x]
    BY <1>2 DEF SourceOK, Scanning
  <2>1. /\ \A p, q \in Scanners :
              (scan[p] # DiIdle /\ scan[q] # DiIdle /\ scan[p].source = x /\ scan[q].source = x) => p = q
        /\ \A p \in Scanners : (scan[p] # DiIdle /\ scan[p].source = x /\ scan[p].seen # NoSource) =>
              scan[p].seen = source[x]
    BY <1>2 DEF DiInv, SourceOK, Scanning
  <2>2. x = src => \A t \in Scanners : scan[t] # DiIdle => scan[t].source # src
    BY <1>2 DEF Scanning
  <2> QED  BY <1>4, <1>6, <2>1, <2>2
<1>18. SourceTellsLastRun'
  BY <1>2 DEF DiInv, SourceTellsLastRun
<1> QED  BY <1>9, <1>10, <1>11, <1>12, <1>13, <1>14, <1>15, <1>16, <1>17, <1>18 DEF DiInv

\* What the end of a scan leaves to say of its source and of the others.
LEMMA SourceSettled ==
    ASSUME DiInv, NEW s \in Scanners, Scanning(s), scan[s].seen # NoSource, NEW e \in SourceRow, NEW o,
           source' = [source EXCEPT ![scan[s].source] = Flush(source[scan[s].source], scan[s].seen, e)],
           outcome' = [outcome EXCEPT ![scan[s].source] = o], diRaced' = diRaced,
           scan' = [scan EXCEPT ![s] = DiIdle],
           \/ o = "COMPLETED" /\ e.status = "ACTIVE" /\ e.error = "none"
           \/ o = "FAILED" /\ e.status = "ERROR" /\ e.error # "none"
    PROVE  /\ source' \in [DiSources -> SourceRow] /\ outcome' \in [DiSources -> {"none", "COMPLETED", "FAILED"}]
           /\ SourceOK' /\ SourceTellsLastRun'
           /\ \A x \in DiSources \ {scan[s].source} : source'[x] = source[x]
           /\ source'[scan[s].source].found =
                IF e.found = scan[s].seen.found THEN source[scan[s].source].found ELSE e.found
<1>1. scan[s].source \in DiSources /\ scan[s].seen \in SourceRow
  BY HandsTyped DEF IsScan
<1>2. PICK src \in DiSources : src = scan[s].source
  BY <1>1
<1>3. PICK new : new = Flush(source[src], scan[s].seen, e)
  OBVIOUS
<1>4. source[src] \in SourceRow
  BY DiSame
<1>5. /\ new \in SourceRow /\ (scan[s].seen = source[src] => new = e)
      /\ new.found = IF e.found = scan[s].seen.found THEN source[src].found ELSE e.found
  BY <1>1, <1>3, <1>4, FlushSource
<1>6. /\ source' \in [DiSources -> SourceRow] /\ source'[src] = new
      /\ \A x \in DiSources \ {src} : source'[x] = source[x]
  BY <1>2, <1>3, <1>5, DiSame
<1>7. /\ outcome' \in [DiSources -> {"none", "COMPLETED", "FAILED"}] /\ outcome'[src] = o
      /\ \A x \in DiSources \ {src} : outcome'[x] = outcome[x]
  BY <1>2, DiSame
<1>8. /\ scan'[s] = DiIdle /\ \A q \in Scanners \ {s} : scan'[q] = scan[q]
  BY ScanPut
<1>9. ASSUME NEW x \in DiSources, <<"source", x>> \notin diRaced
      PROVE  /\ \A p, q \in Scanners :
                   (scan[p] # DiIdle /\ scan[q] # DiIdle /\ scan[p].source = x /\ scan[q].source = x) => p = q
             /\ \A p \in Scanners : (scan[p] # DiIdle /\ scan[p].source = x /\ scan[p].seen # NoSource) =>
                   scan[p].seen = source[x]
  BY <1>9 DEF DiInv, SourceOK, Scanning
<1>10. SourceOK'
  <2> SUFFICES ASSUME NEW x \in DiSources, <<"source", x>> \notin diRaced
               PROVE  /\ \A p, q \in Scanners :
                            (scan'[p] # DiIdle /\ scan'[q] # DiIdle /\ scan'[p].source = x /\ scan'[q].source = x) => p = q
                      /\ \A p \in Scanners : (scan'[p] # DiIdle /\ scan'[p].source = x /\ scan'[p].seen # NoSource) =>
                            scan'[p].seen = source'[x]
    BY DEF SourceOK, Scanning
  <2>1. CASE x # src
    BY <1>6, <1>8, <1>9, <2>1
  <2>2. CASE x = src
    <3>1. \A p \in Scanners : scan'[p] # DiIdle => scan'[p].source # x
      BY <1>2, <1>8, <1>9, <2>2 DEF Scanning
    <3> QED  BY <3>1
  <2> QED  BY <2>1, <2>2
<1>11. SourceTellsLastRun'
  <2> SUFFICES ASSUME NEW x \in DiSources, <<"source", x>> \notin diRaced
               PROVE  /\ source'[x].status = [none |-> "CONFIGURED", COMPLETED |-> "ACTIVE", FAILED |-> "ERROR"][outcome'[x]]
                      /\ source'[x].error # "none" <=> outcome'[x] = "FAILED"
    BY DEF SourceTellsLastRun
  <2>1. CASE x # src
    BY <1>6, <1>7, <2>1 DEF DiInv, SourceTellsLastRun
  <2>2. CASE x = src
    <3>1. new = e
      BY <1>2, <1>5, <1>9, <2>2 DEF Scanning
    <3> QED  BY <1>6, <1>7, <2>2, <3>1
  <2> QED  BY <2>1, <2>2
<1> QED  BY <1>2, <1>5, <1>6, <1>7, <1>10, <1>11

LEMMA FailRunOK ==
    ASSUME DiInv, NEW s \in Scanners, Scanning(s), scan[s].stage = "credential",
           NEW code \in {"CREDENTIAL_RETRIEVAL_FAILED", "SCAN_EXECUTION_ERROR"}, FailRun(s, code)
    PROVE  DiInv'
<1>1. PICK e : e = [scan[s].seen EXCEPT !.status = "ERROR", !.error = code]
  OBVIOUS
<1>2. IsScan(scan[s], AgentRows, diNow) /\ scan[s].seen \in SourceRow /\ scan[s].run \in Runs /\ scan[s].source \in DiSources
      /\ scan[s].seen # NoSource
  BY HandsTyped DEF IsScan
<1>3. e \in SourceRow /\ e.status = "ERROR" /\ e.error = code /\ e.found = scan[s].seen.found
  BY <1>1, <1>2 DEF SourceRow, DiscoverySourceStatus
<1>4. /\ source' = [source EXCEPT ![scan[s].source] = Flush(source[scan[s].source], scan[s].seen, e)]
      /\ run' = [run EXCEPT ![scan[s].run] = "FAILED"]
      /\ outcome' = [outcome EXCEPT ![scan[s].source] = "FAILED"]
      /\ scan' = [scan EXCEPT ![s] = DiIdle]
      /\ UNCHANGED <<diNow, cand, diAgent, person, alarm, madeBy, verdict, linked, diRaced, died, land>>
  BY <1>1 DEF FailRun, FailedSource
<1>5. /\ source' \in [DiSources -> SourceRow] /\ outcome' \in [DiSources -> {"none", "COMPLETED", "FAILED"}]
      /\ SourceOK' /\ SourceTellsLastRun'
      /\ \A x \in DiSources \ {scan[s].source} : source'[x] = source[x]
      /\ source'[scan[s].source].found = source[scan[s].source].found
  BY <1>2, <1>3, <1>4, SourceSettled
<1>6. \A x \in DiSources : source'[x].found = source[x].found
  BY <1>5
<1>7. /\ scan' = [q \in Scanners |-> scan'[q]] /\ scan'[s] = DiIdle /\ \A q \in Scanners \ {s} : scan'[q] = scan[q]
  BY <1>4, ScanPut
<1>8. AgentRows' = AgentRows /\ Rows' = Rows
  BY <1>4 DEF AgentRows, Rows
<1>9. /\ run' \in [Runs -> DiscoveryRunStatus \cup {"none"}] /\ run'[scan[s].run] = "FAILED" /\ run[scan[s].run] = "RUNNING"
      /\ \A q \in Runs \ {scan[s].run} : run'[q] = run[q]
  BY <1>2, <1>4, DiSame DEF DiscoveryRunStatus, DiInv, RunOK
<1>10. DiTyped'
  BY <1>4, <1>5, <1>7, <1>8, <1>9, DiSame, TypedKept
<1>11. RunOK'
  <2>1. \A q \in Scanners \ {s} : scan[q] # DiIdle => scan[q].run # scan[s].run /\ scan[q].run \in Runs
    BY HandsTyped DEF DiInv, RunOK, Scanning, IsScan
  <2> QED  BY <1>2, <1>4, <1>7, <1>9, <2>1 DEF DiInv, RunOK, RunsClosed, Scanning
<1>12. CompletedRunsAlerted'
  BY <1>4, <1>8, <1>9, AlarmKept
<1>13. CopiesOK'
  BY <1>4, <1>7, <1>8, DiSame, CopiesKept
<1>14. AloneOK'
  BY <1>4, <1>7, AloneKept
<1>15. VerdictHolds' /\ LinkHolds' /\ Undecided'
  BY <1>4, <1>8, DiSame, VerdictKept
<1>16. \A f : FewOf(f)'
  BY <1>4, <1>7, <1>8, FewKept
<1>17. CountsOK'
  <2>1. \A q \in Runs : run[q] = "COMPLETED" => run'[q] = "COMPLETED"
    BY <1>9
  <2> QED  BY <1>4, <1>5, <1>6, <1>7, <1>8, <2>1, DiSame, CountsKept
<1> QED  BY <1>5, <1>10, <1>11, <1>12, <1>13, <1>14, <1>15, <1>16, <1>17 DEF DiInv

\* A commit of a scan leaves in each row what the scan made of it, unless another has written it since.
LEMMA WrittenFacts ==
    ASSUME DiInv, NEW s \in Scanners, Scanning(s), NEW c \in Candidates, NEW n, n = Written(s, cand)[c]
    PROVE  /\ ~HeldByScan(s, c) => n = cand[c]
           /\ c \notin Rows => ~HeldByScan(s, c)
           /\ c \in Rows => IsCand(n, AgentRows) /\ Heir(cand[c], n)
           /\ (c \in Rows /\ <<"candidate", c>> \notin diRaced) => SeenEdit(cand[c], n, diNow)
<1>1. CASE ~HeldByScan(s, c)
  <2>1. n = cand[c]
    BY <1>1 DEF Written
  <2>2. c \in Rows => IsCand(cand[c], AgentRows)
    BY HandsTyped
  <2>3. c \in Rows => SeenEdit(cand[c], cand[c], diNow) /\ Heir(cand[c], cand[c])
    BY DEF SeenEdit, Heir
  <2> QED  BY <1>1, <2>1, <2>2, <2>3
<1>2. CASE HeldByScan(s, c)
  <2>1. PICK q : q = CHOOSE x \in scan[s].pending : x.id = c
    OBVIOUS
  <2>2. q \in scan[s].pending /\ q.id = c
    BY <1>2, <2>1 DEF HeldByScan
  <2>3. n = Flush(cand[c], q.row, q.edited)
    BY <1>2, <2>1 DEF Written
  <2>4. Copy(c, q.row, AgentRows) /\ IsCand(q.edited, AgentRows) /\ SeenEdit(q.row, q.edited, diNow)
    BY <2>2 DEF DiInv, CopiesOK
  <2>5. c \in Rows /\ IsCand(q.row, AgentRows) /\ Heir(q.row, cand[c]) /\ Heir(q.row, q.edited)
    BY <2>4 DEF Copy, SeenEdit
  <2>6. IsCand(cand[c], AgentRows)
    BY <2>5, HandsTyped
  <2>7. NoAgent \notin AgentRows
    BY AgentsFacts DEF DiInv
  <2>8. IsCand(n, AgentRows) /\ Heir(cand[c], n) /\ (q.row = cand[c] => n = q.edited)
    BY <2>3, <2>4, <2>5, <2>6, <2>7, FlushCand
  <2>9. <<"candidate", c>> \notin diRaced => q.row = cand[c]
    BY <2>2 DEF DiInv, AloneOK, Alone
  <2> QED  BY <1>2, <2>4, <2>5, <2>8, <2>9
<1> QED  BY <1>1, <1>2

\* What a scan makes of a row that is in no other hand respects what a person decided about it.
LEMMA SeenVerdict ==
    ASSUME DiInv, NEW c \in Rows, <<"candidate", c>> \notin diRaced, NEW n, SeenEdit(cand[c], n, diNow)
    PROVE  /\ verdict[c] = "FALSE_POSITIVE" => n.status \in {"FALSE_POSITIVE", "MATCHED"}
           /\ verdict[c] \in {"MATCHED", "REGISTERED"} => n.status = verdict[c]
           /\ verdict[c] = "IGNORED" /\ diNow <= n.until => n.status \in {"IGNORED", "MATCHED"}
           /\ linked[c] # NoAgent => n.agent = linked[c]
<1>1. /\ verdict[c] = "FALSE_POSITIVE" => cand[c].status \in {"FALSE_POSITIVE", "MATCHED"}
      /\ verdict[c] \in {"MATCHED", "REGISTERED"} => cand[c].status = verdict[c]
      /\ verdict[c] = "IGNORED" /\ diNow <= cand[c].until => cand[c].status \in {"IGNORED", "MATCHED"}
  BY DEF DiInv, VerdictHolds
<1>2. linked[c] # NoAgent => cand[c].agent = linked[c]
  BY DEF DiInv, LinkHolds
<1>3. IsCand(cand[c], AgentRows) /\ diNow \in Nat
  BY HandsTyped
<1>4. cand[c].until \in Nat /\ (cand[c].status \in {"MATCHED", "REGISTERED"} => cand[c].agent # NoAgent)
  BY <1>3 DEF IsCand
<1>5. /\ n.until = cand[c].until /\ (cand[c].agent # NoAgent => n.agent = cand[c].agent)
      /\ \/ n.status = cand[c].status
         \/ n.status = "MATCHED" /\ cand[c].agent = NoAgent
         \/ cand[c].status = "IGNORED" /\ cand[c].until < diNow
  BY DEF SeenEdit
<1>6. linked[c] # NoAgent => n.agent = linked[c]
  BY <1>2, <1>5
<1>7. verdict[c] = "FALSE_POSITIVE" => n.status \in {"FALSE_POSITIVE", "MATCHED"}
  BY <1>1, <1>5
<1>8. verdict[c] \in {"MATCHED", "REGISTERED"} => n.status = verdict[c]
  BY <1>1, <1>4, <1>5
<1>9. verdict[c] = "IGNORED" /\ diNow <= n.until => n.status \in {"IGNORED", "MATCHED"}
  BY <1>1, <1>3, <1>4, <1>5
<1> QED  BY <1>6, <1>7, <1>8, <1>9

\* A commit of a scan, with the new row it may insert, as the rows and those who hold them see it.
LEMMA WrittenKept ==
    ASSUME DiInv, NEW s \in Scanners, Scanning(s), Rows \subseteq Rows',
           \A c \in Rows : cand'[c] = Written(s, cand)[c],
           \A c \in Rows' \ Rows : IsCand(cand'[c], AgentRows),
           UNCHANGED <<diNow, diAgent, person, verdict, linked, diRaced>>,
           \A q \in Scanners \ {s} : scan'[q] = scan[q],
           scan'[s] = DiIdle \/ scan'[s].pending = {}
    PROVE  /\ CopiesOK' /\ AloneOK' /\ VerdictHolds' /\ LinkHolds' /\ Undecided'
           /\ \A c \in Rows : IsCand(cand'[c], AgentRows) /\ Heir(cand[c], cand'[c])
<1>1. AgentRows' = AgentRows
  BY DEF AgentRows
<1>2. Rows \subseteq Candidates /\ Rows' \subseteq Candidates
  BY DEF Rows
<1>3. \A c \in Rows : IsCand(cand'[c], AgentRows) /\ Heir(cand[c], cand'[c])
  BY <1>2, WrittenFacts
<1>4. CopiesOK'
  BY <1>1, <1>3, DiSame, CopiesKept
<1>5. AloneOK'
  <2>1. \A q \in Scanners : scan'[q] # DiIdle => \A x \in scan'[q].pending : scan[q] # DiIdle /\ x \in scan[q].pending
    OBVIOUS
  <2>2. ASSUME NEW c \in Candidates, <<"candidate", c>> \notin diRaced, cand'[c] # cand[c]
        PROVE  /\ \A q \in Scanners : ~HeldByScan(q, c)'
               /\ \A p \in People : ~HeldByPerson(p, c)'
    <3>1. Alone(c)
      BY <2>2 DEF DiInv, AloneOK
    <3>2. /\ \A q \in Scanners : HeldByScan(q, c)' => HeldByScan(q, c) /\ q # s
          /\ \A p \in People : HeldByPerson(p, c)' => HeldByPerson(p, c)
      BY DEF HeldByScan, HeldByPerson, Scanning
    <3>3. CASE c \in Rows
      <4>1. HeldByScan(s, c)
        BY <1>2, <2>2, <3>3, WrittenFacts
      <4> QED  BY <3>1, <3>2, <4>1 DEF Alone
    <3>4. CASE c \notin Rows
      <4>1. \A q \in Scanners : ~HeldByScan(q, c)
        BY <3>4 DEF DiInv, CopiesOK, Copy, HeldByScan
      <4>2. \A p \in People : ~HeldByPerson(p, c)
        BY <3>4 DEF DiInv, CopiesOK, Copy, HeldByPerson
      <4> QED  BY <3>2, <4>1, <4>2
    <3> QED  BY <3>3, <3>4
  <2> QED  BY <2>1, <2>2, AloneKept
<1>6. \A c \in Rows : <<"candidate", c>> \notin diRaced => SeenEdit(cand[c], cand'[c], diNow)
  BY <1>2, WrittenFacts
<1>7. \A c \in Rows' \ Rows : verdict[c] = "none" /\ linked[c] = NoAgent
  BY <1>2 DEF DiInv, Undecided
<1>8. ASSUME NEW c \in Rows', <<"candidate", c>> \notin diRaced
      PROVE  /\ verdict[c] = "FALSE_POSITIVE" => cand'[c].status \in {"FALSE_POSITIVE", "MATCHED"}
             /\ verdict[c] \in {"MATCHED", "REGISTERED"} => cand'[c].status = verdict[c]
             /\ verdict[c] = "IGNORED" /\ diNow <= cand'[c].until => cand'[c].status \in {"IGNORED", "MATCHED"}
             /\ linked[c] # NoAgent => cand'[c].agent = linked[c]
  <2>1. CASE c \in Rows
    <3>1. SeenEdit(cand[c], cand'[c], diNow)
      BY <1>6, <1>8, <2>1
    <3> QED  BY <1>8, <2>1, <3>1, SeenVerdict
  <2>2. CASE c \notin Rows
    BY <1>7, <1>8, <2>2
  <2> QED  BY <2>1, <2>2
<1>9. VerdictHolds'
  BY <1>8 DEF VerdictHolds
<1>10. LinkHolds'
  BY <1>8 DEF LinkHolds
<1>11. Undecided'
  BY DEF DiInv, Undecided
<1> QED  BY <1>3, <1>4, <1>5, <1>9, <1>10, <1>11

\* A scan that takes a candidate in hand.
LEMMA SeesOK ==
    ASSUME DiInv, NEW s \in Scanners, Scanning(s), scan[s].stage = "examine", NEW c \in Rows, NEW e, NEW d,
           IsCand(e, AgentRows), SeenEdit(cand[c], e, diNow),
           d = [scan[s] EXCEPT !.at = scan[s].at + 1,
                               !.pending = scan[s].pending \cup {[id |-> c, row |-> cand[c], edited |-> e]}],
           scan' = [scan EXCEPT ![s] = d],
           diRaced' = IF \/ \E p \in People : HeldByPerson(p, c)
                         \/ \E t \in Scanners : t # s /\ HeldByScan(t, c)
                      THEN diRaced \cup {<<"candidate", c>>} ELSE diRaced,
           UNCHANGED <<diNow, source, run, cand, diAgent, person, alarm, madeBy, outcome, verdict, linked, died, land>>
    PROVE  DiInv'
<1>1. IsScan(scan[s], AgentRows, diNow) /\ scan[s] # DiIdle /\ IsCand(cand[c], AgentRows)
  BY HandsTyped DEF Scanning
<1>2. DOMAIN scan[s] = {"stage", "source", "run", "now", "at", "pending", "inserting", "found", "seen"}
  BY <1>1, ScanFields DEF IsScan
<1>3. PICK q : q = [id |-> c, row |-> cand[c], edited |-> e]
  OBVIOUS
<1>4. /\ d.stage = "examine" /\ d.source = scan[s].source /\ d.run = scan[s].run /\ d.now = scan[s].now
      /\ d.at = scan[s].at + 1 /\ d.pending = scan[s].pending \cup {q} /\ d.inserting = scan[s].inserting
      /\ d.found = scan[s].found /\ d.seen = scan[s].seen
  BY <1>2, <1>3
<1>5. d = [f \in DOMAIN scan[s] |-> d[f]]
  BY <1>2
<1>6. ScanShape(d)
  <2>1. ScanShape(scan[s])
    BY <1>1 DEF IsScan
  <2> QED  BY <1>5, <2>1, ScanFields
<1>7. d # DiIdle
  BY <1>6, DiNone
<1>8. IsScan(d, AgentRows, diNow)
  <2>1. scan[s].at + 1 \in Nat
    BY <1>1 DEF IsScan
  <2> QED  BY <1>1, <1>4, <1>6, <2>1 DEF IsScan
<1>9. q.id = c /\ q.row = cand[c] /\ q.edited = e
  BY <1>3
<1>10. /\ scan' = [t \in Scanners |-> scan'[t]] /\ scan'[s] = d /\ \A t \in Scanners \ {s} : scan'[t] = scan[t]
  BY ScanPut
<1>11. AgentRows' = AgentRows /\ Rows' = Rows /\ diRaced \subseteq diRaced'
  BY DEF AgentRows, Rows
<1>12. DiTyped'
  BY <1>8, <1>10, <1>11, DiSame, HandsTyped, TypedKept
<1>13. RunOK'
  BY <1>1, <1>4, <1>7, <1>10, RunKept
<1>14. CompletedRunsAlerted'
  BY <1>11, AlarmKept
<1>15. CopiesOK'
  <2>1. Heir(cand[c], cand[c])
    BY DEF Heir
  <2>2. \A t \in Scanners : scan'[t] # DiIdle => \A x \in scan'[t].pending :
            (scan[t] # DiIdle /\ x \in scan[t].pending) \/ x = q
    BY <1>1, <1>4, <1>10
  <2>3. /\ q.id \in Rows' /\ IsCand(q.row, AgentRows') /\ Heir(q.row, cand'[q.id])
        /\ IsCand(q.edited, AgentRows') /\ SeenEdit(q.row, q.edited, diNow')
    BY <1>1, <1>9, <1>11, <2>1
  <2> QED  BY <1>11, <2>2, <2>3, DiSame, CopiesKept
<1>16. AloneOK'
  <2> SUFFICES ASSUME NEW x \in Candidates, <<"candidate", x>> \notin diRaced'  PROVE Alone(x)'
    BY DEF AloneOK
  <2>1. Alone(x)
    BY <1>11 DEF DiInv, AloneOK
  <2>2. \A p \in People : HeldByPerson(p, x)' <=> HeldByPerson(p, x)
    BY DEF HeldByPerson
  <2>3. \A t \in Scanners : HeldByScan(t, x)' => HeldByScan(t, x) \/ (t = s /\ x = c)
    BY <1>1, <1>4, <1>9, <1>10 DEF HeldByScan, Scanning
  <2>4. x = c => /\ \A p \in People : ~HeldByPerson(p, x)
                 /\ \A t \in Scanners \ {s} : ~HeldByScan(t, x)
    OBVIOUS
  <2>5. ASSUME NEW t \in Scanners, scan'[t] # DiIdle, NEW y \in scan'[t].pending, y.id = x  PROVE y.row = cand[x]
    <3>1. (scan[t] # DiIdle /\ y \in scan[t].pending) \/ y = q
      BY <1>1, <1>4, <1>10, <2>5
    <3> QED  BY <1>9, <2>1, <2>5, <3>1 DEF Alone, Scanning
  <2>6. \A t, u \in Scanners : (HeldByScan(t, x)' /\ HeldByScan(u, x)') => t = u
    BY <2>1, <2>3, <2>4 DEF Alone
  <2>7. \A t \in Scanners, p \in People : ~(HeldByScan(t, x)' /\ HeldByPerson(p, x)')
    BY <2>1, <2>2, <2>3, <2>4 DEF Alone
  <2>8. \A p, t \in People : (HeldByPerson(p, x)' /\ HeldByPerson(t, x)') => p = t
    BY <2>1, <2>2 DEF Alone
  <2>9. \A p \in People : HeldByPerson(p, x)' => person'[p].row = cand'[x]
    BY <2>1, <2>2 DEF Alone
  <2> QED  BY <2>5, <2>6, <2>7, <2>8, <2>9 DEF Alone, Scanning
<1>17. VerdictHolds' /\ LinkHolds' /\ Undecided'
  BY <1>11, DiSame, VerdictKept
<1>18. \A f : FewOf(f)'
  BY <1>4, <1>10, <1>11, FewKept
<1>19. CountsOK'
  BY <1>1, <1>4, <1>7, <1>10, <1>11, DiSame, CountsKept
<1>20. SourceOK' /\ SourceTellsLastRun'
  BY <1>1, <1>4, <1>7, <1>10, <1>11, SourceKept
<1> QED  BY <1>12, <1>13, <1>14, <1>15, <1>16, <1>17, <1>18, <1>19, <1>20 DEF DiInv

LEMMA ExamineOK ==
    ASSUME DiInv, NEW s \in Scanners, Examine(s)
    PROVE  DiInv'
<1>1. /\ Scanning(s) /\ scan[s].stage = "examine"
      /\ UNCHANGED <<diNow, source, run, cand, diAgent, person, alarm, madeBy, outcome, verdict, linked, died, land>>
  BY DEF Examine
<1>2. PICK res : res = land.reports[scan[s].source][scan[s].at]
  OBVIOUS
<1>3. PICK match \in match_candidate_with_inventory(res) :
        \/ /\ Known(res.fp, scan[s].source) = {}
           /\ scan' = [scan EXCEPT ![s].stage = "insert", ![s].inserting = match]
           /\ UNCHANGED diRaced
        \/ \E c \in Known(res.fp, scan[s].source) :
            /\ scan' = [scan EXCEPT ![s].at = @ + 1,
                   ![s].pending = @ \cup {[id |-> c, row |-> cand[c],
                                           edited |-> SeenAgain(cand[c], res, match, scan[s].now)]}]
            /\ diRaced' = IF \/ \E p \in People : HeldByPerson(p, c)
                             \/ \E t \in Scanners : t # s /\ HeldByScan(t, c)
                          THEN diRaced \cup {<<"candidate", c>>} ELSE diRaced
  BY <1>2 DEF Examine
<1>4. NoAgent \notin AgentRows
  BY AgentsFacts DEF DiInv
<1>5. Matched(match.agent, match.type, AgentRows)
  BY <1>4, MatchFacts
<1>6. IsScan(scan[s], AgentRows, diNow) /\ diNow \in Nat /\ scan[s].now \in 0..diNow
  BY <1>1, HandsTyped DEF IsScan
<1>7. ASSUME Known(res.fp, scan[s].source) = {},
             scan' = [scan EXCEPT ![s].stage = "insert", ![s].inserting = match], UNCHANGED diRaced
      PROVE  DiInv'
  <2>1. PICK d : d = [scan[s] EXCEPT !.stage = "insert", !.inserting = match]
    OBVIOUS
  <2>2. scan' = [scan EXCEPT ![s] = d]
    BY <1>7, <2>1
  <2>3. DOMAIN scan[s] = {"stage", "source", "run", "now", "at", "pending", "inserting", "found", "seen"}
    BY <1>6, ScanFields DEF IsScan
  <2>4. /\ d.stage = "insert" /\ d.source = scan[s].source /\ d.run = scan[s].run /\ d.now = scan[s].now
        /\ d.at = scan[s].at /\ d.pending = scan[s].pending /\ d.inserting = match
        /\ d.found = scan[s].found /\ d.seen = scan[s].seen
    BY <2>1, <2>3
  <2>5. d = [f \in DOMAIN scan[s] |-> d[f]]
    BY <2>1, <2>3
  <2>6. ScanShape(d)
    BY <1>6, <2>5, ScanFields DEF IsScan
  <2>7. IsScan(d, AgentRows, diNow)
    BY <1>5, <1>6, <2>4, <2>6 DEF IsScan
  <2>8. RowsOf(res.fp) = {}
    BY <1>7 DEF Known, RowsOf
  <2>9. RowsOf(land.reports[d.source][d.at].fp) = {}
    BY <1>2, <2>4, <2>8
  <2> QED  BY <1>1, <1>7, <2>2, <2>4, <2>7, <2>9, ScanLooks
<1>8. ASSUME NEW c \in Known(res.fp, scan[s].source),
             scan' = [scan EXCEPT ![s].at = @ + 1,
                   ![s].pending = @ \cup {[id |-> c, row |-> cand[c],
                                           edited |-> SeenAgain(cand[c], res, match, scan[s].now)]}],
             diRaced' = IF \/ \E p \in People : HeldByPerson(p, c)
                           \/ \E t \in Scanners : t # s /\ HeldByScan(t, c)
                        THEN diRaced \cup {<<"candidate", c>>} ELSE diRaced
      PROVE  DiInv'
  <2>1. PICK e : e = SeenAgain(cand[c], res, match, scan[s].now)
    OBVIOUS
  <2>2. PICK d : d = [scan[s] EXCEPT !.at = scan[s].at + 1,
                                     !.pending = scan[s].pending \cup {[id |-> c, row |-> cand[c], edited |-> e]}]
    OBVIOUS
  <2>3. scan' = [scan EXCEPT ![s] = d]
    BY <1>8, <2>1, <2>2
  <2>4. c \in Rows /\ IsCand(cand[c], AgentRows)
    BY HandsTyped DEF Known
  <2>5. scan[s].now \in Nat /\ scan[s].now <= diNow
    BY <1>6
  <2>6. IsCand(e, AgentRows) /\ SeenEdit(cand[c], e, diNow)
    BY <1>4, <1>5, <1>6, <2>1, <2>4, <2>5, SeenAgainFacts
  <2> QED  BY <1>1, <1>8, <2>2, <2>3, <2>4, <2>6, SeesOK
<1> QED  BY <1>3, <1>7, <1>8

\* What a commit does to the alarms.
LEMMA RaiseFacts ==
    ASSUME DiInv, NEW s \in Scanners, NEW c \in Candidates
    PROVE  /\ Raise(s)[c] \in {"none", "owed", "raised"}
           /\ Raise(s)[c] = "owed" => alarm[c] = "owed" /\ madeBy[c] # scan[s].run
  BY DiSame DEF Raise

\* What the rows a scan has committed say of how many came from where.
LEMMA CountsGrow ==
    ASSUME DiInv, \A c \in Rows : c \in Rows' /\ cand'[c].source = cand[c].source /\ madeBy'[c] = madeBy[c],
           \A r \in Runs : run[r] = "COMPLETED" => run'[r] = "COMPLETED"
    PROVE  /\ \A x : Closed(x) \subseteq Closed(x)'
           /\ \A x, r : Made(r, x) \subseteq Made(r, x)'
<1>1. \A x : Closed(x) \subseteq Closed(x)'
  BY HandsTyped DEF Closed
<1>2. \A x, r : Made(r, x) \subseteq Made(r, x)'
  BY HandsTyped DEF Made
<1> QED  BY <1>1, <1>2

LEMMA InsertCandidateOK ==
    ASSUME DiInv, NEW s \in Scanners, InsertCandidate(s)
    PROVE  DiInv'
<1>1. PICK res : res = land.reports[scan[s].source][scan[s].at]
  OBVIOUS
<1>2. PICK new : new = NewCandidate(res, scan[s].inserting, scan[s].source)
  OBVIOUS
<1>3. /\ Scanning(s) /\ scan[s].stage = "insert"
      /\ UNCHANGED <<diNow, source, run, diAgent, person, outcome, verdict, linked, diRaced, died, land>>
  BY DEF InsertCandidate
<1>4. PICK c \in Candidates \ Rows :
        /\ cand' = [Written(s, cand) EXCEPT ![c] = new]
        /\ madeBy' = [madeBy EXCEPT ![c] = scan[s].run]
        /\ alarm' = [Raise(s) EXCEPT ![c] =
              IF new.status = "UNMANAGED" /\ "production" \in res.evidence THEN "owed" ELSE "none"]
  BY <1>1, <1>2 DEF InsertCandidate
<1>5. PICK read : read = IF Findings(res) # {} THEN source[scan[s].source] ELSE NoSource
  OBVIOUS
<1>6. PICK d : d = [scan[s] EXCEPT !.stage = "examine", !.at = scan[s].at + 1, !.pending = {},
                                   !.found = scan[s].found + 1, !.seen = read]
  OBVIOUS
<1>7. scan' = [scan EXCEPT ![s] = d]
  BY <1>1, <1>5, <1>6 DEF InsertCandidate
<1>8. IsScan(scan[s], AgentRows, diNow) /\ scan[s] # DiIdle
  BY <1>3, HandsTyped DEF Scanning
<1>9. /\ scan[s].source \in DiSources /\ scan[s].run \in Runs /\ scan[s].at \in Nat /\ scan[s].found \in Nat
      /\ Matched(scan[s].inserting.agent, scan[s].inserting.type, AgentRows)
  BY <1>8 DEF IsScan
<1>10. IsCand(new, AgentRows) /\ new.fp = res.fp /\ new.source = scan[s].source
  <2>1. NoAgent \notin AgentRows
    BY AgentsFacts DEF DiInv
  <2>2. PICK m : m = scan[s].inserting
    OBVIOUS
  <2>3. PICK src \in DiSources : src = scan[s].source
    BY <1>9
  <2>4. new = NewCandidate(res, m, src) /\ Matched(m.agent, m.type, AgentRows)
    BY <1>2, <1>9, <2>2, <2>3
  <2>5. IsCand(new, AgentRows) /\ new.fp = res.fp /\ new.source = src
    BY <2>1, <2>4, NewFacts
  <2> QED  BY <2>3, <2>5
<1>11. DOMAIN scan[s] = {"stage", "source", "run", "now", "at", "pending", "inserting", "found", "seen"}
  BY <1>8, ScanFields DEF IsScan
<1>12. /\ d.stage = "examine" /\ d.source = scan[s].source /\ d.run = scan[s].run /\ d.now = scan[s].now
       /\ d.at = scan[s].at + 1 /\ d.pending = {} /\ d.inserting = scan[s].inserting
       /\ d.found = scan[s].found + 1 /\ d.seen = read
  BY <1>6, <1>11
<1>13. d = [f \in DOMAIN scan[s] |-> d[f]]
  BY <1>6, <1>11
<1>14. ScanShape(d)
  BY <1>8, <1>13, ScanFields DEF IsScan
<1>15. d # DiIdle
  BY <1>14, DiNone
<1>16. IsScan(d, AgentRows, diNow)
  <2>1. scan[s].at + 1 \in Nat /\ scan[s].found + 1 \in Nat
    BY <1>9
  <2>2. read \in SourceRow \cup {NoSource}
    BY <1>5, <1>9, DiSame
  <2> QED  BY <1>8, <1>12, <1>14, <2>1, <2>2 DEF IsScan
<1>17. /\ scan' = [t \in Scanners |-> scan'[t]] /\ scan'[s] = d /\ \A t \in Scanners \ {s} : scan'[t] = scan[t]
  BY <1>7, ScanPut
<1>18. /\ cand' = [x \in Candidates |-> cand'[x]] /\ cand'[c] = new
       /\ \A x \in Candidates \ {c} : cand'[x] = Written(s, cand)[x]
  <2>1. PICK w : w = Written(s, cand)
    OBVIOUS
  <2>2. w = [x \in Candidates |-> w[x]]
    BY <2>1 DEF Written
  <2>3. cand' = [w EXCEPT ![c] = new]
    BY <1>4, <2>1
  <2> QED  BY <2>1, <2>2, <2>3
<1>19. /\ madeBy' = [x \in Candidates |-> madeBy'[x]] /\ madeBy'[c] = scan[s].run
       /\ \A x \in Candidates \ {c} : madeBy'[x] = madeBy[x]
  BY <1>4, DiSame
<1>20. /\ alarm' \in [Candidates -> {"none", "owed", "raised"}]
       /\ \A x \in Candidates \ {c} : alarm'[x] = "owed" => alarm[x] = "owed"
  BY <1>4, RaiseFacts DEF Raise
<1>21. Rows' = Rows \cup {c} /\ c \notin Rows /\ c \in Candidates
  <2>1. new # NoCandidate
    BY <1>10, DiNone DEF IsCand
  <2>2. ASSUME NEW x \in Candidates, x # c  PROVE cand'[x] # NoCandidate <=> cand[x] # NoCandidate
    <3>1. CASE x \in Rows
      <4>1. IsCand(cand'[x], AgentRows)
        BY <1>3, <1>18, <2>2, <3>1, WrittenFacts
      <4> QED  BY <3>1, <4>1, DiNone DEF Rows, IsCand
    <3>2. CASE x \notin Rows
      <4>1. cand'[x] = cand[x]
        BY <1>3, <1>18, <2>2, <3>2, WrittenFacts
      <4> QED  BY <4>1
    <3> QED  BY <3>1, <3>2
  <2> QED  BY <1>4, <1>18, <2>1, <2>2 DEF Rows
<1>22. AgentRows' = AgentRows
  BY <1>3 DEF AgentRows
<1>23. /\ CopiesOK' /\ AloneOK' /\ VerdictHolds' /\ LinkHolds' /\ Undecided'
       /\ \A x \in Rows : IsCand(cand'[x], AgentRows) /\ Heir(cand[x], cand'[x])
  <2>1. \A x \in Rows : x \in Candidates /\ x # c
    BY <1>21 DEF Rows
  <2>2. \A x \in Rows : cand'[x] = Written(s, cand)[x]
    BY <1>18, <2>1
  <2>3. \A x \in Rows' \ Rows : IsCand(cand'[x], AgentRows)
    BY <1>10, <1>18, <1>21
  <2>4. scan'[s].pending = {}
    BY <1>12, <1>17
  <2>5. UNCHANGED <<diNow, diAgent, person, verdict, linked, diRaced>>
    BY <1>3
  <2> QED  BY <1>3, <1>17, <1>21, <2>2, <2>3, <2>4, <2>5, WrittenKept
<1>24. DiTyped'
  <2>1. \A x \in Rows' : IsCand(cand'[x], AgentRows') /\ madeBy'[x] \in Runs
    BY <1>9, <1>10, <1>18, <1>19, <1>21, <1>22, <1>23, HandsTyped
  <2>2. \A t \in Scanners : scan'[t] # DiIdle => scan'[t] = scan[t] \/ IsScan(scan'[t], AgentRows', diNow')
    BY <1>3, <1>16, <1>17, <1>22
  <2> QED  BY <1>3, <1>17, <1>18, <1>19, <1>20, <1>22, <2>1, <2>2, DiSame, TypedKept
<1>25. RunOK'
  BY <1>3, <1>8, <1>12, <1>15, <1>17, RunKept
<1>26. CompletedRunsAlerted'
  <2>1. run[scan[s].run] = "RUNNING"
    BY <1>3 DEF DiInv, RunOK
  <2> SUFFICES ASSUME NEW x \in Rows', run[madeBy'[x]] = "COMPLETED"  PROVE alarm'[x] # "owed"
    BY <1>3 DEF CompletedRunsAlerted
  <2>2. x \in Rows /\ x # c /\ x \in Candidates
    BY <1>19, <1>21, <2>1 DEF Rows
  <2>3. madeBy'[x] = madeBy[x]
    BY <1>19, <2>2
  <2>4. alarm[x] # "owed"
    BY <2>2, <2>3 DEF DiInv, CompletedRunsAlerted
  <2> QED  BY <1>20, <2>2, <2>4
<1>27. \A f : FewOf(f)'
  <2> SUFFICES ASSUME NEW f  PROVE FewOf(f)'
    OBVIOUS
  <2>1. FewOf(f)
    BY DEF DiInv
  <2>2. \A x \in Rows : cand'[x].fp = cand[x].fp
    BY <1>23 DEF Heir
  <2>3. InsertersOf(f)' \subseteq InsertersOf(f) \ {s}
    BY <1>3, <1>12, <1>17 DEF InsertersOf, Scanning
  <2>4. /\ Cardinality(RowsOf(f)) + Cardinality(InsertersOf(f)) <= Cardinality(Scanners)
        /\ Cardinality(RowsOf(f)) \in Nat /\ Cardinality(InsertersOf(f)) \in Nat /\ Cardinality(Scanners) \in Nat
        /\ Cardinality(RowsOf(f)') \in Nat /\ Cardinality(InsertersOf(f)') \in Nat
    BY <2>1, FewFacts DEF FewOf
  <2>5. CASE res.fp # f
    <3>1. RowsOf(f)' \subseteq RowsOf(f)
      BY <1>10, <1>18, <1>21, <2>2, <2>5 DEF RowsOf
    <3>2. InsertersOf(f)' \subseteq InsertersOf(f)
      BY <2>3
    <3>3. Cardinality(RowsOf(f)') <= Cardinality(RowsOf(f)) /\ Cardinality(InsertersOf(f)') <= Cardinality(InsertersOf(f))
      BY <3>1, <3>2, FewFacts, FS_Subset
    <3> QED  BY <2>4, <3>3 DEF FewOf
  <2>6. CASE res.fp = f
    <3>1. RowsOf(f)' \subseteq RowsOf(f) \cup {c}
      BY <1>21, <2>2 DEF RowsOf
    <3>2. c \notin RowsOf(f) /\ s \in InsertersOf(f)
      BY <1>1, <1>3, <1>21, <2>6 DEF RowsOf, InsertersOf
    <3>3. /\ IsFiniteSet(RowsOf(f) \cup {c}) /\ Cardinality(RowsOf(f) \cup {c}) = Cardinality(RowsOf(f)) + 1
      BY <3>2, FewFacts, FS_AddElement
    <3>4. /\ IsFiniteSet(InsertersOf(f) \ {s}) /\ Cardinality(InsertersOf(f) \ {s}) = Cardinality(InsertersOf(f)) - 1
      BY <3>2, FewFacts, FS_RemoveElement
    <3>5. Cardinality(RowsOf(f)') <= Cardinality(RowsOf(f)) + 1
      BY <3>1, <3>3, FS_Subset
    <3>6. Cardinality(InsertersOf(f)') <= Cardinality(InsertersOf(f)) - 1
      BY <2>3, <3>4, FS_Subset
    <3> QED  BY <2>4, <3>5, <3>6 DEF FewOf
  <2> QED  BY <2>5, <2>6
<1>28. CountsOK'
  <2>1. \A x \in Rows : x \in Rows' /\ cand'[x].source = cand[x].source /\ madeBy'[x] = madeBy[x]
    BY <1>19, <1>21, <1>23 DEF Heir, Rows
  <2>2. \A r \in Runs : run[r] = "COMPLETED" => run'[r] = "COMPLETED"
    BY <1>3
  <2>3. PICK src \in DiSources, r \in Runs : src = scan[s].source /\ r = scan[s].run
    BY <1>9
  <2>4. Made(r, src) \subseteq Made(r, src)'
    BY <2>1, <2>2, CountsGrow
  <2>5. c \in Made(r, src)' /\ c \notin Made(r, src)
    BY <1>10, <1>18, <1>19, <1>21, <2>3 DEF Made
  <2>6. Cardinality(Made(r, src) \cup {c}) = Cardinality(Made(r, src)) + 1
    BY <2>5, FoundFacts, FS_AddElement
  <2>7. Cardinality(Made(r, src) \cup {c}) <= Cardinality(Made(r, src)')
    BY <2>4, <2>5, FoundFacts, FS_Subset
  <2>8. scan[s].found <= Cardinality(Made(r, src)) /\ Cardinality(Made(r, src)) \in Nat /\ Cardinality(Made(r, src)') \in Nat
    BY <1>3, <2>3, FoundFacts DEF DiInv, CountsOK
  <2>9. scan[s].found + 1 <= Cardinality(Made(r, src)')
    BY <1>9, <2>6, <2>7, <2>8
  <2>10. \A t \in Scanners \ {s} : scan'[t] # DiIdle => scan[t] # DiIdle /\ scan'[t] = scan[t]
    BY <1>17
  <2>11. /\ scan'[s].seen \in {NoSource, source[scan'[s].source]}
         /\ \A x, q : (scan'[s].source = x /\ scan'[s].run = q) => scan'[s].found <= Cardinality(Made(q, x)')
    BY <1>5, <1>12, <1>17, <2>3, <2>9
  <2>12. source' \in [DiSources -> SourceRow] /\ \A x \in DiSources : source'[x].found = source[x].found
    BY <1>3, DiSame
  <2> QED  BY <2>1, <2>2, <2>10, <2>11, <2>12, CountsKept
<1>29. SourceOK' /\ SourceTellsLastRun'
  <2>1. read \in {scan[s].seen, NoSource, source[scan[s].source]}
    BY <1>5
  <2> QED  BY <1>3, <1>8, <1>12, <1>17, <2>1, SourceKept
<1> QED  BY <1>23, <1>24, <1>25, <1>26, <1>27, <1>28, <1>29 DEF DiInv

LEMMA CompleteOK ==
    ASSUME DiInv, NEW s \in Scanners, Complete(s)
    PROVE  DiInv'
<1>1. PICK e : e = [status |-> "ACTIVE", error |-> "none", found |-> Tallied(scan[s])]
  OBVIOUS
<1>2. /\ Scanning(s) /\ scan[s].stage = "complete"
      /\ cand' = Written(s, cand) /\ alarm' = Raise(s)
      /\ source' = [source EXCEPT ![scan[s].source] = Flush(source[scan[s].source], scan[s].seen, e)]
      /\ run' = [run EXCEPT ![scan[s].run] = "COMPLETED"]
      /\ outcome' = [outcome EXCEPT ![scan[s].source] = "COMPLETED"]
      /\ scan' = [scan EXCEPT ![s] = DiIdle]
      /\ UNCHANGED <<diNow, diAgent, person, madeBy, verdict, linked, diRaced, died, land>>
  BY <1>1 DEF Complete
<1>3. IsScan(scan[s], AgentRows, diNow) /\ scan[s] # DiIdle
  BY <1>2, HandsTyped DEF Scanning
<1>4. PICK src \in DiSources, r \in Runs : src = scan[s].source /\ r = scan[s].run
  BY <1>3 DEF IsScan
<1>5. scan[s].seen \in SourceRow /\ scan[s].seen # NoSource /\ scan[s].found \in Nat /\ scan[s].seen.found \in Nat
  BY <1>2, <1>3 DEF IsScan, SourceRow
<1>6. e \in SourceRow /\ e.status = "ACTIVE" /\ e.error = "none" /\ e.found = scan[s].seen.found + scan[s].found
  <2>1. scan[s].seen.found + scan[s].found \in Nat
    BY <1>5
  <2> QED  BY <1>1, <2>1 DEF Tallied, SourceRow, DiscoverySourceStatus
<1>7. /\ source' \in [DiSources -> SourceRow] /\ outcome' \in [DiSources -> {"none", "COMPLETED", "FAILED"}]
      /\ SourceOK' /\ SourceTellsLastRun'
      /\ \A x \in DiSources \ {src} : source'[x] = source[x]
      /\ source'[src].found = IF e.found = scan[s].seen.found THEN source[src].found ELSE e.found
  BY <1>2, <1>4, <1>5, <1>6, SourceSettled
<1>8. /\ scan' = [t \in Scanners |-> scan'[t]] /\ scan'[s] = DiIdle /\ \A t \in Scanners \ {s} : scan'[t] = scan[t]
  BY <1>2, ScanPut
<1>9. /\ run' \in [Runs -> DiscoveryRunStatus \cup {"none"}] /\ run'[r] = "COMPLETED" /\ run[r] = "RUNNING"
      /\ \A q \in Runs \ {r} : run'[q] = run[q]
  BY <1>2, <1>4, DiSame DEF DiscoveryRunStatus, DiInv, RunOK
<1>10. cand' = [x \in Candidates |-> cand'[x]] /\ \A x \in Candidates : cand'[x] = Written(s, cand)[x]
  BY <1>2 DEF Written
<1>11. alarm' \in [Candidates -> {"none", "owed", "raised"}]
       /\ \A x \in Candidates : alarm'[x] = "owed" => alarm[x] = "owed" /\ madeBy[x] # r
  BY <1>2, <1>4, RaiseFacts DEF Raise
<1>12. AgentRows' = AgentRows
  BY <1>2 DEF AgentRows
<1>13. Rows' = Rows
  <2> SUFFICES ASSUME NEW x \in Candidates  PROVE cand'[x] # NoCandidate <=> cand[x] # NoCandidate
    BY DEF Rows
  <2>1. CASE x \in Rows
    <3>1. IsCand(cand'[x], AgentRows)
      BY <1>2, <1>10, <2>1, WrittenFacts
    <3> QED  BY <2>1, <3>1, DiNone DEF Rows, IsCand
  <2>2. CASE x \notin Rows
    <3>1. cand'[x] = cand[x]
      BY <1>2, <1>10, <2>2, WrittenFacts
    <3> QED  BY <3>1
  <2> QED  BY <2>1, <2>2
<1>14. /\ CopiesOK' /\ AloneOK' /\ VerdictHolds' /\ LinkHolds' /\ Undecided'
       /\ \A x \in Rows : IsCand(cand'[x], AgentRows) /\ Heir(cand[x], cand'[x])
  <2>1. \A x \in Rows : cand'[x] = Written(s, cand)[x]
    BY <1>10 DEF Rows
  <2>2. UNCHANGED <<diNow, diAgent, person, verdict, linked, diRaced>>
    BY <1>2
  <2> QED  BY <1>2, <1>8, <1>13, <2>1, <2>2, WrittenKept
<1>15. DiTyped'
  <2>1. \A x \in Rows' : IsCand(cand'[x], AgentRows') /\ madeBy'[x] \in Runs
    BY <1>2, <1>12, <1>13, <1>14, HandsTyped
  <2> QED  BY <1>2, <1>7, <1>8, <1>9, <1>10, <1>11, <1>12, <2>1, DiSame, TypedKept
<1>16. RunOK'
  <2>1. \A q \in Scanners \ {s} : scan[q] # DiIdle => scan[q].run # r /\ scan[q].run \in Runs
    BY <1>2, <1>4, HandsTyped DEF DiInv, RunOK, Scanning, IsScan
  <2> QED  BY <1>2, <1>4, <1>8, <1>9, <2>1 DEF DiInv, RunOK, RunsClosed, Scanning
<1>17. CompletedRunsAlerted'
  <2> SUFFICES ASSUME NEW x \in Rows, run'[madeBy[x]] = "COMPLETED"  PROVE alarm'[x] # "owed"
    BY <1>2, <1>13 DEF CompletedRunsAlerted
  <2>1. x \in Candidates /\ madeBy[x] \in Runs
    BY HandsTyped
  <2>2. CASE madeBy[x] = r
    BY <1>11, <2>1, <2>2
  <2>3. CASE madeBy[x] # r
    <3>1. run[madeBy[x]] = "COMPLETED"
      BY <1>9, <2>1, <2>3
    <3>2. alarm[x] # "owed"
      BY <3>1 DEF DiInv, CompletedRunsAlerted
    <3> QED  BY <1>11, <2>1, <3>2
  <2> QED  BY <2>2, <2>3
<1>18. \A f : FewOf(f)'
  <2>1. \A x \in Rows : cand'[x].fp = cand[x].fp
    BY <1>14 DEF Heir
  <2> QED  BY <1>2, <1>8, <1>13, <2>1, FewKept
<1>19. CountsOK'
  <2>1. \A x \in Rows : x \in Rows' /\ cand'[x].source = cand[x].source /\ madeBy'[x] = madeBy[x]
    BY <1>2, <1>13, <1>14 DEF Heir
  <2>2. \A q \in Runs : run[q] = "COMPLETED" => run'[q] = "COMPLETED"
    BY <1>9
  <2>3. Closed(src) \subseteq Closed(src)'
    BY <2>1, <2>2, CountsGrow
  <2>4. Made(r, src) \subseteq Closed(src)'
    BY <1>2, <1>9, <2>1 DEF Made, Closed
  <2>5. Closed(src) \cap Made(r, src) = {}
    BY <1>9 DEF Made, Closed
  <2>6. Cardinality(Closed(src) \cup Made(r, src)) = Cardinality(Closed(src)) + Cardinality(Made(r, src))
    <3>1. Cardinality(Closed(src) \cup Made(r, src)) =
            Cardinality(Closed(src)) + Cardinality(Made(r, src)) - Cardinality(Closed(src) \cap Made(r, src))
      BY FoundFacts, FS_Union
    <3>2. Cardinality(Closed(src) \cap Made(r, src)) = 0
      BY <2>5, FS_EmptySet
    <3> QED  BY <3>1, <3>2, FoundFacts
  <2>7. Cardinality(Closed(src) \cup Made(r, src)) <= Cardinality(Closed(src)')
    BY <2>3, <2>4, FoundFacts, FS_Subset
  <2>8. /\ source[src].found <= Cardinality(Closed(src)) /\ scan[s].found <= Cardinality(Made(r, src))
        /\ scan[s].seen.found <= Cardinality(Closed(src))
    BY <1>2, <1>4, <1>5 DEF DiInv, CountsOK
  <2>9. /\ Cardinality(Closed(src)) \in Nat /\ Cardinality(Made(r, src)) \in Nat /\ Cardinality(Closed(src)') \in Nat
        /\ source[src].found \in Nat
    BY FoundFacts, DiSame DEF SourceRow
  <2>10. source'[src].found <= Cardinality(Closed(src)')
    BY <1>5, <1>6, <1>7, <2>6, <2>7, <2>8, <2>9
  <2>11. \A x \in DiSources : source'[x].found = source[x].found \/ source'[x].found <= Cardinality(Closed(x)')
    BY <1>7, <2>10
  <2> QED  BY <1>7, <1>8, <2>1, <2>2, <2>11, CountsKept
<1> QED  BY <1>7, <1>14, <1>15, <1>16, <1>17, <1>18, <1>19 DEF DiInv

-----------------------------------------------------------------------------
(* The steps of people.                                                    *)

\* A person who looks around, or gives up, and may have committed an agent.
LEMMA PersonLooks ==
    ASSUME DiInv, NEW p \in People, person[p] # DiIdle, NEW d, person' = [person EXCEPT ![p] = d],
           d = DiIdle \/ (d.id = person[p].id /\ d.row = person[p].row /\ IsPerson(d, AgentRows')),
           AgentRows \subseteq AgentRows', diAgent' = [a \in DiAgents |-> diAgent'[a]],
           UNCHANGED <<diNow, source, run, cand, scan, alarm, madeBy, outcome, verdict, linked, diRaced, died, land>>
    PROVE  DiInv'
<1>1. /\ person' = [q \in People |-> person'[q]] /\ person'[p] = d /\ \A q \in People \ {p} : person'[q] = person[q]
  BY PersonPut
<1>2. Rows' = Rows
  BY DEF Rows
<1>3. \A q \in People : person'[q] # DiIdle =>
          person[q] # DiIdle /\ person'[q].id = person[q].id /\ person'[q].row = person[q].row
  BY <1>1
<1>4. DiTyped'
  <2>1. \A q \in People : person'[q] # DiIdle => person'[q] = person[q] \/ IsPerson(person'[q], AgentRows')
    BY <1>1
  <2> QED  BY <1>1, <1>2, <2>1, DiSame, TypedKept
<1>5. RunOK'
  BY RunKept
<1>6. CompletedRunsAlerted'
  BY <1>2, AlarmKept
<1>7. CopiesOK'
  BY <1>2, <1>3, DiSame, CopiesKept
<1>8. AloneOK'
  BY <1>3, AloneKept
<1>9. VerdictHolds' /\ LinkHolds' /\ Undecided'
  BY <1>2, DiSame, VerdictKept
<1>10. \A f : FewOf(f)'
  BY <1>2, FewKept
<1>11. CountsOK'
  BY <1>2, DiSame, CountsKept
<1>12. SourceOK' /\ SourceTellsLastRun'
  BY SourceKept
<1> QED  BY <1>4, <1>5, <1>6, <1>7, <1>8, <1>9, <1>10, <1>11, <1>12 DEF DiInv

\* A person's commit: what it leaves is what was decided, unless another had the candidate in hand.
LEMMA PersonWrites ==
    ASSUME DiInv, NEW p \in People, person[p] # DiIdle, NEW c, c = person[p].id, NEW n, NEW v, NEW a,
           cand' = [cand EXCEPT ![c] = n], IsCand(n, AgentRows), Heir(cand[c], n),
           verdict' = [verdict EXCEPT ![c] = v], linked' = [linked EXCEPT ![c] = a],
           <<"candidate", c>> \notin diRaced =>
               n.status = v /\ v \in {"IGNORED", "FALSE_POSITIVE", "MATCHED", "REGISTERED"} /\ (a # NoAgent => n.agent = a),
           person' = [person EXCEPT ![p] = DiIdle],
           UNCHANGED <<diNow, source, run, diAgent, scan, alarm, madeBy, outcome, diRaced, died, land>>
    PROVE  DiInv'
<1>1. c \in Rows /\ c \in Candidates
  BY DEF DiInv, CopiesOK, Copy, Rows
<1>2. /\ person' = [q \in People |-> person'[q]] /\ person'[p] = DiIdle /\ \A q \in People \ {p} : person'[q] = person[q]
  BY PersonPut
<1>3. /\ cand' = [x \in Candidates |-> cand'[x]] /\ cand'[c] = n /\ \A x \in Candidates \ {c} : cand'[x] = cand[x]
  BY <1>1, DiSame
<1>4. /\ verdict' = [x \in Candidates |-> verdict'[x]] /\ verdict'[c] = v
      /\ \A x \in Candidates \ {c} : verdict'[x] = verdict[x]
  BY <1>1, DiSame
<1>5. /\ linked' = [x \in Candidates |-> linked'[x]] /\ linked'[c] = a
      /\ \A x \in Candidates \ {c} : linked'[x] = linked[x]
  BY <1>1, DiSame
<1>6. AgentRows' = AgentRows
  BY DEF AgentRows
<1>7. Rows' = Rows
  <2>1. n # NoCandidate
    BY DiNone DEF IsCand
  <2> QED  BY <1>1, <1>3, <2>1 DEF Rows
<1>8. \A x \in Rows : Heir(cand[x], cand'[x]) /\ IsCand(cand'[x], AgentRows)
  BY <1>3, HandsTyped, DiSame
<1>9. DiTyped'
  <2>1. \A x \in Rows' : IsCand(cand'[x], AgentRows') /\ madeBy'[x] \in Runs
    BY <1>6, <1>7, <1>8, HandsTyped
  <2>2. \A q \in People : person'[q] # DiIdle => person'[q] = person[q]
    BY <1>2
  <2> QED  BY <1>2, <1>3, <1>4, <1>5, <1>6, <2>1, <2>2, DiSame, TypedKept
<1>10. RunOK'
  BY RunKept
<1>11. CompletedRunsAlerted'
  BY <1>7, AlarmKept
<1>12. CopiesOK'
  BY <1>2, <1>6, <1>7, <1>8, DiSame, CopiesKept
<1>13. AloneOK'
  <2>1. \A q \in People : person'[q] # DiIdle => person[q] # DiIdle /\ person'[q] = person[q]
    BY <1>2
  <2>2. ASSUME NEW x \in Candidates, <<"candidate", x>> \notin diRaced, cand'[x] # cand[x]
        PROVE  /\ \A s \in Scanners : ~HeldByScan(s, x)'
               /\ \A q \in People : ~HeldByPerson(q, x)'
    <3>1. Alone(x)
      BY <2>2 DEF DiInv, AloneOK
    <3>2. x = c /\ HeldByPerson(p, x)
      BY <1>3, <2>2 DEF HeldByPerson
    <3>3. /\ \A s \in Scanners : HeldByScan(s, x)' => HeldByScan(s, x)
          /\ \A q \in People : HeldByPerson(q, x)' => HeldByPerson(q, x) /\ q # p
      BY <1>2 DEF HeldByScan, HeldByPerson, Scanning
    <3> QED  BY <3>1, <3>2, <3>3 DEF Alone
  <2> QED  BY <2>1, <2>2, AloneKept
<1>14. VerdictHolds'
  <2> SUFFICES ASSUME NEW x \in Rows, <<"candidate", x>> \notin diRaced
               PROVE  /\ verdict'[x] = "FALSE_POSITIVE" => cand'[x].status \in {"FALSE_POSITIVE", "MATCHED"}
                      /\ verdict'[x] \in {"MATCHED", "REGISTERED"} => cand'[x].status = verdict'[x]
                      /\ verdict'[x] = "IGNORED" /\ diNow <= cand'[x].until => cand'[x].status \in {"IGNORED", "MATCHED"}
    BY <1>7 DEF VerdictHolds
  <2>1. x \in Candidates
    BY HandsTyped
  <2>2. CASE x = c
    BY <1>3, <1>4, <2>2
  <2>3. CASE x # c
    BY <1>3, <1>4, <2>1, <2>3 DEF DiInv, VerdictHolds
  <2> QED  BY <2>2, <2>3
<1>15. LinkHolds'
  <2> SUFFICES ASSUME NEW x \in Rows, <<"candidate", x>> \notin diRaced, linked'[x] # NoAgent
               PROVE  cand'[x].agent = linked'[x]
    BY <1>7 DEF LinkHolds
  <2>1. x \in Candidates
    BY HandsTyped
  <2>2. CASE x = c
    BY <1>3, <1>5, <2>2
  <2>3. CASE x # c
    BY <1>3, <1>5, <2>1, <2>3 DEF DiInv, LinkHolds
  <2> QED  BY <2>2, <2>3
<1>16. Undecided'
  BY <1>1, <1>4, <1>5, <1>7 DEF DiInv, Undecided
<1>17. \A f : FewOf(f)'
  BY <1>7, <1>8, FewKept DEF Heir
<1>18. CountsOK'
  BY <1>7, <1>8, DiSame, CountsKept DEF Heir
<1>19. SourceOK' /\ SourceTellsLastRun'
  BY SourceKept
<1> QED  BY <1>9, <1>10, <1>11, <1>12, <1>13, <1>14, <1>15, <1>16, <1>17, <1>18, <1>19 DEF DiInv

LEMMA DecideOK ==
    ASSUME DiInv, NEW p \in People, person[p] # DiIdle, NEW e, NEW g, IsCand(e, AgentRows), Heir(person[p].row, e),
           e.status \in {"IGNORED", "FALSE_POSITIVE", "MATCHED"},
           (g = NoAgent /\ e.agent = person[p].row.agent) \/ (g # NoAgent /\ e.agent = g),
           Decide(p, e, g), UNCHANGED diAgent
    PROVE  DiInv'
<1>1. PICK c : c = person[p].id
  OBVIOUS
<1>2. Copy(c, person[p].row, AgentRows)
  BY <1>1 DEF DiInv, CopiesOK
<1>3. c \in Rows /\ c \in Candidates /\ IsCand(person[p].row, AgentRows) /\ Heir(person[p].row, cand[c])
      /\ IsCand(cand[c], AgentRows)
  BY <1>2, HandsTyped DEF Copy
<1>4. PICK n : n = Flush(cand[c], person[p].row, e)
  OBVIOUS
<1>5. NoAgent \notin AgentRows
  BY AgentsFacts DEF DiInv
<1>6. IsCand(n, AgentRows) /\ Heir(cand[c], n) /\ (person[p].row = cand[c] => n = e)
  BY <1>3, <1>4, <1>5, FlushCand
<1>7. PICK a : a = IF g = NoAgent THEN linked[c] ELSE g
  OBVIOUS
<1>8. linked' = [linked EXCEPT ![c] = a]
  <2>1. linked' = IF g = NoAgent THEN linked ELSE [linked EXCEPT ![c] = g]
    BY <1>1 DEF Decide
  <2>2. linked = [x \in Candidates |-> linked[x]]
    BY DiSame
  <2>3. CASE g = NoAgent
    BY <1>3, <1>7, <2>1, <2>2, <2>3
  <2>4. CASE g # NoAgent
    BY <1>7, <2>1, <2>4
  <2> QED  BY <2>3, <2>4
<1>9. /\ cand' = [cand EXCEPT ![c] = n] /\ verdict' = [verdict EXCEPT ![c] = e.status]
      /\ person' = [person EXCEPT ![p] = DiIdle]
      /\ UNCHANGED <<diNow, source, run, diAgent, scan, alarm, madeBy, outcome, diRaced, died, land>>
  BY <1>1, <1>4 DEF Decide
<1>10. ASSUME <<"candidate", c>> \notin diRaced
       PROVE  /\ n.status = e.status /\ e.status \in {"IGNORED", "FALSE_POSITIVE", "MATCHED", "REGISTERED"}
              /\ a # NoAgent => n.agent = a
  <2>1. person[p].row = cand[c]
    BY <1>1, <1>3, <1>10 DEF DiInv, AloneOK, Alone, HeldByPerson
  <2>2. linked[c] # NoAgent => cand[c].agent = linked[c]
    BY <1>3, <1>10 DEF DiInv, LinkHolds
  <2>3. n = e
    BY <1>6, <2>1
  <2> QED  BY <1>7, <2>1, <2>2, <2>3
<1> QED  BY <1>1, <1>6, <1>8, <1>9, <1>10, PersonWrites

\* The row in a person's hand, with some of its columns edited.
LEMMA EditedCand ==
    ASSUME DiInv, NEW p \in People, person[p] # DiIdle, NEW e,
           e = [f \in DOMAIN person[p].row |-> e[f]],
           e.fp = person[p].row.fp, e.source = person[p].row.source, e.until \in Nat,
           e.status \in {"IGNORED", "FALSE_POSITIVE", "MATCHED"},
           \/ e.agent = person[p].row.agent /\ e.match = person[p].row.match /\ e.status # "MATCHED"
           \/ e.agent \in AgentRows /\ e.match \in MatchTypes
    PROVE  IsCand(e, AgentRows) /\ Heir(person[p].row, e)
<1>1. IsCand(person[p].row, AgentRows)
  BY DEF DiInv, CopiesOK, Copy
<1>2. DOMAIN person[p].row = {"fp", "name", "ref", "source", "status", "agent", "match", "until"}
  BY <1>1 DEF IsCand, CandShape
<1>3. CandShape(e)
  BY <1>2 DEF CandShape
<1>4. NoAgent \notin AgentRows
  BY AgentsFacts DEF DiInv
<1>5. Matched(e.agent, e.match, AgentRows)
  BY <1>1 DEF IsCand, Matched
<1>6. e.status \in {"MATCHED", "REGISTERED"} => e.agent # NoAgent
  BY <1>4
<1>7. Heir(person[p].row, e)
  BY <1>4 DEF Heir
<1>8. e.source \in DiSources
  BY <1>1 DEF IsCand
<1> QED  BY <1>3, <1>5, <1>6, <1>7, <1>8 DEF IsCand, DiscoveryCandidateStatus

LEMMA RowInHand ==
    ASSUME DiInv, NEW p \in People, person[p] # DiIdle
    PROVE  /\ DOMAIN person[p].row = {"fp", "name", "ref", "source", "status", "agent", "match", "until"}
           /\ person[p].row.until \in Nat
<1>1. IsCand(person[p].row, AgentRows)
  BY DEF DiInv, CopiesOK, Copy
<1> QED  BY <1>1 DEF IsCand, CandShape

LEMMA ignore_candidateOK ==
    ASSUME DiInv, NEW p \in People, ignore_candidate(p)
    PROVE  DiInv'
<1>1. person[p] # DiIdle /\ UNCHANGED diAgent
  BY DEF ignore_candidate, DiIdle
<1>2. PICK e : e = [person[p].row EXCEPT !.status = "IGNORED", !.until = diNow + 1]
  OBVIOUS
<1>3. Decide(p, e, NoAgent)
  BY <1>2 DEF ignore_candidate
<1>4. diNow + 1 \in Nat
  BY DiSame
<1>5. /\ e = [f \in DOMAIN person[p].row |-> e[f]]
      /\ e.fp = person[p].row.fp /\ e.source = person[p].row.source /\ e.until = diNow + 1 /\ e.status = "IGNORED"
      /\ e.agent = person[p].row.agent /\ e.match = person[p].row.match
  BY <1>1, <1>2, RowInHand
<1>6. IsCand(e, AgentRows) /\ Heir(person[p].row, e)
  BY <1>1, <1>4, <1>5, EditedCand
<1> QED  BY <1>1, <1>3, <1>5, <1>6, DecideOK

LEMMA mark_candidate_false_positiveOK ==
    ASSUME DiInv, NEW p \in People, mark_candidate_false_positive(p)
    PROVE  DiInv'
<1>1. person[p] # DiIdle /\ UNCHANGED diAgent
  BY DEF mark_candidate_false_positive, DiIdle
<1>2. PICK e : e = [person[p].row EXCEPT !.status = "FALSE_POSITIVE"]
  OBVIOUS
<1>3. Decide(p, e, NoAgent)
  BY <1>2 DEF mark_candidate_false_positive
<1>4. /\ e = [f \in DOMAIN person[p].row |-> e[f]]
      /\ e.fp = person[p].row.fp /\ e.source = person[p].row.source /\ e.until = person[p].row.until
      /\ e.status = "FALSE_POSITIVE" /\ e.agent = person[p].row.agent /\ e.match = person[p].row.match
  BY <1>1, <1>2, RowInHand
<1>5. e.until \in Nat
  BY <1>1, <1>4, RowInHand
<1>6. IsCand(e, AgentRows) /\ Heir(person[p].row, e)
  BY <1>1, <1>4, <1>5, EditedCand
<1> QED  BY <1>1, <1>3, <1>4, <1>6, DecideOK

LEMMA match_candidate_to_agentOK ==
    ASSUME DiInv, NEW p \in People, match_candidate_to_agent(p)
    PROVE  DiInv'
<1>1. person[p] # DiIdle /\ UNCHANGED diAgent
  BY DEF match_candidate_to_agent, DiIdle
<1>2. PICK a \in AgentRows :
        Decide(p, [person[p].row EXCEPT !.status = "MATCHED", !.agent = a, !.match = "MANUAL_MATCH"], a)
  BY DEF match_candidate_to_agent
<1>3. PICK e : e = [person[p].row EXCEPT !.status = "MATCHED", !.agent = a, !.match = "MANUAL_MATCH"]
  OBVIOUS
<1>4. /\ e = [f \in DOMAIN person[p].row |-> e[f]]
      /\ e.fp = person[p].row.fp /\ e.source = person[p].row.source /\ e.until = person[p].row.until
      /\ e.status = "MATCHED" /\ e.agent = a /\ e.match = "MANUAL_MATCH"
  BY <1>1, <1>3, RowInHand
<1>5. e.until \in Nat
  BY <1>1, <1>4, RowInHand
<1>6. IsCand(e, AgentRows) /\ Heir(person[p].row, e)
  BY <1>1, <1>4, <1>5, EditedCand DEF MatchTypes
<1>7. a # NoAgent
  BY AgentsFacts DEF DiInv
<1> QED  BY <1>1, <1>2, <1>3, <1>4, <1>6, <1>7, DecideOK

LEMMA PersonFields ==
    ASSUME DiInv, NEW p \in People, person[p] # DiIdle
    PROVE  DOMAIN person[p] = {"stage", "id", "row", "agent"} /\ person[p].id \in Candidates
<1>1. IsPerson(person[p], AgentRows)
  BY HandsTyped
<1> QED  BY <1>1 DEF IsPerson, PersonShape

LEMMA LookupIdentifierOK ==
    ASSUME DiInv, NEW p \in People, LookupIdentifier(p)
    PROVE  DiInv'
<1>1. PICK stage \in {"plain", "suffixed"} : person' = [person EXCEPT ![p].stage = stage]
  BY DEF LookupIdentifier
<1>2. /\ person[p] # DiIdle
      /\ UNCHANGED <<diNow, source, run, cand, diAgent, scan, alarm, madeBy, outcome, verdict, linked, diRaced, died, land>>
  BY DEF LookupIdentifier, DiIdle
<1>3. PICK d : d = [person[p] EXCEPT !.stage = stage]
  OBVIOUS
<1>4. person' = [person EXCEPT ![p] = d]
  BY <1>1, <1>3
<1>5. PersonShape(d) /\ d.stage = stage /\ d.id = person[p].id /\ d.row = person[p].row /\ d.id \in Candidates
  <2>1. DOMAIN person[p] = {"stage", "id", "row", "agent"} /\ person[p].id \in Candidates
    BY <1>2, PersonFields
  <2>2. /\ d = [f \in {"stage", "id", "row", "agent"} |-> d[f]]
        /\ d.stage = stage /\ d.id = person[p].id /\ d.row = person[p].row
    BY <1>3, <2>1
  <2> QED  BY <2>1, <2>2 DEF PersonShape
<1>6. AgentRows' = AgentRows
  BY <1>2 DEF AgentRows
<1>7. IsPerson(d, AgentRows')
  BY <1>5 DEF IsPerson
<1> QED  BY <1>2, <1>4, <1>5, <1>6, <1>7, DiSame, PersonLooks

LEMMA InsertAgentOK ==
    ASSUME DiInv, NEW p \in People, InsertAgent(p)
    PROVE  DiInv'
<1>1. /\ person[p] # DiIdle
      /\ UNCHANGED <<diNow, source, run, cand, scan, alarm, madeBy, outcome, verdict, linked, diRaced, died, land>>
  BY DEF InsertAgent, DiIdle
<1>2. PICK a \in DiAgents \ AgentRows :
        \/ /\ \E ident : diAgent' = [diAgent EXCEPT ![a] =
                              [ident |-> ident, ref |-> person[p].row.ref, name |-> person[p].row.name]]
           /\ person' = [person EXCEPT ![p].stage = "link", ![p].agent = a]
        \/ person' = [person EXCEPT ![p] = DiIdle] /\ UNCHANGED diAgent
  BY DEF InsertAgent
<1>3. ASSUME NEW ident,
             diAgent' = [diAgent EXCEPT ![a] =
                            [ident |-> ident, ref |-> person[p].row.ref, name |-> person[p].row.name]],
             person' = [person EXCEPT ![p].stage = "link", ![p].agent = a]
      PROVE  DiInv'
  <2>1. PICK d : d = [person[p] EXCEPT !.stage = "link", !.agent = a]
    OBVIOUS
  <2>2. person' = [person EXCEPT ![p] = d]
    BY <1>3, <2>1
  <2>3. PersonShape(d) /\ d.stage = "link" /\ d.agent = a /\ d.id = person[p].id /\ d.row = person[p].row /\ d.id \in Candidates
    <3>1. DOMAIN person[p] = {"stage", "id", "row", "agent"} /\ person[p].id \in Candidates
      BY <1>1, PersonFields
    <3>2. /\ d = [f \in {"stage", "id", "row", "agent"} |-> d[f]]
          /\ d.stage = "link" /\ d.agent = a /\ d.id = person[p].id /\ d.row = person[p].row
      BY <2>1, <3>1
    <3> QED  BY <3>1, <3>2 DEF PersonShape
  <2>4. diAgent = [x \in DiAgents |-> diAgent[x]]
    BY DiSame
  <2>5. /\ diAgent' = [x \in DiAgents |-> diAgent'[x]] /\ diAgent'[a] # NoAgentRow
        /\ \A x \in DiAgents \ {a} : diAgent'[x] = diAgent[x]
    BY <1>3, <2>4, DiNone
  <2>6. AgentRows \subseteq AgentRows' /\ a \in AgentRows'
    BY <2>5 DEF AgentRows
  <2>7. IsPerson(d, AgentRows')
    BY <2>3, <2>6 DEF IsPerson
  <2> QED  BY <1>1, <2>2, <2>3, <2>5, <2>6, <2>7, PersonLooks
<1>4. ASSUME person' = [person EXCEPT ![p] = DiIdle], UNCHANGED diAgent  PROVE DiInv'
  <2>1. AgentRows' = AgentRows
    BY <1>4 DEF AgentRows
  <2> QED  BY <1>1, <1>4, <2>1, DiSame, PersonLooks
<1> QED  BY <1>2, <1>3, <1>4

LEMMA LinkAgentOK ==
    ASSUME DiInv, NEW p \in People, LinkAgent(p)
    PROVE  DiInv'
<1>1. PICK c, a : c = person[p].id /\ a = person[p].agent
  OBVIOUS
<1>2. person[p] # DiIdle /\ person[p].stage = "link"
  BY DEF LinkAgent, DiIdle
<1>3. a \in AgentRows
  BY <1>1, <1>2, HandsTyped DEF IsPerson
<1>4. c \in Rows /\ IsCand(cand[c], AgentRows)
  BY <1>1, <1>2, HandsTyped DEF DiInv, CopiesOK, Copy
<1>5. a # NoAgent
  BY <1>3, AgentsFacts DEF DiInv
<1>6. PICK n : n = [cand[c] EXCEPT !.status = "REGISTERED", !.agent = a, !.match = "ONBOARDED"]
  OBVIOUS
<1>7. /\ cand' = [cand EXCEPT ![c] = n]
      /\ verdict' = [verdict EXCEPT ![c] = "REGISTERED"] /\ linked' = [linked EXCEPT ![c] = a]
      /\ person' = [person EXCEPT ![p] = DiIdle]
      /\ UNCHANGED <<diNow, source, run, diAgent, scan, alarm, madeBy, outcome, diRaced, died, land>>
  BY <1>1, <1>6 DEF LinkAgent
<1>8. DOMAIN cand[c] = {"fp", "name", "ref", "source", "status", "agent", "match", "until"}
  BY <1>4 DEF IsCand, CandShape
<1>9. /\ n = [f \in DOMAIN cand[c] |-> n[f]]
      /\ n.fp = cand[c].fp /\ n.source = cand[c].source /\ n.until = cand[c].until
      /\ n.status = "REGISTERED" /\ n.agent = a /\ n.match = "ONBOARDED"
  BY <1>6, <1>8
<1>10. CandShape(n)
  BY <1>8, <1>9 DEF CandShape
<1>11. IsCand(n, AgentRows) /\ Heir(cand[c], n)
  BY <1>3, <1>4, <1>5, <1>9, <1>10 DEF IsCand, Heir, Matched, MatchTypes, DiscoveryCandidateStatus
<1> QED  BY <1>1, <1>2, <1>5, <1>7, <1>9, <1>11, PersonWrites

LEMMA LoadCandidateOK ==
    ASSUME DiInv, NEW p \in People, NEW c \in Candidates, NEW op \in {"ignore", "false_positive", "match", "onboard"},
           LoadCandidate(p, c, op)
    PROVE  DiInv'
<1>1. PICK d : d = [stage |-> op, id |-> c, row |-> cand[c], agent |-> NoAgent]
  OBVIOUS
<1>2. /\ person[p] = DiIdle /\ c \in Rows /\ person' = [person EXCEPT ![p] = d]
      /\ diRaced' = IF \/ \E q \in People \ {p} : HeldByPerson(q, c)
                       \/ \E s \in Scanners : HeldByScan(s, c)
                    THEN diRaced \cup {<<"candidate", c>>} ELSE diRaced
      /\ UNCHANGED <<diNow, source, run, cand, diAgent, scan, alarm, madeBy, outcome, verdict, linked, died, land>>
  BY <1>1 DEF LoadCandidate
<1>3. PersonShape(d) /\ d.stage = op /\ d.id = c /\ d.row = cand[c]
  BY <1>1 DEF PersonShape
<1>4. d # DiIdle
  BY <1>3, DiNone
<1>5. /\ person' = [q \in People |-> person'[q]] /\ person'[p] = d /\ \A q \in People \ {p} : person'[q] = person[q]
  BY <1>2, PersonPut
<1>6. AgentRows' = AgentRows /\ Rows' = Rows /\ diRaced \subseteq diRaced'
  BY <1>2 DEF AgentRows, Rows
<1>7. IsPerson(d, AgentRows)
  BY <1>3 DEF IsPerson
<1>8. DiTyped'
  BY <1>2, <1>5, <1>6, <1>7, DiSame, TypedKept
<1>9. RunOK'
  BY <1>2, RunKept
<1>10. CompletedRunsAlerted'
  BY <1>2, <1>6, AlarmKept
<1>11. CopiesOK'
  <2>1. IsCand(cand[c], AgentRows) /\ Heir(cand[c], cand[c])
    BY <1>2, HandsTyped DEF Heir
  <2>2. person'[p].id \in Rows' /\ IsCand(person'[p].row, AgentRows') /\ Heir(person'[p].row, cand'[person'[p].id])
    BY <1>2, <1>3, <1>5, <1>6, <2>1
  <2> QED  BY <1>2, <1>5, <1>6, <2>2, DiSame, CopiesKept
<1>12. AloneOK'
  <2> SUFFICES ASSUME NEW x \in Candidates, <<"candidate", x>> \notin diRaced'  PROVE Alone(x)'
    BY DEF AloneOK
  <2>1. Alone(x)
    BY <1>6 DEF DiInv, AloneOK
  <2>2. \A s \in Scanners : HeldByScan(s, x)' <=> HeldByScan(s, x)
    BY <1>2 DEF HeldByScan, Scanning
  <2>3. \A q \in People : HeldByPerson(q, x)' => HeldByPerson(q, x) \/ (q = p /\ x = c)
    BY <1>3, <1>5 DEF HeldByPerson
  <2>4. x = c => /\ \A s \in Scanners : ~HeldByScan(s, x)
                 /\ \A q \in People \ {p} : ~HeldByPerson(q, x)
    BY <1>2
  <2>5. ~HeldByPerson(p, x)
    BY <1>2 DEF HeldByPerson
  <2>6. \A q, r \in People : (HeldByPerson(q, x)' /\ HeldByPerson(r, x)') => q = r
    BY <2>1, <2>3, <2>4, <2>5 DEF Alone
  <2>7. \A s \in Scanners, q \in People : ~(HeldByScan(s, x)' /\ HeldByPerson(q, x)')
    BY <2>1, <2>2, <2>3, <2>4 DEF Alone
  <2>8. \A s, t \in Scanners : (HeldByScan(s, x)' /\ HeldByScan(t, x)') => s = t
    BY <2>1, <2>2 DEF Alone
  <2>9. ASSUME NEW q \in People, HeldByPerson(q, x)'  PROVE person'[q].row = cand'[x]
    <3>1. CASE q = p
      BY <1>2, <1>3, <1>5, <2>9, <3>1 DEF HeldByPerson
    <3>2. CASE q # p
      BY <1>2, <1>5, <2>1, <2>3, <2>9, <3>2 DEF Alone
    <3> QED  BY <3>1, <3>2
  <2>10. \A s \in Scanners : scan'[s] # DiIdle => \A y \in scan'[s].pending : y.id = x => y.row = cand'[x]
    BY <1>2, <2>1 DEF Alone, Scanning
  <2> QED  BY <2>6, <2>7, <2>8, <2>9, <2>10 DEF Alone, Scanning
<1>13. VerdictHolds' /\ LinkHolds' /\ Undecided'
  BY <1>2, <1>6, DiSame, VerdictKept
<1>14. \A f : FewOf(f)'
  BY <1>2, <1>6, FewKept
<1>15. CountsOK'
  BY <1>2, <1>6, DiSame, CountsKept
<1>16. SourceOK' /\ SourceTellsLastRun'
  BY <1>2, <1>6, SourceKept
<1> QED  BY <1>8, <1>9, <1>10, <1>11, <1>12, <1>13, <1>14, <1>15, <1>16 DEF DiInv

-----------------------------------------------------------------------------
(* The invariant of discovery, and what follows from it.                   *)

LEMMA DiInitOK == ASSUME DiInit PROVE DiInv
<1>1. /\ land \in Lands /\ diNow = 0 /\ source = [s \in DiSources |-> NewSource] /\ run = [r \in Runs |-> "none"]
      /\ cand = [c \in Candidates |-> NoCandidate] /\ scan = [s \in Scanners |-> DiIdle]
      /\ person = [p \in People |-> DiIdle] /\ alarm = [c \in Candidates |-> "none"]
      /\ madeBy = [c \in Candidates |-> 0] /\ outcome = [s \in DiSources |-> "none"]
      /\ verdict = [c \in Candidates |-> "none"] /\ linked = [c \in Candidates |-> NoAgent]
      /\ diAgent = [a \in DiAgents |-> diAgent[a]]
  BY DEF DiInit
<1>2. Rows = {}
  BY <1>1 DEF Rows
<1>3. \A s \in Scanners : ~Scanning(s)
  BY <1>1 DEF Scanning
<1>4. \A p \in People : person[p] = DiIdle
  BY <1>1
<1>5. NewSource \in SourceRow /\ NewSource.status = "CONFIGURED" /\ NewSource.error = "none" /\ NewSource.found = 0
  BY DEF NewSource, SourceRow, DiscoverySourceStatus
<1>6. DiTyped
  BY <1>1, <1>2, <1>3, <1>4, <1>5 DEF DiTyped
<1>7. RunOK
  BY <1>1, <1>3 DEF RunOK, RunsClosed
<1>8. CopiesOK
  BY <1>3, <1>4 DEF CopiesOK
<1>9. AloneOK
  BY <1>3, <1>4 DEF AloneOK, Alone, HeldByScan, HeldByPerson
<1>10. SourceOK
  BY <1>3 DEF SourceOK
<1>11. CompletedRunsAlerted /\ VerdictHolds /\ LinkHolds
  BY <1>2 DEF CompletedRunsAlerted, VerdictHolds, LinkHolds
<1>12. SourceTellsLastRun
  BY <1>1, <1>5 DEF SourceTellsLastRun
<1>13. Undecided
  BY <1>1 DEF Undecided
<1>14. \A f : FewOf(f)
  <2> SUFFICES ASSUME NEW f  PROVE FewOf(f)
    OBVIOUS
  <2>1. RowsOf(f) = {} /\ InsertersOf(f) = {}
    BY <1>2, <1>3 DEF RowsOf, InsertersOf
  <2>2. Cardinality(RowsOf(f)) = 0 /\ Cardinality(InsertersOf(f)) = 0
    BY <2>1, FS_EmptySet
  <2> QED  BY <2>2, FewFacts DEF FewOf
<1>15. CountsOK
  <2>1. \A s \in DiSources : 0 <= Cardinality(Closed(s))
    BY FoundFacts
  <2> QED  BY <1>1, <1>3, <1>5, <2>1 DEF CountsOK
<1> QED  BY <1>6, <1>7, <1>8, <1>9, <1>10, <1>11, <1>12, <1>13, <1>14, <1>15 DEF DiInv

LEMMA DiNextOK == ASSUME DiInv, [DiNext]_diVars PROVE DiInv'
<1>1. ASSUME NEW s \in Scanners, ScanStep(s)  PROVE DiInv'
  <2>1. CASE FailCredential(s)
    BY <2>1, FailRunOK DEF FailCredential
  <2>2. CASE FailScan(s)
    BY <2>2, FailRunOK DEF FailScan
  <2>3. CASE Scan(s)
    BY <2>3, ScanOK
  <2>4. CASE Examine(s)
    BY <2>4, ExamineOK
  <2>5. CASE InsertCandidate(s)
    BY <2>5, InsertCandidateOK
  <2>6. CASE Tally(s)
    BY <2>6, TallyOK
  <2>7. CASE Complete(s)
    BY <2>7, CompleteOK
  <2> QED  BY <1>1, <2>1, <2>2, <2>3, <2>4, <2>5, <2>6, <2>7 DEF ScanStep
<1>2. ASSUME NEW p \in People, PersonStep(p)  PROVE DiInv'
  BY <1>2, ignore_candidateOK, mark_candidate_false_positiveOK, match_candidate_to_agentOK,
     LookupIdentifierOK, InsertAgentOK, LinkAgentOK DEF PersonStep
<1>3. CASE UNCHANGED diVars
  <2>1. UNCHANGED <<diNow, source, run, cand, diAgent, scan, person, alarm, madeBy, outcome, verdict, linked, diRaced, died, land>>
    BY <1>3 DEF diVars
  <2>2. AgentRows' = AgentRows /\ Rows' = Rows
    BY <2>1 DEF AgentRows, Rows
  <2>3. DiTyped' /\ CopiesOK'
    BY <2>1, <2>2, DiSame, TypedKept, CopiesKept
  <2>4. RunOK' /\ CompletedRunsAlerted' /\ AloneOK'
    BY <2>1, <2>2, RunKept, AlarmKept, AloneKept
  <2>5. VerdictHolds' /\ LinkHolds' /\ Undecided'
    BY <2>1, <2>2, DiSame, VerdictKept
  <2>6. \A f : FewOf(f)'
    BY <2>1, <2>2, FewKept
  <2>7. CountsOK'
    BY <2>1, <2>2, DiSame, CountsKept
  <2>8. SourceOK' /\ SourceTellsLastRun'
    BY <2>1, SourceKept
  <2> QED  BY <2>3, <2>4, <2>5, <2>6, <2>7, <2>8 DEF DiInv
<1>4. ASSUME NEW s \in Scanners, NEW src \in DOMAIN land.reports, StartRun(s, src)  PROVE DiInv'
  BY <1>4, StartRunOK
<1>5. ASSUME NEW p \in People, NEW c \in Candidates, NEW op \in {"ignore", "false_positive", "match", "onboard"},
             LoadCandidate(p, c, op)
      PROVE  DiInv'
  BY <1>5, LoadCandidateOK
<1>6. ASSUME NEW s \in Scanners, Die(s)  PROVE DiInv'
  BY <1>6, DieOK
<1>7. CASE DiTick
  BY <1>7, DiTickOK
<1> QED  BY <1>1, <1>2, <1>3, <1>4, <1>5, <1>6, <1>7 DEF DiNext

\* The inductive invariant of discovery: a run has one session, copies in hand are of rows that
\* have lost no agent since, who has a candidate alone has it as it is, and every fingerprint has
\* at most as many rows and insertions under way as there are scanners.
THEOREM DiInvariance == DiSpec => []DiInv
<1> QED  BY DiInitOK, DiNextOK, PTL DEF DiSpec

\* execute_discovery_run closes its run unless the session is lost, raises the alarms of what it
\* inserted before the run is COMPLETED, never counts a candidate that did not come from the
\* source, and leaves in the source how the last run ended.
THEOREM RunsTheorem == DiSpec => []RunsAccounted
<1>1. DiInv => RunsAccounted
  <2> SUFFICES ASSUME DiInv  PROVE RunsAccounted
    OBVIOUS
  <2>1. \A s \in DiSources : source[s].status \in DiscoverySourceStatus /\ source[s].found \in Nat
    BY DiSame DEF SourceRow
  <2>2. \A r \in Runs : run[r] \in DiscoveryRunStatus \cup {"none"}
    BY DiSame
  <2>3. ASSUME NEW c \in Rows
        PROVE  /\ cand[c].status \in DiscoveryCandidateStatus
               /\ cand[c].agent = NoAgent <=> cand[c].match = "none"
               /\ cand[c].agent # NoAgent => cand[c].agent \in AgentRows /\ cand[c].match \in MatchTypes
    <3>1. cand[c].status \in DiscoveryCandidateStatus /\ Matched(cand[c].agent, cand[c].match, AgentRows)
      BY HandsTyped DEF IsCand
    <3>2. NoAgent \notin AgentRows
      BY AgentsFacts DEF DiInv
    <3> QED  BY <3>1, <3>2 DEF Matched, MatchTypes
  <2>4. \A s \in Scanners : Scanning(s) => run[scan[s].run] = "RUNNING"
    BY DEF DiInv, RunOK
  <2>5. DiTypeOK
    BY <2>1, <2>2, <2>3, <2>4 DEF DiTypeOK
  <2>6. CountNeverOverstates
    <3> SUFFICES ASSUME NEW s \in DiSources  PROVE source[s].found <= Cardinality({c \in Rows : cand[c].source = s})
      BY DEF CountNeverOverstates
    <3> DEFINE from == {c \in Rows : cand[c].source = s}
    <3>1. Closed(s) \subseteq from /\ from \subseteq Candidates
      BY DEF Closed, Rows
    <3> HIDE DEF from
    <3>2. IsFiniteSet(from)
      BY <3>1, DiFacts, FS_Subset
    <3>3. Cardinality(Closed(s)) <= Cardinality(from) /\ Cardinality(from) \in Nat /\ Cardinality(Closed(s)) \in Nat
      BY <3>1, <3>2, FoundFacts, FS_Subset, FS_CardinalityType
    <3>4. source[s].found <= Cardinality(Closed(s)) /\ source[s].found \in Nat
      BY <2>1 DEF DiInv, CountsOK
    <3>5. source[s].found <= Cardinality(from)
      BY <3>3, <3>4
    <3> QED  BY <3>5 DEF from
  <2>7. RunsClosed /\ CompletedRunsAlerted /\ SourceTellsLastRun
    BY DEF DiInv, RunOK
  <2> QED  BY <2>5, <2>6, <2>7 DEF RunsAccounted
<1> QED  BY <1>1, DiInvariance, PTL

\* Scans that overlap make at most one row each for a fingerprint, a managed candidate has an
\* agent, and a verdict and a link outlast every scan that did not overlap with them.
THEOREM CandidatesTheorem == DiSpec => []CandidatesHold
<1>1. DiInv => CandidatesHold
  <2> SUFFICES ASSUME DiInv  PROVE CandidatesHold
    OBVIOUS
  <2>1. DuplicatesOnlyByOverlap
    <3> SUFFICES ASSUME NEW c \in Rows
                 PROVE  Cardinality({d \in Rows : cand[d].fp = cand[c].fp}) <= Cardinality(Scanners)
      BY DEF DuplicatesOnlyByOverlap
    <3>1. PICK f : f = cand[c].fp
      OBVIOUS
    <3>2. {d \in Rows : cand[d].fp = cand[c].fp} = RowsOf(f)
      BY <3>1 DEF RowsOf
    <3>3. Cardinality(RowsOf(f)) + Cardinality(InsertersOf(f)) <= Cardinality(Scanners)
      BY DEF DiInv, FewOf
    <3>4. Cardinality(RowsOf(f)) <= Cardinality(Scanners)
      BY <3>3, FewFacts
    <3> QED  BY <3>2, <3>4
  <2>2. ManagedHasAgent
    BY HandsTyped DEF ManagedHasAgent, IsCand
  <2>3. VerdictHolds /\ LinkHolds
    BY DEF DiInv
  <2> QED  BY <2>1, <2>2, <2>3 DEF CandidatesHold
<1> QED  BY <1>1, DiInvariance, PTL

-----------------------------------------------------------------------------
(* The policy language: recursion along conditions.                        *)

\* What is true of every element of a ranked set, if it is whenever it is of all of lower rank.
LEMMA RankInduction ==
    ASSUME NEW S, NEW rank \in [S -> Nat], NEW T \in SUBSET S,
           \A s \in S : (\A r \in S : rank[r] < rank[s] => r \in T) => s \in T
    PROVE  T = S
<1> DEFINE Below(n) == \A s \in S : rank[s] < n => s \in T
           N == {n \in Nat : Below(n)}
<1>1. 0 \in N
  OBVIOUS
<1>2. ASSUME NEW n \in N PROVE n + 1 \in N
  <2> SUFFICES ASSUME NEW s \in S, rank[s] < n + 1 PROVE s \in T
    OBVIOUS
  <2>1. \A r \in S : rank[r] < rank[s] => r \in T
    <3> SUFFICES ASSUME NEW r \in S, rank[r] < rank[s] PROVE r \in T
      OBVIOUS
    <3>1. rank[r] < n
      OBVIOUS
    <3> QED  BY <3>1
  <2> QED  BY <2>1
<1> HIDE DEF N
<1>3. N = Nat
  <2>1. N \in SUBSET Nat
    BY DEF N
  <2> QED  BY <1>1, <1>2, <2>1, Induction
<1>4. ASSUME NEW s \in S PROVE s \in T
  <2>1. rank[s] \in Nat /\ rank[s] + 1 \in Nat
    OBVIOUS
  <2>2. Below(rank[s] + 1)
    BY <1>3, <2>1 DEF N
  <2> QED  BY <2>1, <2>2
<1> QED  BY <1>4

\* A function over a ranked set may be defined by what it is on elements of lower rank: body gives
\* its value at an element from the function, and looks at it at lower ranks only.
Agree(S, rank, f, g, n) == \A r \in S : rank[r] < n => f[r] = g[r]
LooksBelow(S, rank, V, body) ==
    /\ rank \in [S -> Nat] /\ V # {} /\ body \in [S \X [S -> V] -> V]
    /\ \A s \in S : \A f, g \in [S -> V] : Agree(S, rank, f, g, rank[s]) => body[<<s, f>>] = body[<<s, g>>]
Follows(S, V, body, f) == f \in [S -> V] /\ \A s \in S : f[s] = body[<<s, f>>]
LEMMA RankRecursion ==
    ASSUME NEW S, NEW rank, NEW V, NEW body, LooksBelow(S, rank, V, body)
    PROVE  \E f : Follows(S, V, body, f)
<1> rank \in [S -> Nat] /\ V # {} /\ body \in [S \X [S -> V] -> V]
  BY DEF LooksBelow
<1> \A s \in S : \A f, g \in [S -> V] : Agree(S, rank, f, g, rank[s]) => body[<<s, f>>] = body[<<s, g>>]
  BY DEF LooksBelow
<1> DEFINE Solves(f, n) == f \in [S -> V] /\ \A s \in S : rank[s] < n => f[s] = body[<<s, f>>]
           N == {n \in Nat : \E f \in [S -> V] : Solves(f, n)}
<1>1. 0 \in N
  <2>1. PICK v \in V : TRUE
    OBVIOUS
  <2>2. Solves([s \in S |-> v], 0)
    BY <2>1
  <2> QED  BY <2>2
<1>2. ASSUME NEW n \in N PROVE n + 1 \in N
  <2>1. PICK f \in [S -> V] : Solves(f, n)
    OBVIOUS
  <2> DEFINE g == [s \in S |-> IF rank[s] < n THEN f[s] ELSE body[<<s, f>>]]
  <2>2. g \in [S -> V]
    OBVIOUS
  <2>3. \A s \in S : rank[s] < n => g[s] = f[s]
    OBVIOUS
  <2>4. ASSUME NEW s \in S, rank[s] < n + 1 PROVE g[s] = body[<<s, g>>]
    <3>1. rank[s] \in Nat /\ rank[s] <= n
      BY <2>4
    <3>2. Agree(S, rank, g, f, rank[s])
      BY <2>3, <3>1 DEF Agree
    <3> HIDE DEF g
    <3>3. body[<<s, g>>] = body[<<s, f>>]
      BY <2>2, <3>2
    <3>4. g[s] = body[<<s, f>>]
      BY <2>1, <2>3 DEF g
    <3> QED  BY <3>3, <3>4
  <2> HIDE DEF g
  <2>5. Solves(g, n + 1)
    BY <2>2, <2>4
  <2> QED  BY <2>2, <2>5
<1>3. N = Nat
  <2>1. N \in SUBSET Nat
    OBVIOUS
  <2> HIDE DEF N
  <2> QED  BY <1>1, <1>2, <2>1, Induction
<1>4. ASSUME NEW f, NEW g, NEW n \in Nat, Solves(f, n), Solves(g, n)
      PROVE  Agree(S, rank, f, g, n)
  <2> DEFINE T == {s \in S : rank[s] < n => f[s] = g[s]}
  <2>1. ASSUME NEW s \in S, \A r \in S : rank[r] < rank[s] => r \in T PROVE s \in T
    <3> SUFFICES ASSUME rank[s] < n PROVE f[s] = g[s]
      OBVIOUS
    <3>1. Agree(S, rank, f, g, rank[s])
      BY <2>1 DEF Agree
    <3> QED  BY <1>4, <3>1
  <2> HIDE DEF T
  <2>2. T = S
    <3>1. T \in SUBSET S
      BY DEF T
    <3> QED  BY <2>1, <3>1, RankInduction
  <2> QED  BY <2>2 DEF T, Agree
<1>5. PICK F : \A n \in Nat : F[n] \in [S -> V] /\ Solves(F[n], n)
  <2>1. \A n \in Nat : \E f \in [S -> V] : Solves(f, n)
    BY <1>3
  <2> HIDE DEF Solves, N
  <2> DEFINE G == [n \in Nat |-> CHOOSE f \in [S -> V] : Solves(f, n)]
  <2>2. \A n \in Nat : G[n] \in [S -> V] /\ Solves(G[n], n)
    BY <2>1
  <2> QED  BY <2>2
<1> DEFINE h == [s \in S |-> F[rank[s] + 1][s]]
<1> HIDE DEF N
<1>6. h \in [S -> V]
  <2> SUFFICES ASSUME NEW s \in S PROVE F[rank[s] + 1][s] \in V
    OBVIOUS
  <2>1. rank[s] + 1 \in Nat
    OBVIOUS
  <2>2. F[rank[s] + 1] \in [S -> V]
    BY <1>5, <2>1
  <2> QED  BY <2>2
<1>8. ASSUME NEW f, NEW n \in Nat, NEW m \in Nat, m <= n, Solves(f, n) PROVE Solves(f, m)
  <2> SUFFICES ASSUME NEW s \in S, rank[s] < m PROVE f[s] = body[<<s, f>>]
    BY <1>8
  <2>1. rank[s] < n
    <3>1. rank[s] \in Nat
      OBVIOUS
    <3> QED  BY <1>8, <3>1
  <2> QED  BY <1>8, <2>1
<1>9. ASSUME NEW f, NEW n, Solves(f, n), NEW s \in S, rank[s] < n PROVE f[s] = body[<<s, f>>]
  BY <1>9
<1> HIDE DEF Solves
<1>7. ASSUME NEW s \in S PROVE h[s] = body[<<s, h>>]
  <2>1. PICK n \in Nat : n = rank[s]
    OBVIOUS
  <2>2. PICK f \in [S -> V] : f = F[n + 1] /\ Solves(f, n + 1)
    <3>1. n + 1 \in Nat
      OBVIOUS
    <3> QED  BY <1>5, <3>1
  <2>3. f[s] = body[<<s, f>>]
    <3>1. rank[s] < n + 1
      BY <2>1
    <3> QED  BY <1>9, <2>2, <3>1
  <2>4. Agree(S, rank, h, f, rank[s])
    <3> SUFFICES ASSUME NEW r \in S, rank[r] < n PROVE h[r] = f[r]
      BY <2>1 DEF Agree
    <3>1. PICK m \in Nat : m = rank[r]
      OBVIOUS
    <3>3. m + 1 \in Nat /\ n + 1 \in Nat /\ m + 1 <= n + 1
      BY <3>1
    <3>2. PICK g \in [S -> V] : g = F[m + 1] /\ Solves(g, m + 1)
      BY <1>5, <3>3
    <3>4. Solves(f, m + 1)
      BY <1>8, <2>2, <3>3
    <3>5. Agree(S, rank, g, f, m + 1)
      BY <1>4, <3>2, <3>3, <3>4
    <3>6. g[r] = f[r]
      BY <3>1, <3>5 DEF Agree
    <3> QED  BY <3>1, <3>2, <3>6
  <2> HIDE DEF h
  <2>5. body[<<s, h>>] = body[<<s, f>>]
    BY <1>6, <2>4
  <2>6. h[s] = f[s]
    BY <2>1, <2>2 DEF h
  <2> QED  BY <2>3, <2>5, <2>6
<1> QED  BY <1>6, <1>7 DEF Follows

-----------------------------------------------------------------------------
\* ---- Along the trees.
LEMMA ChildrenAreLower ==
    ASSUME NEW n \in Conditions, n.kind \in {"all", "any", "not"}, NEW i \in DOMAIN n.of
    PROVE  n.of[i] \in Conditions /\ Depth[n.of[i]] < Depth[n]
<1>1. n.of[i] \in Children(n)
  BY DEF Children
<1> QED  BY <1>1, ConditionsAssumption

LEMMA NegatedIsLower ==
    ASSUME NEW n \in Conditions, n.kind = "not"
    PROVE  1 \in DOMAIN n.of /\ n.of[1] \in Conditions /\ Depth[n.of[1]] < Depth[n]
<1>1. n.of \in Seq(Conditions) /\ Len(n.of) = 1
  BY ConditionsAssumption
<1>2. 1 \in DOMAIN n.of
  BY <1>1
<1> QED  BY <1>2, ChildrenAreLower

\* A tree holds when what its kind demands of its children does.
LEMMA EvaluateIs ==
    ASSUME NEW ctx, NEW n \in Conditions
    PROVE  evaluate_condition_node(n, ctx) <=>
             \/ n.kind = "all" /\ n.of # <<>> /\ \A i \in DOMAIN n.of : evaluate_condition_node(n.of[i], ctx)
             \/ n.kind = "any" /\ \E i \in DOMAIN n.of : evaluate_condition_node(n.of[i], ctx)
             \/ n.kind = "not" /\ ~evaluate_condition_node(n.of[1], ctx)
             \/ n.kind = "atom" /\ evaluate_atomic_condition(n, ctx)
<1> DEFINE Local(f, m) == \/ m.kind = "all" /\ m.of # <<>> /\ \A i \in DOMAIN m.of : f[m.of[i]]
                          \/ m.kind = "any" /\ \E i \in DOMAIN m.of : f[m.of[i]]
                          \/ m.kind = "not" /\ ~f[m.of[1]]
                          \/ m.kind = "atom" /\ evaluate_atomic_condition(m, ctx)
           Trees == [Conditions -> BOOLEAN]
           body == [p \in Conditions \X Trees |-> IF Local(p[2], p[1]) THEN TRUE ELSE FALSE]
<1>1. /\ body \in [Conditions \X Trees -> BOOLEAN]
      /\ \A m \in Conditions : \A f \in Trees : body[<<m, f>>] = IF Local(f, m) THEN TRUE ELSE FALSE
  OBVIOUS
<1>2. \A m \in Conditions : \A f, g \in Trees : Agree(Conditions, Depth, f, g, Depth[m]) => body[<<m, f>>] = body[<<m, g>>]
  <2> SUFFICES ASSUME NEW m \in Conditions, NEW f \in Trees, NEW g \in Trees, Agree(Conditions, Depth, f, g, Depth[m])
               PROVE  body[<<m, f>>] = body[<<m, g>>]
    OBVIOUS
  <2>1. m.kind \in {"all", "any"} => \A i \in DOMAIN m.of : f[m.of[i]] = g[m.of[i]]
    BY ChildrenAreLower DEF Agree
  <2>2. m.kind = "not" => f[m.of[1]] = g[m.of[1]]
    BY NegatedIsLower DEF Agree
  <2>3. Local(f, m) <=> Local(g, m)
    BY <2>1, <2>2
  <2> HIDE DEF Local, body
  <2> QED  BY <1>1, <2>3
<1> HIDE DEF body
<1>3. PICK f \in Trees : \A m \in Conditions : f[m] = body[<<m, f>>]
  <2>1. Depth \in [Conditions -> Nat] /\ BOOLEAN # {}
    BY ConditionsAssumption
  <2> HIDE DEF Local
  <2>2. LooksBelow(Conditions, Depth, BOOLEAN, body)
    BY <1>1, <1>2, <2>1 DEF LooksBelow
  <2>3. \E f : Follows(Conditions, BOOLEAN, body, f)
    BY <2>2, RankRecursion
  <2> QED  BY <2>3 DEF Follows
<1>4. f = [m \in Conditions |-> Local(f, m)]
  <2>1. \A m \in Conditions : f[m] = IF Local(f, m) THEN TRUE ELSE FALSE
    <3> HIDE DEF Local
    <3> QED  BY <1>1, <1>3
  <2>2. \A m \in Conditions : Local(f, m) = IF Local(f, m) THEN TRUE ELSE FALSE
    OBVIOUS
  <2>3. \A m \in Conditions : f[m] = Local(f, m)
    BY <2>1, <2>2
  <2> HIDE DEF Local
  <2> QED  BY <2>3
<1>5. \E h : h = [m \in Conditions |-> Local(h, m)] /\ \A m : evaluate_condition_node(m, ctx) = h[m]
  BY <1>4 DEF evaluate_condition_node
<1>6. PICK h : h = [m \in Conditions |-> Local(h, m)] /\ \A m : evaluate_condition_node(m, ctx) = h[m]
  BY <1>5
<1> QED  BY <1>6

\* A tree is valid at a depth when it is what its kind demands and its children are, one deeper.
LEMMA ValidIs ==
    ASSUME NEW n \in Conditions, NEW d \in 1..(MAX_NESTING_DEPTH + 1)
    PROVE  _validate_condition_node(n, d) <=>
             /\ d <= MAX_NESTING_DEPTH
             /\ \/ /\ n.kind \in {"all", "any"} /\ n.of # <<>>
                   /\ \A i \in DOMAIN n.of : _validate_condition_node(n.of[i], d + 1)
                \/ n.kind = "not" /\ _validate_condition_node(n.of[1], d + 1)
                \/ /\ n.kind = "atom" /\ n.field \in DOMAIN FieldType /\ n.op \in APLOperator
                   /\ _validate_operator_type_compatibility(n)
<1> DEFINE Levels == 1..(MAX_NESTING_DEPTH + 1)
           Local(f, m, e) ==
                /\ e <= MAX_NESTING_DEPTH
                /\ \/ m.kind \in {"all", "any"} /\ m.of # <<>> /\ \A i \in DOMAIN m.of : f[m.of[i]][e + 1]
                   \/ m.kind = "not" /\ f[m.of[1]][e + 1]
                   \/ /\ m.kind = "atom" /\ m.field \in DOMAIN FieldType /\ m.op \in APLOperator
                      /\ _validate_operator_type_compatibility(m)
           V == [Levels -> BOOLEAN]
           Trees == [Conditions -> V]
           body == [p \in Conditions \X Trees |-> [e \in Levels |-> IF Local(p[2], p[1], e) THEN TRUE ELSE FALSE]]
<1>1. /\ body \in [Conditions \X Trees -> V]
      /\ \A m \in Conditions : \A f \in Trees : body[<<m, f>>] = [e \in Levels |-> IF Local(f, m, e) THEN TRUE ELSE FALSE]
  <2> HIDE DEF Local, Levels
  <2> QED  OBVIOUS
<1>2. \A m \in Conditions : \A f, g \in Trees : Agree(Conditions, Depth, f, g, Depth[m]) => body[<<m, f>>] = body[<<m, g>>]
  <2> SUFFICES ASSUME NEW m \in Conditions, NEW f \in Trees, NEW g \in Trees, Agree(Conditions, Depth, f, g, Depth[m])
               PROVE  body[<<m, f>>] = body[<<m, g>>]
    OBVIOUS
  <2>1. m.kind \in {"all", "any"} => \A i \in DOMAIN m.of : f[m.of[i]] = g[m.of[i]]
    BY ChildrenAreLower DEF Agree
  <2>2. m.kind = "not" => f[m.of[1]] = g[m.of[1]]
    BY NegatedIsLower DEF Agree
  <2>3. \A e \in Levels : Local(f, m, e) <=> Local(g, m, e)
    BY <2>1, <2>2
  <2> HIDE DEF Local, body, Levels
  <2>4. /\ body[<<m, f>>] = [e \in Levels |-> IF Local(f, m, e) THEN TRUE ELSE FALSE]
        /\ body[<<m, g>>] = [e \in Levels |-> IF Local(g, m, e) THEN TRUE ELSE FALSE]
    BY <1>1
  <2>5. \A e \in Levels : (IF Local(f, m, e) THEN TRUE ELSE FALSE) = (IF Local(g, m, e) THEN TRUE ELSE FALSE)
    BY <2>3
  <2> QED  BY <2>4, <2>5, Zenon
<1> HIDE DEF body
<1>3. PICK f \in Trees : \A m \in Conditions : f[m] = body[<<m, f>>]
  <2>1. Depth \in [Conditions -> Nat]
    BY ConditionsAssumption
  <2>2. V # {}
    <3>1. [e \in Levels |-> TRUE] \in V
      OBVIOUS
    <3> QED  BY <3>1
  <2> HIDE DEF Local, V
  <2>3. LooksBelow(Conditions, Depth, V, body)
    BY <1>1, <1>2, <2>1, <2>2 DEF LooksBelow
  <2>4. \E f : Follows(Conditions, V, body, f)
    BY <2>3, RankRecursion
  <2> QED  BY <2>4 DEF Follows
<1>4. f = [m \in Conditions |-> [e \in Levels |-> Local(f, m, e)]]
  <2>1. \A m \in Conditions : f[m] = [e \in Levels |-> IF Local(f, m, e) THEN TRUE ELSE FALSE]
    <3> HIDE DEF Local
    <3> QED  BY <1>1, <1>3
  <2>2. \A m \in Conditions : \A e \in Levels : Local(f, m, e) = IF Local(f, m, e) THEN TRUE ELSE FALSE
    OBVIOUS
  <2>3. ASSUME NEW m \in Conditions PROVE f[m] = [e \in Levels |-> Local(f, m, e)]
    <3> HIDE DEF Local, Levels
    <3>1. f[m] = [e \in Levels |-> IF Local(f, m, e) THEN TRUE ELSE FALSE]
      BY <2>1
    <3>2. \A e \in Levels : Local(f, m, e) = IF Local(f, m, e) THEN TRUE ELSE FALSE
      BY <2>2
    <3>3. [e \in Levels |-> IF Local(f, m, e) THEN TRUE ELSE FALSE] = [e \in Levels |-> Local(f, m, e)]
      BY <3>2, Zenon
    <3> QED  BY <3>1, <3>3, Zenon
  <2> HIDE DEF Local, Levels
  <2> QED  BY <2>3
<1>5. \E h : h = [m \in Conditions |-> [e \in Levels |-> Local(h, m, e)]] /\ \A m, e : _validate_condition_node(m, e) = h[m][e]
  BY <1>4 DEF _validate_condition_node
<1>6. PICK h : h = [m \in Conditions |-> [e \in Levels |-> Local(h, m, e)]] /\ \A m, e : _validate_condition_node(m, e) = h[m][e]
  BY <1>5
<1>7. h[n][d] = Local(h, n, d)
  <2> HIDE DEF Local, Levels
  <2>1. h[n] = [e \in Levels |-> Local(h, n, e)]
    BY <1>6
  <2>2. d \in Levels
    BY DEF Levels
  <2> QED  BY <2>1, <2>2, Zenon
<1>8. _validate_condition_node(n, d) = Local(h, n, d)
  <2> HIDE DEF Local, Levels
  <2> QED  BY <1>6, <1>7, Zenon
<1> QED  BY <1>6, <1>8

\* What is below a tree: itself and what is below its children.
LEMMA NodesAre ==
    ASSUME NEW n \in Conditions
    PROVE  Nodes(n) = {n} \cup UNION {Nodes(child) : child \in Children(n)} /\ Nodes(n) \subseteq Conditions
<1> DEFINE Local(f, m) == {m} \cup UNION {f[child] : child \in Children(m)}
           V == SUBSET Conditions
           Trees == [Conditions -> V]
           body == [p \in Conditions \X Trees |-> Local(p[2], p[1])]
<1>0. \A m \in Conditions : Children(m) \subseteq Conditions /\ \A child \in Children(m) : Depth[child] < Depth[m]
  BY ConditionsAssumption
<1>1. /\ body \in [Conditions \X Trees -> V]
      /\ \A m \in Conditions : \A f \in Trees : body[<<m, f>>] = Local(f, m)
  <2>1. \A m \in Conditions : \A f \in Trees : Local(f, m) \in V
    BY <1>0
  <2> HIDE DEF Local
  <2> QED  BY <2>1
<1>2. \A m \in Conditions : \A f, g \in Trees : Agree(Conditions, Depth, f, g, Depth[m]) => body[<<m, f>>] = body[<<m, g>>]
  <2> SUFFICES ASSUME NEW m \in Conditions, NEW f \in Trees, NEW g \in Trees, Agree(Conditions, Depth, f, g, Depth[m])
               PROVE  body[<<m, f>>] = body[<<m, g>>]
    OBVIOUS
  <2>1. \A child \in Children(m) : f[child] = g[child]
    BY <1>0 DEF Agree
  <2>2. Local(f, m) = Local(g, m)
    BY <2>1
  <2> HIDE DEF Local, body
  <2> QED  BY <1>1, <2>2
<1> HIDE DEF body
<1>3. PICK f \in Trees : \A m \in Conditions : f[m] = body[<<m, f>>]
  <2>1. Depth \in [Conditions -> Nat] /\ V # {}
    BY ConditionsAssumption
  <2> HIDE DEF Local, V
  <2>2. LooksBelow(Conditions, Depth, V, body)
    BY <1>1, <1>2, <2>1 DEF LooksBelow
  <2>3. \E f : Follows(Conditions, V, body, f)
    BY <2>2, RankRecursion
  <2> QED  BY <2>3 DEF Follows
<1>4. f = [m \in Conditions |-> Local(f, m)]
  <2> HIDE DEF Local
  <2> QED  BY <1>1, <1>3
<1>5. \E h : h = [m \in Conditions |-> Local(h, m)] /\ \A m : Nodes(m) = h[m]
  BY <1>4 DEF Nodes
<1>6. PICK h : h = [m \in Conditions |-> Local(h, m)] /\ \A m : Nodes(m) = h[m]
  BY <1>5
<1>7. \A m \in Conditions : h[m] = Local(h, m)
  <2> HIDE DEF Local
  <2> QED  BY <1>6
<1>8. ASSUME NEW m \in Conditions PROVE Nodes(m) = {m} \cup UNION {Nodes(child) : child \in Children(m)}
  <2>1. Nodes(m) = {m} \cup UNION {h[child] : child \in Children(m)}
    BY <1>6, <1>7
  <2>2. {h[child] : child \in Children(m)} = {Nodes(child) : child \in Children(m)}
    BY <1>6
  <2> QED  BY <2>1, <2>2
<1>9. \A m \in Conditions : Nodes(m) \subseteq Conditions
  <2> DEFINE T == {m \in Conditions : Nodes(m) \subseteq Conditions}
  <2>1. ASSUME NEW m \in Conditions, \A k \in Conditions : Depth[k] < Depth[m] => k \in T PROVE m \in T
    <3>1. \A child \in Children(m) : Nodes(child) \subseteq Conditions
      BY <1>0, <2>1
    <3>2. Nodes(m) = {m} \cup UNION {Nodes(child) : child \in Children(m)}
      BY <1>8
    <3> QED  BY <3>1, <3>2
  <2> HIDE DEF T
  <2>2. T = Conditions
    <3>1. T \in SUBSET Conditions /\ Depth \in [Conditions -> Nat]
      BY ConditionsAssumption DEF T
    <3> QED  BY <2>1, <3>1, RankInduction
  <2> QED  BY <2>2 DEF T
<1> QED  BY <1>8, <1>9

-----------------------------------------------------------------------------
\* ---- What a version in force is like.
Legal(doc) ==
    /\ \E d \in Documents : Parses(d) /\ doc = normalized(d)
    /\ doc.version = "APL/1.0" /\ doc.named /\ Len(doc.rules) <= MAX_RULES_PER_POLICY /\ doc.default # "absent"
    /\ Len(doc.rules) \in Nat /\ DOMAIN doc.rules = 1..Len(doc.rules)
    /\ \A i \in DOMAIN doc.rules : doc.rules[i].when = Unconditional \/ doc.rules[i].when \in Conditions
AplInv == Legal(document)

\* Normalizing fills in the default only.
LEMMA NormalizedIsLegal ==
    ASSUME NEW d \in Documents, Parses(d)
    PROVE  Legal(normalized(d))
<1> DEFINE doc == normalized(d)
<1>1. /\ DOMAIN d = {"version", "named", "rules", "default", "target"} /\ d.rules \in Seq(Range(d.rules))
      /\ \A i \in DOMAIN d.rules : d.rules[i].when = Unconditional \/ d.rules[i].when \in Conditions
  BY DocumentsAssumption
<1>2. /\ doc.version = d.version /\ doc.named = d.named /\ doc.rules = d.rules
      /\ doc.default = IF d.default = "absent" THEN "DENY" ELSE d.default
  BY <1>1 DEF normalized
<1>3. Len(d.rules) \in Nat /\ DOMAIN d.rules = 1..Len(d.rules)
  BY <1>1
<1>4. Parses(d) /\ doc = normalized(d)
  OBVIOUS
<1>5. doc.default # "absent"
  BY <1>2
<1>6. doc.version = "APL/1.0" /\ doc.named /\ Len(doc.rules) <= MAX_RULES_PER_POLICY
  BY <1>2, <1>4 DEF Parses
<1> HIDE DEF doc
<1> QED  BY <1>1, <1>2, <1>3, <1>4, <1>5, <1>6 DEF Legal

\* Changing the rules of a version changes nothing else.
LEMMA WithRules ==
    ASSUME NEW doc, Legal(doc), NEW rules
    PROVE  LET other == [doc EXCEPT !.rules = rules]
           IN other.rules = rules /\ other.default = doc.default /\ other.target = doc.target
<1>1. PICK d \in Documents : doc = normalized(d)
  BY DEF Legal
<1>2. DOMAIN d = {"version", "named", "rules", "default", "target"}
  BY DocumentsAssumption
<1>3. DOMAIN doc = {"version", "named", "rules", "default", "target"}
  BY <1>1, <1>2 DEF normalized
<1> QED  BY <1>3

\* The rules that match, and whether one of them has the effect.
Hits(ast, ctx) == {i \in DOMAIN ast.rules : Matches(ast.rules[i], ctx)}
Has(ast, hit, e) == \E i \in hit : ast.rules[i].effect = e

LEMMA DecisionIs ==
    ASSUME NEW ast, NEW ctx
    PROVE  evaluate_apl_policy(ast, ctx) = IF OffTarget(ast, ctx) THEN "NO_MATCH" ELSE Precedence(ast, Hits(ast, ctx))
BY DEF evaluate_apl_policy, Hits

LEMMA PrecedenceIs ==
    ASSUME NEW ast, NEW hit
    PROVE  /\ Has(ast, hit, "DENY") => Precedence(ast, hit) = "DENY"
           /\ ~Has(ast, hit, "DENY") /\ Has(ast, hit, "REQUIRE_APPROVAL") => Precedence(ast, hit) = "REQUIRE_APPROVAL"
           /\ ~Has(ast, hit, "DENY") /\ ~Has(ast, hit, "REQUIRE_APPROVAL") /\ Has(ast, hit, "ALLOW") =>
                Precedence(ast, hit) = "ALLOW"
           /\ ~Has(ast, hit, "DENY") /\ ~Has(ast, hit, "REQUIRE_APPROVAL") /\ ~Has(ast, hit, "ALLOW") =>
                Precedence(ast, hit) = ast.default
BY DEF Precedence, Has

LEMMA SamePrecedence ==
    ASSUME NEW ast, NEW hit, NEW other, NEW also, other.default = ast.default,
           \A e : Has(ast, hit, e) <=> Has(other, also, e)
    PROVE  Precedence(ast, hit) = Precedence(other, also)
<1>1. /\ Has(ast, hit, "DENY") <=> Has(other, also, "DENY")
      /\ Has(ast, hit, "REQUIRE_APPROVAL") <=> Has(other, also, "REQUIRE_APPROVAL")
      /\ Has(ast, hit, "ALLOW") <=> Has(other, also, "ALLOW")
  OBVIOUS
<1>2. CASE Has(ast, hit, "DENY")
  BY <1>1, <1>2, PrecedenceIs
<1>3. CASE ~Has(ast, hit, "DENY") /\ Has(ast, hit, "REQUIRE_APPROVAL")
  BY <1>1, <1>3, PrecedenceIs
<1>4. CASE ~Has(ast, hit, "DENY") /\ ~Has(ast, hit, "REQUIRE_APPROVAL") /\ Has(ast, hit, "ALLOW")
  BY <1>1, <1>4, PrecedenceIs
<1>5. CASE ~Has(ast, hit, "DENY") /\ ~Has(ast, hit, "REQUIRE_APPROVAL") /\ ~Has(ast, hit, "ALLOW")
  BY <1>1, <1>5, PrecedenceIs
<1> QED  BY <1>2, <1>3, <1>4, <1>5

\* The order of the rules does not matter.
LEMMA LegalIsOrderFree ==
    ASSUME Legal(document)
    PROVE  OrderFree
<1> SUFFICES ASSUME NEW ctx \in Contexts
             PROVE  evaluate_apl_policy(document, ctx) = evaluate_apl_policy([document EXCEPT !.rules = Reverse(@)], ctx)
  BY DEF OrderFree
<1> DEFINE L == Len(document.rules)
           s == document.rules
           other == [document EXCEPT !.rules = Reverse(@)]
<1>1. L \in Nat /\ DOMAIN s = 1..L
  BY DEF Legal
<1>2. other.rules = Reverse(s) /\ other.default = document.default /\ other.target = document.target
  BY WithRules
<1>3. DOMAIN other.rules = 1..L /\ \A i \in 1..L : other.rules[i] = s[L - i + 1]
  BY <1>1, <1>2 DEF Reverse
<1> HIDE DEF L, s, other
<1>4. ASSUME NEW e PROVE Has(document, Hits(document, ctx), e) <=> Has(other, Hits(other, ctx), e)
  <2>0. \A i \in 1..L : L - i + 1 \in 1..L /\ L - (L - i + 1) + 1 = i
    BY <1>1
  <2>1. ASSUME NEW i \in Hits(document, ctx), s[i].effect = e
        PROVE  L - i + 1 \in Hits(other, ctx) /\ other.rules[L - i + 1].effect = e
    <3>1. i \in 1..L /\ Matches(s[i], ctx)
      BY <1>1 DEF Hits, s
    <3>2. L - i + 1 \in 1..L /\ other.rules[L - i + 1] = s[i]
      BY <2>0, <1>3, <3>1
    <3> QED  BY <3>1, <3>2, <2>1, <1>3 DEF Hits
  <2>2. ASSUME NEW i \in Hits(other, ctx), other.rules[i].effect = e
        PROVE  L - i + 1 \in Hits(document, ctx) /\ s[L - i + 1].effect = e
    <3>1. i \in 1..L /\ Matches(other.rules[i], ctx)
      BY <1>3 DEF Hits
    <3>2. L - i + 1 \in 1..L /\ other.rules[i] = s[L - i + 1]
      BY <2>0, <1>3, <3>1
    <3> QED  BY <3>1, <3>2, <2>2, <1>1 DEF Hits, s
  <2> QED  BY <2>1, <2>2 DEF Has, s
<1>5. Precedence(document, Hits(document, ctx)) = Precedence(other, Hits(other, ctx))
  BY <1>2, <1>4, SamePrecedence
<1>6. OffTarget(document, ctx) <=> OffTarget(other, ctx)
  BY <1>2 DEF OffTarget
<1>7. evaluate_apl_policy(document, ctx) = evaluate_apl_policy(other, ctx)
  BY <1>5, <1>6, DecisionIs
<1> QED  BY <1>7 DEF other

\* ---- What the validator keeps out.
Sound(n) == /\ n.kind # "malformed"
            /\ n.kind \in {"all", "any"} => n.of # <<>>
            /\ n.kind = "atom" => n.op \in APLOperator /\ (n.op \in {"in", "not_in"} => n.value.t = "list")

LEMMA ValidIsSound ==
    ASSUME NEW n \in Conditions, _validate_condition_node(n, 1)
    PROVE  \A m \in Nodes(n) : Sound(m)
<1> DEFINE Levels == 1..(MAX_NESTING_DEPTH + 1)
           T == {c \in Conditions : \A d \in Levels : _validate_condition_node(c, d) => \A m \in Nodes(c) : Sound(m)}
<1>1. ASSUME NEW c \in Conditions, \A r \in Conditions : Depth[r] < Depth[c] => r \in T PROVE c \in T
  <2> SUFFICES ASSUME NEW d \in Levels, _validate_condition_node(c, d) PROVE \A m \in Nodes(c) : Sound(m)
    OBVIOUS
  <2> DEFINE Below == \A child \in Children(c) : _validate_condition_node(child, d + 1)
  <2>1. /\ d <= MAX_NESTING_DEPTH
        /\ \/ /\ c.kind \in {"all", "any"} /\ c.of # <<>>
              /\ \A i \in DOMAIN c.of : _validate_condition_node(c.of[i], d + 1)
           \/ c.kind = "not" /\ _validate_condition_node(c.of[1], d + 1)
           \/ /\ c.kind = "atom" /\ c.field \in DOMAIN FieldType /\ c.op \in APLOperator
              /\ _validate_operator_type_compatibility(c)
    BY ValidIs
  <2>2. d + 1 \in Levels
    BY <2>1, ConditionsAssumption
  <2>3. Below /\ Sound(c)
    <3>1. CASE c.kind \in {"all", "any"}
      BY <2>1, <3>1 DEF Children, Sound
    <3>2. CASE c.kind = "not"
      <4>1. DOMAIN c.of = {1}
        BY <3>2, ConditionsAssumption
      <4> QED  BY <2>1, <3>2, <4>1 DEF Children, Sound
    <3>3. CASE c.kind = "atom"
      <4>1. Below
        BY <3>3 DEF Children
      <4>2. c.op \in APLOperator /\ _validate_operator_type_compatibility(c)
        BY <2>1, <3>3
      <4>3. c.op \in {"in", "not_in"} => c.value.t = "list"
        BY <4>2 DEF _validate_operator_type_compatibility
      <4> QED  BY <3>3, <4>1, <4>2, <4>3 DEF Sound
    <3> QED  BY <2>1, <3>1, <3>2, <3>3
  <2>4. \A child \in Children(c) : child \in Conditions /\ Depth[child] < Depth[c]
    BY ConditionsAssumption
  <2>5. \A child \in Children(c) : \A m \in Nodes(child) : Sound(m)
    BY <1>1, <2>2, <2>3, <2>4
  <2>6. Nodes(c) = {c} \cup UNION {Nodes(child) : child \in Children(c)}
    BY NodesAre
  <2> QED  BY <2>3, <2>5, <2>6
<1> HIDE DEF T
<1>2. T = Conditions
  <2>1. T \in SUBSET Conditions /\ Depth \in [Conditions -> Nat]
    BY ConditionsAssumption DEF T
  <2> QED  BY <1>1, <2>1, RankInduction
<1>3. 1 \in Levels
  BY ConditionsAssumption
<1> QED  BY <1>2, <1>3 DEF T

LEMMA LegalNeverFallsBack ==
    ASSUME Legal(document)
    PROVE  ValidNeverFallsBack
<1> SUFFICES ASSUME validate(document), NEW i \in DOMAIN document.rules, NEW n \in NodesOf(document.rules[i])
             PROVE  Sound(n)
  BY DEF ValidNeverFallsBack, Sound
<1>1. document.rules[i].when # Unconditional /\ n \in Nodes(document.rules[i].when)
  BY DEF NodesOf
<1>2. document.rules[i].when \in Conditions
  BY <1>1 DEF Legal
<1>3. _validate_condition_node(document.rules[i].when, 1)
  BY <1>1 DEF validate
<1> QED  BY <1>1, <1>2, <1>3, ValidIsSound

\* ---- A field less.
LEMMA PositiveOnLess ==
    ASSUME NEW ctx \in Contexts, NEW f \in DOMAIN ctx, NEW n \in Conditions,
           \A m \in Nodes(n) : m.kind # "not" /\ (m.kind = "atom" => m.op # "not_exists"),
           evaluate_condition_node(n, [ctx EXCEPT ![f] = Missing])
    PROVE  evaluate_condition_node(n, ctx)
<1> DEFINE less == [ctx EXCEPT ![f] = Missing]
           Plain(c) == \A m \in Nodes(c) : m.kind # "not" /\ (m.kind = "atom" => m.op # "not_exists")
           T == {c \in Conditions : Plain(c) /\ evaluate_condition_node(c, less) => evaluate_condition_node(c, ctx)}
<1>1. ASSUME NEW c \in Conditions, \A r \in Conditions : Depth[r] < Depth[c] => r \in T PROVE c \in T
  <2> SUFFICES ASSUME Plain(c), evaluate_condition_node(c, less) PROVE evaluate_condition_node(c, ctx)
    OBVIOUS
  <2>1. Nodes(c) = {c} \cup UNION {Nodes(child) : child \in Children(c)}
    BY NodesAre
  <2>2. \A child \in Children(c) : evaluate_condition_node(child, less) => evaluate_condition_node(child, ctx)
    <3> SUFFICES ASSUME NEW child \in Children(c), evaluate_condition_node(child, less)
                 PROVE  evaluate_condition_node(child, ctx)
      OBVIOUS
    <3>1. child \in Conditions /\ Depth[child] < Depth[c]
      BY ConditionsAssumption
    <3>2. Plain(child)
      BY <2>1
    <3> QED  BY <1>1, <3>1, <3>2
  <2>3. \/ c.kind = "all" /\ c.of # <<>> /\ \A i \in DOMAIN c.of : evaluate_condition_node(c.of[i], less)
        \/ c.kind = "any" /\ \E i \in DOMAIN c.of : evaluate_condition_node(c.of[i], less)
        \/ c.kind = "not" /\ ~evaluate_condition_node(c.of[1], less)
        \/ c.kind = "atom" /\ evaluate_atomic_condition(c, less)
    BY EvaluateIs
  <2>4. c.kind # "not" /\ (c.kind = "atom" => c.op # "not_exists")
    BY <2>1
  <2>5. CASE c.kind = "atom"
    <3>1. c.field \in DOMAIN ctx /\ less[c.field] = IF c.field = f THEN Missing ELSE ctx[c.field]
      BY <2>5, ContextsAssumption
    <3>2. evaluate_atomic_condition(c, less)
      BY <2>3, <2>5
    <3>3. less[c.field] # Missing
      BY <2>4, <2>5, <3>2 DEF evaluate_atomic_condition, WhenMissing
    <3>4. less[c.field] = ctx[c.field]
      BY <3>1, <3>3
    <3>5. evaluate_atomic_condition(c, ctx)
      <4> HIDE DEF less
      <4> QED  BY <3>2, <3>4 DEF evaluate_atomic_condition
    <3> QED  BY <2>5, <3>5, EvaluateIs
  <2>6. CASE c.kind \in {"all", "any"}
    <3>1. \A i \in DOMAIN c.of : evaluate_condition_node(c.of[i], less) => evaluate_condition_node(c.of[i], ctx)
      BY <2>2, <2>6 DEF Children
    <3> QED  BY <2>3, <2>6, <3>1, EvaluateIs
  <2> QED  BY <2>3, <2>4, <2>5, <2>6
<1> HIDE DEF T
<1>2. T = Conditions
  <2>1. T \in SUBSET Conditions /\ Depth \in [Conditions -> Nat]
    BY ConditionsAssumption DEF T
  <2> QED  BY <1>1, <2>1, RankInduction
<1> QED  BY <1>2 DEF T

LEMMA LegalFailsClosed ==
    ASSUME Legal(document)
    PROVE  AllowListFailsClosed
<1> SUFFICES ASSUME \A i \in DOMAIN document.rules :
                        /\ document.rules[i].effect = "ALLOW"
                        /\ \A n \in NodesOf(document.rules[i]) :
                                n.kind # "not" /\ (n.kind = "atom" => n.op # "not_exists"),
                    document.default = "DENY", document.target = <<>>, NEW ctx \in Contexts, NEW f \in DOMAIN ctx,
                    evaluate_apl_policy(document, ctx) = "DENY"
             PROVE  evaluate_apl_policy(document, [ctx EXCEPT ![f] = Missing]) = "DENY"
  BY DEF AllowListFailsClosed
<1> DEFINE less == [ctx EXCEPT ![f] = Missing]
<1>1. ~OffTarget(document, ctx) /\ ~OffTarget(document, less)
  BY DEF OffTarget
<1>2. Precedence(document, Hits(document, ctx)) = "DENY"
  BY <1>1, DecisionIs
<1>3. \A hit \in SUBSET DOMAIN document.rules : ~Has(document, hit, "DENY") /\ ~Has(document, hit, "REQUIRE_APPROVAL")
  BY DEF Has
<1>4. Hits(document, ctx) \in SUBSET DOMAIN document.rules /\ Hits(document, less) \in SUBSET DOMAIN document.rules
  BY DEF Hits
<1>5. ~Has(document, Hits(document, ctx), "ALLOW")
  BY <1>2, <1>3, <1>4, PrecedenceIs
<1>6. Hits(document, ctx) = {}
  BY <1>4, <1>5 DEF Has
<1>7. \A i \in DOMAIN document.rules : Matches(document.rules[i], less) => Matches(document.rules[i], ctx)
  <2> SUFFICES ASSUME NEW i \in DOMAIN document.rules, Matches(document.rules[i], less),
                      document.rules[i].when # Unconditional
               PROVE  Matches(document.rules[i], ctx)
    BY DEF Matches
  <2>1. document.rules[i].when \in Conditions
    BY DEF Legal
  <2>2. evaluate_condition_node(document.rules[i].when, less)
    BY DEF Matches
  <2>3. \A m \in Nodes(document.rules[i].when) : m.kind # "not" /\ (m.kind = "atom" => m.op # "not_exists")
    BY DEF NodesOf
  <2>4. evaluate_condition_node(document.rules[i].when, ctx)
    BY <2>1, <2>2, <2>3, PositiveOnLess
  <2> QED  BY <2>4 DEF Matches
<1>8. Hits(document, less) = {}
  BY <1>6, <1>7 DEF Hits
<1> HIDE DEF less
<1>9. Precedence(document, Hits(document, less)) = "DENY"
  <2>1. ~Has(document, Hits(document, less), "ALLOW")
    BY <1>8 DEF Has
  <2> QED  BY <1>3, <1>4, <2>1, PrecedenceIs
<1>10. evaluate_apl_policy(document, less) = "DENY"
  BY <1>1, <1>9, DecisionIs
<1> QED  BY <1>10 DEF less

\* ---- A contradiction.
LEMMA BoundIs ==
    ASSUME NEW ctx \in Contexts, NEW c \in Conditions, c.kind = "atom", c.value.t = "num",
           evaluate_condition_node(c, ctx)
    PROVE  /\ c.op \in Orderings => ctx[c.field].v \in Int /\ c.value.v \in Int
           /\ c.op \in {"gt", "gte"} => ctx[c.field].v >= c.value.v
           /\ c.op \in {"lt", "lte"} => ctx[c.field].v <= c.value.v
<1>1. evaluate_atomic_condition(c, ctx)
  BY EvaluateIs
<1>2. SUFFICES ASSUME c.op \in Orderings
               PROVE  /\ ctx[c.field].v \in Int /\ c.value.v \in Int
                      /\ c.op \in {"gt", "gte"} => ctx[c.field].v >= c.value.v
                      /\ c.op \in {"lt", "lte"} => ctx[c.field].v <= c.value.v
  BY DEF Orderings
<1>3. /\ ctx[c.field].t = "num"
      /\ c.op = "gt" => ctx[c.field].v > c.value.v
      /\ c.op = "gte" => ctx[c.field].v >= c.value.v
      /\ c.op = "lt" => ctx[c.field].v < c.value.v
      /\ c.op = "lte" => ctx[c.field].v <= c.value.v
  BY <1>1, <1>2 DEF evaluate_atomic_condition, WhenMissing, Orderings
<1>4. ctx[c.field].v \in Int /\ c.value.v \in Int
  BY <1>3, ConditionsAssumption, ContextsAssumption
<1> QED  BY <1>2, <1>3, <1>4

LEMMA LegalContradictionsNeverMatch ==
    ASSUME Legal(document)
    PROVE  ContradictionsNeverMatch
<1> SUFFICES ASSUME NEW i \in DOMAIN document.rules, NEW ctx \in Contexts, document.rules[i].when # Unconditional,
                    _check_impossible_bounds(document.rules[i].when), Matches(document.rules[i], ctx)
             PROVE  FALSE
  BY DEF ContradictionsNeverMatch
<1> DEFINE n == document.rules[i].when
<1>1. n \in Conditions /\ evaluate_condition_node(n, ctx)
  BY DEF Legal, Matches
<1>2. PICK f \in DOMAIN FieldType : \E low \in Bounds(n, f, {"gt", "gte"}), high \in Bounds(n, f, {"lt", "lte"}) : low > high
  BY DEF _check_impossible_bounds
<1>3. n.kind = "all"
  BY DEF _check_impossible_bounds
<1> HIDE DEF n
<1>4. PICK low \in Bounds(n, f, {"gt", "gte"}), high \in Bounds(n, f, {"lt", "lte"}) : low > high
  BY <1>2
<1>5. PICK j \in DOMAIN n.of : /\ n.of[j].kind = "atom" /\ n.of[j].field = f /\ n.of[j].op \in {"gt", "gte"}
                               /\ n.of[j].value.t = "num" /\ n.of[j].value.v = low
  BY DEF Bounds
<1>6. PICK k \in DOMAIN n.of : /\ n.of[k].kind = "atom" /\ n.of[k].field = f /\ n.of[k].op \in {"lt", "lte"}
                               /\ n.of[k].value.t = "num" /\ n.of[k].value.v = high
  BY DEF Bounds
<1>7. evaluate_condition_node(n.of[j], ctx) /\ evaluate_condition_node(n.of[k], ctx)
  BY <1>1, <1>3, EvaluateIs
<1>8. n.of[j] \in Conditions /\ n.of[k] \in Conditions
  BY <1>1, <1>3, ChildrenAreLower
<1>9. ctx[f].v \in Int /\ low \in Int /\ ctx[f].v >= low
  BY <1>5, <1>7, <1>8, BoundIs DEF Orderings
<1>10. high \in Int /\ ctx[f].v <= high
  BY <1>6, <1>7, <1>8, BoundIs DEF Orderings
<1> QED  BY <1>4, <1>9, <1>10

\* ---- A rule less.
LEMMA RemovedAt ==
    ASSUME NEW s, Len(s) \in Nat, DOMAIN s = 1..Len(s), NEW i \in DOMAIN s
    PROVE  /\ DOMAIN RemoveAt(s, i) = 1..(Len(s) - 1)
           /\ \A k \in 1..(Len(s) - 1) : RemoveAt(s, i)[k] = IF k < i THEN s[k] ELSE s[k + 1]
<1> DEFINE L == Len(s)
           low == SubSeq(s, 1, i - 1)
           high == SubSeq(s, i + 1, L)
<1>1. L \in Nat /\ i \in 1..L
  OBVIOUS
<1>2. Len(low) = i - 1 /\ \A k \in 1..(i - 1) : low[k] = s[k]
  BY <1>1
<1>3. Len(high) = L - i /\ \A k \in 1..(L - i) : high[k] = s[k + i]
  BY <1>1
<1>4. RemoveAt(s, i) = low \o high
  BY DEF RemoveAt
<1> HIDE DEF low, high, L
<1>5. /\ DOMAIN (low \o high) = 1..(Len(low) + Len(high))
      /\ \A k \in 1..(Len(low) + Len(high)) : (low \o high)[k] = IF k <= Len(low) THEN low[k] ELSE high[k - Len(low)]
  OBVIOUS
<1>6. DOMAIN RemoveAt(s, i) = 1..(L - 1)
  BY <1>1, <1>2, <1>3, <1>4, <1>5
<1>7. ASSUME NEW k \in 1..(L - 1) PROVE RemoveAt(s, i)[k] = IF k < i THEN s[k] ELSE s[k + 1]
  <2>0. k \in 1..(Len(low) + Len(high)) /\ Len(low) = i - 1
    BY <1>1, <1>2, <1>3
  <2>4. (low \o high)[k] = IF k <= Len(low) THEN low[k] ELSE high[k - Len(low)]
    BY <1>5, <2>0
  <2>1. RemoveAt(s, i)[k] = IF k <= i - 1 THEN low[k] ELSE high[k - (i - 1)]
    BY <1>4, <2>0, <2>4, Zenon
  <2>2. CASE k < i
    BY <1>1, <1>2, <2>1, <2>2
  <2>3. CASE ~(k < i)
    <3>1. k - (i - 1) \in 1..(L - i) /\ (k - (i - 1)) + i = k + 1
      BY <1>1, <2>3
    <3>2. high[k - (i - 1)] = s[k + 1]
      BY <1>3, <3>1
    <3> QED  BY <1>1, <2>1, <2>3, <3>2
  <2> QED  BY <2>2, <2>3
<1> QED  BY <1>6, <1>7 DEF L

LEMMA LegalDeadRulesOnlyTighten ==
    ASSUME Legal(document)
    PROVE  DeadRulesOnlyTighten
<1> SUFFICES ASSUME NEW i \in DeadRules(document), NEW ctx \in Contexts,
                    \A j \in DOMAIN document.rules : document.rules[j].effect \in Effects
             PROVE  LET without == [document EXCEPT !.rules = RemoveAt(@, i)] IN
                    Strictness[evaluate_apl_policy(document, ctx)] >= Strictness[evaluate_apl_policy(without, ctx)]
  BY DEF DeadRulesOnlyTighten
<1> DEFINE L == Len(document.rules)
           s == document.rules
           without == [document EXCEPT !.rules = RemoveAt(@, i)]
           hit == Hits(document, ctx)
           left == Hits(without, ctx)
<1>1. L \in Nat /\ DOMAIN s = 1..L /\ i \in 1..L
  BY DEF Legal, DeadRules
<1>2. without.rules = RemoveAt(s, i) /\ without.default = document.default /\ without.target = document.target
  BY WithRules
<1>3. DOMAIN without.rules = 1..(L - 1) /\ \A k \in 1..(L - 1) : without.rules[k] = IF k < i THEN s[k] ELSE s[k + 1]
  BY <1>1, <1>2, RemovedAt
<1>4. PICK j \in 1..L : j < i /\ s[j].when = Unconditional
  BY <1>1 DEF DeadRules
<1> \A k \in DOMAIN s : s[k].effect \in Effects
  OBVIOUS
<1>5. hit = {k \in DOMAIN s : Matches(s[k], ctx)} /\ left = {k \in DOMAIN without.rules : Matches(without.rules[k], ctx)}
  BY DEF Hits
<1>6. OffTarget(document, ctx) <=> OffTarget(without, ctx)
  BY <1>2 DEF OffTarget
<1>7. /\ \A e : Has(document, hit, e) <=> \E k \in hit : s[k].effect = e
      /\ \A e : Has(without, left, e) <=> \E k \in left : without.rules[k].effect = e
  BY DEF Has
<1> HIDE DEF L, s, without, hit, left
<1>8. ASSUME NEW e, Has(without, left, e) PROVE Has(document, hit, e)
  <2>1. PICK k \in left : without.rules[k].effect = e
    BY <1>7, <1>8
  <2>2. k \in 1..(L - 1) /\ Matches(without.rules[k], ctx)
    BY <1>3, <1>5
  <2>3. CASE k < i
    <3>1. k \in 1..L /\ without.rules[k] = s[k]
      BY <1>1, <1>3, <2>2, <2>3
    <3> QED  BY <1>1, <1>5, <1>7, <2>1, <2>2, <3>1
  <2>4. CASE ~(k < i)
    <3>1. k + 1 \in 1..L /\ without.rules[k] = s[k + 1]
      BY <1>1, <1>3, <2>2, <2>4
    <3> QED  BY <1>1, <1>5, <1>7, <2>1, <2>2, <3>1
  <2> QED  BY <2>3, <2>4
<1>9. PICK e \in Effects : Has(without, left, e)
  <2>1. j \in 1..(L - 1) /\ without.rules[j] = s[j]
    BY <1>1, <1>3, <1>4
  <2>2. j \in left
    BY <1>3, <1>4, <1>5, <2>1 DEF Matches
  <2>3. s[j].effect \in Effects
    BY <1>1
  <2> QED  BY <1>7, <2>1, <2>2, <2>3
<1>10. /\ Strictness["NO_MATCH"] = 0 /\ Strictness["ALLOW"] = 0
       /\ Strictness["REQUIRE_APPROVAL"] = 1 /\ Strictness["DENY"] = 2
  BY DEF Strictness
<1>11. Strictness[Precedence(document, hit)] >= Strictness[Precedence(without, left)]
  <2>1. CASE Has(document, hit, "DENY")
    <3>1. Precedence(document, hit) = "DENY"
      BY <2>1, PrecedenceIs
    <3>2. Precedence(without, left) \in Effects
      BY <1>9, PrecedenceIs DEF Effects
    <3> QED  BY <1>10, <3>1, <3>2 DEF Effects
  <2>2. CASE ~Has(document, hit, "DENY") /\ Has(document, hit, "REQUIRE_APPROVAL")
    <3>1. Precedence(document, hit) = "REQUIRE_APPROVAL"
      BY <2>2, PrecedenceIs
    <3>2. Precedence(without, left) \in {"REQUIRE_APPROVAL", "ALLOW"}
      BY <1>8, <1>9, <2>2, PrecedenceIs DEF Effects
    <3> QED  BY <1>10, <3>1, <3>2
  <2>3. CASE ~Has(document, hit, "DENY") /\ ~Has(document, hit, "REQUIRE_APPROVAL")
    <3>1. Has(document, hit, "ALLOW") /\ Has(without, left, "ALLOW")
      BY <1>8, <1>9, <2>3 DEF Effects
    <3>2. Precedence(document, hit) = "ALLOW" /\ Precedence(without, left) = "ALLOW"
      BY <1>8, <2>3, <3>1, PrecedenceIs
    <3> QED  BY <1>10, <3>2
  <2> QED  BY <2>1, <2>2, <2>3
<1>12. Strictness[evaluate_apl_policy(document, ctx)] >= Strictness[evaluate_apl_policy(without, ctx)]
  <2>1. CASE OffTarget(document, ctx)
    <3>1. evaluate_apl_policy(document, ctx) = "NO_MATCH" /\ evaluate_apl_policy(without, ctx) = "NO_MATCH"
      BY <1>6, <2>1, DecisionIs
    <3> QED  BY <1>10, <3>1
  <2>2. CASE ~OffTarget(document, ctx)
    <3>1. /\ evaluate_apl_policy(document, ctx) = Precedence(document, hit)
          /\ evaluate_apl_policy(without, ctx) = Precedence(without, left)
      BY <1>6, <2>2, DecisionIs DEF hit, left
    <3> QED  BY <1>11, <3>1
  <2> QED  BY <2>1, <2>2
<1> QED  BY <1>12 DEF without

\* ---- Every version in force is legal.
LEMMA AplInvariance == AplSpec => []AplInv
<1>1. AplInit => AplInv
  BY NormalizedIsLegal DEF AplInit, AplInv
<1>2. AplInv /\ [AplNext]_document => AplInv'
  <2> SUFFICES ASSUME AplInv, [AplNext]_document PROVE AplInv'
    OBVIOUS
  <2>1. CASE AplNext
    <3>1. PICK d \in Documents : Parses(d) /\ document' = normalized(d)
      BY <2>1 DEF AplNext, NewVersion
    <3>2. Legal(normalized(d))
      BY <3>1, NormalizedIsLegal
    <3>3. Legal(document')
      BY <3>1, <3>2
    <3> QED  BY <3>3 DEF AplInv, Legal
  <2>2. CASE UNCHANGED document
    BY <2>2 DEF AplInv, Legal
  <2> QED  BY <2>1, <2>2
<1> QED  BY <1>1, <1>2, PTL DEF AplSpec

THEOREM PolicyTheorem == AplSpec => []PolicyReadsTrue
<1>1. AplInv => PolicyReadsTrue
  <2> SUFFICES ASSUME Legal(document) PROVE PolicyReadsTrue
    BY DEF AplInv
  <2>1. AplTypeOK
    BY DEF Legal, AplTypeOK, Parses
  <2> QED  BY <2>1, LegalIsOrderFree, LegalNeverFallsBack, LegalFailsClosed, LegalContradictionsNeverMatch,
              LegalDeadRulesOnlyTighten DEF PolicyReadsTrue
<1> QED  BY <1>1, AplInvariance, PTL

-----------------------------------------------------------------------------
\* ---- A weaker version.
\* In a valid document one rule has an id.
LEMMA RuleOfIs ==
    ASSUME NEW doc, Legal(doc), validate(doc), NEW i \in DOMAIN doc.rules
    PROVE  RuleOf(doc, doc.rules[i].id) = i
<1> DEFINE s == doc.rules
           I == {k \in 1..Len(s) : s[k].id = s[i].id}
           Greatest(x) == x \in I /\ \A y \in I : x >= y
<1>1. I = {i}
  BY DEF Legal, validate
<1>2. RuleOf(doc, s[i].id) = IF I # {} THEN Max(I) ELSE 0
  BY DEF RuleOf, SelectLastInSeq
<1>3. i \in Nat
  BY DEF Legal
<1> HIDE DEF I
<1>4. \A x : Greatest(x) <=> x = i
  BY <1>1, <1>3
<1>5. Max(I) = CHOOSE x : Greatest(x)
  BY Zenon DEF Max
<1> HIDE DEF Greatest
<1>6. Max(I) = i
  BY <1>4, <1>5
<1> QED  BY <1>1, <1>2, <1>6 DEF s

\* A new version of which the comparison sees all, and sees nothing to report.
Quiet(old, new) == ~Unseen(old, new) /\ ~has_security_sensitive_changes(old, new)

LEMMA QuietIsNoWeaker ==
    ASSUME NEW old, NEW new, Legal(old), Legal(new), validate(old), validate(new), Quiet(old, new), NEW ctx
    PROVE  Strictness[evaluate_apl_policy(new, ctx)] >= Strictness[evaluate_apl_policy(old, ctx)]
<1> DEFINE was == Hits(old, ctx)
           is == Hits(new, ctx)
<1>1. /\ DOMAIN old.rules \subseteq Int /\ DOMAIN new.rules \subseteq Int
      /\ \A i \in DOMAIN old.rules : old.rules[i].effect \in Effects
      /\ \A i \in DOMAIN new.rules : new.rules[i].effect \in Effects
      /\ old.default \in Effects \cup {"NO_MATCH"} /\ new.default \in Effects \cup {"NO_MATCH"}
  BY DEF Legal, validate
\* A rule of either is removed, added or in both.
<1>2. ASSUME NEW i \in DOMAIN old.rules
      PROVE  \/ old.rules[i].effect = "ALLOW"
             \/ \E j \in DOMAIN new.rules :
                    /\ new.rules[j].when = old.rules[i].when
                    /\ old.rules[i].effect = "DENY" => new.rules[j].effect = "DENY"
                    /\ old.rules[i].effect = "REQUIRE_APPROVAL" => new.rules[j].effect # "ALLOW"
  <2> DEFINE id == old.rules[i].id
  <2>1. id \in RuleIds(old) /\ RuleOf(old, id) = i /\ EffectOf(old, id) = old.rules[i].effect
    BY RuleOfIs DEF RuleIds, EffectOf
  <2>2. CASE id \notin RuleIds(new)
    <3>1. EffectOf(old, id) \notin {"DENY", "REQUIRE_APPROVAL"}
      BY <2>1, <2>2 DEF Quiet, Unseen, has_security_sensitive_changes, SensitiveRemoval
    <3> QED  BY <1>1, <2>1, <3>1 DEF Effects
  <2>3. CASE id \in RuleIds(new)
    <3>1. PICK j \in DOMAIN new.rules : new.rules[j].id = id
      BY <2>3 DEF RuleIds
    <3>2. RuleOf(new, id) = j /\ EffectOf(new, id) = new.rules[j].effect
      BY <3>1, RuleOfIs DEF EffectOf
    <3>3. /\ ~(EffectOf(old, id) = "DENY" /\ EffectOf(new, id) # "DENY")
          /\ ~(EffectOf(old, id) = "REQUIRE_APPROVAL" /\ EffectOf(new, id) = "ALLOW")
          /\ old.rules[RuleOf(old, id)].when = new.rules[RuleOf(new, id)].when
      BY <2>1, <2>3 DEF Quiet, Unseen, has_security_sensitive_changes
    <3> QED  BY <2>1, <3>2, <3>3
  <2> QED  BY <2>2, <2>3
<1>3. ASSUME NEW j \in DOMAIN new.rules
      PROVE  \/ new.rules[j].effect = "DENY"
             \/ \E i \in DOMAIN old.rules : old.rules[i].when = new.rules[j].when
  <2> DEFINE id == new.rules[j].id
  <2>1. id \in RuleIds(new) /\ RuleOf(new, id) = j /\ EffectOf(new, id) = new.rules[j].effect
    BY RuleOfIs DEF RuleIds, EffectOf
  <2>2. CASE id \notin RuleIds(old)
    <3>1. EffectOf(new, id) \notin {"ALLOW", "REQUIRE_APPROVAL"}
      BY <2>1, <2>2 DEF Quiet, Unseen, has_security_sensitive_changes
    <3> QED  BY <1>1, <2>1, <3>1 DEF Effects
  <2>3. CASE id \in RuleIds(old)
    <3>1. PICK i \in DOMAIN old.rules : old.rules[i].id = id
      BY <2>3 DEF RuleIds
    <3>2. RuleOf(old, id) = i
      BY <3>1, RuleOfIs
    <3>3. old.rules[RuleOf(old, id)].when = new.rules[RuleOf(new, id)].when
      BY <2>1, <2>3 DEF Quiet, Unseen
    <3> QED  BY <2>1, <3>2, <3>3
  <2> QED  BY <2>2, <2>3
<1>4. \A i \in DOMAIN old.rules, j \in DOMAIN new.rules :
          old.rules[i].when = new.rules[j].when => (Matches(old.rules[i], ctx) <=> Matches(new.rules[j], ctx))
  BY DEF Matches
<1>5. was = {i \in DOMAIN old.rules : Matches(old.rules[i], ctx)} /\ is = {j \in DOMAIN new.rules : Matches(new.rules[j], ctx)}
  BY DEF Hits
<1>6. /\ \A e : Has(old, was, e) <=> \E i \in was : old.rules[i].effect = e
      /\ \A e : Has(new, is, e) <=> \E j \in is : new.rules[j].effect = e
  BY DEF Has
<1> HIDE DEF was, is
<1>7. Has(old, was, "DENY") => Has(new, is, "DENY")
  BY <1>2, <1>4, <1>5, <1>6
<1>8. Has(old, was, "REQUIRE_APPROVAL") => Has(new, is, "DENY") \/ Has(new, is, "REQUIRE_APPROVAL")
  <2> SUFFICES ASSUME NEW i \in was, old.rules[i].effect = "REQUIRE_APPROVAL"
               PROVE  Has(new, is, "DENY") \/ Has(new, is, "REQUIRE_APPROVAL")
    BY <1>6
  <2>1. PICK j \in DOMAIN new.rules : new.rules[j].when = old.rules[i].when /\ new.rules[j].effect # "ALLOW"
    BY <1>2, <1>5
  <2>2. j \in is /\ new.rules[j].effect \in {"DENY", "REQUIRE_APPROVAL"}
    BY <1>1, <1>4, <1>5, <2>1 DEF Effects
  <2> QED  BY <1>6, <2>2
<1>9. ~Has(new, is, "DENY") /\ was = {} => is = {}
  BY <1>3, <1>4, <1>5, <1>6
<1>10. /\ Strictness["NO_MATCH"] = 0 /\ Strictness["ALLOW"] = 0
       /\ Strictness["REQUIRE_APPROVAL"] = 1 /\ Strictness["DENY"] = 2
  BY DEF Strictness
<1>11. /\ Precedence(new, is) \in Effects \cup {"NO_MATCH"}
       /\ Precedence(old, was) \in Effects \cup {"NO_MATCH"}
  BY <1>1, PrecedenceIs DEF Effects
<1>12. Strictness[Precedence(new, is)] >= Strictness[Precedence(old, was)]
  <2>1. CASE Has(new, is, "DENY")
    <3>1. Precedence(new, is) = "DENY"
      BY <2>1, PrecedenceIs
    <3> QED  BY <1>10, <1>11, <3>1 DEF Effects
  <2>2. CASE ~Has(new, is, "DENY") /\ Has(old, was, "REQUIRE_APPROVAL")
    <3>1. Precedence(new, is) = "REQUIRE_APPROVAL" /\ Precedence(old, was) = "REQUIRE_APPROVAL"
      BY <1>7, <1>8, <2>2, PrecedenceIs
    <3> QED  BY <1>10, <3>1
  <2>3. CASE ~Has(new, is, "DENY") /\ ~Has(old, was, "REQUIRE_APPROVAL") /\ Has(old, was, "ALLOW")
    <3>1. Precedence(old, was) = "ALLOW"
      BY <1>7, <2>3, PrecedenceIs
    <3> QED  BY <1>10, <1>11, <3>1 DEF Effects
  <2>4. CASE ~Has(new, is, "DENY") /\ ~Has(old, was, "REQUIRE_APPROVAL") /\ ~Has(old, was, "ALLOW")
    <3>1. was = {}
      BY <1>1, <1>5, <1>6, <1>7, <2>4 DEF Effects
    <3>2. is = {}
      BY <1>9, <2>4, <3>1
    <3>3. Precedence(new, is) = new.default /\ Precedence(old, was) = old.default
      <4>1. \A e : ~Has(new, is, e) /\ ~Has(old, was, e)
        BY <1>6, <3>1, <3>2
      <4> QED  BY <4>1, PrecedenceIs
    <3>4. new.default = old.default
      BY DEF Quiet, Unseen, has_security_sensitive_changes
    <3> QED  BY <1>10, <1>11, <3>3, <3>4 DEF Effects
  <2> QED  BY <2>1, <2>2, <2>3, <2>4
<1>13. OffTarget(old, ctx) <=> OffTarget(new, ctx)
  BY DEF Quiet, Unseen, OffTarget
<1> QED
  <2>1. CASE OffTarget(old, ctx)
    <3>1. evaluate_apl_policy(old, ctx) = "NO_MATCH" /\ evaluate_apl_policy(new, ctx) = "NO_MATCH"
      BY <1>13, <2>1, DecisionIs
    <3> QED  BY <1>10, <3>1
  <2>2. CASE ~OffTarget(old, ctx)
    <3>1. evaluate_apl_policy(old, ctx) = Precedence(old, was) /\ evaluate_apl_policy(new, ctx) = Precedence(new, is)
      BY <1>13, <2>2, DecisionIs DEF was, is
    <3> QED  BY <1>12, <3>1
  <2> QED  BY <2>1, <2>2

\* Strictness is a number for what a valid version can decide.
LEMMA StrictnessIsANumber ==
    ASSUME NEW doc, Legal(doc), validate(doc), NEW ctx
    PROVE  Strictness[evaluate_apl_policy(doc, ctx)] \in Nat
<1>1. evaluate_apl_policy(doc, ctx) \in Effects \cup {"NO_MATCH"}
  <2>1. doc.default \in Effects \cup {"NO_MATCH"}
    BY DEF validate
  <2> QED  BY <2>1, DecisionIs, PrecedenceIs DEF Effects
<1> QED  BY <1>1 DEF Effects, Strictness

THEOREM WeakeningTheorem == AplSpec => WeakeningReported
<1>1. ASSUME NEW old, NEW new, Legal(old), Legal(new), validate(old), validate(new), ~Unseen(old, new), Weaker(old, new)
      PROVE  has_security_sensitive_changes(old, new)
  <2>1. SUFFICES ASSUME Quiet(old, new) PROVE FALSE
    BY <1>1 DEF Quiet
  <2>2. PICK ctx \in Contexts : Strictness[evaluate_apl_policy(new, ctx)] < Strictness[evaluate_apl_policy(old, ctx)]
    BY <1>1 DEF Weaker
  <2>3. Strictness[evaluate_apl_policy(new, ctx)] >= Strictness[evaluate_apl_policy(old, ctx)]
    BY <1>1, <2>1, QuietIsNoWeaker
  <2>4. Strictness[evaluate_apl_policy(new, ctx)] \in Nat /\ Strictness[evaluate_apl_policy(old, ctx)] \in Nat
    BY <1>1, StrictnessIsANumber
  <2> QED  BY <2>2, <2>3, <2>4
<1>2. Legal(document) /\ Legal(document') =>
          (/\ validate(document) /\ validate(document')
           /\ ~Unseen(document, document') /\ Weaker(document, document')
           => has_security_sensitive_changes(document, document'))
  BY <1>1
<1>3. AplInv /\ AplInv' => Legal(document) /\ Legal(document')
  BY DEF AplInv, Legal
<1>4. AplInv /\ AplInv' =>
          [/\ validate(document) /\ validate(document')
           /\ ~Unseen(document, document') /\ Weaker(document, document')
           => has_security_sensitive_changes(document, document')]_document
  BY <1>2, <1>3
<1> QED  BY <1>4, AplInvariance, PTL DEF WeakeningReported

-----------------------------------------------------------------------------
(* The scoring of requests.                                                *)

\* ---- The invariant.
Decisions == {"APPROVED", "PENDING", "REJECTED"}
Entry == [at : Nat, req : weather.requests, level : RiskLevel, action : RiskAction, decision : Decisions]
IsRequest(c) ==
    /\ c.stage \in {"score", "decide"} /\ c.req \in weather.requests /\ c.at \in Nat
    /\ c.creates \in BOOLEAN /\ c.blocked \in BOOLEAN /\ IsRiskPolicy(c.policy)
    /\ c.stage = "score" => DOMAIN c = {"stage", "req", "at", "creates", "blocked", "policy"}
    /\ c.stage = "decide" => c.level \in RiskLevel /\ c.action \in RiskAction /\ ~c.blocked
RkTyped ==
    /\ weather \in Weathers /\ rkNow \in Nat /\ lost \in Nat
    /\ riskPolicy = NoRiskPolicy \/ IsRiskPolicy(riskPolicy)
    /\ ledger \in Seq(Entry)
    /\ clerk = [w \in Clerks |-> clerk[w]] /\ \A w \in Clerks : clerk[w] = RkIdle \/ IsRequest(clerk[w])

Asking(w) == clerk[w].stage # "idle"
Blocked == {w \in Clerks : Asking(w) /\ clerk[w].blocked}
OneCreates == \A w, x \in Clerks : Creating(w) /\ Creating(x) => w = x
LostOK ==
    /\ riskPolicy = NoRiskPolicy => lost = 0
    /\ lost + Cardinality(Blocked) <= Cardinality(Clerks)

\* A scope whose policy is there and is never updated.
Settled == weather.updates = {} /\ weather.risk # NoRiskPolicy
SettledOK ==
    /\ Settled => riskPolicy = weather.risk
    /\ Settled => \A w \in Clerks : Asking(w) => clerk[w].policy = weather.risk /\ ~clerk[w].blocked /\ ~clerk[w].creates
    /\ weather.updates = {} /\ weather.risk = NoRiskPolicy => riskPolicy \in {NoRiskPolicy, DefaultRiskPolicy}

LowOnly(p) ==
    /\ p.enabled /\ p.velocity_enabled
    /\ "ALLOW" \notin {p.MEDIUM, p.HIGH, p.CRITICAL} /\ risk_low_max < 35
Passed(t) == {i \in DOMAIN ledger : ledger[i].at = t /\ ledger[i].decision = "APPROVED"}
Passing(t) == {w \in Clerks : clerk[w].stage = "decide" /\ clerk[w].at = t /\ clerk[w].action = "ALLOW"}
BurstOK ==
    Settled /\ LowOnly(weather.risk) =>
        \A t \in Nat : Cardinality(Passed(t)) + Cardinality(Passing(t)) <= risk_velocity_high_count + Cardinality(Clerks) - 1

RkInv == RkTyped /\ OneCreates /\ LostOK /\ SettledOK /\ BurstOK /\ OnlyStrengthens

-----------------------------------------------------------------------------
\* ---- The score.
LEMMA SelectsFirst ==
    ASSUME NEW I \in SUBSET Int, NEW k \in I, \A j \in I : k <= j
    PROVE  Min(I) = k
<1> DEFINE Least(x) == x \in I /\ \A y \in I : x =< y
<1>1. Least(k)
  OBVIOUS
<1>2. \A x : Least(x) => x = k
  OBVIOUS
<1>3. Min(I) = CHOOSE x : Least(x)
  BY Zenon DEF Min
<1> QED  BY <1>1, <1>2, <1>3

\* Tier, of three tiers and of two.
LEMMA Tier3 ==
    ASSUME NEW v \in Int, NEW s, Len(s) = 3, s[1].from \in Int, s[2].from \in Int, s[3].from \in Int
    PROVE  Tier(v, s) = IF v >= s[1].from THEN s[1].points ELSE IF v >= s[2].from THEN s[2].points
                        ELSE IF v >= s[3].from THEN s[3].points ELSE 0
<1> DEFINE I == {i \in 1..Len(s) : v >= s[i].from}
<1>1. Tier(v, s) = LET i == IF I # {} THEN Min(I) ELSE 0 IN IF i = 0 THEN 0 ELSE s[i].points
  BY DEF Tier, SelectInSeq
<1>2. I \subseteq 1..3 /\ (1 \in I <=> v >= s[1].from) /\ (2 \in I <=> v >= s[2].from) /\ (3 \in I <=> v >= s[3].from)
  OBVIOUS
<1> HIDE DEF I
<1>3. CASE 1 \in I
  <2>1. Min(I) = 1
    BY <1>2, <1>3, SelectsFirst
  <2> QED  BY <1>1, <1>2, <1>3, <2>1
<1>4. CASE 1 \notin I /\ 2 \in I
  <2>1. Min(I) = 2
    BY <1>2, <1>4, SelectsFirst
  <2> QED  BY <1>1, <1>2, <1>4, <2>1
<1>5. CASE 1 \notin I /\ 2 \notin I /\ 3 \in I
  <2>1. Min(I) = 3
    BY <1>2, <1>5, SelectsFirst
  <2> QED  BY <1>1, <1>2, <1>5, <2>1
<1>6. CASE 1 \notin I /\ 2 \notin I /\ 3 \notin I
  <2>1. I = {}
    BY <1>2, <1>6
  <2> QED  BY <1>1, <1>2, <1>6, <2>1
<1> QED  BY <1>3, <1>4, <1>5, <1>6

LEMMA Tier2 ==
    ASSUME NEW v \in Int, NEW s, Len(s) = 2, s[1].from \in Int, s[2].from \in Int
    PROVE  Tier(v, s) = IF v >= s[1].from THEN s[1].points ELSE IF v >= s[2].from THEN s[2].points ELSE 0
<1> DEFINE I == {i \in 1..Len(s) : v >= s[i].from}
<1>1. Tier(v, s) = LET i == IF I # {} THEN Min(I) ELSE 0 IN IF i = 0 THEN 0 ELSE s[i].points
  BY DEF Tier, SelectInSeq
<1>2. I \subseteq 1..2 /\ (1 \in I <=> v >= s[1].from) /\ (2 \in I <=> v >= s[2].from)
  OBVIOUS
<1> HIDE DEF I
<1>3. CASE 1 \in I
  <2>1. Min(I) = 1
    BY <1>2, <1>3, SelectsFirst
  <2> QED  BY <1>1, <1>2, <1>3, <2>1
<1>4. CASE 1 \notin I /\ 2 \in I
  <2>1. Min(I) = 2
    BY <1>2, <1>4, SelectsFirst
  <2> QED  BY <1>1, <1>2, <1>4, <2>1
<1>5. CASE 1 \notin I /\ 2 \notin I
  <2>1. I = {}
    BY <1>2, <1>5
  <2> QED  BY <1>1, <1>2, <1>5, <2>1
<1> QED  BY <1>3, <1>4, <1>5

LEMMA Times == \A a, b, c \in Nat : a <= b => a * c \in Nat /\ b * c \in Nat /\ a * c <= b * c
  BY SMT

\* Positions in the ledger can be counted.
LEMMA Countable ==
    ASSUME RkTyped, NEW S \in SUBSET DOMAIN ledger
    PROVE  IsFiniteSet(S) /\ Cardinality(S) \in Nat
<1>1. Len(ledger) \in Nat /\ DOMAIN ledger = 1..Len(ledger)
  BY DEF RkTyped
<1>2. IsFiniteSet(DOMAIN ledger)
  BY <1>1, FS_Interval
<1> QED  BY <1>2, FS_Subset, FS_CardinalityType

\* The recursion of Total has a solution, and every solution is a natural number everywhere.
IsTotal(f, I) ==
    f = [i \in 0..Len(ledger) |-> IF i = 0 THEN 0 ELSE f[i - 1] + (IF i \in I THEN ledger[i].req.amount ELSE 0)]

LEMMA Amounts ==
    ASSUME RkTyped, NEW i \in DOMAIN ledger
    PROVE  ledger[i].req \in weather.requests /\ ledger[i].req.amount \in Nat
<1>1. i \in 1..Len(ledger) /\ ledger \in Seq(Entry)
  BY DEF RkTyped
<1>2. ledger[i] \in Entry
  BY <1>1
<1>3. ledger[i].req \in weather.requests
  BY <1>2 DEF Entry
<1> QED  BY <1>3, WeathersAssumption DEF RkTyped

LEMMA TotalExists == ASSUME RkTyped, NEW I PROVE \E f : IsTotal(f, I)
<1> DEFINE n == Len(ledger)
           Part(i) == IF i \in I THEN ledger[i].req.amount ELSE 0
           Good(f, m) == f = [i \in 0..m |-> IF i = 0 THEN 0 ELSE f[i - 1] + Part(i)]
           S == {m \in Nat : m <= n => \E f : Good(f, m)}
<1>1. n \in Nat
  BY DEF RkTyped
<1> HIDE DEF Part
<1>2. 0 \in S
  <2>1. Good([i \in 0..0 |-> 0], 0)
    OBVIOUS
  <2> QED  BY <2>1
<1>3. ASSUME NEW m \in S PROVE m + 1 \in S
  <2> SUFFICES ASSUME m + 1 <= n PROVE \E f : Good(f, m + 1)
    OBVIOUS
  <2>1. PICK f : Good(f, m)
    BY <1>1
  <2> DEFINE g == [i \in 0..(m + 1) |-> IF i = m + 1 THEN f[m] + Part(m + 1) ELSE f[i]]
  <2>2. \A i \in 0..m : f[i] = IF i = 0 THEN 0 ELSE f[i - 1] + Part(i)
    BY <2>1
  <2>3. \A i \in 0..(m + 1) : g[i] = IF i = 0 THEN 0 ELSE g[i - 1] + Part(i)
    BY <2>2
  <2>4. Good(g, m + 1)
    BY <2>3
  <2> QED  BY <2>4
<1> HIDE DEF S
<1>4. S = Nat
  <2>1. S \in SUBSET Nat
    BY DEF S
  <2> QED  BY <1>2, <1>3, <2>1, Induction
<1>5. PICK f : Good(f, n)
  BY <1>1, <1>4 DEF S
<1> QED  BY <1>5 DEF IsTotal, Part

LEMMA TotalIsNat == ASSUME RkTyped, NEW I PROVE Total(I) \in Nat
<1>1. PICK f : IsTotal(f, I) /\ Total(I) = f[Len(ledger)]
  BY TotalExists DEF Total, IsTotal
<1> DEFINE S == {m \in Nat : m <= Len(ledger) => f[m] \in Nat}
<1>2. Len(ledger) \in Nat /\ DOMAIN ledger = 1..Len(ledger)
  BY DEF RkTyped
<1>3. \A i \in 0..Len(ledger) : f[i] = IF i = 0 THEN 0 ELSE f[i - 1] + (IF i \in I THEN ledger[i].req.amount ELSE 0)
  BY <1>1 DEF IsTotal
<1>4. 0 \in S
  BY <1>2, <1>3
<1>5. ASSUME NEW m \in S PROVE m + 1 \in S
  <2> SUFFICES ASSUME m + 1 <= Len(ledger) PROVE f[m + 1] \in Nat
    OBVIOUS
  <2>1. f[m] \in Nat /\ m \in Nat /\ m + 1 \in DOMAIN ledger
    BY <1>2
  <2>2. ledger[m + 1].req.amount \in Nat
    BY <2>1, Amounts
  <2>3. f[m + 1] = f[m] + (IF m + 1 \in I THEN ledger[m + 1].req.amount ELSE 0)
    BY <1>2, <1>3, <2>1
  <2> QED  BY <2>1, <2>2, <2>3
<1> HIDE DEF S
<1>6. S = Nat
  <2>1. S \in SUBSET Nat
    BY DEF S
  <2> QED  BY <1>4, <1>5, <2>1, Induction
<1> QED  BY <1>1, <1>2, <1>6 DEF S

\* ---- More is never scored lower.
LEMMA AmountTiers ==
    ASSUME NEW v \in Nat, NEW total \in Nat
    PROVE  Tier(v, <<From(8 * total, 45), From(4 * total, 25), From(3 * total, 15)>>)
             = IF v >= 8 * total THEN 45 ELSE IF v >= 4 * total THEN 25 ELSE IF v >= 3 * total THEN 15 ELSE 0
<1> DEFINE s == <<From(8 * total, 45), From(4 * total, 25), From(3 * total, 15)>>
<1>1. /\ Len(s) = 3 /\ s[1].from = 8 * total /\ s[2].from = 4 * total /\ s[3].from = 3 * total
      /\ s[1].points = 45 /\ s[2].points = 25 /\ s[3].points = 15
  BY DEF From
<1> HIDE DEF s
<1>2. s[1].from \in Int /\ s[2].from \in Int /\ s[3].from \in Int /\ v \in Int
  BY <1>1
<1>3. Tier(v, s) = IF v >= 8 * total THEN 45 ELSE IF v >= 4 * total THEN 25 ELSE IF v >= 3 * total THEN 15 ELSE 0
  BY <1>1, <1>2, Tier3
<1> QED  BY <1>3 DEF s

LEMMA AmountPointsGrow ==
    ASSUME NEW a \in Nat, NEW b \in Nat, a <= b, NEW count \in Nat, NEW total \in Nat
    PROVE  AmountPoints(a, count, total) \in Nat /\ AmountPoints(b, count, total) \in Nat
           /\ AmountPoints(a, count, total) <= AmountPoints(b, count, total)
<1>1. PICK x \in Nat : x = a * count
  BY Times
<1>2. PICK y \in Nat : y = b * count
  BY Times
<1>3. x <= y
  BY <1>1, <1>2, Times
<1> DEFINE T(v) == Tier(v, <<From(8 * total, 45), From(4 * total, 25), From(3 * total, 15)>>)
<1>4. /\ AmountPoints(a, count, total) = IF count = 0 \/ total = 0 THEN 0 ELSE T(2 * x)
      /\ AmountPoints(b, count, total) = IF count = 0 \/ total = 0 THEN 0 ELSE T(2 * y)
  BY <1>1, <1>2 DEF AmountPoints
<1>5. \A v \in Nat : T(v) = IF v >= 8 * total THEN 45 ELSE IF v >= 4 * total THEN 25 ELSE IF v >= 3 * total THEN 15 ELSE 0
  BY AmountTiers
<1> HIDE DEF T
<1>6. 2 * x \in Nat /\ 2 * y \in Nat /\ 2 * x <= 2 * y
  BY <1>3
<1> QED  BY <1>4, <1>5, <1>6

LEMMA LimitPointsGrow ==
    ASSUME NEW a \in Nat, NEW b \in Nat, a <= b
    PROVE  LimitPoints(a) \in Nat /\ LimitPoints(b) \in Nat /\ LimitPoints(a) <= LimitPoints(b)
<1> DEFINE s == <<From(18 * Limit, 15), From(15 * Limit, 8)>>
<1>1. /\ Len(s) = 2 /\ s[1].from = 18 * Limit /\ s[2].from = 15 * Limit /\ s[1].points = 15 /\ s[2].points = 8
      /\ \A v : LimitPoints(v) = Tier(20 * v, s)
  BY DEF From, LimitPoints
<1> HIDE DEF s
<1>2. s[1].from \in Int /\ s[2].from \in Int
  BY <1>1, ClerksAssumption
<1>3. \A v \in Int : Tier(v, s) = IF v >= 18 * Limit THEN 15 ELSE IF v >= 15 * Limit THEN 8 ELSE 0
  BY <1>1, <1>2, Tier2
<1> QED  BY <1>1, <1>3, ClerksAssumption

LEMMA VelocityPointsAre ==
    ASSUME RkTyped, NEW t \in Int
    PROVE  VelocityPoints(t) = IF Since(t, Decisions) >= risk_velocity_critical_count THEN 55
                               ELSE IF Since(t, Decisions) >= risk_velocity_high_count THEN 35
                               ELSE IF Since(t, Decisions) >= risk_velocity_medium_count THEN 18 ELSE 0
<1> DEFINE s == VelocityTiers
<1>1. /\ Len(s) = 3 /\ s[1].from = risk_velocity_critical_count /\ s[2].from = risk_velocity_high_count
      /\ s[3].from = risk_velocity_medium_count /\ s[1].points = 55 /\ s[2].points = 35 /\ s[3].points = 18
  BY DEF From, VelocityTiers
<1>2. VelocityPoints(t) = Tier(Since(t, Decisions), s)
  BY DEF VelocityPoints, Decisions
<1> HIDE DEF s
<1>3. Since(t, Decisions) \in Int
  BY Countable DEF Since
<1>4. s[1].from \in Int /\ s[2].from \in Int /\ s[3].from \in Int
  BY <1>1, SettingsAssumption
<1> QED  BY <1>1, <1>2, <1>3, <1>4, Tier3

LEMMA RejectionPointsAre == ASSUME RkTyped, NEW t \in Int PROVE RejectionPoints(t) \in Nat
<1> DEFINE s == <<From(5, 25), From(3, 15)>>
<1>1. Len(s) = 2 /\ s[1].from = 5 /\ s[2].from = 3 /\ s[1].points = 25 /\ s[2].points = 15
  BY DEF From
<1>2. RejectionPoints(t) = Tier(Since(t, {"REJECTED"}), s)
  BY DEF RejectionPoints
<1> HIDE DEF s
<1>3. Since(t, {"REJECTED"}) \in Int
  BY Countable DEF Since
<1>4. s[1].from \in Int /\ s[2].from \in Int
  BY <1>1
<1> QED  BY <1>1, <1>2, <1>3, <1>4, Tier2

LEMMA NoveltyPointsGrow ==
    ASSUME RkTyped, NEW r, NEW q, r.action = q.action, r.resource = q.resource, r.amount # 0 => q.amount # 0
    PROVE  NoveltyPoints(r) \in Nat /\ NoveltyPoints(q) \in Nat /\ NoveltyPoints(r) <= NoveltyPoints(q)
<1> DEFINE audited == {i \in DOMAIN ledger : ledger[i].decision # "PENDING"}
           known == Cardinality(audited) >= 3
           Action(x) == IF known /\ (\A i \in audited : ledger[i].req.action # x.action) THEN 12 ELSE 0
           Resource(x) == IF known /\ (\A i \in audited : ledger[i].req.resource # x.resource) THEN 12 ELSE 0
           New(x) == IF weather.newAgent /\ x.amount # 0 THEN 10 ELSE 0
           Fresh(x) == IF weather.newPermission /\ x.amount # 0 THEN 5 ELSE 0
           Key == IF weather.newKey THEN 5 ELSE 0
<1>1. \A x : NoveltyPoints(x) = New(x) + Fresh(x) + Action(x) + Resource(x) + Key
  BY DEF NoveltyPoints
<1>2. Action(r) = Action(q) /\ Resource(r) = Resource(q) /\ Action(r) \in Nat /\ Resource(r) \in Nat /\ Key \in Nat
  OBVIOUS
<1>3. New(r) \in {0, 10} /\ New(q) \in {0, 10} /\ Fresh(r) \in {0, 5} /\ Fresh(q) \in {0, 5}
  OBVIOUS
<1>4. New(r) <= New(q) /\ Fresh(r) <= Fresh(q)
  BY WeathersAssumption DEF RkTyped
<1> HIDE DEF Action, Resource, New, Fresh, Key
<1> QED  BY <1>1, <1>2, <1>3, <1>4

\* What the policy of a request adds up to.
LEMMA ScoreIs ==
    ASSUME RkTyped, NEW r \in weather.requests, NEW p, p.enabled, NEW t \in Int,
           NEW a, a = (IF p.amount_anomaly_enabled /\ r.amount # 0
                       THEN AmountPoints(r.amount, Cardinality(Approved(r)), Total(Approved(r))) + LimitPoints(r.amount) ELSE 0),
           NEW v, v = (IF p.velocity_enabled THEN VelocityPoints(t - VelocityWindow) ELSE 0),
           NEW j, j = (IF p.rejection_history_enabled THEN RejectionPoints(t - RejectionWindow) ELSE 0)
    PROVE  Score(r, p, t) = IF a + v + j + NoveltyPoints(r) > 100 THEN 100 ELSE a + v + j + NoveltyPoints(r)
  BY DEF Score

\* Every part of the sum is a natural number.
LEMMA PartsAreNat ==
    ASSUME RkTyped, NEW r, r.amount \in Nat, NEW t \in Int
    PROVE  /\ AmountPoints(r.amount, Cardinality(Approved(r)), Total(Approved(r))) \in Nat
           /\ LimitPoints(r.amount) \in Nat /\ NoveltyPoints(r) \in Nat
           /\ VelocityPoints(t) \in Nat /\ RejectionPoints(t) \in Nat
<1>1. PICK c \in Nat, s \in Nat : c = Cardinality(Approved(r)) /\ s = Total(Approved(r))
  <2>1. Approved(r) \in SUBSET DOMAIN ledger
    BY DEF Approved
  <2> QED  BY <2>1, Countable, TotalIsNat
<1>2. AmountPoints(r.amount, Cardinality(Approved(r)), Total(Approved(r))) \in Nat
  <2>1. r.amount <= r.amount
    OBVIOUS
  <2> QED  BY <1>1, <2>1, AmountPointsGrow
<1>3. NoveltyPoints(r) \in Nat
  BY NoveltyPointsGrow
<1>4. VelocityPoints(t) \in Nat
  BY VelocityPointsAre
<1> QED  BY <1>2, <1>3, <1>4, LimitPointsGrow, RejectionPointsAre

\* The score grows with the amount that is stated: nothing of the history changes, and the first
\* statement of an amount adds what an agent or permission that is new adds.
LEMMA ScoreGrows ==
    ASSUME RkTyped, NEW r \in weather.requests, NEW more \in Nat, r.amount <= more
    PROVE  Score(r, DefaultRiskPolicy, rkNow) <= Score([r EXCEPT !.amount = more], DefaultRiskPolicy, rkNow)
<1> DEFINE q == [r EXCEPT !.amount = more]
           p == DefaultRiskPolicy
<1>1. DOMAIN r = {"action", "resource", "amount", "currency"} /\ r.amount \in Nat
  BY WeathersAssumption DEF RkTyped
<1>2. q.amount = more /\ q.action = r.action /\ q.resource = r.resource /\ q.currency = r.currency
  BY <1>1
<1> HIDE DEF q
<1>3. Approved(q) = Approved(r)
  BY <1>2 DEF Approved
<1>4. p.enabled /\ p.amount_anomaly_enabled /\ p.velocity_enabled /\ p.rejection_history_enabled
  BY DEF DefaultRiskPolicy
<1> HIDE DEF p
<1>5. PICK c \in Nat, s \in Nat : c = Cardinality(Approved(r)) /\ s = Total(Approved(r))
  <2>1. Approved(r) \in SUBSET DOMAIN ledger
    BY DEF Approved
  <2> QED  BY <2>1, Countable, TotalIsNat
<1>6. PICK v \in Nat, j \in Nat : v = VelocityPoints(rkNow - VelocityWindow) /\ j = RejectionPoints(rkNow - RejectionWindow)
  <2>1. rkNow - VelocityWindow \in Int /\ rkNow - RejectionWindow \in Int
    BY ClerksAssumption DEF RkTyped
  <2> QED  BY <1>1, <2>1, PartsAreNat
<1>7. PICK ar \in Nat, aq \in Nat : ar <= aq /\ ar = AmountPoints(r.amount, c, s) /\ aq = AmountPoints(more, c, s)
  BY <1>1, AmountPointsGrow
<1>8. PICK lr \in Nat, lq \in Nat : lr <= lq /\ lr = LimitPoints(r.amount) /\ lq = LimitPoints(more)
  BY <1>1, LimitPointsGrow
<1>9. PICK nr \in Nat, nq \in Nat : nr <= nq /\ nr = NoveltyPoints(r) /\ nq = NoveltyPoints(q)
  <2>1. r.amount # 0 => q.amount # 0
    BY <1>1, <1>2
  <2> QED  BY <1>2, <2>1, NoveltyPointsGrow
<1> DEFINE Sum(x) == (IF x.amount # 0 THEN AmountPoints(x.amount, c, s) + LimitPoints(x.amount) ELSE 0) + v + j + NoveltyPoints(x)
<1>10. \A x : Approved(x) = Approved(r) => Score(x, p, rkNow) = IF Sum(x) > 100 THEN 100 ELSE Sum(x)
  BY <1>4, <1>5, <1>6 DEF Score
<1>11. Sum(r) = (IF r.amount # 0 THEN ar + lr ELSE 0) + v + j + nr
  BY <1>7, <1>8, <1>9
<1>12. Sum(q) = (IF more # 0 THEN aq + lq ELSE 0) + v + j + nq
  BY <1>2, <1>7, <1>8, <1>9
<1> HIDE DEF Sum
<1>13. Sum(r) \in Nat /\ Sum(q) \in Nat /\ Sum(r) <= Sum(q)
  <2>1. CASE r.amount = 0 /\ more = 0
    BY <1>7, <1>8, <1>9, <1>11, <1>12, <2>1
  <2>2. CASE r.amount = 0 /\ more # 0
    BY <1>7, <1>8, <1>9, <1>11, <1>12, <2>2
  <2>3. CASE r.amount # 0
    <3>1. more # 0
      BY <1>1, <2>3
    <3> QED  BY <1>7, <1>8, <1>9, <1>11, <1>12, <2>3, <3>1
  <2> QED  BY <2>1, <2>2, <2>3
<1>14. Score(r, p, rkNow) <= Score(q, p, rkNow)
  BY <1>3, <1>10, <1>13
<1> QED  BY <1>14 DEF p, q

LEMMA ScoreMonotoneFollows == RkTyped => ScoreMonotone
<1> SUFFICES ASSUME RkTyped, NEW req \in weather.requests, NEW more \in req.amount..Limit
             PROVE  Score(req, DefaultRiskPolicy, rkNow) <= Score([req EXCEPT !.amount = more], DefaultRiskPolicy, rkNow)
  BY DEF ScoreMonotone
<1>1. req.amount \in Nat
  BY WeathersAssumption DEF RkTyped
<1>2. more \in Nat /\ req.amount <= more
  BY <1>1, ClerksAssumption
<1> QED  BY <1>2, ScoreGrows

\* A request that passes under a policy that lets LOW risk pass only found fewer requests
\* committed than the high velocity threshold.
LEMMA PassedFew ==
    ASSUME RkTyped, NEW r \in weather.requests, NEW p, IsRiskPolicy(p), LowOnly(p), NEW t \in Nat,
           policy_action(risk_level(Score(r, p, t)), p) = "ALLOW"
    PROVE  Cardinality(Passed(t)) < risk_velocity_high_count
<1>1. risk_level(Score(r, p, t)) = "LOW"
  <2>1. risk_level(Score(r, p, t)) \in RiskLevel
    BY DEF risk_level, RiskLevel
  <2>2. p["MEDIUM"] # "ALLOW" /\ p["HIGH"] # "ALLOW" /\ p["CRITICAL"] # "ALLOW" /\ p.enabled
    BY DEF LowOnly
  <2> QED  BY <2>1, <2>2 DEF policy_action, RiskLevel
<1>2. r.amount \in Nat
  BY WeathersAssumption DEF RkTyped
<1>3. t - VelocityWindow \in Int /\ t - RejectionWindow \in Int
  BY ClerksAssumption
<1>4. PICK a \in Nat : a = (IF p.amount_anomaly_enabled /\ r.amount # 0
                   THEN AmountPoints(r.amount, Cardinality(Approved(r)), Total(Approved(r))) + LimitPoints(r.amount) ELSE 0)
  BY <1>2, <1>3, PartsAreNat
<1>5. PICK v \in Nat : v = VelocityPoints(t - VelocityWindow)
  BY <1>2, <1>3, PartsAreNat
<1>6. PICK j \in Nat : j = (IF p.rejection_history_enabled THEN RejectionPoints(t - RejectionWindow) ELSE 0)
  BY <1>2, <1>3, PartsAreNat
<1>7. PICK n \in Nat : n = NoveltyPoints(r)
  BY <1>2, <1>3, PartsAreNat
<1>8. Score(r, p, t) = IF a + v + j + n > 100 THEN 100 ELSE a + v + j + n
  BY <1>4, <1>5, <1>6, <1>7 DEF Score, LowOnly
<1>9. Score(r, p, t) < 35
  <2>1. Score(r, p, t) <= risk_low_max
    BY <1>1 DEF risk_level
  <2> QED  BY <1>8, <2>1, SettingsAssumption DEF LowOnly
<1>10. v < 35
  BY <1>8, <1>9
<1>11. Since(t - VelocityWindow, Decisions) < risk_velocity_high_count
  <2>1. PICK m \in Nat : m = Since(t - VelocityWindow, Decisions)
    BY Countable DEF Since
  <2> QED  BY <1>3, <1>5, <1>10, <2>1, VelocityPointsAre, SettingsAssumption
<1>12. Cardinality(Passed(t)) <= Since(t - VelocityWindow, Decisions)
  <2> DEFINE S == {i \in DOMAIN ledger : ledger[i].at >= t - VelocityWindow /\ ledger[i].decision \in Decisions}
  <2>1. Passed(t) \in SUBSET S
    BY ClerksAssumption DEF Passed, Decisions
  <2>2. IsFiniteSet(S)
    BY Countable
  <2> QED  BY <2>1, <2>2, FS_Subset DEF Since
<1>13. Cardinality(Passed(t)) \in Nat /\ Since(t - VelocityWindow, Decisions) \in Nat
  BY Countable DEF Since, Passed
<1> QED  BY <1>11, <1>12, <1>13, SettingsAssumption

-----------------------------------------------------------------------------
\* ---- The invariant holds at first and is kept.
LEMMA DefaultIsRiskPolicy == IsRiskPolicy(DefaultRiskPolicy) /\ DefaultRiskPolicy # NoRiskPolicy
<1>1. IsRiskPolicy(DefaultRiskPolicy)
  BY DEF IsRiskPolicy, DefaultRiskPolicy, RiskAction
<1>2. DOMAIN DefaultRiskPolicy # DOMAIN NoRiskPolicy
  BY DEF DefaultRiskPolicy, NoRiskPolicy
<1> QED  BY <1>1, <1>2

LEMMA PolicyIsNotNone == ASSUME NEW p, IsRiskPolicy(p) PROVE p # NoRiskPolicy
<1>1. DOMAIN p # DOMAIN NoRiskPolicy
  BY DEF IsRiskPolicy, DefaultRiskPolicy, NoRiskPolicy
<1> QED  BY <1>1

LEMMA LevelsAndActions ==
    /\ \A s : risk_level(s) \in RiskLevel
    /\ \A l \in RiskLevel : \A p : IsRiskPolicy(p) => policy_action(l, p) \in RiskAction
<1>1. \A s : risk_level(s) \in RiskLevel
  BY DEF risk_level, RiskLevel
<1>2. ASSUME NEW l \in RiskLevel, NEW p, IsRiskPolicy(p) PROVE policy_action(l, p) \in RiskAction
  <2>1. p["MEDIUM"] \in RiskAction /\ p["HIGH"] \in RiskAction /\ p["CRITICAL"] \in RiskAction
    BY <1>2 DEF IsRiskPolicy
  <2>2. "ALLOW" \in RiskAction
    BY DEF RiskAction
  <2> QED  BY <2>1, <2>2 DEF policy_action, RiskLevel
<1> QED  BY <1>1, <1>2

LEMMA InitHolds == RkInit => RkInv
<1> SUFFICES ASSUME RkInit PROVE RkInv
  OBVIOUS
<1>1. RkTyped
  BY WeathersAssumption DEF RkInit, RkTyped, RkIdle
<1>2. OneCreates
  BY DEF RkInit, OneCreates, Creating, RkIdle
<1>3. \A w \in Clerks : ~Asking(w)
  BY DEF RkInit, Asking, RkIdle
<1>4. LostOK
  <2>1. Blocked = {}
    BY <1>3 DEF Blocked
  <2> QED  BY <2>1, FS_EmptySet, FS_CardinalityType, ClerksAssumption DEF RkInit, LostOK
<1>5. SettledOK
  BY <1>3 DEF RkInit, SettledOK, Settled
<1>6. BurstOK
  <2>1. \A t : Passed(t) = {} /\ Passing(t) = {}
    BY DEF RkInit, Passed, Passing, RkIdle
  <2>2. Cardinality(Clerks) \in Nat
    BY FS_CardinalityType, ClerksAssumption
  <2>3. Cardinality({}) = 0 /\ 0 + 0 <= risk_velocity_high_count + Cardinality(Clerks) - 1
    BY <2>2, FS_EmptySet, SettingsAssumption
  <2> QED  BY <2>1, <2>3 DEF BurstOK
<1>7. OnlyStrengthens
  BY DEF RkInit, OnlyStrengthens
<1> QED  BY <1>1, <1>2, <1>4, <1>5, <1>6, <1>7 DEF RkInv

\* One request changes: every other one is as it was.
LEMMA LookupTyped ==
    ASSUME RkTyped, NEW w \in Clerks, NEW req \in weather.requests, LookupPolicy(w, req)
    PROVE  /\ RkTyped' /\ clerk' = [clerk EXCEPT ![w] = clerk'[w]] /\ clerk'[w].stage = "score" /\ ~clerk'[w].creates
           /\ (clerk'[w].blocked <=> riskPolicy = NoRiskPolicy)
           /\ clerk'[w].policy = (IF riskPolicy = NoRiskPolicy THEN DefaultRiskPolicy ELSE riskPolicy)
<1>1. PICK p : p = (IF riskPolicy = NoRiskPolicy THEN DefaultRiskPolicy ELSE riskPolicy)
  OBVIOUS
<1>2. PICK b \in BOOLEAN : b <=> riskPolicy = NoRiskPolicy
  OBVIOUS
<1>3. IsRiskPolicy(p)
  BY <1>1, DefaultIsRiskPolicy DEF RkTyped
<1> DEFINE new == [stage |-> "score", req |-> req, at |-> rkNow, creates |-> FALSE, blocked |-> b, policy |-> p]
<1>4. clerk' = [clerk EXCEPT ![w] = new] /\ UNCHANGED <<rkNow, riskPolicy, ledger, lost, weather>>
  BY <1>1, <1>2 DEF LookupPolicy, Requested
<1>5. IsRequest(new)
  BY <1>3 DEF IsRequest, RkTyped
<1>6. new.stage = "score" /\ ~new.creates /\ (new.blocked <=> b) /\ new.policy = p
  OBVIOUS
<1> HIDE DEF new
<1>7. clerk'[w] = new /\ \A x \in Clerks : x # w => clerk'[x] = clerk[x]
  BY <1>4 DEF RkTyped
<1>8. \A c : IsRequest(c) <=> IsRequest(c)'
  BY <1>4 DEF IsRequest
<1>9. RkTyped'
  <2>1. clerk' = [x \in Clerks |-> clerk'[x]]
    BY <1>4 DEF RkTyped
  <2>2. \A x \in Clerks : clerk'[x] = RkIdle \/ IsRequest(clerk[x])' 
    BY <1>4, <1>5, <1>7, <1>8 DEF RkTyped
  <2> QED  BY <1>4, <2>1, <2>2 DEF RkTyped, Entry
<1> QED  BY <1>1, <1>2, <1>4, <1>6, <1>7, <1>9

\* The request of one thread is replaced; nothing else changes but what its commit adds.
LEMMA OthersKept ==
    ASSUME RkTyped, NEW w \in Clerks, NEW c, clerk' = [clerk EXCEPT ![w] = c], weather' = weather,
           c = RkIdle \/ IsRequest(c)
    PROVE  /\ clerk' = [x \in Clerks |-> clerk'[x]] /\ clerk'[w] = c
           /\ \A x \in Clerks : x # w => clerk'[x] = clerk[x]
           /\ \A x \in Clerks : clerk'[x] = RkIdle \/ IsRequest(clerk[x])'
<1>1. clerk'[w] = c /\ \A x \in Clerks : x # w => clerk'[x] = clerk[x]
  BY DEF RkTyped
<1>2. \A d : IsRequest(d) <=> IsRequest(d)'
  BY DEF IsRequest
<1> QED  BY <1>1, <1>2 DEF RkTyped

LEMMA InsertTyped ==
    ASSUME RkTyped, NEW w \in Clerks, InsertRow(w)
    PROVE  /\ RkTyped' /\ clerk[w].stage = "score" /\ clerk[w].blocked
           /\ \A x \in Clerks : x # w => clerk'[x] = clerk[x]
           /\ \/ /\ riskPolicy = NoRiskPolicy /\ lost' = lost /\ clerk'[w].stage = "score"
                 /\ ~clerk'[w].blocked /\ clerk'[w].creates /\ clerk'[w].policy = clerk[w].policy
              \/ riskPolicy # NoRiskPolicy /\ lost' = lost + 1 /\ clerk'[w] = RkIdle
<1>1. clerk[w].stage = "score" /\ clerk[w].blocked /\ UNCHANGED <<rkNow, riskPolicy, ledger, weather>>
  BY DEF InsertRow
<1>2. IsRequest(clerk[w])
  BY <1>1 DEF RkTyped, RkIdle
<1>3. CASE riskPolicy = NoRiskPolicy /\ clerk' = [clerk EXCEPT ![w].blocked = FALSE, ![w].creates = TRUE] /\ lost' = lost
  <2> DEFINE c == clerk[w]
             new == [[c EXCEPT !.blocked = FALSE] EXCEPT !.creates = TRUE]
  <2>1. clerk' = [clerk EXCEPT ![w] = new]
    BY <1>3 DEF RkTyped
  <2>a. /\ new.stage = c.stage /\ new.req = c.req /\ new.at = c.at /\ new.creates = TRUE /\ new.blocked = FALSE
        /\ new.policy = c.policy /\ DOMAIN new = DOMAIN c
    BY <1>1, <1>2 DEF IsRequest
  <2> HIDE DEF new
  <2>2. IsRequest(new)
    BY <1>1, <1>2, <2>a DEF IsRequest
  <2>3. new.stage = "score" /\ ~new.blocked /\ new.creates /\ new.policy = clerk[w].policy
    BY <1>1, <2>a
  <2>4. /\ clerk' = [x \in Clerks |-> clerk'[x]] /\ clerk'[w] = new
        /\ \A x \in Clerks : x # w => clerk'[x] = clerk[x]
        /\ \A x \in Clerks : clerk'[x] = RkIdle \/ IsRequest(clerk[x])'
    BY <1>1, <2>1, <2>2, OthersKept
  <2>5. RkTyped'
    BY <1>1, <1>3, <2>4 DEF RkTyped, Entry
  <2> QED  BY <1>1, <1>3, <2>3, <2>4, <2>5
<1>4. CASE riskPolicy # NoRiskPolicy /\ clerk' = [clerk EXCEPT ![w] = RkIdle] /\ lost' = lost + 1
  <2>1. /\ clerk' = [x \in Clerks |-> clerk'[x]] /\ clerk'[w] = RkIdle
        /\ \A x \in Clerks : x # w => clerk'[x] = clerk[x]
        /\ \A x \in Clerks : clerk'[x] = RkIdle \/ IsRequest(clerk[x])'
    BY <1>1, <1>4, OthersKept
  <2>2. lost' \in Nat
    BY <1>4 DEF RkTyped
  <2>3. RkTyped'
    BY <1>1, <2>1, <2>2 DEF RkTyped, Entry
  <2> QED  BY <1>1, <1>4, <2>1, <2>3
<1> QED  BY <1>3, <1>4 DEF InsertRow

LEMMA EvaluateTyped ==
    ASSUME RkTyped, NEW w \in Clerks, Evaluate(w)
    PROVE  /\ RkTyped' /\ clerk[w].stage = "score" /\ ~clerk[w].blocked
           /\ \A x \in Clerks : x # w => clerk'[x] = clerk[x]
           /\ clerk'[w].stage = "decide" /\ clerk'[w].at = clerk[w].at /\ clerk'[w].policy = clerk[w].policy
           /\ (clerk'[w].creates <=> clerk[w].creates) /\ ~clerk'[w].blocked
           /\ clerk'[w].action = policy_action(risk_level(Score(clerk[w].req, clerk[w].policy, clerk[w].at)), clerk[w].policy)
<1>1. clerk[w].stage = "score" /\ ~clerk[w].blocked /\ UNCHANGED <<rkNow, riskPolicy, ledger, lost, weather>>
  BY DEF Evaluate
<1>2. IsRequest(clerk[w])
  BY <1>1 DEF RkTyped, RkIdle
<1>3. PICK level, action : /\ level = risk_level(Score(clerk[w].req, clerk[w].policy, clerk[w].at))
                           /\ action = policy_action(level, clerk[w].policy)
  OBVIOUS
<1>4. level \in RiskLevel /\ action \in RiskAction
  BY <1>2, <1>3, LevelsAndActions DEF IsRequest
<1> DEFINE c == clerk[w]
           new == [stage |-> "decide", req |-> c.req, at |-> c.at, creates |-> c.creates, blocked |-> FALSE,
                   policy |-> c.policy, level |-> level, action |-> action]
<1>6. clerk' = [clerk EXCEPT ![w] = new]
  BY <1>3 DEF Evaluate
<1>7. /\ new.stage = "decide" /\ new.req = c.req /\ new.at = c.at /\ new.creates = c.creates /\ ~new.blocked
      /\ new.policy = c.policy /\ new.level = level /\ new.action = action /\ new.blocked = FALSE
  OBVIOUS
<1> HIDE DEF new
<1>8. IsRequest(new)
  BY <1>1, <1>2, <1>4, <1>7 DEF IsRequest
<1>9. /\ clerk' = [x \in Clerks |-> clerk'[x]] /\ clerk'[w] = new
      /\ \A x \in Clerks : x # w => clerk'[x] = clerk[x]
      /\ \A x \in Clerks : clerk'[x] = RkIdle \/ IsRequest(clerk[x])'
  BY <1>1, <1>6, <1>8, OthersKept
<1>10. RkTyped'
  BY <1>1, <1>9 DEF RkTyped, Entry
<1> QED  BY <1>1, <1>3, <1>7, <1>9, <1>10

LEMMA CommitTyped ==
    ASSUME RkTyped, NEW w \in Clerks, Commit(w)
    PROVE  /\ RkTyped' /\ clerk[w].stage = "decide"
           /\ clerk'[w] = RkIdle /\ (\A x \in Clerks : x # w => clerk'[x] = clerk[x])
           /\ ledger' \in Seq(Entry) /\ Len(ledger') = Len(ledger) + 1
           /\ \A i \in 1..Len(ledger) : ledger'[i] = ledger[i]
           /\ \E new : /\ new = ledger'[Len(ledger) + 1] /\ new.at = clerk[w].at /\ new.action = clerk[w].action
                       /\ new.decision = DecisionOf(clerk[w], orgPolicy)
<1>1. clerk[w].stage = "decide" /\ UNCHANGED <<rkNow, lost, weather>> /\ clerk' = [clerk EXCEPT ![w] = RkIdle]
  BY DEF Commit
<1>2. IsRequest(clerk[w])
  BY <1>1 DEF RkTyped, RkIdle
<1>3. PICK d : d = DecisionOf(clerk[w], orgPolicy)
  OBVIOUS
<1>4. d \in Decisions
  BY <1>3 DEF DecisionOf, Decisions
<1> DEFINE c == clerk[w]
           new == [at |-> c.at, req |-> c.req, level |-> c.level, action |-> c.action, decision |-> d]
<1>5. ledger' = Append(ledger, new)
  BY <1>3 DEF Commit
<1>6. new \in Entry /\ new.at = c.at /\ new.action = c.action /\ new.decision = d
  BY <1>1, <1>2, <1>4 DEF Entry, IsRequest
<1> HIDE DEF new
<1>7. /\ ledger' \in Seq(Entry) /\ Len(ledger') = Len(ledger) + 1 /\ ledger'[Len(ledger) + 1] = new
      /\ \A i \in 1..Len(ledger) : ledger'[i] = ledger[i]
  BY <1>5, <1>6 DEF RkTyped
<1>8. /\ clerk' = [x \in Clerks |-> clerk'[x]] /\ clerk'[w] = RkIdle
      /\ \A x \in Clerks : x # w => clerk'[x] = clerk[x]
      /\ \A x \in Clerks : clerk'[x] = RkIdle \/ IsRequest(clerk[x])'
  BY <1>1, OthersKept
<1>9. riskPolicy' = NoRiskPolicy \/ IsRiskPolicy(riskPolicy')
  BY DefaultIsRiskPolicy DEF Commit, RkTyped
<1>10. RkTyped'
  BY <1>1, <1>7, <1>8, <1>9 DEF RkTyped, Entry
<1> QED  BY <1>1, <1>3, <1>6, <1>7, <1>8, <1>10

LEMMA AbandonTyped ==
    ASSUME RkTyped, NEW w \in Clerks, Abandon(w)
    PROVE  /\ RkTyped' /\ clerk'[w] = RkIdle /\ \A x \in Clerks : x # w => clerk'[x] = clerk[x]
<1>1. UNCHANGED <<rkNow, riskPolicy, ledger, lost, weather>> /\ clerk' = [clerk EXCEPT ![w] = RkIdle]
  BY DEF Abandon
<1>2. /\ clerk' = [x \in Clerks |-> clerk'[x]] /\ clerk'[w] = RkIdle
      /\ \A x \in Clerks : x # w => clerk'[x] = clerk[x]
      /\ \A x \in Clerks : clerk'[x] = RkIdle \/ IsRequest(clerk[x])'
  BY <1>1, OthersKept
<1> QED  BY <1>1, <1>2 DEF RkTyped, Entry

\* Threads can be counted.
LEMMA Threads ==
    ASSUME NEW T \in SUBSET Clerks, NEW S \in SUBSET T
    PROVE  /\ IsFiniteSet(S) /\ Cardinality(S) \in Nat /\ Cardinality(T) \in Nat /\ Cardinality(Clerks) \in Nat
           /\ Cardinality(S) <= Cardinality(T) /\ Cardinality(T) <= Cardinality(Clerks)
<1>1. IsFiniteSet(Clerks)
  BY ClerksAssumption
<1>2. IsFiniteSet(T) /\ Cardinality(T) <= Cardinality(Clerks)
  BY <1>1, FS_Subset
<1>3. IsFiniteSet(S) /\ Cardinality(S) <= Cardinality(T)
  BY <1>2, FS_Subset
<1> QED  BY <1>1, <1>2, <1>3, FS_CardinalityType

\* Nothing but time passes, or the policy is updated.
Calm == UNCHANGED <<ledger, clerk, lost, weather>>
LEMMA CalmTyped ==
    ASSUME RkTyped, Calm, rkNow' \in Nat, riskPolicy' = riskPolicy \/ IsRiskPolicy(riskPolicy')
    PROVE  RkTyped'
<1>1. \A x \in Clerks : clerk'[x] = RkIdle \/ IsRequest(clerk[x])'
  BY DEF Calm, RkTyped, IsRequest
<1> QED  BY <1>1 DEF Calm, RkTyped, Entry

\* Steps in which nobody starts to wait for the insert of the policy.
LEMMA LostKept ==
    ASSUME LostOK, Blocked' \subseteq Blocked, lost \in Nat, lost' = lost, riskPolicy' = NoRiskPolicy => riskPolicy = NoRiskPolicy
    PROVE  LostOK'
<1>1. PICK n \in Nat, m \in Nat, k \in Nat :
        n = Cardinality(Blocked') /\ m = Cardinality(Blocked) /\ k = Cardinality(Clerks) /\ n <= m
  BY Threads DEF Blocked
<1>2. lost + n <= k
  BY <1>1 DEF LostOK
<1>3. riskPolicy' = NoRiskPolicy => lost' = 0
  BY DEF LostOK
<1>4. lost' + Cardinality(Blocked') <= Cardinality(Clerks)
  BY <1>1, <1>2
<1>5. LostOK' <=> (riskPolicy' = NoRiskPolicy => lost' = 0) /\ lost' + Cardinality(Blocked') <= Cardinality(Clerks)
  BY DEF LostOK
<1> QED  BY <1>3, <1>4, <1>5

\* Steps in which nothing is committed and nobody starts to pass.
LEMMA BurstKept ==
    ASSUME RkTyped, BurstOK, ledger' = ledger, weather' = weather, \A t \in Nat : Passing(t)' \subseteq Passing(t)
    PROVE  BurstOK'
<1> SUFFICES ASSUME Settled', LowOnly(weather.risk)'
             PROVE  \A t \in Nat : Cardinality(Passed(t)') + Cardinality(Passing(t)') <= risk_velocity_high_count + Cardinality(Clerks) - 1
  BY DEF BurstOK
<1>1. Settled /\ LowOnly(weather.risk)
  BY DEF Settled, LowOnly
<1> TAKE t \in Nat
<1>2. Passed(t)' = Passed(t) /\ Passing(t)' \in SUBSET Passing(t) /\ Passing(t) \in SUBSET Clerks
  BY DEF Passed, Passing
<1>3. PICK n \in Nat, m \in Nat, k \in Nat, p \in Nat :
        n = Cardinality(Passing(t)') /\ m = Cardinality(Passing(t)) /\ k = Cardinality(Clerks) /\ p = Cardinality(Passed(t)) /\ n <= m
  <2>1. Passed(t) \in SUBSET DOMAIN ledger
    BY DEF Passed
  <2> QED  BY <1>2, <2>1, Threads, Countable
<1>4. p + m <= risk_velocity_high_count + k - 1
  BY <1>1, <1>3 DEF BurstOK
<1>5. p + n <= risk_velocity_high_count + k - 1
  BY <1>3, <1>4, SettingsAssumption
<1> QED  BY <1>2, <1>3, <1>5

LEMMA StrengthensKept == ASSUME OnlyStrengthens, ledger' = ledger, weather' = weather PROVE OnlyStrengthens'
  BY DEF OnlyStrengthens

\* A request that is at work is none that is idle.
LEMMA IdleIsFree == \A w : clerk[w] = RkIdle => ~Asking(w) /\ ~Creating(w)
  BY DEF RkIdle, Asking, Creating

LEMMA TickKeeps == RkInv /\ RkTick => RkInv'
<1> SUFFICES ASSUME RkInv, RkTick PROVE RkInv'
  OBVIOUS
<1>1. Calm /\ riskPolicy' = riskPolicy /\ rkNow' \in Nat
  BY DEF RkTick, Calm, RkInv, RkTyped
<1>2. RkTyped'
  BY <1>1, CalmTyped DEF RkInv
<1>3. OneCreates'
  BY <1>1 DEF Calm, RkInv, OneCreates, Creating
<1>4. LostOK' /\ SettledOK'
  BY <1>1 DEF Calm, RkInv, LostOK, Blocked, SettledOK, Settled, Asking
<1>5. BurstOK' /\ OnlyStrengthens'
  <2>1. \A t \in Nat : Passing(t)' \subseteq Passing(t)
    BY <1>1 DEF Calm, Passing
  <2> QED  BY <1>1, <2>1, BurstKept, StrengthensKept DEF Calm, RkInv
<1> QED  BY <1>2, <1>3, <1>4, <1>5 DEF RkInv

LEMMA UpdateKeeps == ASSUME RkInv, NEW new \in weather.updates, update_policy(new) PROVE RkInv'
<1>1. Calm /\ riskPolicy' = new /\ rkNow' = rkNow /\ IsRiskPolicy(new)
  BY WeathersAssumption DEF update_policy, Calm, RkInv, RkTyped
<1>2. RkTyped'
  BY <1>1, CalmTyped DEF RkInv, RkTyped
<1>3. OneCreates'
  BY <1>1 DEF Calm, RkInv, OneCreates, Creating
<1>4. LostOK'
  <2>1. Blocked' = Blocked /\ riskPolicy' # NoRiskPolicy
    BY <1>1, PolicyIsNotNone DEF Calm, Blocked, Asking
  <2> QED  BY <1>1, <2>1, LostKept DEF Calm, RkInv, RkTyped
<1>5. SettledOK'
  BY <1>1 DEF Calm, SettledOK, Settled
<1>6. BurstOK' /\ OnlyStrengthens'
  <2>1. \A t \in Nat : Passing(t)' \subseteq Passing(t)
    BY <1>1 DEF Calm, Passing
  <2> QED  BY <1>1, <2>1, BurstKept, StrengthensKept DEF Calm, RkInv
<1> QED  BY <1>2, <1>3, <1>4, <1>5, <1>6 DEF RkInv

LEMMA LookupKeeps ==
    ASSUME RkInv, NEW w \in Clerks, NEW req \in weather.requests, LookupPolicy(w, req)
    PROVE  RkInv'
<1>1. /\ RkTyped' /\ clerk'[w].stage = "score" /\ ~clerk'[w].creates
      /\ (clerk'[w].blocked <=> riskPolicy = NoRiskPolicy)
      /\ clerk'[w].policy = (IF riskPolicy = NoRiskPolicy THEN DefaultRiskPolicy ELSE riskPolicy)
      /\ \A x \in Clerks : x # w => clerk'[x] = clerk[x]
  <2>1. clerk' = [clerk EXCEPT ![w] = clerk'[w]]
    BY LookupTyped DEF RkInv
  <2> QED  BY <2>1, LookupTyped DEF RkInv, RkTyped
<1>2. UNCHANGED <<riskPolicy, ledger, lost, weather>> /\ clerk[w].stage = "idle"
  BY DEF LookupPolicy, Requested
<1>3. OneCreates'
  BY <1>1 DEF RkInv, OneCreates, Creating
<1>4. LostOK'
  <2>1. CASE riskPolicy = NoRiskPolicy
    <3>1. lost = 0 /\ lost' = 0
      BY <1>2, <2>1 DEF RkInv, LostOK
    <3>2. PICK n \in Nat, k \in Nat : n = Cardinality(Blocked') /\ k = Cardinality(Clerks) /\ n <= k
      BY Threads DEF Blocked
    <3> QED  BY <3>1, <3>2 DEF LostOK
  <2>2. CASE riskPolicy # NoRiskPolicy
    <3>1. Blocked' \subseteq Blocked
      BY <1>1, <2>2 DEF Blocked, Asking
    <3> QED  BY <1>2, <2>2, <3>1, LostKept DEF RkInv, RkTyped
  <2> QED  BY <2>1, <2>2
<1>5. SettledOK'
  <2>1. weather.risk # NoRiskPolicy /\ riskPolicy = weather.risk => clerk'[w].policy = weather.risk /\ ~clerk'[w].blocked
    BY <1>1
  <2> QED  BY <1>1, <1>2, <2>1 DEF RkInv, SettledOK, Settled, Asking
<1>6. BurstOK' /\ OnlyStrengthens'
  <2>1. \A t \in Nat : Passing(t)' \subseteq Passing(t)
    BY <1>1 DEF Passing
  <2> QED  BY <1>2, <2>1, BurstKept, StrengthensKept DEF RkInv
<1> QED  BY <1>1, <1>3, <1>4, <1>5, <1>6 DEF RkInv

LEMMA InsertKeeps ==
    ASSUME RkInv, NEW w \in Clerks, InsertPolicy(w)
    PROVE  RkInv'
<1>1. InsertRow(w) /\ \A x \in Clerks : ~Creating(x)
  BY DEF InsertPolicy
<1>2. /\ RkTyped' /\ clerk[w].stage = "score" /\ clerk[w].blocked /\ \A x \in Clerks : x # w => clerk'[x] = clerk[x]
      /\ \/ /\ riskPolicy = NoRiskPolicy /\ lost' = lost /\ clerk'[w].stage = "score"
            /\ ~clerk'[w].blocked /\ clerk'[w].creates /\ clerk'[w].policy = clerk[w].policy
         \/ riskPolicy # NoRiskPolicy /\ lost' = lost + 1 /\ clerk'[w] = RkIdle
  <2>1. RkTyped
    BY DEF RkInv
  <2> QED  BY <1>1, <2>1, InsertTyped
<1>3. UNCHANGED <<riskPolicy, ledger, weather>>
  BY <1>1 DEF InsertRow
<1>4. OneCreates'
  BY <1>1, <1>2 DEF OneCreates, Creating, RkIdle
<1>5. LostOK'
  <2>1. CASE lost' = lost /\ ~clerk'[w].blocked
    <3>1. Blocked' \subseteq Blocked
      BY <1>2, <2>1 DEF Blocked, Asking
    <3> QED  BY <1>3, <2>1, <3>1, LostKept DEF RkInv, RkTyped
  <2>2. CASE riskPolicy # NoRiskPolicy /\ lost' = lost + 1 /\ clerk'[w] = RkIdle
    <3>1. Blocked' = Blocked \ {w} /\ w \in Blocked
      BY <1>2, <2>2 DEF Blocked, Asking, RkIdle
    <3>2. IsFiniteSet(Blocked) /\ Cardinality(Blocked) \in Nat /\ Cardinality(Clerks) \in Nat
      BY Threads DEF Blocked
    <3>3. Cardinality(Blocked') = Cardinality(Blocked) - 1
      BY <3>1, <3>2, FS_RemoveElement
    <3>4. lost' + Cardinality(Blocked') <= Cardinality(Clerks)
      BY <2>2, <3>2, <3>3 DEF RkInv, RkTyped, LostOK
    <3> QED  BY <1>3, <2>2, <3>4 DEF LostOK
  <2> QED  BY <1>2, <2>1, <2>2
<1>6. SettledOK'
  <2>1. ~Settled
    BY <1>2 DEF RkInv, SettledOK, Asking
  <2> QED  BY <1>3, <2>1 DEF RkInv, SettledOK, Settled
<1>7. BurstOK' /\ OnlyStrengthens'
  <2>1. \A t \in Nat : Passing(t)' \subseteq Passing(t)
    BY <1>2 DEF Passing, RkIdle
  <2> QED  BY <1>3, <2>1, BurstKept, StrengthensKept DEF RkInv
<1> QED  BY <1>2, <1>4, <1>5, <1>6, <1>7 DEF RkInv

\* A thread starts to pass only when fewer than the threshold have passed at its moment: even if
\* every thread passes, the bound is kept.
LEMMA EvaluateKeeps ==
    ASSUME RkInv, NEW w \in Clerks, Evaluate(w)
    PROVE  RkInv'
<1>1. /\ RkTyped' /\ clerk[w].stage = "score" /\ ~clerk[w].blocked
      /\ \A x \in Clerks : x # w => clerk'[x] = clerk[x]
      /\ clerk'[w].stage = "decide" /\ clerk'[w].at = clerk[w].at /\ clerk'[w].policy = clerk[w].policy
      /\ (clerk'[w].creates <=> clerk[w].creates) /\ ~clerk'[w].blocked
      /\ clerk'[w].action = policy_action(risk_level(Score(clerk[w].req, clerk[w].policy, clerk[w].at)), clerk[w].policy)
  <2>1. RkTyped
    BY DEF RkInv
  <2> QED  BY <2>1, EvaluateTyped
<1>2. UNCHANGED <<riskPolicy, ledger, lost, weather>>
  BY DEF Evaluate
<1>3. OneCreates'
  BY <1>1 DEF RkInv, OneCreates, Creating
<1>4. LostOK'
  <2>1. Blocked' \subseteq Blocked
    BY <1>1 DEF Blocked, Asking
  <2> QED  BY <1>2, <2>1, LostKept DEF RkInv, RkTyped
<1>5. SettledOK'
  BY <1>1, <1>2 DEF RkInv, SettledOK, Settled, Asking
<1>6. OnlyStrengthens'
  BY <1>2, StrengthensKept DEF RkInv
<1>7. BurstOK'
  <2> SUFFICES ASSUME Settled', LowOnly(weather.risk)', NEW t \in Nat
               PROVE  Cardinality(Passed(t)') + Cardinality(Passing(t)') <= risk_velocity_high_count + Cardinality(Clerks) - 1
    BY DEF BurstOK
  <2>1. Settled /\ LowOnly(weather.risk)
    BY <1>2 DEF Settled, LowOnly
  <2>2. Passed(t)' = Passed(t)
    BY <1>2 DEF Passed
  <2>3. PICK p \in Nat : p = Cardinality(Passed(t))
    <3>1. Passed(t) \in SUBSET DOMAIN ledger
      BY DEF Passed
    <3> QED  BY <3>1, Countable DEF RkInv
  <2>4. PICK n \in Nat, m \in Nat, k \in Nat : n = Cardinality(Passing(t)') /\ m = Cardinality(Passing(t)) /\ k = Cardinality(Clerks) /\ n <= k
    <3>1. Passing(t)' \in SUBSET Clerks /\ Passing(t) \in SUBSET Clerks
      BY DEF Passing
    <3> QED  BY <3>1, Threads
  <2>5. p + m <= risk_velocity_high_count + k - 1
    BY <2>1, <2>3, <2>4 DEF RkInv, BurstOK
  <2>6. CASE clerk'[w].at = t /\ clerk'[w].action = "ALLOW"
    <3>1. IsRequest(clerk[w])
      BY <1>1 DEF RkInv, RkTyped, RkIdle
    <3>2. clerk[w].req \in weather.requests /\ IsRiskPolicy(clerk[w].policy) /\ LowOnly(clerk[w].policy)
      BY <1>1, <2>1, <3>1 DEF IsRequest, RkInv, SettledOK, Asking
    <3>3. Cardinality(Passed(t)) < risk_velocity_high_count
      BY <1>1, <2>6, <3>2, PassedFew DEF RkInv
    <3> QED  BY <2>2, <2>3, <2>4, <3>3, SettingsAssumption
  <2>7. CASE ~(clerk'[w].at = t /\ clerk'[w].action = "ALLOW")
    <3>1. Passing(t)' \subseteq Passing(t) /\ Passing(t) \in SUBSET Clerks
      BY <1>1, <2>7 DEF Passing
    <3>2. n <= m
      BY <2>4, <3>1, Threads
    <3> QED  BY <2>2, <2>3, <2>4, <2>5, <3>2, SettingsAssumption
  <2> QED  BY <2>6, <2>7
<1> QED  BY <1>1, <1>3, <1>4, <1>5, <1>6, <1>7 DEF RkInv

LEMMA AbandonKeeps ==
    ASSUME RkInv, NEW w \in Clerks, Abandon(w)
    PROVE  RkInv'
<1>1. RkTyped' /\ clerk'[w] = RkIdle /\ \A x \in Clerks : x # w => clerk'[x] = clerk[x]
  BY AbandonTyped DEF RkInv
<1>2. UNCHANGED <<riskPolicy, ledger, lost, weather>>
  BY DEF Abandon
<1>3. OneCreates'
  BY <1>1 DEF RkInv, OneCreates, Creating, RkIdle
<1>4. LostOK'
  <2>1. Blocked' \subseteq Blocked
    BY <1>1 DEF Blocked, Asking, RkIdle
  <2> QED  BY <1>2, <2>1, LostKept DEF RkInv, RkTyped
<1>5. SettledOK'
  BY <1>1, <1>2 DEF RkInv, SettledOK, Settled, Asking, RkIdle
<1>6. BurstOK' /\ OnlyStrengthens'
  <2>1. \A t \in Nat : Passing(t)' \subseteq Passing(t)
    BY <1>1 DEF Passing, RkIdle
  <2> QED  BY <1>2, <2>1, BurstKept, StrengthensKept DEF RkInv
<1> QED  BY <1>1, <1>3, <1>4, <1>5, <1>6 DEF RkInv

\* What is approved had passed: the thread that commits it is one less that passes.
LEMMA ApprovedWasAllowed ==
    ASSUME NEW c, c.action \in RiskAction, DecisionOf(c, orgPolicy) = "APPROVED"
    PROVE  c.action = "ALLOW"
  BY DEF DecisionOf, RiskAction

LEMMA DecisionStrengthens ==
    ASSUME NEW c, c.action \in RiskAction, weather.requires_approval \in BOOLEAN, NEW d, d = DecisionOf(c, orgPolicy)
    PROVE  RiskStrictness[d] >=
             RiskStrictness[CASE c.action = "REJECT" -> "REJECTED"
                              [] c.action # "REJECT" /\ (c.action = "REQUIRE_APPROVAL" \/ weather.requires_approval) -> "PENDING"
                              [] OTHER -> "APPROVED"]
<1>1. CASE c.action = "REJECT"
  BY <1>1 DEF DecisionOf, RiskStrictness
<1>2. CASE c.action # "REJECT" /\ (c.action = "REQUIRE_APPROVAL" \/ weather.requires_approval)
  <2>1. d \in {"REJECTED", "PENDING"}
    BY <1>2 DEF DecisionOf
  <2> QED  BY <1>2, <2>1 DEF RiskStrictness
<1>3. CASE c.action # "REJECT" /\ ~(c.action = "REQUIRE_APPROVAL" \/ weather.requires_approval)
  <2>1. d \in {"REJECTED", "PENDING", "APPROVED"}
    BY <1>3 DEF DecisionOf
  <2> QED  BY <1>3, <2>1 DEF RiskStrictness
<1> QED  BY <1>1, <1>2, <1>3

LEMMA CommitKeeps ==
    ASSUME RkInv, NEW w \in Clerks, Commit(w)
    PROVE  RkInv'
<1>1. /\ RkTyped' /\ clerk[w].stage = "decide" /\ clerk'[w] = RkIdle /\ (\A x \in Clerks : x # w => clerk'[x] = clerk[x])
      /\ ledger' \in Seq(Entry) /\ Len(ledger') = Len(ledger) + 1
      /\ \A i \in 1..Len(ledger) : ledger'[i] = ledger[i]
  BY CommitTyped DEF RkInv
<1>2. PICK new : /\ new = ledger'[Len(ledger) + 1] /\ new.at = clerk[w].at /\ new.action = clerk[w].action
                 /\ new.decision = DecisionOf(clerk[w], orgPolicy)
  <2>1. RkTyped
    BY DEF RkInv
  <2> QED  BY <2>1, CommitTyped
<1>3. UNCHANGED <<lost, weather>> /\ riskPolicy' = (IF clerk[w].creates THEN DefaultRiskPolicy ELSE riskPolicy)
  BY DEF Commit
<1>4. IsRequest(clerk[w])
  BY <1>1 DEF RkInv, RkTyped, RkIdle
<1>5. /\ Len(ledger) \in Nat /\ DOMAIN ledger = 1..Len(ledger)
      /\ DOMAIN ledger' = 1..(Len(ledger) + 1)
  BY <1>1 DEF RkInv, RkTyped
<1>6. OneCreates'
  BY <1>1 DEF RkInv, OneCreates, Creating, RkIdle
<1>7. LostOK'
  <2>1. Blocked' \subseteq Blocked
    BY <1>1 DEF Blocked, Asking, RkIdle
  <2>2. riskPolicy' = NoRiskPolicy => riskPolicy = NoRiskPolicy
    BY <1>3, DefaultIsRiskPolicy
  <2> QED  BY <1>3, <2>1, <2>2, LostKept DEF RkInv, RkTyped
<1>8. SettledOK'
  <2>1. Settled => ~clerk[w].creates
    BY <1>1 DEF RkInv, SettledOK, Asking
  <2>2. riskPolicy' \in {riskPolicy, DefaultRiskPolicy} /\ (Settled => riskPolicy' = riskPolicy)
    BY <1>3, <2>1
  <2> QED  BY <1>1, <1>3, <2>2 DEF RkInv, SettledOK, Settled, Asking, RkIdle
<1>9. OnlyStrengthens'
  <2> DEFINE Row(x) == RiskStrictness[x.decision] >=
                 RiskStrictness[CASE x.action = "REJECT" -> "REJECTED"
                                  [] x.action # "REJECT" /\ (x.action = "REQUIRE_APPROVAL" \/ weather.requires_approval) -> "PENDING"
                                  [] OTHER -> "APPROVED"]
  <2>1. Row(new)
    <3>1. weather.requires_approval \in BOOLEAN
      BY WeathersAssumption DEF RkInv, RkTyped
    <3> QED  BY <1>2, <1>4, <1>1, <3>1, DecisionStrengthens DEF IsRequest
  <2>2. \A i \in DOMAIN ledger : Row(ledger[i])
    BY DEF RkInv, OnlyStrengthens
  <2> HIDE DEF Row
  <2>3. \A i \in DOMAIN ledger' : Row(ledger'[i])
    BY <1>1, <1>2, <1>5, <2>1, <2>2
  <2> QED  BY <1>3, <2>3 DEF OnlyStrengthens, Row
<1>10. BurstOK'
  <2> SUFFICES ASSUME Settled', LowOnly(weather.risk)', NEW t \in Nat
               PROVE  Cardinality(Passed(t)') + Cardinality(Passing(t)') <= risk_velocity_high_count + Cardinality(Clerks) - 1
    BY DEF BurstOK
  <2>1. Settled /\ LowOnly(weather.risk)
    BY <1>3 DEF Settled, LowOnly
  <2>2. Passed(t) \in SUBSET DOMAIN ledger /\ Passing(t) \in SUBSET Clerks /\ Passing(t)' \in SUBSET Passing(t)
    BY <1>1 DEF Passed, Passing, RkIdle
  <2>3. PICK p \in Nat, n \in Nat, m \in Nat, k \in Nat :
            p = Cardinality(Passed(t)) /\ n = Cardinality(Passing(t)') /\ m = Cardinality(Passing(t)) /\ k = Cardinality(Clerks) /\ n <= m
    BY <2>2, Threads, Countable DEF RkInv
  <2>4. p + m <= risk_velocity_high_count + k - 1
    BY <2>1, <2>3 DEF RkInv, BurstOK
  <2>5. CASE new.at = t /\ new.decision = "APPROVED"
    <3>1. Passed(t)' = Passed(t) \cup {Len(ledger) + 1} /\ Len(ledger) + 1 \notin Passed(t)
      BY <1>1, <1>2, <1>5, <2>5 DEF Passed
    <3>2. Cardinality(Passed(t)') = p + 1
      BY <2>2, <2>3, <3>1, Countable, FS_AddElement DEF RkInv
    <3>3. clerk[w].action = "ALLOW"
      BY <1>1, <1>2, <1>4, <2>5, ApprovedWasAllowed DEF IsRequest
    <3>4. Passing(t)' = Passing(t) \ {w} /\ w \in Passing(t)
      <4>1. w \in Passing(t)
        BY <1>1, <1>2, <2>5, <3>3 DEF Passing
      <4>2. w \notin Passing(t)'
        BY <1>1 DEF Passing, RkIdle
      <4>3. \A x \in Clerks : x # w => (x \in Passing(t)' <=> x \in Passing(t))
        BY <1>1 DEF Passing
      <4>4. Passing(t) \subseteq Clerks /\ Passing(t)' \subseteq Clerks
        BY DEF Passing
      <4> QED  BY <4>1, <4>2, <4>3, <4>4
    <3>5. n = m - 1
      BY <2>2, <2>3, <3>4, Threads, FS_RemoveElement
    <3> QED  BY <2>3, <2>4, <3>2, <3>5, SettingsAssumption
  <2>6. CASE ~(new.at = t /\ new.decision = "APPROVED")
    <3>1. Passed(t)' = Passed(t)
      BY <1>1, <1>2, <1>5, <2>6 DEF Passed
    <3> QED  BY <2>3, <2>4, <3>1, SettingsAssumption
  <2> QED  BY <2>5, <2>6
<1> QED  BY <1>1, <1>6, <1>7, <1>8, <1>9, <1>10 DEF RkInv

LEMMA StepHolds == RkInv /\ [RkNext]_rkVars => RkInv'
<1> SUFFICES ASSUME RkInv, [RkNext]_rkVars PROVE RkInv'
  OBVIOUS
<1>1. weather.clerks \subseteq Clerks
  BY WeathersAssumption DEF RkInv, RkTyped
<1>2. CASE RkTick
  BY <1>2, TickKeeps
<1>3. CASE \E new \in weather.updates : update_policy(new)
  BY <1>3, UpdateKeeps
<1>4. ASSUME NEW w \in Clerks, InsertPolicy(w) \/ Evaluate(w) \/ Commit(w) \/ Abandon(w) \/ \E req \in weather.requests : LookupPolicy(w, req)
      PROVE  RkInv'
  BY <1>4, InsertKeeps, EvaluateKeeps, CommitKeeps, AbandonKeeps, LookupKeeps
<1>5. CASE UNCHANGED rkVars
  <2>1. RkTyped'
    BY <1>5, CalmTyped DEF rkVars, Calm, RkInv, RkTyped
  <2>2. OneCreates' /\ LostOK' /\ SettledOK'
    BY <1>5 DEF rkVars, RkInv, OneCreates, Creating, LostOK, Blocked, Asking, SettledOK, Settled
  <2>3. \A t \in Nat : Passing(t)' \subseteq Passing(t)
    BY <1>5 DEF rkVars, Passing
  <2>4. BurstOK' /\ OnlyStrengthens'
    BY <1>5, <2>3, BurstKept, StrengthensKept DEF rkVars, RkInv
  <2> QED  BY <2>1, <2>2, <2>4 DEF RkInv
<1> QED  BY <1>1, <1>2, <1>3, <1>4, <1>5 DEF RkNext

-----------------------------------------------------------------------------
\* ---- What the invariant says.
LEMMA RiskFollows == RkInv => RiskHolds
<1> SUFFICES ASSUME RkInv PROVE RiskHolds
  OBVIOUS
<1>1. RkTypeOK
  <2>1. \A i \in DOMAIN ledger : ledger[i].level \in RiskLevel /\ ledger[i].decision \in {"APPROVED", "PENDING", "REJECTED"}
    <3> TAKE i \in DOMAIN ledger
    <3>1. i \in 1..Len(ledger) /\ ledger \in Seq(Entry)
      BY DEF RkInv, RkTyped
    <3>2. ledger[i] \in Entry
      BY <3>1
    <3> QED  BY <3>2 DEF Entry, Decisions
  <2>2. \A w \in Clerks : clerk[w].stage = "decide" => clerk[w].level \in RiskLevel /\ clerk[w].action \in RiskAction
    BY DEF RkInv, RkTyped, IsRequest, RkIdle
  <2>3. Cardinality({w \in Clerks : Creating(w)}) <= 1
    <3> DEFINE S == {w \in Clerks : Creating(w)}
    <3>1. CASE S = {}
      BY <3>1, FS_EmptySet
    <3>2. CASE S # {}
      <4>1. PICK w : w \in S
        BY <3>2
      <4>2. S = {w}
        BY <4>1 DEF RkInv, OneCreates
      <4> QED  BY <4>2, FS_Singleton
    <3> QED  BY <3>1, <3>2
  <2> QED  BY <2>1, <2>2, <2>3 DEF RkTypeOK
<1>2. BurstBounded
  <2> SUFFICES ASSUME weather.updates = {}, riskPolicy # NoRiskPolicy, LowOnly(riskPolicy), NEW t \in 0..rkNow
               PROVE  Cardinality(Passed(t)) <= risk_velocity_high_count + Cardinality(Clerks) - 1
    BY DEF BurstBounded, LowOnly, Passed
  <2>1. Settled /\ riskPolicy = weather.risk
    BY DEF RkInv, SettledOK, Settled, DefaultRiskPolicy, LowOnly
  <2>2. t \in Nat
    BY DEF RkInv, RkTyped
  <2>3. Passed(t) \in SUBSET DOMAIN ledger /\ Passing(t) \in SUBSET Clerks
    BY DEF Passed, Passing
  <2>4. PICK p \in Nat, m \in Nat, k \in Nat : p = Cardinality(Passed(t)) /\ m = Cardinality(Passing(t)) /\ k = Cardinality(Clerks)
    BY <2>3, Threads, Countable DEF RkInv
  <2>5. p + m <= risk_velocity_high_count + k - 1
    BY <2>1, <2>2, <2>4 DEF RkInv, BurstOK
  <2> QED  BY <2>4, <2>5, SettingsAssumption
<1>3. LostOnlyAtFirst
  <2>1. PICK m \in Nat, k \in Nat : m = Cardinality(Blocked) /\ k = Cardinality(Clerks)
    BY Threads DEF Blocked
  <2> QED  BY <2>1 DEF RkInv, RkTyped, LostOK, LostOnlyAtFirst
<1> QED  BY <1>1, <1>2, <1>3, ScoreMonotoneFollows DEF RkInv, RiskHolds

\* With any number of threads and whatever is requested, at whatever thresholds: a burst passes only
\* by as many requests as overlap, requests are lost to the insert of the policy at most once for
\* each thread, a larger amount never scores less, and the organization's rules only strengthen.
THEOREM RiskTheorem == RkSpec => []RiskHolds
<1>1. RkInv /\ [RkNext]_rkVars => RkInv'
  BY StepHolds
<1> QED  BY <1>1, InitHolds, RiskFollows, PTL DEF RkSpec
=============================================================================
