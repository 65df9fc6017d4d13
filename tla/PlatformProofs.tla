--------------------------- MODULE PlatformProofs ---------------------------
EXTENDS Platform, FiniteSetTheorems, SequenceTheorems, TLAPS

-----------------------------------------------------------------------------
(* An account: sign-in, factors, sessions, single sign-on.                 *)

\* What a worker has in hand at each stage.
Via == {"locked", "unlocked", "challenge", "oidc"}
WorkRec ==
    {WorkIdle}
    \cup [stage : {"password"}, pw : Nat, via : {"locked", "unlocked"}]
    \cup [stage : {"issuing"}, pw : Nat, via : Via, mfa : BOOLEAN, state : Attempts \cup {0}, seen : BOOLEAN]
    \cup [stage : {"setup"}, new : BOOLEAN]
    \cup [stage : {"cutting"}, session : Sessions, mfa : BOOLEAN]
    \cup [stage : {"asked", "proven"}, op : {"change", "step_up", "codes", "disable"}, session : Sessions]
    \cup [stage : {"renewing"}, seen : SUBSET Nat]
    \cup [stage : {"burnt"}, state : Attempts]
    \cup [stage : {"policy"}, sso : BOOLEAN]
    \cup [stage : {"disabling"}]
UserRow == [pw : Nat, fails : 0..(account_lock_attempts - 1), locked : Nat]
SessionRow == [live : BOOLEAN, pw : Nat, via : Via, mfa : BOOLEAN, step : Int, late : BOOLEAN]
CredRow == [enabled : BOOLEAN, secret : Nat, pending : BOOLEAN, last : Int, fails : 0..(mfa_max_attempts - 1), locked : Nat]
MfaChallengeRow == [used : BOOLEAN, attempts : 0..mfa_max_attempts, till : Nat, pw : Nat]
AttemptStatus == {"none", "started", "burnt", "ticket", "ticket+mfa", "redeemed"}
TotpCode == [secret : Nat, step : Int]
SetCode == [set : Nat]

AcTyped ==
    /\ acct \in Accts /\ acNow \in Nat
    /\ user \in UserRow /\ user.pw <= acct.passwords
    /\ userLock \in Workers \cup {NoWorker}
    /\ session \in [Sessions -> {NoSession} \cup SessionRow]
    /\ cred \in {NoCred} \cup CredRow
    /\ minted \in [secrets : Nat, sets : Nat] /\ codes \subseteq 1..minted.sets /\ confirmed \in Nat
    /\ mfaChallenge \in [MfaChallenges -> {NoMfaChallenge} \cup MfaChallengeRow]
    /\ attempt \in [Attempts -> AttemptStatus] /\ fromState \in [Attempts -> Nat]
    /\ joined \in BOOLEAN /\ conn \in {"active", "disabled"} /\ requireSso \in BOOLEAN
    /\ work \in [Workers -> WorkRec]
    /\ DOMAIN accepted \subseteq TotpCode \cup SetCode

\* A sign-in that did not clear failures holds the user row, so nobody changes the password under it.
Locked(d) == d.stage \in {"password", "issuing"} /\ d.via = "locked"
LockOK ==
    /\ \A q \in Workers : userLock = q <=> Locked(work[q])
    /\ \A q \in Workers : Locked(work[q]) => work[q].pw = user.pw
    /\ \A s \in Sessions : (session[s].live /\ session[s].via = "locked") => session[s].pw = user.pw

\* A handler works for a session that exists, revoked or not.
OwnSessionOK == \A q \in Workers :
    work[q].stage \in {"asked", "proven", "cutting"} => session[work[q].session] # NoSession

\* What was accepted is behind what may be accepted: steps, secrets and sets.
FactorOK ==
    /\ \A f \in DOMAIN accepted : accepted[f] = 1
    /\ \A f \in DOMAIN accepted \cap TotpCode :
         /\ f.secret <= minted.secrets
         /\ (cred # NoCred /\ f.secret = cred.secret) => cred.enabled /\ f.step <= cred.last
    /\ \A f \in DOMAIN accepted \cap SetCode : f.set <= minted.sets /\ f.set \notin codes
    /\ cred # NoCred => cred.secret <= minted.secrets

\* Nobody may replace the secret of an enabled credential, unless a setup was confirmed meanwhile.
SetupOK == (cred.enabled /\ "setup" \notin raced) =>
    cred.secret = confirmed /\ \A q \in Workers : work[q].stage # "setup"

\* Whoever renews the codes deletes all there are.
CodesOK == "codes" \notin raced =>
    /\ \A x, y \in codes : x = y
    /\ \A q \in Workers : work[q].stage = "renewing" => codes \subseteq work[q].seen
    /\ \A p, q \in Workers : (work[p].stage = "renewing" /\ work[q].stage = "renewing") => p = q

\* Sessions without the second factor are gone, or will be by who confirmed it, or came late.
ToCut == \E q \in Workers : work[q].stage = "cutting" /\ work[q].mfa
CutOK ==
    /\ (cred.enabled /\ "uncut" \notin raced /\ ~ToCut) =>
          \A s \in Sessions : (session[s].live /\ session[s].via # "oidc" /\ ~session[s].mfa) => session[s].late
    /\ \A q \in Workers : (work[q].stage = "issuing" /\ work[q].via # "oidc" /\ ~work[q].mfa) => ~work[q].seen

\* A state is at one place, and a session from it is the only one.
OutOf(q, a) == work[q].stage \in {"burnt", "issuing"} /\ work[q].state = a
StateOK == \A a \in Attempts :
    /\ fromState[a] <= 1 /\ (attempt[a] # "redeemed" => fromState[a] = 0)
    /\ \A q \in Workers : OutOf(q, a) =>
          /\ attempt[a] = IF work[q].stage = "burnt" THEN "burnt" ELSE "redeemed"
          /\ fromState[a] = 0
          /\ \A p \in Workers : OutOf(p, a) => p = q

\* Unless they overlapped, who sets the policy found a connection, who ends it found no policy.
SsoOK == "policy" \notin raced =>
    /\ requireSso => conn = "active"
    /\ \A q \in Workers : (work[q].stage = "policy" /\ work[q].sso) => conn = "active"
    /\ \A q \in Workers : work[q].stage = "disabling" => ~requireSso

AcParts == LockOK /\ OwnSessionOK /\ FactorOK /\ SetupOK /\ CodesOK /\ CutOK /\ StateOK /\ SsoOK
AcInv == AcTyped /\ AcParts

-----------------------------------------------------------------------------
(* Rows, codes and workers.                                                *)

\* A code of the authenticator and one of a set are told apart by their fields.
LEMMA CodeFacts ==
    /\ \A f \in TotpCode : "step" \in DOMAIN f /\ "set" \notin DOMAIN f /\ f \notin SetCode
    /\ \A f \in SetCode : "set" \in DOMAIN f /\ "step" \notin DOMAIN f
BY DEF TotpCode, SetCode

LEMMA AcFacts ==
    ASSUME AcInv
    PROVE  /\ acct \in Accts /\ acNow \in Nat /\ acct.workers \subseteq Workers /\ acct.factor \in BOOLEAN
           /\ acct.passwords \in Nat
           /\ user \in UserRow /\ user.pw <= acct.passwords /\ userLock \in Workers \cup {NoWorker}
           /\ session \in [Sessions -> {NoSession} \cup SessionRow]
           /\ cred \in {NoCred} \cup CredRow
           /\ minted \in [secrets : Nat, sets : Nat] /\ codes \subseteq 1..minted.sets /\ confirmed \in Nat
           /\ mfaChallenge \in [MfaChallenges -> {NoMfaChallenge} \cup MfaChallengeRow]
           /\ attempt \in [Attempts -> AttemptStatus] /\ fromState \in [Attempts -> Nat]
           /\ joined \in BOOLEAN /\ conn \in {"active", "disabled"} /\ requireSso \in BOOLEAN
           /\ work \in [Workers -> WorkRec] /\ (\A q \in Workers : work[q] \in WorkRec)
           /\ DOMAIN accepted \subseteq TotpCode \cup SetCode
           /\ NoWorker \notin Workers
BY AccountsAssumption, AcctsAssumption DEF AcInv, AcTyped, NoWorker

LEMMA EmptyRows ==
    /\ NoSession \notin SessionRow /\ ~NoSession.live
    /\ NoCred \notin CredRow /\ ~NoCred.enabled /\ NoCred.secret = 0
    /\ NoMfaChallenge \notin MfaChallengeRow /\ NoMfaChallenge.used
    /\ WorkIdle \in WorkRec /\ WorkIdle.stage = "idle"
BY DEF NoSession, SessionRow, NoCred, CredRow, NoMfaChallenge, MfaChallengeRow, WorkIdle, WorkRec

\* What a worker has in hand at each stage.
LEMMA WorkFacts ==
    ASSUME NEW d \in WorkRec
    PROVE  /\ d = WorkIdle <=> d.stage = "idle"
           /\ d.stage = "password" => d.pw \in Nat /\ d.via \in {"locked", "unlocked"}
           /\ d.stage = "issuing" =>
                d.pw \in Nat /\ d.via \in Via /\ d.mfa \in BOOLEAN /\ d.state \in Attempts \cup {0} /\ d.seen \in BOOLEAN
           /\ d.stage = "setup" => d.new \in BOOLEAN
           /\ d.stage = "cutting" => d.session \in Sessions /\ d.mfa \in BOOLEAN
           /\ d.stage \in {"asked", "proven"} =>
                /\ d.session \in Sessions /\ d.op \in {"change", "step_up", "codes", "disable"}
                /\ d = [stage |-> d.stage, op |-> d.op, session |-> d.session]
           /\ d.stage = "renewing" => d.seen \subseteq Nat
           /\ d.stage = "burnt" => d.state \in Attempts
           /\ d.stage = "policy" => d.sso \in BOOLEAN
<1>1. CASE d = WorkIdle
  BY <1>1 DEF WorkIdle
<1>2. CASE d \in [stage : {"password"}, pw : Nat, via : {"locked", "unlocked"}]
  BY <1>2 DEF WorkIdle
<1>3. CASE d \in [stage : {"issuing"}, pw : Nat, via : Via, mfa : BOOLEAN, state : Attempts \cup {0}, seen : BOOLEAN]
  BY <1>3 DEF WorkIdle
<1>4. CASE d \in [stage : {"setup"}, new : BOOLEAN]
  BY <1>4 DEF WorkIdle
<1>5. CASE d \in [stage : {"cutting"}, session : Sessions, mfa : BOOLEAN]
  BY <1>5 DEF WorkIdle
<1>6. CASE d \in [stage : {"asked", "proven"}, op : {"change", "step_up", "codes", "disable"}, session : Sessions]
  BY <1>6 DEF WorkIdle
<1>7. CASE d \in [stage : {"renewing"}, seen : SUBSET Nat]
  BY <1>7 DEF WorkIdle
<1>8. CASE d \in [stage : {"burnt"}, state : Attempts]
  BY <1>8 DEF WorkIdle
<1>9. CASE d \in [stage : {"policy"}, sso : BOOLEAN]
  BY <1>9 DEF WorkIdle
<1>10. CASE d \in [stage : {"disabling"}]
  BY <1>10 DEF WorkIdle
<1> QED  BY <1>1, <1>2, <1>3, <1>4, <1>5, <1>6, <1>7, <1>8, <1>9, <1>10 DEF WorkRec

\* What a step of worker h leaves alone keeps its part of the invariant.
LEMMA AcKept ==
    ASSUME AcInv, NEW h, \A q \in Workers : q # h => work'[q] = work[q], raced \subseteq raced'
    PROVE  /\ (/\ UNCHANGED <<user, userLock, session>>
               /\ h \in Workers => /\ work[h].stage \notin {"password", "issuing"}
                                   /\ work'[h].stage \notin {"password", "issuing"}) => LockOK'
           /\ (/\ UNCHANGED session
               /\ h \in Workers => work'[h].stage \notin {"asked", "proven", "cutting"}) => OwnSessionOK'
           /\ UNCHANGED <<cred, codes, minted, accepted>> => FactorOK'
           /\ (UNCHANGED <<cred, confirmed>> /\ (h \in Workers => work'[h].stage # "setup")) => SetupOK'
           /\ (UNCHANGED codes /\ (h \in Workers => work'[h].stage # "renewing")) => CodesOK'
           /\ (/\ UNCHANGED <<cred, session>>
               /\ h \in Workers => work[h].stage # "cutting" /\ work'[h].stage \notin {"issuing", "cutting"}) => CutOK'
           /\ (/\ UNCHANGED <<attempt, fromState>>
               /\ h \in Workers => work'[h].stage \notin {"burnt", "issuing"}) => StateOK'
           /\ (/\ UNCHANGED <<conn, requireSso>>
               /\ h \in Workers => work'[h].stage \notin {"policy", "disabling"}) => SsoOK'
<1>1. ASSUME UNCHANGED <<user, userLock, session>>,
             h \in Workers => /\ work[h].stage \notin {"password", "issuing"}
                              /\ work'[h].stage \notin {"password", "issuing"}
      PROVE  LockOK'
  <2>1. \A q \in Workers : Locked(work'[q]) <=> Locked(work[q])
    BY <1>1 DEF Locked
  <2>2. \A q \in Workers : Locked(work'[q]) => work'[q] = work[q]
    BY <1>1 DEF Locked
  <2> QED  BY <1>1, <2>1, <2>2 DEF AcInv, AcParts, LockOK
<1>2. ASSUME UNCHANGED session, h \in Workers => work'[h].stage \notin {"asked", "proven", "cutting"}
      PROVE  OwnSessionOK'
  BY <1>2 DEF AcInv, AcParts, OwnSessionOK
<1>3. ASSUME UNCHANGED <<cred, codes, minted, accepted>>  PROVE FactorOK'
  BY <1>3 DEF AcInv, AcParts, FactorOK
<1>4. ASSUME UNCHANGED <<cred, confirmed>>, h \in Workers => work'[h].stage # "setup"  PROVE SetupOK'
  BY <1>4 DEF AcInv, AcParts, SetupOK
<1>5. ASSUME UNCHANGED codes, h \in Workers => work'[h].stage # "renewing"  PROVE CodesOK'
  BY <1>5 DEF AcInv, AcParts, CodesOK
<1>6. ASSUME UNCHANGED <<cred, session>>,
             h \in Workers => work[h].stage # "cutting" /\ work'[h].stage \notin {"issuing", "cutting"}
      PROVE  CutOK'
  <2>1. ToCut' <=> ToCut
    BY <1>6 DEF ToCut
  <2> QED  BY <1>6, <2>1 DEF AcInv, AcParts, CutOK
<1>7. ASSUME UNCHANGED <<attempt, fromState>>, h \in Workers => work'[h].stage \notin {"burnt", "issuing"}
      PROVE  StateOK'
  BY <1>7 DEF AcInv, AcParts, StateOK, OutOf
<1>8. ASSUME UNCHANGED <<conn, requireSso>>, h \in Workers => work'[h].stage \notin {"policy", "disabling"}
      PROVE  SsoOK'
  BY <1>8 DEF AcInv, AcParts, SsoOK
<1> QED  BY <1>1, <1>2, <1>3, <1>4, <1>5, <1>6, <1>7, <1>8

-----------------------------------------------------------------------------
(* Steps that take up work, or that no worker takes.                       *)

LEMMA AcQuiet ==
    ASSUME AcInv, NEW h \in Workers, NEW d \in WorkRec, work' = [work EXCEPT ![h] = d], raced \subseteq raced',
           UNCHANGED <<acFixed, user, userLock, session, factorVars, setupVars, mfaChallenge, ssoVars>>,
           work[h].stage \notin {"password", "issuing", "cutting"},
           d.stage \notin {"password", "issuing", "burnt", "cutting"},
           d.stage \in {"asked", "proven"} => session[d.session] # NoSession,
           d.stage = "setup" => ~cred.enabled,
           d.stage = "renewing" => codes \subseteq d.seen /\ (Busy("renewing") => "codes" \in raced'),
           (d.stage = "policy" /\ d.sso) => conn = "active",
           d.stage = "disabling" => ~requireSso
    PROVE  AcInv'
<1>1. /\ \A q \in Workers : q # h => work'[q] = work[q]
      /\ work'[h] = d /\ work' \in [Workers -> WorkRec]
  BY AcFacts
<1>2. UNCHANGED <<acNow, acct, user, userLock, session, cred, codes, accepted, minted, confirmed, mfaChallenge,
                  attempt, joined, conn, requireSso, fromState>>
  BY DEF acFixed, factorVars, setupVars, ssoVars
<1>3. LockOK' /\ FactorOK' /\ CutOK' /\ StateOK'
  BY <1>1, <1>2, AcKept
<1>4. OwnSessionOK'
  BY <1>1, <1>2 DEF AcInv, AcParts, OwnSessionOK
<1>5. SetupOK'
  BY <1>1, <1>2 DEF AcInv, AcParts, SetupOK
<1>6. CodesOK'
  BY <1>1, <1>2 DEF AcInv, AcParts, CodesOK, Busy
<1>7. SsoOK'
  BY <1>1, <1>2 DEF AcInv, AcParts, SsoOK
<1>8. AcTyped'
  BY <1>1, <1>2 DEF AcInv, AcTyped
<1> QED  BY <1>3, <1>4, <1>5, <1>6, <1>7, <1>8 DEF AcInv, AcParts

LEMMA AskOK ==
    ASSUME AcInv, NEW h \in Workers, NEW s \in Sessions, NEW op, Ask(h, s, op)
    PROVE  AcInv'
<1>1. PICK d : d = [stage |-> IF cred.enabled THEN "asked" ELSE "proven", op |-> op, session |-> s]
  OBVIOUS
<1>2. /\ work[h] = WorkIdle /\ work' = [work EXCEPT ![h] = d] /\ session[s].live
      /\ op \in {"change", "step_up", "codes", "disable"}
      /\ UNCHANGED <<acFixed, user, userLock, session, factorVars, setupVars, mfaChallenge, ssoVars, raced>>
  BY <1>1 DEF Ask, Waiting
<1>3. d \in WorkRec /\ d.stage \in {"asked", "proven"} /\ d.session = s
  BY <1>1, <1>2 DEF WorkRec
<1>4. session[d.session] # NoSession /\ work[h].stage = "idle"
  BY <1>2, <1>3, EmptyRows
<1> QED  BY <1>2, <1>3, <1>4, AcQuiet

LEMMA LoadSetupOK ==
    ASSUME AcInv, NEW h \in Workers, NEW s \in Sessions, LoadSetup(h, s)
    PROVE  AcInv'
<1>1. PICK n \in BOOLEAN : \E d : d = [stage |-> "setup", new |-> n] /\ work' = [work EXCEPT ![h] = d]
  BY DEF LoadSetup
<1>5. PICK d : d = [stage |-> "setup", new |-> n] /\ work' = [work EXCEPT ![h] = d]
  BY <1>1
<1>2. /\ work[h] = WorkIdle /\ ~cred.enabled
      /\ UNCHANGED <<acFixed, user, userLock, session, factorVars, setupVars, mfaChallenge, ssoVars, raced>>
  BY DEF LoadSetup, Waiting, MayStart
<1>3. d \in WorkRec /\ d.stage = "setup"
  BY <1>5 DEF WorkRec
<1>4. work[h].stage = "idle"
  BY <1>2, EmptyRows
<1> QED  BY <1>2, <1>3, <1>4, <1>5, AcQuiet

LEMMA DeleteCodesOK ==
    ASSUME AcInv, NEW h \in Workers, DeleteCodes(h)
    PROVE  AcInv'
<1>1. PICK d : d = [stage |-> "renewing", seen |-> codes]
  OBVIOUS
<1>2. /\ work[h].stage = "proven" /\ work' = [work EXCEPT ![h] = d]
      /\ raced' = IF Busy("renewing") THEN raced \cup {"codes"} ELSE raced
      /\ UNCHANGED <<acFixed, user, userLock, session, factorVars, setupVars, mfaChallenge, ssoVars>>
  BY <1>1 DEF DeleteCodes, Proven
<1>3. d \in WorkRec /\ d.stage = "renewing" /\ d.seen = codes
  <2>1. codes \subseteq Nat
    BY AcFacts
  <2> QED  BY <1>1, <2>1 DEF WorkRec
<1>4. raced \subseteq raced' /\ (Busy("renewing") => "codes" \in raced')
  BY <1>2
<1> QED  BY <1>2, <1>3, <1>4, AcQuiet

LEMMA LoadPolicyOK ==
    ASSUME AcInv, NEW h \in Workers, NEW sso \in BOOLEAN, LoadPolicy(h, sso)
    PROVE  AcInv'
<1>1. PICK d : d = [stage |-> "policy", sso |-> sso]
  OBVIOUS
<1>2. /\ work[h] = WorkIdle /\ work' = [work EXCEPT ![h] = d] /\ (sso => conn = "active")
      /\ UNCHANGED <<acFixed, user, userLock, session, factorVars, setupVars, mfaChallenge, ssoVars, raced>>
  BY <1>1 DEF LoadPolicy, Waiting
<1>3. d \in WorkRec /\ d.stage = "policy" /\ (d.sso <=> sso)
  BY <1>1 DEF WorkRec
<1>4. work[h].stage = "idle"
  BY <1>2, EmptyRows
<1> QED  BY <1>2, <1>3, <1>4, AcQuiet

LEMMA LoadConnectionOK ==
    ASSUME AcInv, NEW h \in Workers, LoadConnection(h)
    PROVE  AcInv'
<1>1. PICK d : d = [stage |-> "disabling"]
  OBVIOUS
<1>2. /\ work[h] = WorkIdle /\ work' = [work EXCEPT ![h] = d] /\ ~requireSso
      /\ UNCHANGED <<acFixed, user, userLock, session, factorVars, setupVars, mfaChallenge, ssoVars, raced>>
  BY <1>1 DEF LoadConnection, Waiting, MayDisable
<1>3. d \in WorkRec /\ d.stage = "disabling"
  BY <1>1 DEF WorkRec
<1>4. work[h].stage = "idle"
  BY <1>2, EmptyRows
<1> QED  BY <1>2, <1>3, <1>4, AcQuiet

\* Time passes, a member leaves, a connection is enabled.
LEMMA AcOutsideOK ==
    ASSUME AcInv, AcTick \/ Leave \/ enable_connection
    PROVE  AcInv'
<1>1. UNCHANGED <<acct, user, userLock, session, cred, codes, accepted, minted, confirmed, mfaChallenge,
                  attempt, requireSso, fromState, work, raced>>
  BY DEF AcTick, Leave, enable_connection, acFixed, factorVars, setupVars, ssoVars
<1>2. acNow' \in Nat /\ joined' \in BOOLEAN /\ (conn' = conn \/ conn' = "active")
  <2>1. CASE AcTick
    <3>1. acNow' = acNow + 1 /\ joined' = joined /\ conn' = conn
      BY <2>1 DEF AcTick, ssoVars
    <3> QED  BY <3>1, AcFacts
  <2>2. CASE Leave
    BY <2>2, AcFacts DEF Leave, acFixed
  <2>3. CASE enable_connection
    BY <2>3, AcFacts DEF enable_connection, acFixed
  <2> QED  BY <2>1, <2>2, <2>3
<1>3. LockOK' /\ OwnSessionOK' /\ FactorOK' /\ SetupOK' /\ CodesOK' /\ CutOK' /\ StateOK'
  <2>1. NoWorker \notin Workers /\ (\A q \in Workers : q # NoWorker => work'[q] = work[q]) /\ raced \subseteq raced'
    BY <1>1, AcFacts
  <2> QED  BY <1>1, <2>1, AcKept
<1>4. SsoOK'
  BY <1>1, <1>2 DEF AcInv, AcParts, SsoOK
<1>5. AcTyped'
  BY <1>1, <1>2, AcFacts DEF AcInv, AcTyped
<1> QED  BY <1>3, <1>4, <1>5 DEF AcInv, AcParts

\* A session that ends keeps the rest of its row.
LEMMA EndedFacts ==
    ASSUME NEW r \in SessionRow
    PROVE  /\ [r EXCEPT !.live = FALSE] \in SessionRow /\ ~[r EXCEPT !.live = FALSE].live
           /\ [r EXCEPT !.live = FALSE] # NoSession /\ r # NoSession
<1>1. [r EXCEPT !.live = FALSE] \in SessionRow
  BY DEF SessionRow
<1>2. ~[r EXCEPT !.live = FALSE].live
  BY DEF SessionRow
<1> QED  BY <1>1, <1>2, EmptyRows

\* What is left of the sessions when some end.
LEMMA SomeEnd ==
    ASSUME AcInv, NEW gone \in SUBSET Sessions, \A x \in gone : session[x].live,
           session' = [x \in Sessions |-> IF x \in gone THEN [session[x] EXCEPT !.live = FALSE] ELSE session[x]]
    PROVE  /\ session' \in [Sessions -> {NoSession} \cup SessionRow]
           /\ \A x \in Sessions : /\ session'[x].live => session'[x] = session[x]
                                  /\ session[x] # NoSession => session'[x] # NoSession
<1> SUFFICES ASSUME NEW x \in Sessions
             PROVE  /\ session'[x] \in {NoSession} \cup SessionRow
                    /\ session'[x].live => session'[x] = session[x]
                    /\ session[x] # NoSession => session'[x] # NoSession
  OBVIOUS
<1>1. CASE x \in gone
  <2>1. session[x] \in SessionRow /\ session'[x] = [session[x] EXCEPT !.live = FALSE]
    BY <1>1, AcFacts, EmptyRows
  <2> QED  BY <2>1, EndedFacts
<1>2. CASE x \notin gone
  BY <1>2, AcFacts
<1> QED  BY <1>1, <1>2

\* Sessions end.
LEMMA RevokeOK ==
    ASSUME AcInv, NEW s \in Sessions, revoke_session(s) \/ revoke_others(s)
    PROVE  AcInv'
<1>1. UNCHANGED <<acct, acNow, user, userLock, cred, codes, accepted, minted, confirmed, mfaChallenge,
                  attempt, joined, conn, requireSso, fromState, work, raced>>
  BY DEF revoke_session, revoke_others, acFixed, factorVars, setupVars, ssoVars
<1>2. \E gone \in SUBSET Sessions :
        /\ \A x \in gone : session[x].live
        /\ session' = [x \in Sessions |-> IF x \in gone THEN [session[x] EXCEPT !.live = FALSE] ELSE session[x]]
  <2>1. CASE revoke_session(s)
    <3>1. session[s].live /\ session' = [session EXCEPT ![s] = [session[s] EXCEPT !.live = FALSE]]
      BY <2>1 DEF revoke_session
    <3> WITNESS {s} \in SUBSET Sessions
    <3> QED  BY <3>1, AcFacts
  <2>2. CASE revoke_others(s)
    <3> Cut(s) \in SUBSET Sessions
      BY DEF Cut
    <3> WITNESS Cut(s) \in SUBSET Sessions
    <3> QED  BY <2>2 DEF revoke_others, Cut
  <2> QED  BY <2>1, <2>2
<1>3. /\ session' \in [Sessions -> {NoSession} \cup SessionRow]
      /\ \A x \in Sessions : /\ session'[x].live => session'[x] = session[x]
                             /\ session[x] # NoSession => session'[x] # NoSession
  BY <1>2, SomeEnd
<1>4. LockOK' /\ OwnSessionOK' /\ CutOK'
  <2>1. LockOK'
    BY <1>1, <1>3 DEF AcInv, AcParts, LockOK
  <2>2. OwnSessionOK'
    BY <1>1, <1>3, AcFacts, WorkFacts DEF AcInv, AcParts, OwnSessionOK
  <2>3. CutOK'
    BY <1>1, <1>3 DEF AcInv, AcParts, CutOK, ToCut
  <2> QED  BY <2>1, <2>2, <2>3
<1>5. FactorOK' /\ SetupOK' /\ CodesOK' /\ StateOK' /\ SsoOK'
  <2>1. NoWorker \notin Workers /\ (\A q \in Workers : q # NoWorker => work'[q] = work[q]) /\ raced \subseteq raced'
    BY <1>1, AcFacts
  <2> QED  BY <1>1, <2>1, AcKept
<1>6. AcTyped'
  BY <1>1, <1>3 DEF AcInv, AcTyped
<1> QED  BY <1>4, <1>5, <1>6 DEF AcInv, AcParts

-----------------------------------------------------------------------------
(* Signing in.                                                             *)

\* The lock of the user row when worker h takes or gives up its sign-in.
LEMMA LockStep ==
    ASSUME AcInv, NEW h \in Workers, \A q \in Workers : q # h => work'[q] = work[q], UNCHANGED user,
           userLock' = h <=> Locked(work'[h]), (userLock' # h /\ userLock' # userLock) => userLock' = NoWorker /\ userLock = h,
           userLock' = h => userLock \in {h, NoWorker}, Locked(work'[h]) => work'[h].pw = user.pw,
           \A s \in Sessions : (session'[s].live /\ session'[s].via = "locked") => session'[s].pw = user.pw
    PROVE  LockOK'
<1>1. \A q \in Workers : q # h => (userLock' = q <=> userLock = q)
  BY AcFacts
<1>2. \A q \in Workers : userLock' = q <=> Locked(work'[q])
  <2> SUFFICES ASSUME NEW q \in Workers  PROVE userLock' = q <=> Locked(work'[q])
    OBVIOUS
  <2>1. userLock = q <=> Locked(work[q])
    BY DEF AcInv, AcParts, LockOK
  <2> QED  BY <1>1, <2>1
<1>3. \A q \in Workers : Locked(work'[q]) => work'[q].pw = user'.pw
  BY DEF AcInv, AcParts, LockOK
<1> QED  BY <1>2, <1>3 DEF LockOK, Locked

\* Failures are counted up to the number that locks.
LEMMA FailFacts ==
    ASSUME AcInv
    PROVE  Fail(user) \in UserRow /\ Fail(user).pw = user.pw
<1>1. user \in UserRow /\ acNow + LockTime \in Nat /\ account_lock_attempts \in Nat \ {0}
  BY AcFacts, AccountsAssumption
<1>2. CASE user.fails + 1 >= account_lock_attempts
  <2>1. Fail(user) = [user EXCEPT !.fails = 0, !.locked = acNow + LockTime] /\ 0 \in 0..(account_lock_attempts - 1)
    BY <1>1, <1>2 DEF Fail
  <2> QED  BY <1>1, <2>1 DEF UserRow
<1>3. CASE ~(user.fails + 1 >= account_lock_attempts)
  <2>1. Fail(user) = [user EXCEPT !.fails = user.fails + 1]
    BY <1>3 DEF Fail
  <2>2. user.fails + 1 \in 0..(account_lock_attempts - 1)
    BY <1>1, <1>3 DEF UserRow
  <2> QED  BY <1>1, <2>1, <2>2 DEF UserRow
<1> QED  BY <1>2, <1>3

LEMMA AuthenticateOK ==
    ASSUME AcInv, NEW h \in Workers, NEW right \in BOOLEAN, authenticate_user(h, right)
    PROVE  AcInv'
<1>1. /\ UNCHANGED <<acct, acNow, session, cred, codes, accepted, minted, confirmed, mfaChallenge,
                     attempt, joined, conn, requireSso, fromState, raced>>
      /\ work[h] = WorkIdle /\ userLock = NoWorker
  BY DEF authenticate_user, Waiting, acFixed, factorVars, setupVars, ssoVars
<1>2. CASE ~right
  <2>1. user' = Fail(user) /\ UNCHANGED <<userLock, work>>
    BY <1>2 DEF authenticate_user
  <2>2. user' \in UserRow /\ user'.pw = user.pw
    BY <2>1, FailFacts
  <2>3. LockOK'
    BY <1>1, <2>1, <2>2 DEF AcInv, AcParts, LockOK
  <2>4. OwnSessionOK' /\ FactorOK' /\ SetupOK' /\ CodesOK' /\ CutOK' /\ StateOK' /\ SsoOK'
    <3>1. NoWorker \notin Workers /\ (\A q \in Workers : q # NoWorker => work'[q] = work[q]) /\ raced \subseteq raced'
      BY <1>1, <2>1, AcFacts
    <3> QED  BY <1>1, <2>1, <3>1, AcKept
  <2>5. AcTyped'
    BY <1>1, <2>1, <2>2 DEF AcInv, AcTyped
  <2> QED  BY <2>3, <2>4, <2>5 DEF AcInv, AcParts
<1>3. CASE right
  <2>1. PICK clears, d : /\ clears \in BOOLEAN
                        /\ d = [stage |-> "password", pw |-> user.pw, via |-> IF clears THEN "unlocked" ELSE "locked"]
                        /\ user' = [user EXCEPT !.fails = 0, !.locked = 0]
                        /\ userLock' = (IF clears THEN NoWorker ELSE h) /\ work' = [work EXCEPT ![h] = d]
    BY <1>3 DEF authenticate_user, HoldsUser
  <2>2. user' \in UserRow /\ user'.pw = user.pw
    <3>1. user \in UserRow /\ 0 \in 0..(account_lock_attempts - 1)
      BY AcFacts, AccountsAssumption
    <3> QED  BY <2>1, <3>1 DEF UserRow
  <2>3. d \in WorkRec /\ d.stage = "password" /\ d.pw = user.pw /\ (Locked(d) <=> ~clears)
    <3>1. user.pw \in Nat
      BY AcFacts DEF UserRow
    <3> QED  BY <2>1, <3>1 DEF WorkRec, Locked
  <2>4. work'[h] = d /\ (\A q \in Workers : q # h => work'[q] = work[q]) /\ work' \in [Workers -> WorkRec]
    BY <2>1, <2>3, AcFacts
  <2>5. LockOK'
    <3>1. \A q \in Workers : q # h => (userLock' = q <=> userLock = q)
      BY <1>1, <2>1, AcFacts
    <3>2. \A q \in Workers : userLock' = q <=> Locked(work'[q])
      <4>1. userLock' = h <=> Locked(work'[h])
        BY <2>1, <2>3, <2>4, AcFacts
      <4>2. \A q \in Workers : userLock = q <=> Locked(work[q])
        BY DEF AcInv, AcParts, LockOK
      <4> QED  BY <2>4, <3>1, <4>1, <4>2
    <3>3. \A q \in Workers : Locked(work'[q]) => work'[q].pw = user'.pw
      BY <2>2, <2>3, <2>4 DEF AcInv, AcParts, LockOK
    <3>4. \A s \in Sessions : (session'[s].live /\ session'[s].via = "locked") => session'[s].pw = user'.pw
      BY <1>1, <2>2 DEF AcInv, AcParts, LockOK
    <3> QED  BY <3>2, <3>3, <3>4 DEF LockOK, Locked
  <2>6. OwnSessionOK' /\ FactorOK' /\ SetupOK' /\ CodesOK' /\ CutOK' /\ StateOK' /\ SsoOK'
    <3>1. work[h].stage = "idle" /\ raced \subseteq raced'
      BY <1>1, EmptyRows
    <3> QED  BY <1>1, <2>3, <2>4, <3>1, AcKept
  <2>7. AcTyped'
    <3>1. userLock' \in Workers \cup {NoWorker}
      BY <2>1
    <3> QED  BY <1>1, <2>2, <2>4, <3>1 DEF AcInv, AcTyped
  <2> QED  BY <2>5, <2>6, <2>7 DEF AcInv, AcParts
<1> QED  BY <1>2, <1>3

\* A challenge is made, or a session is to be issued: the lock of the user row is kept for it.
LEMMA LookupOK ==
    ASSUME AcInv, NEW h \in Workers, LookupCredential(h)
    PROVE  AcInv'
<1>1. /\ UNCHANGED <<acct, acNow, user, session, cred, codes, accepted, minted, confirmed,
                     attempt, joined, conn, requireSso, fromState, raced>>
      /\ work[h].stage = "password"
  BY DEF LookupCredential, acFixed, factorVars, setupVars, ssoVars
<1>2. work[h].pw \in Nat /\ work[h].via \in {"locked", "unlocked"} /\ work \in [Workers -> WorkRec]
  BY <1>1, AcFacts, WorkFacts
<1>3. CASE cred.enabled
  <2>1. PICK c, r : /\ c \in MfaChallenges
                            /\ r = [used |-> FALSE, attempts |-> 0, till |-> acNow + ChallengeTime, pw |-> work[h].pw]
                            /\ mfaChallenge' = [mfaChallenge EXCEPT ![c] = r]
                            /\ work' = [work EXCEPT ![h] = WorkIdle]
                            /\ userLock' = IF userLock = h THEN NoWorker ELSE userLock
    <3>1. DOMAIN mfaChallenge = MfaChallenges
      BY AcFacts
    <3> QED  BY <1>3, <3>1 DEF LookupCredential, CallsForChallenge, Next1, Rest, Unlock
  <2>2. work' \in [Workers -> WorkRec] /\ work'[h] = WorkIdle /\ \A q \in Workers : q # h => work'[q] = work[q]
    BY <2>1, EmptyRows, AcFacts
  <2>3. LockOK'
    <3>1. ~Locked(work'[h]) /\ userLock' # h
      BY <2>1, <2>2, EmptyRows, AcFacts DEF Locked
    <3>2. \A s \in Sessions : (session'[s].live /\ session'[s].via = "locked") => session'[s].pw = user.pw
      BY <1>1 DEF AcInv, AcParts, LockOK
    <3> QED  BY <1>1, <2>1, <2>2, <3>1, <3>2, LockStep
  <2>4. OwnSessionOK' /\ FactorOK' /\ SetupOK' /\ CodesOK' /\ CutOK' /\ StateOK' /\ SsoOK'
    <3>1. work'[h].stage = "idle" /\ raced \subseteq raced'
      BY <1>1, <2>2, EmptyRows
    <3> QED  BY <1>1, <2>2, <3>1, AcKept
  <2>5. AcTyped'
    <3>1. r \in MfaChallengeRow
      <4>1. acNow + ChallengeTime \in Nat /\ 0 \in 0..mfa_max_attempts
        BY AcFacts, AccountsAssumption
      <4> QED  BY <1>2, <2>1, <4>1 DEF MfaChallengeRow
    <3>2. mfaChallenge' \in [MfaChallenges -> {NoMfaChallenge} \cup MfaChallengeRow] /\ userLock' \in Workers \cup {NoWorker}
      BY <2>1, <3>1, AcFacts
    <3> QED  BY <1>1, <2>2, <3>2 DEF AcInv, AcTyped
  <2> QED  BY <2>3, <2>4, <2>5 DEF AcInv, AcParts
<1>4. CASE ~cred.enabled
  <2>1. PICK d : /\ d = [stage |-> "issuing", pw |-> work[h].pw, via |-> work[h].via, mfa |-> FALSE, state |-> 0, seen |-> FALSE]
                 /\ work' = [work EXCEPT ![h] = d] /\ UNCHANGED <<mfaChallenge, userLock>>
    <3>1. cred.enabled \in BOOLEAN
      <4>1. CASE cred = NoCred
        BY <4>1 DEF NoCred
      <4>2. CASE cred \in CredRow
        BY <4>2 DEF CredRow
      <4> QED  BY <4>1, <4>2, AcFacts
    <3>2. cred.enabled = FALSE
      BY <1>4, <3>1
    <3> QED  BY <1>4, <3>2 DEF LookupCredential, CallsForChallenge
  <2>2. /\ d \in WorkRec /\ d.stage = "issuing" /\ d.pw = work[h].pw /\ d.via = work[h].via /\ d.state = 0
        /\ d.seen \in BOOLEAN /\ ~d.seen
    BY <1>2, <2>1 DEF WorkRec, Via
  <2>3. work' \in [Workers -> WorkRec] /\ work'[h] = d /\ \A q \in Workers : q # h => work'[q] = work[q]
    BY <2>1, <2>2, AcFacts
  <2>4. LockOK'
    <3>1. Locked(d) <=> Locked(work[h])
      BY <1>1, <2>2 DEF Locked
    <3>2. Locked(work[h]) => work[h].pw = user.pw
      BY DEF AcInv, AcParts, LockOK
    <3>3. userLock = h <=> Locked(work[h])
      BY DEF AcInv, AcParts, LockOK
    <3>4. \A s \in Sessions : (session'[s].live /\ session'[s].via = "locked") => session'[s].pw = user.pw
      BY <1>1 DEF AcInv, AcParts, LockOK
    <3> QED  BY <1>1, <2>1, <2>2, <2>3, <3>1, <3>2, <3>3, <3>4, LockStep
  <2>5. OwnSessionOK' /\ FactorOK' /\ SetupOK' /\ CodesOK' /\ SsoOK'
    BY <1>1, <2>2, <2>3, AcKept
  <2>6. CutOK'
    <3>1. ToCut' <=> ToCut
      BY <1>1, <2>2, <2>3 DEF ToCut
    <3> QED  BY <1>1, <2>2, <2>3, <3>1 DEF AcInv, AcParts, CutOK
  <2>7. StateOK'
    BY <1>1, <2>2, <2>3, AccountsAssumption DEF AcInv, AcParts, StateOK, OutOf
  <2>8. AcTyped'
    BY <1>1, <2>1, <2>3 DEF AcInv, AcTyped
  <2> QED  BY <2>4, <2>5, <2>6, <2>7, <2>8 DEF AcInv, AcParts
<1> QED  BY <1>3, <1>4

\* A session comes: with the password that holds, and late when the credential came meanwhile.
LEMMA IssueOK ==
    ASSUME AcInv, NEW h \in Workers, issue_session(h)
    PROVE  AcInv'
<1> DEFINE d == work[h]
<1>1. /\ UNCHANGED <<acct, acNow, user, cred, codes, accepted, minted, confirmed, mfaChallenge,
                     attempt, joined, conn, requireSso, raced>>
      /\ work[h].stage = "issuing" /\ work' = [work EXCEPT ![h] = WorkIdle]
      /\ userLock' = IF userLock = h THEN NoWorker ELSE userLock
      /\ fromState' = IF work[h].state = 0 THEN fromState
                      ELSE [fromState EXCEPT ![work[h].state] = fromState[work[h].state] + 1]
  BY DEF issue_session, acFixed, factorVars, setupVars, Rest, Unlock
<1>2. /\ d.pw \in Nat /\ d.via \in Via /\ d.mfa \in BOOLEAN /\ d.state \in Attempts \cup {0} /\ d.seen \in BOOLEAN
      /\ cred.enabled \in BOOLEAN
  <2>1. cred.enabled \in BOOLEAN
    <3>1. CASE cred = NoCred
      BY <3>1 DEF NoCred
    <3>2. CASE cred \in CredRow
      BY <3>2 DEF CredRow
    <3> QED  BY <3>1, <3>2, AcFacts
  <2> QED  BY <1>1, <2>1, AcFacts, WorkFacts
<1>3. PICK s, late, step, r :
         /\ s \in Sessions /\ late \in BOOLEAN /\ step \in Int
         /\ session[s] = NoSession /\ session' = [session EXCEPT ![s] = r] /\ (late <=> ~d.seen /\ cred.enabled)
         /\ r = [live |-> TRUE, pw |-> d.pw, via |-> d.via, mfa |-> d.mfa, step |-> step, late |-> late]
  <2>1. PICK s \in Next1(session, NoSession) :
           session' = [session EXCEPT ![s] =
              [live |-> TRUE, pw |-> d.pw, via |-> d.via, mfa |-> d.mfa,
               step |-> IF d.via # "oidc" \/ d.mfa THEN acNow ELSE Never, late |-> ~d.seen /\ cred.enabled]]
    BY DEF issue_session
  <2>2. s \in Sessions /\ session[s] = NoSession
    BY <2>1, AcFacts DEF Next1
  <2>3. PICK step : step = IF d.via # "oidc" \/ d.mfa THEN acNow ELSE Never
    OBVIOUS
  <2>4. step \in Int
    BY <2>3, AcFacts DEF Never
  <2>5. PICK late \in BOOLEAN : late = (~d.seen /\ cred.enabled)
    OBVIOUS
  <2> QED  BY <2>1, <2>2, <2>3, <2>4, <2>5
<1>4. /\ r \in SessionRow /\ r # NoSession /\ r.pw = d.pw /\ r.via = d.via /\ (r.mfa <=> d.mfa) /\ (r.late <=> late)
      /\ session' \in [Sessions -> {NoSession} \cup SessionRow] /\ session'[s] = r
      /\ \A x \in Sessions : x # s => session'[x] = session[x]
  <2>1. r \in SessionRow /\ r.pw = d.pw /\ r.via = d.via /\ (r.mfa <=> d.mfa) /\ (r.late <=> late)
    BY <1>2, <1>3 DEF SessionRow
  <2> QED  BY <1>3, <2>1, EmptyRows, AcFacts
<1>5. work' \in [Workers -> WorkRec] /\ work'[h] = WorkIdle /\ work'[h].stage = "idle"
      /\ \A q \in Workers : q # h => work'[q] = work[q]
  BY <1>1, EmptyRows, AcFacts
<1>6. LockOK'
  <2>1. ~Locked(work'[h]) /\ userLock' # h
    BY <1>1, <1>5, AcFacts DEF Locked
  <2>2. \A x \in Sessions : (session'[x].live /\ session'[x].via = "locked") => session'[x].pw = user.pw
    BY <1>1, <1>4 DEF AcInv, AcParts, LockOK, Locked
  <2> QED  BY <1>1, <1>5, <2>1, <2>2, LockStep
<1>7. OwnSessionOK'
  BY <1>4, <1>5, AcFacts, WorkFacts DEF AcInv, AcParts, OwnSessionOK
<1>8. FactorOK' /\ SetupOK' /\ CodesOK' /\ SsoOK'
  BY <1>1, <1>5, AcKept
<1>9. CutOK'
  <2>1. ToCut' <=> ToCut
    BY <1>1, <1>5 DEF ToCut
  <2>2. (r.via # "oidc" /\ ~r.mfa /\ cred.enabled) => r.late
    BY <1>1, <1>3, <1>4 DEF AcInv, AcParts, CutOK
  <2> QED  BY <1>1, <1>4, <1>5, <2>1, <2>2 DEF AcInv, AcParts, CutOK
<1>10. StateOK'
  <2> SUFFICES ASSUME NEW a \in Attempts
      PROVE  /\ fromState'[a] <= 1 /\ (attempt'[a] # "redeemed" => fromState'[a] = 0)
             /\ \A q \in Workers : OutOf(q, a)' =>
                  /\ attempt'[a] = IF work'[q].stage = "burnt" THEN "burnt" ELSE "redeemed"
                  /\ fromState'[a] = 0
                  /\ \A p \in Workers : OutOf(p, a)' => p = q
    BY DEF StateOK
  <2>1. \A q \in Workers : OutOf(q, a)' => q # h /\ OutOf(q, a) /\ work'[q] = work[q]
    BY <1>5 DEF OutOf
  <2>2. CASE d.state = a
    <3>1. OutOf(h, a)
      BY <1>1, <2>2 DEF OutOf
    <3>2. fromState[a] = 0 /\ attempt[a] = "redeemed" /\ \A p \in Workers : OutOf(p, a) => p = h
      BY <1>1, <3>1 DEF AcInv, AcParts, StateOK
    <3>3. fromState'[a] = 1
      BY <1>1, <2>2, <3>2, AcFacts, AccountsAssumption
    <3> QED  BY <1>1, <2>1, <3>2, <3>3
  <2>3. CASE d.state # a
    <3>1. fromState'[a] = fromState[a]
      BY <1>1, <2>3, AcFacts
    <3> QED  BY <1>1, <2>1, <3>1 DEF AcInv, AcParts, StateOK
  <2> QED  BY <2>2, <2>3
<1>11. AcTyped'
  <2>1. userLock' \in Workers \cup {NoWorker} /\ fromState' \in [Attempts -> Nat]
    BY <1>1, <1>2, AcFacts
  <2> QED  BY <1>1, <1>4, <1>5, <2>1 DEF AcInv, AcTyped
<1> QED  BY <1>6, <1>7, <1>8, <1>9, <1>10, <1>11 DEF AcInv, AcParts

\* What is not committed is gone with the process, and so is the lock.
LEMMA CrashOK ==
    ASSUME AcInv, NEW h \in Workers, CrashWork(h)
    PROVE  AcInv'
<1>1. /\ UNCHANGED <<acct, acNow, user, session, cred, codes, accepted, minted, confirmed, mfaChallenge,
                     attempt, joined, conn, requireSso, fromState>>
      /\ work' = [work EXCEPT ![h] = WorkIdle] /\ userLock' = IF userLock = h THEN NoWorker ELSE userLock
      /\ raced' = IF work[h].stage = "cutting" THEN raced \cup {"uncut"} ELSE raced
  BY DEF CrashWork, acFixed, factorVars, setupVars, ssoVars, Rest, Unlock
<1>2. /\ work' \in [Workers -> WorkRec] /\ work'[h] = WorkIdle /\ work'[h].stage = "idle"
      /\ (\A q \in Workers : q # h => work'[q] = work[q]) /\ raced \subseteq raced'
  BY <1>1, EmptyRows, AcFacts
<1>3. LockOK'
  <2>1. ~Locked(work'[h]) /\ userLock' # h
    BY <1>1, <1>2, AcFacts DEF Locked
  <2>2. \A x \in Sessions : (session'[x].live /\ session'[x].via = "locked") => session'[x].pw = user.pw
    BY <1>1 DEF AcInv, AcParts, LockOK
  <2> QED  BY <1>1, <1>2, <2>1, <2>2, LockStep
<1>4. OwnSessionOK' /\ FactorOK' /\ SetupOK' /\ CodesOK' /\ StateOK' /\ SsoOK'
  BY <1>1, <1>2, AcKept
<1>5. CutOK'
  <2>1. CASE work[h].stage = "cutting"
    BY <1>1, <1>2, <2>1 DEF AcInv, AcParts, CutOK
  <2>2. CASE work[h].stage # "cutting"
    BY <1>1, <1>2, <2>2, AcKept
  <2> QED  BY <2>1, <2>2
<1>6. AcTyped'
  <2>1. userLock' \in Workers \cup {NoWorker}
    BY <1>1, AcFacts
  <2> QED  BY <1>1, <1>2, <2>1 DEF AcInv, AcTyped
<1> QED  BY <1>3, <1>4, <1>5, <1>6 DEF AcInv, AcParts

-----------------------------------------------------------------------------
(* The second factor.                                                      *)

\* Is the credential there, then with its row.
LEMMA CredFacts ==
    ASSUME AcInv
    PROVE  /\ cred.enabled \in BOOLEAN /\ cred.secret \in Nat
           /\ cred = NoCred \/ cred \in CredRow
           /\ cred.enabled => cred \in CredRow
           /\ cred # NoCred => cred \in CredRow
<1>1. CASE cred = NoCred
  BY <1>1, EmptyRows DEF NoCred
<1>2. CASE cred \in CredRow
  BY <1>2 DEF CredRow
<1> QED  BY <1>1, <1>2, AcFacts

\* Codes that can be accepted were not accepted before.
LEMMA AcceptsFacts ==
    ASSUME AcInv, NEW code \in Entered \cup {Wrong}, cred.enabled, Accepts(code)
    PROVE  /\ code \notin DOMAIN accepted
           /\ \/ code \in TotpCode /\ code.secret = cred.secret /\ code.step > cred.last
              \/ code \in SetCode /\ code.set \in codes
<1>1. cred \in CredRow /\ cred # NoCred /\ acNow \in Nat /\ codes \subseteq Nat
  BY CredFacts, AcFacts, EmptyRows
<1>2. code \in Entered /\ Fresh(code)
  BY DEF Accepts
<1>3. CASE \E t \in (acNow - 1)..(acNow + 1) : code = Totp(t)
  <2>1. PICK t \in (acNow - 1)..(acNow + 1) : code = [secret |-> cred.secret, step |-> t]
    BY <1>3 DEF Totp
  <2>2. code \in TotpCode /\ code.secret = cred.secret /\ code.step = t
    BY <1>1, <2>1 DEF TotpCode, CredRow
  <2>3. code.step > cred.last
    BY <1>2, <2>2, CodeFacts DEF Fresh
  <2>4. code \in DOMAIN accepted => code.step <= cred.last
    BY <1>1, <2>2 DEF AcInv, AcParts, FactorOK
  <2> QED  BY <1>1, <2>2, <2>3, <2>4 DEF TotpCode, CredRow
<1>4. CASE \E g \in codes : code = [set |-> g]
  <2>1. PICK g \in codes : code = [set |-> g]
    BY <1>4
  <2>2. code \in SetCode /\ code.set = g
    BY <1>1, <2>1 DEF SetCode
  <2> QED  BY <2>1, <2>2 DEF AcInv, AcParts, FactorOK
<1> QED  BY <1>2, <1>3, <1>4 DEF Entered

\* A factor that was not accepted before is counted once, as the others are.
LEMMA CountFacts ==
    ASSUME AcInv, NEW f, f \notin DOMAIN accepted, accepted' = Count(f)
    PROVE  DOMAIN accepted' = DOMAIN accepted \cup {f} /\ \A x \in DOMAIN accepted' : accepted'[x] = 1
<1>1. \A x \in DOMAIN accepted : accepted[x] = 1
  BY DEF AcInv, AcParts, FactorOK
<1>2. DOMAIN accepted' = DOMAIN accepted \cup {f}
  BY DEF Count
<1>3. \A x \in DOMAIN accepted \cup {f} : accepted'[x] = 1
  BY <1>1 DEF Count
<1> QED  BY <1>2, <1>3

\* Counted once, and used up.
LEMMA VerifyOK ==
    ASSUME AcInv, NEW code \in Entered \cup {Wrong}, cred.enabled, _verify_factor(code), UNCHANGED minted
    PROVE  /\ FactorOK' /\ cred' \in CredRow /\ cred'.enabled /\ cred'.secret = cred.secret
           /\ codes' \subseteq codes /\ DOMAIN accepted' \subseteq TotpCode \cup SetCode
<1>1. /\ cred \in CredRow /\ cred # NoCred /\ acNow \in Nat /\ DOMAIN accepted \subseteq TotpCode \cup SetCode
      /\ acNow + LockTime \in Nat /\ 0 \in 0..(mfa_max_attempts - 1) /\ 0 \in Nat
  BY CredFacts, AcFacts, EmptyRows, AccountsAssumption
<1>2. CASE ~Accepts(code)
  <2>1. /\ cred' = IF cred.locked <= acNow THEN FailFactor(cred) ELSE cred
        /\ codes' = codes /\ accepted' = accepted
    BY <1>2 DEF _verify_factor
  <2>2. /\ FailFactor(cred) \in CredRow /\ FailFactor(cred).enabled /\ FailFactor(cred).secret = cred.secret
        /\ FailFactor(cred).last = cred.last
    <3>1. CASE cred.fails + 1 >= mfa_max_attempts
      <4>1. FailFactor(cred) = [cred EXCEPT !.fails = 0, !.locked = acNow + LockTime]
        BY <3>1 DEF FailFactor
      <4> QED  BY <1>1, <4>1 DEF CredRow
    <3>2. CASE ~(cred.fails + 1 >= mfa_max_attempts)
      <4>1. FailFactor(cred) = [cred EXCEPT !.fails = cred.fails + 1]
        BY <3>2 DEF FailFactor
      <4>2. cred.fails + 1 \in 0..(mfa_max_attempts - 1)
        BY <1>1, <3>2, AccountsAssumption DEF CredRow
      <4> QED  BY <1>1, <4>1, <4>2 DEF CredRow
    <3> QED  BY <3>1, <3>2
  <2>3. cred' \in CredRow /\ cred'.enabled /\ cred'.secret = cred.secret /\ cred'.last = cred.last
    BY <1>1, <2>1, <2>2
  <2>4. FactorOK'
    BY <1>1, <2>1, <2>3 DEF AcInv, AcParts, FactorOK
  <2> QED  BY <1>1, <2>1, <2>3, <2>4
<1>3. CASE Accepts(code)
  <2>1. /\ code \notin DOMAIN accepted
        /\ \/ code \in TotpCode /\ code.secret = cred.secret /\ code.step > cred.last
           \/ code \in SetCode /\ code.set \in codes
    BY <1>3, AcceptsFacts
  <2>2. accepted' = Count(code)
    BY <1>3 DEF _verify_factor
  <2>3. /\ DOMAIN accepted' = DOMAIN accepted \cup {code}
        /\ \A f \in DOMAIN accepted' : accepted'[f] = 1
    BY <2>1, <2>2, CountFacts
  <2>4. CASE code \in TotpCode
    <3>1. "step" \in DOMAIN code /\ "set" \notin DOMAIN code /\ code \notin SetCode /\ code.step \in Int
      BY <2>4, CodeFacts DEF TotpCode
    <3>2. cred' = [cred EXCEPT !.fails = 0, !.locked = 0, !.last = code.step] /\ codes' = codes
      BY <1>3, <3>1 DEF _verify_factor
    <3>3. cred' \in CredRow /\ cred'.enabled /\ cred'.secret = cred.secret /\ cred'.last = code.step
      BY <1>1, <3>1, <3>2 DEF CredRow
    <3>4. code.secret = cred.secret /\ code.step > cred.last /\ cred.secret <= minted.secrets
      BY <1>1, <2>1, <3>1 DEF AcInv, AcParts, FactorOK
    <3>5. \A f \in DOMAIN accepted' \cap TotpCode :
             /\ f.secret <= minted.secrets /\ (f.secret = cred.secret => f.step <= code.step)
      <4> SUFFICES ASSUME NEW f \in DOMAIN accepted' \cap TotpCode
                   PROVE  f.secret <= minted.secrets /\ (f.secret = cred.secret => f.step <= code.step)
        OBVIOUS
      <4>1. CASE f = code
        BY <3>1, <3>4, <4>1
      <4>2. CASE f \in DOMAIN accepted
        <5>1. f.secret <= minted.secrets /\ (f.secret = cred.secret => f.step <= cred.last)
          BY <1>1, <4>2 DEF AcInv, AcParts, FactorOK
        <5>2. f.step \in Int /\ cred.last \in Int
          BY <1>1 DEF TotpCode, CredRow
        <5> QED  BY <3>1, <3>4, <5>1, <5>2
      <4> QED  BY <2>3, <4>1, <4>2
    <3>6. \A f \in DOMAIN accepted' \cap SetCode : f.set <= minted.sets /\ f.set \notin codes
      BY <2>3, <3>1 DEF AcInv, AcParts, FactorOK
    <3>7. FactorOK'
      BY <2>3, <3>2, <3>3, <3>4, <3>5, <3>6 DEF FactorOK
    <3> QED  BY <1>1, <2>3, <2>4, <3>2, <3>3, <3>7
  <2>5. CASE code \in SetCode
    <3>1. "set" \in DOMAIN code /\ "step" \notin DOMAIN code /\ code \notin TotpCode
      BY <2>5, CodeFacts
    <3>2. cred' = [cred EXCEPT !.fails = 0, !.locked = 0, !.last = cred.last] /\ codes' = codes \ {code.set}
      BY <1>3, <3>1 DEF _verify_factor
    <3>3. cred' \in CredRow /\ cred'.enabled /\ cred'.secret = cred.secret /\ cred'.last = cred.last
      BY <1>1, <3>2 DEF CredRow
    <3>4. code.set \in codes /\ code.set <= minted.sets
      <4>1. code.set \in codes
        BY <2>1, <3>1
      <4> QED  BY <4>1, AcFacts
    <3>5. \A f \in DOMAIN accepted' \cap TotpCode :
             /\ f.secret <= minted.secrets /\ (f.secret = cred.secret => f.step <= cred.last)
      BY <1>1, <2>3, <3>1 DEF AcInv, AcParts, FactorOK
    <3>6. \A f \in DOMAIN accepted' \cap SetCode : f.set <= minted.sets /\ f.set \notin codes'
      BY <2>3, <3>2, <3>4 DEF AcInv, AcParts, FactorOK
    <3>7. cred.secret <= minted.secrets
      BY <1>1 DEF AcInv, AcParts, FactorOK
    <3>8. FactorOK'
      BY <2>3, <3>3, <3>5, <3>6, <3>7 DEF FactorOK
    <3> QED  BY <1>1, <2>3, <2>5, <3>2, <3>3, <3>8
  <2> QED  BY <2>1, <2>4, <2>5
<1> QED  BY <1>2, <1>3

\* What a factor that is entered leaves of the rest, whether it is right or wrong.
LEMMA VerifyKeeps ==
    ASSUME AcInv, NEW h \in Workers, NEW code \in Entered \cup {Wrong}, cred.enabled, _verify_factor(code),
           UNCHANGED <<minted, confirmed, raced>>, \A q \in Workers : q # h => work'[q] = work[q],
           work'[h].stage \notin {"setup", "renewing"}
    PROVE  SetupOK' /\ CodesOK'
<1>1. cred'.secret = cred.secret /\ codes' \subseteq codes
  BY VerifyOK
<1>2. SetupOK'
  BY <1>1 DEF AcInv, AcParts, SetupOK
<1>3. CodesOK'
  BY <1>1 DEF AcInv, AcParts, CodesOK
<1> QED  BY <1>2, <1>3

LEMMA VerifyChallengeOK ==
    ASSUME AcInv, NEW h \in Workers, NEW c \in MfaChallenges, NEW code \in Entered \cup {Wrong},
           verify_challenge(h, c, code)
    PROVE  AcInv'
<1>1. /\ UNCHANGED <<acct, acNow, user, userLock, session, minted, confirmed, attempt, joined, conn, requireSso,
                     fromState, raced>>
      /\ work[h] = WorkIdle /\ cred.enabled /\ _verify_factor(code)
      /\ ~mfaChallenge[c].used /\ mfaChallenge[c].attempts < mfa_max_attempts
  BY DEF verify_challenge, Waiting, acFixed, setupVars, ssoVars
<1>2. /\ FactorOK' /\ cred' \in CredRow /\ cred'.enabled /\ cred'.secret = cred.secret
      /\ codes' \subseteq codes /\ DOMAIN accepted' \subseteq TotpCode \cup SetCode
  BY <1>1, VerifyOK
<1>3. mfaChallenge[c] \in MfaChallengeRow /\ mfaChallenge[c].pw \in Nat
  <2>1. mfaChallenge[c] \in MfaChallengeRow
    BY <1>1, AcFacts, EmptyRows
  <2> QED  BY <2>1 DEF MfaChallengeRow
<1>4. PICK d : d = [stage |-> "issuing", pw |-> mfaChallenge[c].pw, via |-> "challenge", mfa |-> TRUE, state |-> 0, seen |-> TRUE]
  OBVIOUS
<1>5. d \in WorkRec /\ d.stage = "issuing" /\ d.via = "challenge" /\ d.mfa /\ d.state = 0
  BY <1>3, <1>4 DEF WorkRec, Via
<1>6. work' = work \/ work' = [work EXCEPT ![h] = d]
  BY <1>4 DEF verify_challenge
<1>7. /\ work' \in [Workers -> WorkRec] /\ (\A q \in Workers : q # h => work'[q] = work[q])
      /\ work'[h] = work[h] \/ work'[h] = d
      /\ work[h].stage = "idle" /\ work'[h].stage \in {"idle", "issuing"} /\ ~Locked(work'[h])
  BY <1>1, <1>5, <1>6, AcFacts, EmptyRows DEF Locked
<1>8. LockOK'
  <2>1. \A q \in Workers : Locked(work'[q]) <=> Locked(work[q])
    BY <1>7 DEF Locked
  <2>2. \A q \in Workers : Locked(work'[q]) => work'[q] = work[q]
    BY <1>7 DEF Locked
  <2> QED  BY <1>1, <2>1, <2>2 DEF AcInv, AcParts, LockOK
<1>9. OwnSessionOK' /\ SsoOK' /\ SetupOK' /\ CodesOK'
  <2>1. raced \subseteq raced' /\ work'[h].stage \notin {"setup", "renewing"}
    BY <1>1, <1>7
  <2>2. SetupOK' /\ CodesOK'
    BY <1>1, <1>7, <2>1, VerifyKeeps
  <2> QED  BY <1>1, <1>7, <2>1, <2>2, AcKept
<1>10. CutOK'
  <2>1. ToCut' <=> ToCut
    BY <1>7 DEF ToCut
  <2>2. (work'[h].stage = "issuing") => work'[h].mfa
    BY <1>5, <1>7
  <2> QED  BY <1>1, <1>2, <1>7, <2>1, <2>2 DEF AcInv, AcParts, CutOK
<1>11. StateOK'
  <2>1. \A q \in Workers, a \in Attempts : OutOf(q, a)' => OutOf(q, a) /\ work'[q] = work[q]
    BY <1>5, <1>7, AccountsAssumption DEF OutOf
  <2> QED  BY <1>1, <2>1 DEF AcInv, AcParts, StateOK
<1>12. AcTyped'
  <2> DEFINE once == [mfaChallenge EXCEPT ![c].attempts = mfaChallenge[c].attempts + 1]
  <2>1. PICK u \in BOOLEAN : mfaChallenge' = [once EXCEPT ![c].used = u]
    <3>1. PICK u \in BOOLEAN : u = Accepts(code)
      BY DEF Accepts
    <3>2. mfaChallenge' = [once EXCEPT ![c].used = Accepts(code)]
      BY DEF verify_challenge
    <3> QED  BY <3>1, <3>2
  <2>2. [mfaChallenge[c] EXCEPT !.attempts = mfaChallenge[c].attempts + 1, !.used = u] \in MfaChallengeRow
    <3>1. mfaChallenge[c].attempts + 1 \in 0..mfa_max_attempts
      BY <1>1, <1>3, AccountsAssumption DEF MfaChallengeRow
    <3> QED  BY <1>3, <3>1 DEF MfaChallengeRow
  <2>3. mfaChallenge' \in [MfaChallenges -> {NoMfaChallenge} \cup MfaChallengeRow]
    <3>1. once[c] = [mfaChallenge[c] EXCEPT !.attempts = mfaChallenge[c].attempts + 1] /\ DOMAIN once = MfaChallenges
          /\ \A x \in MfaChallenges : x # c => once[x] = mfaChallenge[x]
      BY AcFacts
    <3>2. [once[c] EXCEPT !.used = u] \in MfaChallengeRow
      BY <2>2, <3>1
    <3>3. mfaChallenge' = [x \in MfaChallenges |-> IF x = c THEN [once[c] EXCEPT !.used = u] ELSE mfaChallenge[x]]
      BY <2>1, <3>1
    <3> QED  BY <3>2, <3>3, AcFacts
  <2>4. codes' \subseteq 1..minted'.sets
    BY <1>1, <1>2, AcFacts
  <2> QED  BY <1>1, <1>2, <1>7, <2>3, <2>4 DEF AcInv, AcTyped
<1> QED  BY <1>2, <1>8, <1>9, <1>10, <1>11, <1>12 DEF AcInv, AcParts

LEMMA RequireFactorOK ==
    ASSUME AcInv, NEW h \in Workers, NEW code \in Entered \cup {Wrong}, require_factor(h, code)
    PROVE  AcInv'
<1>1. /\ UNCHANGED <<acct, acNow, user, userLock, session, minted, confirmed, mfaChallenge, attempt, joined, conn,
                     requireSso, fromState, raced>>
      /\ work[h].stage = "asked" /\ (IF cred.enabled THEN _verify_factor(code) ELSE UNCHANGED <<cred, codes, accepted>>)
      /\ work' = [work EXCEPT ![h] = WorkIdle] \/ work' = [work EXCEPT ![h] = [work[h] EXCEPT !.stage = "proven"]]
  BY DEF require_factor, acFixed, factorVars, setupVars, ssoVars, Rest
<1>2. PICK d : /\ work' = [work EXCEPT ![h] = d] /\ d \in WorkRec /\ d.stage \in {"idle", "proven"}
               /\ d.stage = "proven" => d.session = work[h].session
  <2>1. work[h] = [stage |-> "asked", op |-> work[h].op, session |-> work[h].session]
        /\ work[h].op \in {"change", "step_up", "codes", "disable"} /\ work[h].session \in Sessions
    BY <1>1, AcFacts, WorkFacts
  <2>2. PICK e : e = [stage |-> "proven", op |-> work[h].op, session |-> work[h].session]
    OBVIOUS
  <2>3. [work[h] EXCEPT !.stage = "proven"] = e
    BY <2>1, <2>2
  <2>4. e \in WorkRec /\ e.stage = "proven" /\ e.session = work[h].session
    BY <2>1, <2>2 DEF WorkRec
  <2> QED  BY <1>1, <2>3, <2>4, EmptyRows
<1>3. /\ work' \in [Workers -> WorkRec] /\ work'[h] = d /\ (\A q \in Workers : q # h => work'[q] = work[q])
      /\ raced \subseteq raced'
  BY <1>1, <1>2, AcFacts
<1>4. LockOK' /\ StateOK' /\ SsoOK'
  BY <1>1, <1>2, <1>3, AcKept
<1>5. OwnSessionOK'
  BY <1>1, <1>2, <1>3 DEF AcInv, AcParts, OwnSessionOK
<1>6. /\ FactorOK' /\ SetupOK' /\ CodesOK' /\ cred'.enabled = cred.enabled /\ cred' \in {NoCred} \cup CredRow
      /\ codes' \subseteq codes /\ DOMAIN accepted' \subseteq TotpCode \cup SetCode
  <2>1. CASE cred.enabled
    <3>1. /\ FactorOK' /\ cred' \in CredRow /\ cred'.enabled
          /\ codes' \subseteq codes /\ DOMAIN accepted' \subseteq TotpCode \cup SetCode
      BY <1>1, <2>1, VerifyOK
    <3>2. SetupOK' /\ CodesOK'
      <4>1. work'[h].stage \notin {"setup", "renewing"}
        BY <1>2, <1>3
      <4> QED  BY <1>1, <1>3, <2>1, <4>1, VerifyKeeps
    <3>3. cred'.enabled \in BOOLEAN /\ cred.enabled \in BOOLEAN
      BY <3>1, CredFacts DEF CredRow
    <3> QED  BY <2>1, <3>1, <3>2, <3>3
  <2>2. CASE ~cred.enabled
    BY <1>1, <1>2, <1>3, <2>2, AcKept, AcFacts
  <2> QED  BY <2>1, <2>2
<1>7. CutOK'
  <2>1. ToCut' <=> ToCut
    BY <1>1, <1>2, <1>3 DEF ToCut
  <2> QED  BY <1>1, <1>2, <1>3, <1>6, <2>1 DEF AcInv, AcParts, CutOK
<1>8. AcTyped'
  <2>1. codes' \subseteq 1..minted'.sets
    BY <1>1, <1>6, AcFacts
  <2> QED  BY <1>1, <1>3, <1>6, <2>1 DEF AcInv, AcTyped
<1> QED  BY <1>4, <1>5, <1>6, <1>7, <1>8 DEF AcInv, AcParts

\* A secret that is new was not accepted, and one that a setup writes is not enabled unless
\* another setup was confirmed since it looked.
LEMMA StartSetupOK ==
    ASSUME AcInv, NEW h \in Workers, start_setup(h)
    PROVE  AcInv'
<1>1. /\ UNCHANGED <<acct, acNow, user, userLock, session, codes, accepted, confirmed, mfaChallenge, attempt, joined,
                     conn, requireSso, fromState, raced>>
      /\ work[h].stage = "setup" /\ work' = [work EXCEPT ![h] = WorkIdle]
  BY DEF start_setup, acFixed, ssoVars, Rest
<1>2. PICK fits \in BOOLEAN, secret \in Nat :
         /\ secret = minted.secrets + 1
         /\ cred' = IF ~fits THEN cred
                    ELSE IF cred = NoCred THEN [Enabled(secret) EXCEPT !.enabled = FALSE, !.pending = TRUE]
                    ELSE [cred EXCEPT !.secret = secret, !.pending = TRUE]
         /\ minted' = IF fits THEN [minted EXCEPT !.secrets = secret] ELSE minted
  <2>1. PICK fits \in BOOLEAN : fits = (work[h].new <=> cred = NoCred)
    OBVIOUS
  <2>2. minted.secrets + 1 \in Nat
    BY AcFacts
  <2> QED  BY <2>1, <2>2 DEF start_setup
<1>3. /\ work' \in [Workers -> WorkRec] /\ work'[h] = WorkIdle /\ work'[h].stage = "idle"
      /\ (\A q \in Workers : q # h => work'[q] = work[q]) /\ raced \subseteq raced'
  BY <1>1, EmptyRows, AcFacts
<1>4. LockOK' /\ OwnSessionOK' /\ CodesOK' /\ StateOK' /\ SsoOK'
  BY <1>1, <1>3, AcKept
<1>5. CASE ~fits
  <2>1. UNCHANGED <<cred, minted>>
    BY <1>2, <1>5
  <2>2. FactorOK' /\ SetupOK' /\ CutOK'
    BY <1>1, <1>3, <2>1, AcKept
  <2>3. AcTyped'
    BY <1>1, <1>3, <2>1 DEF AcInv, AcTyped
  <2> QED  BY <1>4, <2>2, <2>3 DEF AcInv, AcParts
<1>6. CASE fits
  <2>1. /\ cred' \in CredRow /\ cred'.secret = secret /\ (cred'.enabled <=> cred.enabled)
        /\ minted' \in [secrets : Nat, sets : Nat] /\ minted'.secrets = minted.secrets + 1 /\ minted'.sets = minted.sets
    <3>1. minted' \in [secrets : Nat, sets : Nat] /\ minted'.secrets = minted.secrets + 1 /\ minted'.sets = minted.sets
      BY <1>2, <1>6, AcFacts
    <3>2. CASE cred = NoCred
      <4>1. cred' = [enabled |-> FALSE, secret |-> secret, pending |-> TRUE, last |-> Never, fails |-> 0, locked |-> 0]
        BY <1>2, <1>6, <3>2 DEF Enabled
      <4>2. 0 \in 0..(mfa_max_attempts - 1) /\ Never \in Int
        BY AccountsAssumption DEF Never
      <4> QED  BY <3>1, <3>2, <4>1, <4>2, EmptyRows DEF CredRow
    <3>3. CASE cred # NoCred
      <4>1. cred' = [cred EXCEPT !.secret = secret, !.pending = TRUE]
        BY <1>2, <1>6, <3>3
      <4> QED  BY <3>1, <3>3, <4>1, CredFacts DEF CredRow
    <3> QED  BY <3>2, <3>3
  <2>2. FactorOK'
    <3>1. \A f \in DOMAIN accepted \cap TotpCode : f.secret <= minted'.secrets /\ f.secret # cred'.secret
      <4> SUFFICES ASSUME NEW f \in DOMAIN accepted \cap TotpCode
                   PROVE  f.secret <= minted'.secrets /\ f.secret # cred'.secret
        OBVIOUS
      <4>1. f.secret <= minted.secrets /\ f.secret \in Nat /\ minted.secrets \in Nat
        BY AcFacts DEF AcInv, AcParts, FactorOK, TotpCode
      <4> QED  BY <1>2, <2>1, <4>1
    <3>2. cred'.secret <= minted'.secrets
      BY <1>2, <2>1
    <3> QED  BY <1>1, <2>1, <3>1, <3>2 DEF AcInv, AcParts, FactorOK
  <2>3. SetupOK'
    BY <1>1, <2>1 DEF AcInv, AcParts, SetupOK
  <2>4. CutOK'
    <3>1. ToCut' <=> ToCut
      BY <1>1, <1>3 DEF ToCut
    <3> QED  BY <1>1, <1>3, <2>1, <3>1 DEF AcInv, AcParts, CutOK
  <2>5. AcTyped'
    BY <1>1, <1>3, <2>1 DEF AcInv, AcTyped
  <2> QED  BY <1>4, <2>2, <2>3, <2>4, <2>5 DEF AcInv, AcParts
<1> QED  BY <1>5, <1>6

\* Whoever has a setup or a renewal in hand when the factor is confirmed is recorded in raced.
LEMMA ConfirmSetupOK ==
    ASSUME AcInv, NEW h \in Workers, NEW s \in Sessions, NEW step, confirm_setup(h, s, step)
    PROVE  AcInv'
<1>1. /\ UNCHANGED <<acct, acNow, user, userLock, session, mfaChallenge, attempt, joined, conn, requireSso, fromState>>
      /\ work[h] = WorkIdle /\ session[s].live /\ cred # NoCred /\ ~cred.enabled /\ step \in (acNow - 1)..(acNow + 1)
      /\ cred' = [cred EXCEPT !.enabled = TRUE, !.pending = FALSE, !.last = step, !.fails = 0, !.locked = 0]
      /\ codes' = (codes \ codes) \cup {minted.sets + 1}
      /\ minted' = [minted EXCEPT !.sets = minted.sets + 1]
      /\ accepted' = Count([secret |-> cred.secret, step |-> step]) /\ confirmed' = cred.secret
      /\ raced' = raced \cup (IF Busy("setup") THEN {"setup"} ELSE {}) \cup (IF Busy("renewing") THEN {"codes"} ELSE {})
  BY DEF confirm_setup, Waiting, NewSet, Totp, acFixed, ssoVars
<1>2. PICK d : d = [stage |-> "cutting", session |-> s, mfa |-> TRUE] /\ work' = [work EXCEPT ![h] = d]
  BY DEF confirm_setup
<1>3. d \in WorkRec /\ d.stage = "cutting" /\ d.session = s /\ d.mfa
  BY <1>2 DEF WorkRec
<1>4. /\ work' \in [Workers -> WorkRec] /\ work'[h] = d /\ (\A q \in Workers : q # h => work'[q] = work[q])
      /\ raced \subseteq raced' /\ work[h].stage = "idle"
  BY <1>1, <1>2, <1>3, AcFacts, EmptyRows
<1>5. LockOK' /\ StateOK' /\ SsoOK'
  BY <1>1, <1>3, <1>4, AcKept
<1>6. OwnSessionOK'
  BY <1>1, <1>3, <1>4, EmptyRows DEF AcInv, AcParts, OwnSessionOK
<1>7. /\ cred \in CredRow /\ cred' \in CredRow /\ cred'.enabled /\ cred'.secret = cred.secret /\ cred'.last = step
      /\ step \in Int /\ cred.secret \in Nat
  <2>1. cred \in CredRow /\ step \in Int /\ 0 \in 0..(mfa_max_attempts - 1) /\ cred.secret \in Nat
    BY <1>1, CredFacts, AcFacts, AccountsAssumption
  <2> QED  BY <1>1, <2>1 DEF CredRow
<1>8. /\ minted' \in [secrets : Nat, sets : Nat] /\ minted'.secrets = minted.secrets /\ minted'.sets = minted.sets + 1
      /\ codes' = {minted'.sets} /\ minted.sets \in Nat
  BY <1>1, AcFacts
<1>9. PICK code : code = [secret |-> cred.secret, step |-> step]
  OBVIOUS
<1>10. code \in TotpCode /\ code.secret = cred.secret /\ code.step = step /\ code \notin SetCode /\ code \notin DOMAIN accepted
  <2>1. code \in TotpCode /\ code.secret = cred.secret /\ code.step = step
    BY <1>7, <1>9 DEF TotpCode
  <2> QED  BY <1>1, <2>1, CodeFacts DEF AcInv, AcParts, FactorOK
<1>11. DOMAIN accepted' = DOMAIN accepted \cup {code} /\ \A f \in DOMAIN accepted' : accepted'[f] = 1
  BY <1>1, <1>9, <1>10, CountFacts
<1>12. FactorOK'
  <2>1. \A f \in DOMAIN accepted' \cap TotpCode :
          /\ f.secret <= minted'.secrets /\ (f.secret = cred'.secret => f.step <= cred'.last)
    <3> SUFFICES ASSUME NEW f \in DOMAIN accepted' \cap TotpCode
                 PROVE  f.secret <= minted'.secrets /\ (f.secret = cred'.secret => f.step <= cred'.last)
      OBVIOUS
    <3>1. CASE f = code
      BY <1>1, <1>7, <1>8, <1>10, <3>1 DEF AcInv, AcParts, FactorOK
    <3>2. CASE f \in DOMAIN accepted
      BY <1>1, <1>7, <1>8, <3>2 DEF AcInv, AcParts, FactorOK
    <3> QED  BY <1>11, <3>1, <3>2
  <2>2. \A f \in DOMAIN accepted' \cap SetCode : f.set <= minted'.sets /\ f.set \notin codes'
    <3> SUFFICES ASSUME NEW f \in DOMAIN accepted' \cap SetCode
                 PROVE  f.set <= minted'.sets /\ f.set \notin codes'
      OBVIOUS
    <3>1. f \in DOMAIN accepted /\ f.set \in Nat
      BY <1>10, <1>11 DEF SetCode
    <3>2. f.set <= minted.sets
      BY <3>1 DEF AcInv, AcParts, FactorOK
    <3> QED  BY <1>8, <3>1, <3>2
  <2>3. cred'.secret <= minted'.secrets
    BY <1>1, <1>7, <1>8 DEF AcInv, AcParts, FactorOK
  <2> QED  BY <1>7, <1>11, <2>1, <2>2, <2>3 DEF FactorOK
<1>13. SetupOK'
  <2>1. "setup" \notin raced' => \A q \in Workers : work'[q].stage # "setup"
    BY <1>1, <1>3, <1>4 DEF Busy
  <2> QED  BY <1>1, <1>7, <2>1 DEF SetupOK
<1>14. CodesOK'
  <2>1. "codes" \notin raced' => \A q \in Workers : work'[q].stage # "renewing"
    BY <1>1, <1>3, <1>4 DEF Busy
  <2> QED  BY <1>8, <2>1 DEF CodesOK
<1>15. CutOK'
  <2>1. ToCut'
    BY <1>3, <1>4 DEF ToCut
  <2> QED  BY <1>3, <1>4, <2>1 DEF AcInv, AcParts, CutOK
<1>16. AcTyped'
  <2>1. codes' \subseteq 1..minted'.sets /\ confirmed' \in Nat /\ DOMAIN accepted' \subseteq TotpCode \cup SetCode
    BY <1>1, <1>7, <1>8, <1>10, <1>11, AcFacts
  <2> QED  BY <1>1, <1>4, <1>7, <1>8, <2>1 DEF AcInv, AcTyped
<1> QED  BY <1>5, <1>6, <1>12, <1>13, <1>14, <1>15, <1>16 DEF AcInv, AcParts

-----------------------------------------------------------------------------
(* What a secured account does to its sessions.                            *)

LEMMA CutSessionsOK ==
    ASSUME AcInv, NEW h \in Workers, CutSessions(h)
    PROVE  AcInv'
<1>1. PICK s \in Sessions, mfa \in BOOLEAN : work[h].stage = "cutting" /\ s = work[h].session /\ (mfa <=> work[h].mfa)
                                             /\ mfa = work[h].mfa
  BY AcFacts, WorkFacts DEF CutSessions
<1>2. /\ UNCHANGED <<acct, acNow, user, userLock, cred, codes, accepted, minted, confirmed, mfaChallenge, attempt,
                     joined, conn, requireSso, fromState>>
      /\ session' = [x \in Sessions |->
            IF x \in Cut(s) THEN [session[x] EXCEPT !.live = FALSE]
            ELSE IF x = s /\ session[x].live
            THEN [session[x] EXCEPT !.mfa = mfa, !.step = IF mfa THEN acNow ELSE session[x].step] ELSE session[x]]
      /\ raced' = (IF ~mfa /\ cred.enabled THEN raced \cup {"uncut"} ELSE raced)
      /\ work' = [work EXCEPT ![h] = WorkIdle]
  BY <1>1 DEF CutSessions, acFixed, factorVars, setupVars, ssoVars, Rest
<1>3. /\ work' \in [Workers -> WorkRec] /\ work'[h] = WorkIdle /\ work'[h].stage = "idle"
      /\ (\A q \in Workers : q # h => work'[q] = work[q]) /\ raced \subseteq raced'
  BY <1>2, EmptyRows, AcFacts
<1>4. \A x \in Sessions :
        /\ session'[x] \in {NoSession} \cup SessionRow
        /\ session[x] # NoSession => session'[x] # NoSession
        /\ session'[x].live => /\ x = s /\ session[x].live /\ session'[x].pw = session[x].pw
                               /\ session'[x].via = session[x].via /\ (session'[x].mfa <=> mfa)
  <2> SUFFICES ASSUME NEW x \in Sessions
      PROVE  /\ session'[x] \in {NoSession} \cup SessionRow
             /\ session[x] # NoSession => session'[x] # NoSession
             /\ session'[x].live => /\ x = s /\ session[x].live /\ session'[x].pw = session[x].pw
                                    /\ session'[x].via = session[x].via /\ (session'[x].mfa <=> mfa)
    OBVIOUS
  <2>1. CASE ~session[x].live
    <3>1. session'[x] = session[x]
      BY <1>2, <2>1 DEF Cut
    <3> QED  BY <2>1, <3>1, AcFacts
  <2>2. CASE session[x].live /\ x # s
    <3>1. session[x] \in SessionRow /\ session'[x] = [session[x] EXCEPT !.live = FALSE]
      BY <1>2, <2>2, AcFacts, EmptyRows DEF Cut
    <3> QED  BY <3>1, EndedFacts
  <2>3. CASE session[x].live /\ x = s
    <3>1. PICK step : step = IF mfa THEN acNow ELSE session[x].step
      OBVIOUS
    <3>2. step \in Int
      <4>1. session[x] \in SessionRow
        BY <2>3, AcFacts, EmptyRows
      <4> QED  BY <3>1, <4>1, AcFacts DEF SessionRow
    <3>3. session'[x] = [session[x] EXCEPT !.mfa = mfa, !.step = step]
      BY <1>2, <2>3, <3>1 DEF Cut
    <3>4. session[x] \in SessionRow
      BY <2>3, AcFacts, EmptyRows
    <3>5. session'[x] \in SessionRow /\ session'[x].pw = session[x].pw /\ session'[x].via = session[x].via
      BY <3>2, <3>3, <3>4 DEF SessionRow
    <3>6. session'[x].mfa <=> mfa
      BY <3>3, <3>4 DEF SessionRow
    <3> QED  BY <2>3, <3>5, <3>6, EmptyRows
  <2> QED  BY <2>1, <2>2, <2>3
<1>5. LockOK'
  <2>1. \A q \in Workers : Locked(work'[q]) <=> Locked(work[q])
    BY <1>1, <1>3 DEF Locked
  <2>2. \A q \in Workers : Locked(work'[q]) => work'[q] = work[q]
    BY <1>3 DEF Locked
  <2>3. \A x \in Sessions : (session'[x].live /\ session'[x].via = "locked") => session'[x].pw = user'.pw
    <3>1. user' = user
      BY <1>2
    <3>2. \A x \in Sessions : (session[x].live /\ session[x].via = "locked") => session[x].pw = user.pw
      BY DEF AcInv, AcParts, LockOK
    <3> QED  BY <1>4, <3>1, <3>2
  <2>4. \A q \in Workers : userLock' = q <=> Locked(work'[q])
    BY <1>2, <2>1 DEF AcInv, AcParts, LockOK
  <2>5. \A q \in Workers : Locked(work'[q]) => work'[q].pw = user'.pw
    BY <1>2, <2>1, <2>2 DEF AcInv, AcParts, LockOK
  <2> QED  BY <2>3, <2>4, <2>5 DEF LockOK, Locked
<1>6. OwnSessionOK'
  BY <1>3, <1>4, AcFacts, WorkFacts DEF AcInv, AcParts, OwnSessionOK
<1>7. FactorOK' /\ SetupOK' /\ CodesOK' /\ StateOK' /\ SsoOK'
  BY <1>2, <1>3, AcKept
<1>8. CutOK'
  <2>1. (cred'.enabled /\ "uncut" \notin raced') => mfa
    BY <1>2
  <2> QED  BY <1>3, <1>4, <2>1 DEF AcInv, AcParts, CutOK
<1>9. AcTyped'
  <2>1. session' \in [Sessions -> {NoSession} \cup SessionRow]
    BY <1>2, <1>4
  <2> QED  BY <1>2, <1>3, <2>1 DEF AcInv, AcTyped
<1> QED  BY <1>5, <1>6, <1>7, <1>8, <1>9 DEF AcInv, AcParts

\* Nobody holds the user row, so no sign-in is under way with the password that goes.
LEMMA ChangePasswordOK ==
    ASSUME AcInv, NEW h \in Workers, change_password(h)
    PROVE  AcInv'
<1>1. PICK s \in Sessions : s = work[h].session /\ work[h].stage = "proven"
  BY AcFacts, WorkFacts DEF change_password, Proven
<1>2. /\ UNCHANGED <<acct, acNow, userLock, cred, codes, accepted, minted, confirmed, mfaChallenge, attempt,
                     joined, conn, requireSso, fromState, raced>>
      /\ userLock = NoWorker /\ user.pw < acct.passwords
      /\ user' = [pw |-> user.pw + 1, fails |-> 0, locked |-> 0]
      /\ session' = [x \in Sessions |->
            IF x \in Cut(s) THEN [session[x] EXCEPT !.live = FALSE]
            ELSE IF x = s /\ session[x].live THEN [session[x] EXCEPT !.step = acNow, !.pw = user.pw + 1]
            ELSE session[x]]
      /\ work' = [work EXCEPT ![h] = WorkIdle]
  BY <1>1 DEF change_password, acFixed, factorVars, setupVars, ssoVars, Rest
<1>3. /\ work' \in [Workers -> WorkRec] /\ work'[h] = WorkIdle /\ work'[h].stage = "idle"
      /\ (\A q \in Workers : q # h => work'[q] = work[q]) /\ raced \subseteq raced'
  BY <1>2, EmptyRows, AcFacts
<1>4. user' \in UserRow /\ user'.pw = user.pw + 1 /\ user.pw + 1 <= acct.passwords /\ user.pw + 1 \in Nat
  <2>1. user.pw \in Nat /\ acct.passwords \in Nat /\ 0 \in 0..(account_lock_attempts - 1)
    BY AcFacts, AccountsAssumption DEF UserRow
  <2>2. user.pw + 1 \in Nat /\ user.pw + 1 <= acct.passwords
    <3>1. user.pw < acct.passwords
      BY <1>2
    <3> QED  BY <2>1, <3>1
  <2>3. user' \in UserRow
    BY <1>2, <2>1, <2>2 DEF UserRow
  <2> QED  BY <1>2, <2>2, <2>3
<1>5. \A x \in Sessions :
        /\ session'[x] \in {NoSession} \cup SessionRow
        /\ session[x] # NoSession => session'[x] # NoSession
        /\ session'[x].live => /\ session[x].live /\ session'[x].pw = user'.pw /\ session'[x].via = session[x].via
                               /\ (session'[x].mfa <=> session[x].mfa) /\ (session'[x].late <=> session[x].late)
  <2> SUFFICES ASSUME NEW x \in Sessions
      PROVE  /\ session'[x] \in {NoSession} \cup SessionRow
             /\ session[x] # NoSession => session'[x] # NoSession
             /\ session'[x].live =>
                  /\ session[x].live /\ session'[x].pw = user'.pw /\ session'[x].via = session[x].via
                  /\ (session'[x].mfa <=> session[x].mfa) /\ (session'[x].late <=> session[x].late)
    OBVIOUS
  <2>1. CASE ~session[x].live
    <3>1. session'[x] = session[x]
      BY <1>2, <2>1 DEF Cut
    <3> QED  BY <2>1, <3>1, AcFacts
  <2>2. CASE session[x].live /\ x # s
    <3>1. session[x] \in SessionRow /\ session'[x] = [session[x] EXCEPT !.live = FALSE]
      BY <1>2, <2>2, AcFacts, EmptyRows DEF Cut
    <3> QED  BY <3>1, EndedFacts
  <2>3. CASE session[x].live /\ x = s
    <3>1. session'[x] = [session[x] EXCEPT !.step = acNow, !.pw = user.pw + 1]
      BY <1>2, <2>3 DEF Cut
    <3>2. session[x] \in SessionRow /\ acNow \in Int
      BY <2>3, AcFacts, EmptyRows
    <3>3. session'[x] \in SessionRow
      BY <1>4, <3>1, <3>2 DEF SessionRow
    <3>4. session'[x].pw = user.pw + 1 /\ session'[x].via = session[x].via
      BY <3>1, <3>2 DEF SessionRow
    <3>5. (session'[x].mfa <=> session[x].mfa) /\ (session'[x].late <=> session[x].late)
      BY <3>1, <3>2 DEF SessionRow
    <3> QED  BY <1>4, <2>3, <3>3, <3>4, <3>5, EmptyRows
  <2> QED  BY <2>1, <2>2, <2>3
<1>6. LockOK'
  <2>1. \A q \in Workers : ~Locked(work[q]) /\ userLock # q
    BY <1>2, AcFacts DEF AcInv, AcParts, LockOK
  <2>2. \A q \in Workers : ~Locked(work'[q]) /\ userLock' # q
    BY <1>2, <1>3, <2>1 DEF Locked
  <2> QED  BY <1>5, <2>2 DEF LockOK, Locked
<1>7. OwnSessionOK'
  BY <1>3, <1>5, AcFacts, WorkFacts DEF AcInv, AcParts, OwnSessionOK
<1>8. FactorOK' /\ SetupOK' /\ CodesOK' /\ StateOK' /\ SsoOK'
  BY <1>2, <1>3, AcKept
<1>9. CutOK'
  <2>1. ToCut' <=> ToCut
    BY <1>1, <1>3 DEF ToCut
  <2>2. cred' = cred /\ raced' = raced
    BY <1>2
  <2> QED  BY <1>3, <1>5, <2>1, <2>2 DEF AcInv, AcParts, CutOK
<1>10. AcTyped'
  <2>1. session' \in [Sessions -> {NoSession} \cup SessionRow]
    BY <1>2, <1>5
  <2> QED  BY <1>2, <1>3, <1>4, <2>1 DEF AcInv, AcTyped
<1> QED  BY <1>6, <1>7, <1>8, <1>9, <1>10 DEF AcInv, AcParts

\* The session is stepped up even when it was revoked since: it stays revoked.
LEMMA StepUpFacts ==
    ASSUME AcInv, NEW h \in Workers, step_up(h)
    PROVE  /\ work[h].session \in Sessions /\ session[work[h].session] \in SessionRow
           /\ session' \in [Sessions -> {NoSession} \cup SessionRow]
           /\ \A x \in Sessions :
                /\ session'[x] = NoSession <=> session[x] = NoSession
                /\ session'[x].live <=> session[x].live
                /\ session[x] # NoSession =>
                     /\ session'[x].pw = session[x].pw /\ session'[x].via = session[x].via
                     /\ (session'[x].mfa <=> session[x].mfa) /\ (session'[x].late <=> session[x].late)
<1>1. PICK s \in Sessions : s = work[h].session /\ work[h].stage = "proven"
  BY AcFacts, WorkFacts DEF step_up, Proven
<1>2. session[s] \in SessionRow
  BY <1>1, AcFacts DEF AcInv, AcParts, OwnSessionOK
<1>3. PICK r : r = [session[s] EXCEPT !.step = acNow]
  OBVIOUS
<1>4. session' = [session EXCEPT ![s] = r]
  BY <1>1, <1>3 DEF step_up, Stepped
<1>5. /\ r \in SessionRow /\ r.pw = session[s].pw /\ r.via = session[s].via /\ (r.mfa <=> session[s].mfa)
      /\ (r.late <=> session[s].late) /\ (r.live <=> session[s].live)
  <2>1. acNow \in Int
    BY AcFacts
  <2> QED  BY <1>2, <1>3, <2>1 DEF SessionRow
<1> QED  BY <1>1, <1>2, <1>4, <1>5, EmptyRows, AcFacts

LEMMA StepUpOK ==
    ASSUME AcInv, NEW h \in Workers, step_up(h)
    PROVE  AcInv'
<1>1. /\ UNCHANGED <<acct, acNow, user, userLock, cred, codes, accepted, minted, confirmed, mfaChallenge, attempt,
                     joined, conn, requireSso, fromState, raced>>
      /\ work' = [work EXCEPT ![h] = WorkIdle] /\ work[h].stage = "proven"
  BY DEF step_up, Proven, acFixed, factorVars, setupVars, ssoVars, Rest
<1>2. /\ work' \in [Workers -> WorkRec] /\ work'[h] = WorkIdle /\ work'[h].stage = "idle"
      /\ (\A q \in Workers : q # h => work'[q] = work[q]) /\ raced \subseteq raced'
  BY <1>1, EmptyRows, AcFacts
<1>3. \A x \in Sessions : session'[x].live => session[x].live /\ session'[x].pw = session[x].pw
         /\ session'[x].via = session[x].via /\ (session'[x].mfa <=> session[x].mfa) /\ (session'[x].late <=> session[x].late)
  BY StepUpFacts, EmptyRows
<1>4. LockOK'
  <2>1. \A q \in Workers : Locked(work'[q]) <=> Locked(work[q])
    BY <1>1, <1>2 DEF Locked
  <2>2. \A q \in Workers : Locked(work'[q]) => work'[q] = work[q]
    BY <1>2 DEF Locked
  <2> QED  BY <1>1, <1>3, <2>1, <2>2 DEF AcInv, AcParts, LockOK
<1>5. OwnSessionOK'
  BY <1>2, StepUpFacts, AcFacts, WorkFacts DEF AcInv, AcParts, OwnSessionOK
<1>6. FactorOK' /\ SetupOK' /\ CodesOK' /\ StateOK' /\ SsoOK'
  BY <1>1, <1>2, AcKept
<1>7. CutOK'
  <2>1. ToCut' <=> ToCut
    BY <1>1, <1>2 DEF ToCut
  <2> QED  BY <1>1, <1>2, <1>3, <2>1 DEF AcInv, AcParts, CutOK
<1>8. AcTyped'
  BY <1>1, <1>2, StepUpFacts DEF AcInv, AcTyped
<1> QED  BY <1>4, <1>5, <1>6, <1>7, <1>8 DEF AcInv, AcParts

-----------------------------------------------------------------------------
(* Recovery codes, and the end of the second factor.                       *)

LEMMA RegenerateOK ==
    ASSUME AcInv, NEW h \in Workers, regenerate_recovery_codes(h)
    PROVE  AcInv'
<1>1. /\ UNCHANGED <<acct, acNow, user, userLock, session, cred, accepted, confirmed, mfaChallenge, attempt,
                     joined, conn, requireSso, fromState, raced>>
      /\ work[h].stage = "renewing" /\ work' = [work EXCEPT ![h] = WorkIdle]
      /\ codes' = (codes \ work[h].seen) \cup {minted.sets + 1}
      /\ minted' = [minted EXCEPT !.sets = minted.sets + 1]
  BY DEF regenerate_recovery_codes, NewSet, acFixed, ssoVars, Rest
<1>2. /\ work' \in [Workers -> WorkRec] /\ work'[h] = WorkIdle /\ work'[h].stage = "idle"
      /\ (\A q \in Workers : q # h => work'[q] = work[q]) /\ raced \subseteq raced'
  BY <1>1, EmptyRows, AcFacts
<1>3. LockOK' /\ OwnSessionOK' /\ SetupOK' /\ CutOK' /\ StateOK' /\ SsoOK'
  BY <1>1, <1>2, AcKept
<1>4. /\ minted' \in [secrets : Nat, sets : Nat] /\ minted'.secrets = minted.secrets /\ minted'.sets = minted.sets + 1
      /\ minted.sets \in Nat /\ minted.sets + 1 \in Nat
  BY <1>1, AcFacts
<1>5. codes' \subseteq 1..minted'.sets
  BY <1>1, <1>4, AcFacts
<1>6. FactorOK'
  <2>1. \A f \in DOMAIN accepted \cap SetCode : f.set <= minted'.sets /\ f.set \notin codes'
    <3> SUFFICES ASSUME NEW f \in DOMAIN accepted \cap SetCode
                 PROVE  f.set <= minted'.sets /\ f.set \notin codes'
      OBVIOUS
    <3>1. f.set \in Nat /\ f.set <= minted.sets /\ f.set \notin codes
      BY DEF SetCode, AcInv, AcParts, FactorOK
    <3> QED  BY <1>1, <1>4, <3>1
  <2> QED  BY <1>1, <1>4, <2>1 DEF AcInv, AcParts, FactorOK
<1>7. CodesOK'
  <2> SUFFICES ASSUME "codes" \notin raced
      PROVE  /\ \A x, y \in codes' : x = y
             /\ \A q \in Workers : work'[q].stage # "renewing"
    BY <1>1 DEF CodesOK
  <2>1. codes \subseteq work[h].seen /\ \A q \in Workers : work[q].stage = "renewing" => q = h
    BY <1>1 DEF AcInv, AcParts, CodesOK
  <2> QED  BY <1>1, <1>2, <2>1
<1>8. AcTyped'
  BY <1>1, <1>2, <1>4, <1>5 DEF AcInv, AcTyped
<1> QED  BY <1>3, <1>6, <1>7, <1>8 DEF AcInv, AcParts

LEMMA DisableOK ==
    ASSUME AcInv, NEW h \in Workers, disable_mfa(h)
    PROVE  AcInv'
<1>1. /\ UNCHANGED <<acct, acNow, user, userLock, session, accepted, minted, confirmed, mfaChallenge, attempt,
                     joined, conn, requireSso, fromState, raced>>
      /\ work[h].stage = "proven" /\ cred' = NoCred /\ codes' = {}
  BY DEF disable_mfa, Proven, acFixed, setupVars, ssoVars
<1>2. PICK d : /\ d = [stage |-> "cutting", session |-> work[h].session, mfa |-> FALSE]
               /\ work' = [work EXCEPT ![h] = d]
  BY DEF disable_mfa
<1>3. d \in WorkRec /\ d.stage = "cutting" /\ d.session = work[h].session /\ d.mfa \in BOOLEAN /\ ~d.mfa
  <2>1. work[h].session \in Sessions
    BY <1>1, AcFacts, WorkFacts
  <2> QED  BY <1>2, <2>1 DEF WorkRec
<1>4. /\ work' \in [Workers -> WorkRec] /\ work'[h] = d /\ (\A q \in Workers : q # h => work'[q] = work[q])
      /\ raced \subseteq raced'
  BY <1>1, <1>2, <1>3, AcFacts
<1>5. LockOK' /\ StateOK' /\ SsoOK'
  BY <1>1, <1>3, <1>4, AcKept
<1>6. OwnSessionOK'
  BY <1>1, <1>3, <1>4 DEF AcInv, AcParts, OwnSessionOK
<1>7. FactorOK' /\ SetupOK' /\ CodesOK'
  <2>1. FactorOK'
    BY <1>1 DEF AcInv, AcParts, FactorOK
  <2>2. SetupOK'
    BY <1>1, EmptyRows DEF SetupOK
  <2>3. CodesOK'
    BY <1>1, <1>3, <1>4 DEF AcInv, AcParts, CodesOK
  <2> QED  BY <2>1, <2>2, <2>3
<1>8. CutOK'
  BY <1>1, <1>3, <1>4, EmptyRows DEF AcInv, AcParts, CutOK
<1>9. AcTyped'
  BY <1>1, <1>4 DEF AcInv, AcTyped
<1> QED  BY <1>5, <1>6, <1>7, <1>8, <1>9 DEF AcInv, AcParts

-----------------------------------------------------------------------------
(* Single sign-on.                                                         *)

\* A state that is not out with a worker moves on.
LEMMA AttemptStep ==
    ASSUME AcInv, NEW h \in Workers, NEW a \in Attempts, NEW d \in WorkRec, NEW st \in AttemptStatus,
           UNCHANGED <<acct, acNow, user, userLock, session, cred, codes, accepted, minted, confirmed, mfaChallenge,
                       joined, conn, requireSso, fromState, raced>>,
           work[h].stage \in {"idle", "burnt"}, work[h].stage = "burnt" => work[h].state = a,
           work[h].stage = "idle" => attempt[a] \notin {"burnt", "redeemed"},
           attempt' = [attempt EXCEPT ![a] = st], work' = [work EXCEPT ![h] = d],
           \/ d = WorkIdle /\ st \notin {"none", "redeemed"}
           \/ d.stage = "burnt" /\ d.state = a /\ st = "burnt"
           \/ d.stage = "issuing" /\ d.state = a /\ st = "redeemed" /\ d.via = "oidc"
    PROVE  AcInv'
<1>1. /\ work' \in [Workers -> WorkRec] /\ work'[h] = d /\ (\A q \in Workers : q # h => work'[q] = work[q])
      /\ raced \subseteq raced' /\ d.stage \in {"idle", "burnt", "issuing"}
      /\ attempt' \in [Attempts -> AttemptStatus] /\ attempt'[a] = st /\ \A b \in Attempts : b # a => attempt'[b] = attempt[b]
  BY AcFacts, EmptyRows
<1>2. LockOK'
  <2>1. ~Locked(work[h]) /\ ~Locked(work'[h])
    BY <1>1, EmptyRows DEF Locked
  <2>2. \A q \in Workers : Locked(work'[q]) <=> Locked(work[q])
    BY <1>1, <2>1
  <2>3. \A q \in Workers : Locked(work'[q]) => work'[q] = work[q]
    BY <1>1, <2>1
  <2> QED  BY <2>2, <2>3 DEF AcInv, AcParts, LockOK, Locked
<1>3. OwnSessionOK' /\ FactorOK' /\ SetupOK' /\ CodesOK' /\ SsoOK'
  BY <1>1, AcKept
<1>4. CutOK'
  <2>1. ToCut' <=> ToCut
    BY <1>1 DEF ToCut
  <2>2. d.stage = "issuing" => d.via = "oidc"
    BY EmptyRows
  <2> QED  BY <1>1, <2>1, <2>2 DEF AcInv, AcParts, CutOK
<1>5. StateOK'
  <2>1. \A q \in Workers : q # h => ~OutOf(q, a)
    <3> SUFFICES ASSUME NEW q \in Workers, OutOf(q, a)  PROVE q = h
      OBVIOUS
    <3>1. attempt[a] \in {"burnt", "redeemed"} /\ \A p \in Workers : OutOf(p, a) => p = q
      BY DEF AcInv, AcParts, StateOK, OutOf
    <3>2. OutOf(h, a)
      BY <3>1 DEF OutOf
    <3> QED  BY <3>1, <3>2
  <2>2. fromState[a] = 0
    <3>1. work[h].stage = "burnt" => OutOf(h, a)
      BY DEF OutOf
    <3> QED  BY <3>1 DEF AcInv, AcParts, StateOK
  <2> SUFFICES ASSUME NEW b \in Attempts
      PROVE  /\ fromState[b] <= 1 /\ (attempt'[b] # "redeemed" => fromState[b] = 0)
             /\ \A q \in Workers : OutOf(q, b)' =>
                  /\ attempt'[b] = IF work'[q].stage = "burnt" THEN "burnt" ELSE "redeemed"
                  /\ fromState[b] = 0
                  /\ \A p \in Workers : OutOf(p, b)' => p = q
    BY DEF StateOK
  <2>3. CASE b = a
    <3>1. \A q \in Workers : OutOf(q, a)' => q = h /\ d.stage \in {"burnt", "issuing"}
      BY <1>1, <2>1 DEF OutOf
    <3>2. d.stage \in {"burnt", "issuing"} => st = IF d.stage = "burnt" THEN "burnt" ELSE "redeemed"
      BY EmptyRows
    <3> QED  BY <1>1, <2>2, <2>3, <3>1, <3>2
  <2>4. CASE b # a
    <3>1. \A q \in Workers : OutOf(q, b)' => OutOf(q, b) /\ work'[q] = work[q]
      BY <1>1, <2>4, EmptyRows DEF OutOf
    <3> QED  BY <1>1, <2>4, <3>1 DEF AcInv, AcParts, StateOK
  <2> QED  BY <2>3, <2>4
<1>6. AcTyped'
  BY <1>1 DEF AcInv, AcTyped
<1> QED  BY <1>2, <1>3, <1>4, <1>5, <1>6 DEF AcInv, AcParts

LEMMA BurnStateOK ==
    ASSUME AcInv, NEW h \in Workers, NEW a \in Attempts, BurnState(h, a)
    PROVE  AcInv'
<1>1. /\ UNCHANGED <<acct, acNow, user, userLock, session, cred, codes, accepted, minted, confirmed, mfaChallenge,
                     joined, conn, requireSso, fromState, raced>>
      /\ work[h] = WorkIdle /\ attempt[a] = "started" /\ attempt' = [attempt EXCEPT ![a] = "burnt"]
  BY DEF BurnState, Burnt, Waiting, acFixed, factorVars, setupVars
<1>2. PICK d : d = [stage |-> "burnt", state |-> a] /\ work' = [work EXCEPT ![h] = d]
  BY DEF BurnState
<1>3. d \in WorkRec /\ d.stage = "burnt" /\ d.state = a /\ "burnt" \in AttemptStatus /\ work[h].stage = "idle"
  BY <1>1, <1>2, EmptyRows DEF WorkRec, AttemptStatus
<1> QED  BY <1>1, <1>2, <1>3, AttemptStep

LEMMA CompleteLoginOK ==
    ASSUME AcInv, NEW h \in Workers, NEW vouched, NEW mfa, complete_login(h, vouched, mfa)
    PROVE  AcInv'
<1>1. /\ UNCHANGED <<acct, acNow, user, userLock, session, cred, codes, accepted, minted, confirmed, mfaChallenge,
                     joined, conn, requireSso, fromState, raced>>
      /\ work[h].stage = "burnt" /\ work' = [work EXCEPT ![h] = WorkIdle] /\ WorkIdle \in WorkRec
  BY EmptyRows DEF complete_login, Rest, acFixed, factorVars, setupVars
<1>2. PICK a \in Attempts : a = work[h].state
  BY <1>1, AcFacts, WorkFacts
<1>3. attempt[a] = "burnt"
  BY <1>1, <1>2 DEF AcInv, AcParts, StateOK, OutOf
<1>4. PICK st \in {"burnt", "ticket", "ticket+mfa"} : attempt' = [attempt EXCEPT ![a] = st]
  <2>1. CASE attempt' = attempt
    <3>1. attempt' = [attempt EXCEPT ![a] = "burnt"]
      BY <1>3, <2>1, AcFacts
    <3> QED  BY <3>1
  <2>2. CASE attempt' = [attempt EXCEPT ![a] = IF mfa THEN "ticket+mfa" ELSE "ticket"]
    BY <2>2
  <2> QED  BY <1>2, <2>1, <2>2 DEF complete_login
<1>5. st \in AttemptStatus /\ st \notin {"none", "redeemed"}
  BY DEF AttemptStatus
<1> QED  BY <1>1, <1>2, <1>4, <1>5, AttemptStep

LEMMA RedeemOK ==
    ASSUME AcInv, NEW h \in Workers, NEW a \in Attempts, redeem_ticket(h, a)
    PROVE  AcInv'
<1>1. /\ UNCHANGED <<acct, acNow, user, userLock, session, cred, codes, accepted, minted, confirmed, mfaChallenge,
                     joined, conn, requireSso, fromState, raced>>
      /\ work[h] = WorkIdle /\ attempt[a] \in {"ticket", "ticket+mfa"} /\ attempt' = [attempt EXCEPT ![a] = "redeemed"]
  BY DEF redeem_ticket, Waiting, acFixed, factorVars, setupVars
<1>2. PICK mfa \in BOOLEAN : work' = [work EXCEPT ![h] =
         [stage |-> "issuing", pw |-> user.pw, via |-> "oidc", mfa |-> mfa, state |-> a, seen |-> TRUE]]
  BY DEF redeem_ticket
<1> DEFINE d == [stage |-> "issuing", pw |-> user.pw, via |-> "oidc", mfa |-> mfa, state |-> a, seen |-> TRUE]
<1>3. d \in WorkRec /\ d.stage = "issuing" /\ d.state = a /\ d.via = "oidc"
  <2>1. user.pw \in Nat
    BY AcFacts DEF UserRow
  <2> QED  BY <1>2, <2>1 DEF WorkRec, Via
<1>4. "redeemed" \in AttemptStatus /\ work[h].stage = "idle"
  BY <1>1, EmptyRows DEF AttemptStatus
<1> QED  BY <1>1, <1>2, <1>3, <1>4, AttemptStep

LEMMA StartLoginOK ==
    ASSUME AcInv, NEW a \in Attempts, start_login(a)
    PROVE  AcInv'
<1>1. /\ UNCHANGED <<acct, acNow, user, userLock, session, cred, codes, accepted, minted, confirmed, mfaChallenge,
                     joined, conn, requireSso, fromState, work, raced>>
      /\ attempt[a] = "none" /\ attempt' = [attempt EXCEPT ![a] = "started"]
  BY DEF start_login, Next1, acFixed, factorVars, setupVars
<1>2. LockOK' /\ OwnSessionOK' /\ FactorOK' /\ SetupOK' /\ CodesOK' /\ CutOK' /\ SsoOK'
  <2>1. NoWorker \notin Workers /\ (\A q \in Workers : q # NoWorker => work'[q] = work[q]) /\ raced \subseteq raced'
    BY <1>1, AcFacts
  <2> QED  BY <1>1, <2>1, AcKept
<1>3. /\ attempt' \in [Attempts -> AttemptStatus] /\ attempt'[a] = "started"
      /\ \A b \in Attempts : b # a => attempt'[b] = attempt[b]
  BY <1>1, AcFacts DEF AttemptStatus
<1>4. StateOK'
  <2>1. fromState[a] = 0 /\ \A q \in Workers : ~OutOf(q, a)
    BY <1>1 DEF AcInv, AcParts, StateOK, OutOf
  <2> SUFFICES ASSUME NEW b \in Attempts
      PROVE  /\ fromState[b] <= 1 /\ (attempt'[b] # "redeemed" => fromState[b] = 0)
             /\ \A q \in Workers : OutOf(q, b) =>
                  /\ attempt'[b] = IF work[q].stage = "burnt" THEN "burnt" ELSE "redeemed"
                  /\ fromState[b] = 0
                  /\ \A p \in Workers : OutOf(p, b) => p = q
    BY <1>1 DEF StateOK, OutOf
  <2>2. CASE b = a
    BY <1>3, <2>1, <2>2
  <2>3. CASE b # a
    BY <1>3, <2>3 DEF AcInv, AcParts, StateOK
  <2> QED  BY <2>2, <2>3
<1>5. AcTyped'
  BY <1>1, <1>3 DEF AcInv, AcTyped
<1> QED  BY <1>2, <1>4, <1>5 DEF AcInv, AcParts

\* The requirement and the end of the connection, each as it found the other.
LEMMA PolicyWritten ==
    ASSUME AcInv, NEW h \in Workers, set_policy(h) \/ disable_connection(h)
    PROVE  AcInv'
<1>1. /\ UNCHANGED <<acct, acNow, user, userLock, session, cred, codes, accepted, minted, confirmed, mfaChallenge,
                     attempt, joined, fromState>>
      /\ work' = [work EXCEPT ![h] = WorkIdle] /\ work[h].stage \in {"policy", "disabling"}
      /\ raced \subseteq raced'
  BY DEF set_policy, disable_connection, Rest, acFixed, factorVars, setupVars
<1>2. /\ work' \in [Workers -> WorkRec] /\ work'[h] = WorkIdle /\ work'[h].stage = "idle"
      /\ \A q \in Workers : q # h => work'[q] = work[q]
  BY <1>1, EmptyRows, AcFacts
<1>3. LockOK' /\ OwnSessionOK' /\ FactorOK' /\ SetupOK' /\ CodesOK' /\ CutOK' /\ StateOK'
  BY <1>1, <1>2, AcKept
<1>4. SsoOK' /\ requireSso' \in BOOLEAN /\ conn' \in {"active", "disabled"}
  <2>1. CASE set_policy(h)
    <3>1. /\ UNCHANGED conn /\ work[h].stage = "policy" /\ requireSso' = work[h].sso
          /\ raced' = IF Busy("disabling") THEN raced \cup {"policy"} ELSE raced
      BY <2>1 DEF set_policy
    <3>2. requireSso' \in BOOLEAN /\ (requireSso' <=> work[h].sso)
      BY <3>1, AcFacts, WorkFacts
    <3>3. SsoOK'
      <4> SUFFICES ASSUME "policy" \notin raced'
          PROVE  /\ requireSso' => conn = "active"
                 /\ \A q \in Workers : (work'[q].stage = "policy" /\ work'[q].sso) => conn = "active"
                 /\ \A q \in Workers : work'[q].stage # "disabling"
        BY <3>1 DEF SsoOK
      <4>1. "policy" \notin raced /\ \A q \in Workers : work[q].stage # "disabling"
        BY <3>1 DEF Busy
      <4> QED  BY <1>2, <3>1, <3>2, <4>1 DEF AcInv, AcParts, SsoOK
    <3> QED  BY <3>1, <3>2, <3>3, AcFacts
  <2>2. CASE disable_connection(h)
    <3>1. /\ UNCHANGED requireSso /\ conn' = "disabled" /\ work[h].stage = "disabling"
          /\ raced' = IF \E q \in Workers : work[q].stage = "policy" /\ work[q].sso THEN raced \cup {"policy"} ELSE raced
      BY <2>2 DEF disable_connection
    <3>2. SsoOK'
      <4> SUFFICES ASSUME "policy" \notin raced'
          PROVE  /\ ~requireSso
                 /\ \A q \in Workers : ~(work'[q].stage = "policy" /\ work'[q].sso)
        BY <3>1 DEF SsoOK
      <4>1. "policy" \notin raced /\ \A q \in Workers : ~(work[q].stage = "policy" /\ work[q].sso)
        BY <3>1
      <4> QED  BY <1>2, <3>1, <4>1 DEF AcInv, AcParts, SsoOK
    <3> QED  BY <3>1, <3>2, AcFacts
  <2> QED  BY <2>1, <2>2
<1>5. AcTyped'
  BY <1>1, <1>2, <1>4 DEF AcInv, AcTyped
<1> QED  BY <1>3, <1>4, <1>5 DEF AcInv, AcParts

-----------------------------------------------------------------------------
(* The theorems.                                                           *)

LEMMA AcInitOK ==
    ASSUME AcInit
    PROVE  AcInv
<1>1. /\ acct \in Accts /\ acNow = 0 /\ userLock = NoWorker /\ accepted = <<>> /\ raced = {}
      /\ user = [pw |-> 0, fails |-> 0, locked |-> 0]
      /\ attempt = [a \in Attempts |-> "none"] /\ fromState = [a \in Attempts |-> 0]
      /\ mfaChallenge = [c \in MfaChallenges |-> NoMfaChallenge]
      /\ joined = TRUE /\ conn = "active" /\ requireSso = FALSE /\ work = [h \in Workers |-> WorkIdle]
      /\ confirmed = minted.secrets
  BY DEF AcInit
<1>2. acct.factor \in BOOLEAN /\ acct.passwords \in Nat /\ NoWorker \notin Workers
  BY <1>1, AcctsAssumption, AccountsAssumption DEF NoWorker
<1>3. /\ 0 \in 0..(account_lock_attempts - 1) /\ 0 \in 0..(mfa_max_attempts - 1) /\ Never \in Int /\ 0 <= acct.passwords
  BY <1>2, AccountsAssumption DEF Never
<1>4. \A s \in Sessions : /\ session[s] \in {NoSession} \cup SessionRow
                          /\ session[s].live => session[s].pw = 0 /\ (session[s].mfa <=> acct.factor)
  <2> SUFFICES ASSUME NEW s \in Sessions
      PROVE  /\ session[s] \in {NoSession} \cup SessionRow
             /\ session[s].live => session[s].pw = 0 /\ (session[s].mfa <=> acct.factor)
    OBVIOUS
  <2>1. PICK r : r = [live |-> TRUE, pw |-> 0, via |-> "locked", mfa |-> acct.factor, step |-> 0, late |-> FALSE]
    OBVIOUS
  <2>2. session[s] = NoSession \/ session[s] = r
    BY <2>1 DEF AcInit
  <2>3. r \in SessionRow /\ r.pw = 0 /\ (r.mfa <=> acct.factor)
    BY <1>2, <2>1 DEF SessionRow, Via
  <2> QED  BY <2>2, <2>3, EmptyRows
<1>5. session \in [Sessions -> {NoSession} \cup SessionRow]
  BY <1>4 DEF AcInit
<1>6. /\ cred \in {NoCred} \cup CredRow /\ (cred.enabled <=> acct.factor) /\ cred.secret = confirmed
      /\ minted \in [secrets : Nat, sets : Nat] /\ codes \subseteq 1..minted.sets /\ confirmed \in Nat
      /\ cred.secret <= minted.secrets /\ (\A x, y \in codes : x = y)
  <2>1. CASE acct.factor
    <3>1. /\ cred = [enabled |-> TRUE, secret |-> 1, pending |-> FALSE, last |-> Never, fails |-> 0, locked |-> 0]
          /\ minted = [secrets |-> 1, sets |-> 1] /\ codes = {1}
      BY <2>1 DEF AcInit, Enabled
    <3>2. cred \in CredRow /\ cred.enabled /\ cred.secret = 1
      BY <1>3, <3>1 DEF CredRow
    <3> QED  BY <1>1, <2>1, <3>1, <3>2
  <2>2. CASE ~acct.factor
    <3>1. cred = NoCred /\ minted = [secrets |-> 0, sets |-> 0] /\ codes = {}
      BY <2>2 DEF AcInit
    <3> QED  BY <1>1, <2>2, <3>1, EmptyRows
  <2> QED  BY <2>1, <2>2
<1>7. \A q \in Workers : work[q].stage = "idle" /\ work[q] \in WorkRec
  BY <1>1, EmptyRows
<1>8. LockOK /\ OwnSessionOK
  <2>1. user.pw = 0
    BY <1>1
  <2> QED  BY <1>1, <1>2, <1>4, <1>7, <2>1 DEF LockOK, OwnSessionOK, Locked
<1>9. FactorOK /\ SetupOK /\ CodesOK
  <2>1. DOMAIN accepted = {}
    BY <1>1
  <2> QED  BY <1>6, <1>7, <2>1 DEF FactorOK, SetupOK, CodesOK
<1>10. CutOK /\ StateOK /\ SsoOK
  <2>1. CutOK
    BY <1>4, <1>6, <1>7 DEF CutOK
  <2>2. StateOK
    BY <1>1, <1>7 DEF StateOK, OutOf
  <2>3. SsoOK
    BY <1>1, <1>7 DEF SsoOK
  <2> QED  BY <2>1, <2>2, <2>3
<1>11. AcTyped
  <2>1. user \in UserRow /\ user.pw <= acct.passwords
    <3>1. user.pw = 0 /\ 0 \in Nat
      BY <1>1
    <3> QED  BY <1>1, <1>3, <3>1 DEF UserRow
  <2>2. work \in [Workers -> WorkRec] /\ mfaChallenge \in [MfaChallenges -> {NoMfaChallenge} \cup MfaChallengeRow]
        /\ attempt \in [Attempts -> AttemptStatus] /\ fromState \in [Attempts -> Nat]
    BY <1>1, EmptyRows DEF AttemptStatus
  <2>3. DOMAIN accepted = {}
    BY <1>1
  <2> QED  BY <1>1, <1>5, <1>6, <2>1, <2>2, <2>3 DEF AcTyped
<1> QED  BY <1>8, <1>9, <1>10, <1>11 DEF AcInv, AcParts

LEMMA AcNextOK ==
    ASSUME AcInv, AcNext
    PROVE  AcInv'
<1>1. acct.workers \subseteq Workers
  BY AcFacts
<1>2. CASE AcTick \/ Leave \/ enable_connection
  BY <1>2, AcOutsideOK
<1>3. CASE \E s \in Sessions : revoke_session(s) \/ revoke_others(s)
  BY <1>3, RevokeOK
<1>4. CASE \E a \in Attempts : start_login(a)
  BY <1>4, StartLoginOK
<1>5. ASSUME NEW h \in Workers,
             CrashWork(h) \/ LookupCredential(h) \/ issue_session(h) \/ start_setup(h) \/ CutSessions(h)
      PROVE  AcInv'
  BY <1>5, CrashOK, LookupOK, IssueOK, StartSetupOK, CutSessionsOK
<1>6. ASSUME NEW h \in Workers, \E right \in BOOLEAN : authenticate_user(h, right)
      PROVE  AcInv'
  BY <1>6, AuthenticateOK
<1>7. ASSUME NEW h \in Workers, \E code \in Entered \cup {Wrong} :
               require_factor(h, code) \/ \E c \in MfaChallenges : verify_challenge(h, c, code)
      PROVE  AcInv'
  BY <1>7, RequireFactorOK, VerifyChallengeOK
<1>8. ASSUME NEW h \in Workers, \E s \in Sessions : LoadSetup(h, s) \/ \E t \in {acNow, acNow + 1} : confirm_setup(h, s, t)
      PROVE  AcInv'
  BY <1>8, LoadSetupOK, ConfirmSetupOK
<1>9. ASSUME NEW h \in Workers, \E s \in Sessions, op \in acct.ops : Ask(h, s, op)
      PROVE  AcInv'
  BY <1>9, AskOK
<1>10. ASSUME NEW h \in Workers,
              change_password(h) \/ step_up(h) \/ DeleteCodes(h) \/ regenerate_recovery_codes(h) \/ disable_mfa(h)
       PROVE  AcInv'
  BY <1>10, ChangePasswordOK, StepUpOK, DeleteCodesOK, RegenerateOK, DisableOK
<1>11. ASSUME NEW h \in Workers, \E a \in Attempts : BurnState(h, a) \/ redeem_ticket(h, a)
       PROVE  AcInv'
  BY <1>11, BurnStateOK, RedeemOK
<1>12. ASSUME NEW h \in Workers, \E vouched, mfa \in BOOLEAN : complete_login(h, vouched, mfa)
       PROVE  AcInv'
  BY <1>12, CompleteLoginOK
<1>13. ASSUME NEW h \in Workers, \E sso \in BOOLEAN : LoadPolicy(h, sso)
       PROVE  AcInv'
  BY <1>13, LoadPolicyOK
<1>14. ASSUME NEW h \in Workers, set_policy(h) \/ LoadConnection(h) \/ disable_connection(h)
       PROVE  AcInv'
  BY <1>14, PolicyWritten, LoadConnectionOK
<1>15. CASE \E h \in acct.workers :
        \/ CrashWork(h) \/ LookupCredential(h) \/ issue_session(h) \/ start_setup(h) \/ CutSessions(h)
        \/ \E right \in BOOLEAN : authenticate_user(h, right)
        \/ \E code \in Entered \cup {Wrong} :
              require_factor(h, code) \/ \E c \in MfaChallenges : verify_challenge(h, c, code)
        \/ \E s \in Sessions : LoadSetup(h, s) \/ \E t \in {acNow, acNow + 1} : confirm_setup(h, s, t)
        \/ \E s \in Sessions, op \in acct.ops : Ask(h, s, op)
        \/ change_password(h) \/ step_up(h) \/ DeleteCodes(h) \/ regenerate_recovery_codes(h) \/ disable_mfa(h)
        \/ \E a \in Attempts : BurnState(h, a) \/ redeem_ticket(h, a)
        \/ \E vouched, mfa \in BOOLEAN : complete_login(h, vouched, mfa)
        \/ \E sso \in BOOLEAN : LoadPolicy(h, sso)
        \/ set_policy(h) \/ LoadConnection(h) \/ disable_connection(h)
  BY <1>1, <1>15, <1>5, <1>6, <1>7, <1>8, <1>9, <1>10, <1>11, <1>12, <1>13, <1>14
<1> QED  BY <1>2, <1>3, <1>4, <1>15 DEF AcNext

\* The inductive invariant of an account, for any workers, sessions, challenges, attempts,
\* limits and times.
THEOREM AcInvariance == AcSpec => []AcInv
<1>1. AcInit => AcInv
  BY AcInitOK
<1>2. AcInv /\ [AcNext]_acVars => AcInv'
  <2> SUFFICES ASSUME AcInv, [AcNext]_acVars  PROVE AcInv'
    OBVIOUS
  <2>1. CASE AcNext
    BY <2>1, AcNextOK
  <2>2. CASE UNCHANGED acVars
    <3>1. UNCHANGED <<acNow, user, userLock, session, cred, codes, minted, mfaChallenge, attempt, joined, conn,
                      requireSso, work, accepted, confirmed, fromState, raced, acct>>
      BY <2>2 DEF acVars
    <3>2. NoWorker \notin Workers /\ (\A q \in Workers : q # NoWorker => work'[q] = work[q]) /\ raced \subseteq raced'
      BY <3>1, AcFacts
    <3>3. AcParts'
      BY <3>1, <3>2, AcKept DEF AcParts
    <3>4. AcTyped'
      BY <3>1 DEF AcInv, AcTyped
    <3> QED  BY <3>3, <3>4 DEF AcInv
  <2> QED  BY <2>1, <2>2
<1> QED  BY <1>1, <1>2, PTL DEF AcSpec

\* However sign-ins, set-ups and password changes overlap: a code, a ticket and a state count
\* once, an enabled factor was confirmed and is asked for, one set of recovery codes is
\* valid, and a changed password ends the sessions of the old one (services/auth.py, mfa.py,
\* sso.py, sessions.py).
THEOREM AccountTheorem == AcSpec => []AccountHolds
<1> SUFFICES ASSUME AcInv  PROVE AccountHolds
  BY AcInvariance, PTL
<1>1. AcTypeOK
  <2>1. user.fails \in 0..(account_lock_attempts - 1) /\ user.pw \in 0..acct.passwords
    BY AcFacts DEF UserRow
  <2>2. userLock # NoWorker => work[userLock].stage \in {"password", "issuing"}
    BY AcFacts DEF AcInv, AcParts, LockOK, Locked
  <2>3. cred # NoCred => cred.fails \in 0..(mfa_max_attempts - 1)
    BY CredFacts DEF CredRow
  <2>4. \A c \in MfaChallenges : mfaChallenge[c] # NoMfaChallenge => mfaChallenge[c].attempts \in 0..mfa_max_attempts
    BY AcFacts DEF MfaChallengeRow
  <2> QED  BY <2>1, <2>2, <2>3, <2>4 DEF AcTypeOK
<1>2. FactorOnce /\ EnabledSecretConfirmed
  BY DEF AcInv, AcParts, FactorOK, SetupOK, FactorOnce, EnabledSecretConfirmed
<1>3. OneSetOfCodes
  <2> SUFFICES ASSUME "codes" \notin raced  PROVE Cardinality(codes) <= 1
    BY DEF OneSetOfCodes
  <2>1. \A x, y \in codes : x = y
    BY DEF AcInv, AcParts, CodesOK
  <2>2. CASE codes = {}
    BY <2>2, FS_EmptySet
  <2>3. CASE \E x \in codes : TRUE
    <3>1. PICK x : codes = {x}
      BY <2>1, <2>3
    <3>2. Cardinality(codes) = 1
      BY <3>1, FS_Singleton
    <3> QED  BY <3>2
  <2> QED  BY <2>2, <2>3
<1>4. NoSingleFactor
  BY DEF AcInv, AcParts, CutOK, ToCut, NoSingleFactor, Busy
<1>5. PasswordChangeEndsSessions
  <2> SUFFICES ASSUME NEW s \in Sessions, session[s].live, session[s].pw < user.pw
               PROVE  session[s].via \in {"unlocked", "challenge", "oidc"}
    BY DEF PasswordChangeEndsSessions
  <2>1. session[s] \in SessionRow /\ session[s].pw \in Nat /\ session[s].via \in Via
    <3>1. session[s] \in SessionRow
      BY AcFacts, EmptyRows
    <3> QED  BY <3>1 DEF SessionRow
  <2>2. session[s].via = "locked" => session[s].pw = user.pw
    BY DEF AcInv, AcParts, LockOK
  <2> QED  BY <2>1, <2>2 DEF Via
<1>6. StateOnce /\ SsoReachable
  BY DEF AcInv, AcParts, StateOK, SsoOK, StateOnce, SsoReachable
<1> QED  BY <1>1, <1>2, <1>3, <1>4, <1>5, <1>6 DEF AccountHolds

\* A session that was revoked stays revoked: neither a step-up, nor a password change, nor
\* the cut that follows a set-up brings it back (services/sessions.py).
THEOREM RevokedTheorem == AcSpec => RevokedStays
<1> DEFINE Good == \A s \in Sessions : (session[s] # NoSession /\ ~session[s].live) => ~session'[s].live
<1>1. AcInv /\ [AcNext]_acVars => [Good]_acVars
  <2> SUFFICES ASSUME AcInv, AcNext  PROVE Good
    OBVIOUS
  <2>1. UNCHANGED session => Good
    OBVIOUS
  <2>2. ASSUME NEW s \in Sessions, revoke_session(s) \/ revoke_others(s)  PROVE Good
    <3>1. CASE revoke_session(s)
      BY <3>1, AcFacts DEF revoke_session
    <3>2. CASE revoke_others(s)
      BY <3>2 DEF revoke_others, Cut
    <3> QED  BY <2>2, <3>1, <3>2
  <2>3. ASSUME NEW h \in Workers, issue_session(h)  PROVE Good
    <3>1. PICK s, r : s \in Sessions /\ session[s] = NoSession /\ session' = [session EXCEPT ![s] = r]
      BY <2>3, AcFacts DEF issue_session, Next1
    <3> QED  BY <3>1, AcFacts
  <2>4. ASSUME NEW h \in Workers, CutSessions(h) \/ change_password(h)  PROVE Good
    BY <2>4 DEF CutSessions, change_password, Cut
  <2>5. ASSUME NEW h \in Workers, step_up(h)  PROVE Good
    BY <2>5, StepUpFacts
  <2> HIDE DEF Good
  <2>6. ASSUME AcTick \/ Leave \/ enable_connection \/ \E a \in Attempts : start_login(a)  PROVE Good
    BY <2>1, <2>6 DEF AcTick, Leave, enable_connection, start_login
  <2>7. ASSUME NEW h \in Workers,
               \/ CrashWork(h) \/ LookupCredential(h) \/ start_setup(h)
               \/ \E right \in BOOLEAN : authenticate_user(h, right)
               \/ \E code \in Entered \cup {Wrong} :
                     require_factor(h, code) \/ \E c \in MfaChallenges : verify_challenge(h, c, code)
        PROVE  Good
    BY <2>1, <2>7 DEF CrashWork, LookupCredential, start_setup, authenticate_user, require_factor, verify_challenge
  <2>8. ASSUME NEW h \in Workers,
               \/ \E s \in Sessions : LoadSetup(h, s) \/ \E t \in {acNow, acNow + 1} : confirm_setup(h, s, t)
               \/ \E s \in Sessions, op \in acct.ops : Ask(h, s, op)
               \/ DeleteCodes(h) \/ regenerate_recovery_codes(h) \/ disable_mfa(h)
        PROVE  Good
    BY <2>1, <2>8 DEF LoadSetup, confirm_setup, Ask, DeleteCodes, regenerate_recovery_codes, disable_mfa
  <2>9. ASSUME NEW h \in Workers,
               \/ \E a \in Attempts : BurnState(h, a) \/ redeem_ticket(h, a)
               \/ \E vouched, mfa \in BOOLEAN : complete_login(h, vouched, mfa)
               \/ \E sso \in BOOLEAN : LoadPolicy(h, sso)
               \/ set_policy(h) \/ LoadConnection(h) \/ disable_connection(h)
        PROVE  Good
    BY <2>1, <2>9 DEF BurnState, redeem_ticket, complete_login, LoadPolicy, set_policy, LoadConnection, disable_connection
  <2>10. acct.workers \subseteq Workers
    BY AcFacts
  <2>11. CASE \E h \in acct.workers :
        \/ CrashWork(h) \/ LookupCredential(h) \/ issue_session(h) \/ start_setup(h) \/ CutSessions(h)
        \/ \E right \in BOOLEAN : authenticate_user(h, right)
        \/ \E code \in Entered \cup {Wrong} :
              require_factor(h, code) \/ \E c \in MfaChallenges : verify_challenge(h, c, code)
        \/ \E s \in Sessions : LoadSetup(h, s) \/ \E t \in {acNow, acNow + 1} : confirm_setup(h, s, t)
        \/ \E s \in Sessions, op \in acct.ops : Ask(h, s, op)
        \/ change_password(h) \/ step_up(h) \/ DeleteCodes(h) \/ regenerate_recovery_codes(h) \/ disable_mfa(h)
        \/ \E a \in Attempts : BurnState(h, a) \/ redeem_ticket(h, a)
        \/ \E vouched, mfa \in BOOLEAN : complete_login(h, vouched, mfa)
        \/ \E sso \in BOOLEAN : LoadPolicy(h, sso)
        \/ set_policy(h) \/ LoadConnection(h) \/ disable_connection(h)
    BY <2>10, <2>11, <2>3, <2>4, <2>5, <2>7, <2>8, <2>9
  <2> QED  BY <2>2, <2>6, <2>11 DEF AcNext
<1>2. [][Good]_acVars => RevokedStays
  BY DEF RevokedStays
<1> QED  BY <1>1, <1>2, AcInvariance, PTL DEF AcSpec

-----------------------------------------------------------------------------
(* An organization: members, invitations, keys, subscription.              *)

MemberRow == [role : OrganizationRole, status : MemberStatus]
InvitationRow == [email : Users, role : OrganizationRole \ {"OWNER"}, status : InvitationStatus, till : Nat]
APIKeyRow == [by : Users, status : APIKeyStatus, till : Nat]
SubRow == [plan : DOMAIN MaxMembers, status : SubscriptionStatus, grace : Nat, cancelling : BOOLEAN]
BillingEvent ==
    [type : {"completed", "failed", "updated", "past_due", "canceled"}, plan : DOMAIN MaxMembers \ {"free"}]
EntryOps == {"invite", "revoke_invitation", "role", "remove", "checkout", "cancel", "key", "list", "revoke_key"}

\* What a handler has in hand at each stage.
HandRec ==
    {HandIdle}
    \cup [stage : {"entered"}, op : EntryOps, by : Users, role : OrganizationRole]
    \cup [stage : {"seated", "counted"}, op : {"invite"}, by : Users, seats : Nat]
    \cup [stage : {"cleared"}, op : {"invite"}, by : Users, email : Users, role : OrganizationRole \ {"OWNER"}]
    \cup [stage : {"entered"}, op : {"accept"}, by : Users, invitation : Invitations, at : Nat]
    \cup [stage : {"keyed", "retrying"}, op : {"key"}, by : Users, role : OrganizationRole]
    \cup [stage : {"listed"}, op : {"list"}, by : Users, keys : SUBSET APIKeys]
    \cup [stage : {"loaded"}, op : {"authenticate"}, by : Users, key : APIKeys, at : Nat, row : APIKeyRow]
    \cup [stage : {"looked"}, op : {"webhook"}, by : {Nobody}, event : Nat]
    \cup [stage : {"told"}, op : {"cancel"}, by : Users, role : OrganizationRole]

MsTyped ==
    /\ org \in Orgs /\ msNow \in Nat
    /\ member \in [Users -> {NoMember} \cup MemberRow]
    /\ invitation \in [Invitations -> {NoInvitation} \cup InvitationRow]
    /\ apiKey \in [APIKeys -> {NoAPIKey} \cup APIKeyRow]
    /\ sub \in SubRow /\ plansHad \subseteq DOMAIN MaxMembers /\ sub.plan \in plansHad
    /\ subLock \in Hands \cup {Nobody}
    /\ provider \in [plan : DOMAIN MaxMembers, told : BOOLEAN]
    /\ emitted \in Seq(BillingEvent) /\ billed \subseteq DOMAIN emitted /\ applied \in Seq(Nat)
    /\ hand \in [Hands -> HandRec] /\ \A q \in Hands : hand[q].stage = "looked" => hand[q].event \in DOMAIN emitted
    /\ slipped \in Nat /\ unguarded \in Nat

\* Who holds the subscription row is between its first count and its commit.
Holding(d) == d.stage \in {"seated", "counted", "cleared", "keyed", "told"}
HeldOK == \A q \in Hands : subLock = q <=> Holding(hand[q])

\* The count in hand is short by what slipped at most, and a place that was found is free.
SeatsOK ==
    /\ \E p \in plansHad : MemberCount + PendingCount <= MaxMembers[p] + slipped
    /\ \A q \in Hands : hand[q].stage = "seated" => MemberCount <= hand[q].seats + slipped
    /\ \A q \in Hands : hand[q].stage \in {"counted", "cleared"} =>
          \E p \in plansHad : MemberCount + PendingCount + 1 <= MaxMembers[p] + slipped
KeysOK ==
    /\ \E p \in plansHad : KeyCount <= MaxKeys[p] + unguarded
    /\ \A q \in Hands : hand[q].stage = "keyed" => \E p \in plansHad : KeyCount + 1 <= MaxKeys[p] + unguarded

\* Whoever is invited, about to be invited or about to accept is no member, but for crossings.
Outside(u) == member[u].status # "ACTIVE" \/ u \in crossed
MayJoin(q) ==
    /\ hand[q].stage = "entered" /\ hand[q].op = "accept"
    /\ LET row == invitation[hand[q].invitation] IN
         row.status = "PENDING" /\ row.till > hand[q].at /\ row.email = hand[q].by
OutsideOK ==
    /\ OnePendingPerEmail
    /\ \A i \in Invitations : Pending(i) => Outside(invitation[i].email)
    /\ \A q \in Hands : hand[q].stage = "cleared" => Outside(hand[q].email)
    /\ \A q \in Hands : MayJoin(q) => Outside(hand[q].by)

\* A row that a handler has seen is there: rows are not deleted.
SeenOK == \A q \in Hands :
    /\ At(q, "entered", "accept") => invitation[hand[q].invitation] # NoInvitation
    /\ hand[q].stage = "listed" => \A k \in hand[q].keys : apiKey[k] # NoAPIKey
    /\ hand[q].stage = "loaded" => apiKey[hand[q].key] # NoAPIKey

\* Nobody can invite the owner, who is a member.
OwnerOK == org.bind =>
    /\ member[Owner] = Member("OWNER")
    /\ \A i \in Invitations : invitation[i] # NoInvitation => invitation[i].email # Owner
    /\ \A q \in Hands : hand[q].stage = "cleared" => hand[q].email # Owner

\* The plan after the first m events is that of the last one that changes it.
Changes(e) == e.type \in {"completed", "updated", "canceled"}
PlanOf(e) == IF e.type = "canceled" THEN "free" ELSE e.plan
PlanAfter(start, s, m, p) ==
    \/ \E l \in 1..m : Changes(s[l]) /\ p = PlanOf(s[l]) /\ \A j \in (l + 1)..m : ~Changes(s[j])
    \/ p = start /\ \A j \in 1..m : ~Changes(s[j])

\* Applied once, and in order what was applied last is what the provider sent last; an ending
\* was told, unless its event is under way.
Ending == sub.cancelling \/ \E q \in Hands : hand[q].stage = "told"
BilledOK ==
    /\ DOMAIN applied = DOMAIN emitted /\ \A e \in DOMAIN applied : applied[e] = IF e \in billed THEN 1 ELSE 0
    /\ PlanAfter(org.plan, emitted, Len(emitted), provider.plan)
    /\ \A m \in 0..Len(emitted) : (inOrder /\ billed = 1..m) =>
         /\ PlanAfter(org.plan, emitted, m, sub.plan)
         /\ m > 0 => (sub.status = "PAST_DUE" <=> emitted[m].type \in {"past_due", "failed"})
         /\ Ending => provider.told \/ \E e \in (m + 1)..Len(emitted) : emitted[e].type = "canceled"

MsParts == HeldOK /\ SeatsOK /\ KeysOK /\ OutsideOK /\ SeenOK /\ OwnerOK /\ KeysDieWithMembership /\ BilledOK
MsInv == MsTyped /\ MsParts

LEMMA MsFacts ==
    ASSUME MsInv
    PROVE  /\ org \in Orgs /\ msNow \in Nat /\ org.hands \subseteq Hands /\ org.actors \subseteq Users
           /\ org.roles \subseteq OrganizationRole \ {"OWNER"} /\ org.expiries \subseteq Nat
           /\ member \in [Users -> {NoMember} \cup MemberRow]
           /\ invitation \in [Invitations -> {NoInvitation} \cup InvitationRow]
           /\ apiKey \in [APIKeys -> {NoAPIKey} \cup APIKeyRow]
           /\ sub \in SubRow /\ plansHad \subseteq DOMAIN MaxMembers /\ sub.plan \in plansHad
           /\ subLock \in Hands \cup {Nobody} /\ Nobody \notin Hands
           /\ provider \in [plan : DOMAIN MaxMembers, told : BOOLEAN]
           /\ emitted \in Seq(BillingEvent) /\ billed \subseteq DOMAIN emitted /\ applied \in Seq(Nat)
           /\ hand \in [Hands -> HandRec] /\ (\A q \in Hands : hand[q] \in HandRec)
           /\ slipped \in Nat /\ unguarded \in Nat
           /\ \A p \in plansHad : MaxMembers[p] \in Nat /\ MaxKeys[p] \in Nat
<1>1. org \in Orgs
  BY DEF MsInv, MsTyped
<1>2. /\ org.hands \subseteq Hands /\ org.actors \subseteq Users
      /\ org.roles \subseteq OrganizationRole \ {"OWNER"} /\ org.expiries \subseteq Nat
  BY <1>1, OrgsAssumption
<1> QED  BY <1>1, <1>2, MembershipAssumption DEF MsInv, MsTyped, Nobody

LEMMA RowFacts ==
    /\ NoMember \notin MemberRow /\ NoMember.status = "none"
    /\ NoInvitation \notin InvitationRow /\ NoInvitation.status = "none"
    /\ NoAPIKey \notin APIKeyRow /\ NoAPIKey.status = "none"
    /\ HandIdle \in HandRec /\ HandIdle.stage = "idle"
    /\ \A r \in MemberRow : r.status \in MemberStatus /\ r.role \in OrganizationRole
    /\ \A r \in InvitationRow : /\ r.status \in InvitationStatus /\ r.role \in OrganizationRole \ {"OWNER"}
                                /\ r.email \in Users /\ r.till \in Nat
    /\ \A r \in APIKeyRow : r.status \in APIKeyStatus /\ r.by \in Users /\ r.till \in Nat
<1>1. NoMember \notin MemberRow /\ NoMember.status = "none"
  BY DEF NoMember, MemberRow
<1>2. NoInvitation \notin InvitationRow /\ NoInvitation.status = "none"
  BY DEF NoInvitation, InvitationRow
<1>3. NoAPIKey \notin APIKeyRow /\ NoAPIKey.status = "none"
  BY DEF NoAPIKey, APIKeyRow
<1>4. HandIdle \in HandRec /\ HandIdle.stage = "idle"
  BY DEF HandIdle, HandRec
<1> QED  BY <1>1, <1>2, <1>3, <1>4 DEF MemberRow, InvitationRow, APIKeyRow

LEMMA HandFacts ==
    ASSUME NEW d \in HandRec
    PROVE  /\ d = HandIdle <=> d.stage = "idle"
           /\ (d.stage = "entered" /\ d.op = "accept") => d.by \in Users /\ d.invitation \in Invitations /\ d.at \in Nat
           /\ (d.stage = "entered" /\ d.op # "accept") =>
                /\ d.by \in Users /\ d.role \in OrganizationRole
                /\ d = [stage |-> "entered", op |-> d.op, by |-> d.by, role |-> d.role]
           /\ d.stage \in {"seated", "counted"} =>
                d.by \in Users /\ d.seats \in Nat /\ d = [stage |-> d.stage, op |-> "invite", by |-> d.by, seats |-> d.seats]
           /\ d.stage = "cleared" => d.by \in Users /\ d.email \in Users /\ d.role \in OrganizationRole \ {"OWNER"}
           /\ d.stage \in {"keyed", "retrying"} =>
                d.by \in Users /\ d.role \in OrganizationRole /\ d = [stage |-> d.stage, op |-> "key", by |-> d.by, role |-> d.role]
           /\ d.stage = "listed" => d.by \in Users /\ d.keys \subseteq APIKeys
           /\ d.stage = "loaded" => d.by \in Users /\ d.key \in APIKeys /\ d.at \in Nat /\ d.row \in APIKeyRow
<1>1. CASE d = HandIdle
  BY <1>1 DEF HandIdle
<1>2. CASE d \in [stage : {"entered"}, op : EntryOps, by : Users, role : OrganizationRole]
  BY <1>2 DEF HandIdle, EntryOps
<1>3. CASE d \in [stage : {"seated", "counted"}, op : {"invite"}, by : Users, seats : Nat]
  BY <1>3 DEF HandIdle
<1>4. CASE d \in [stage : {"cleared"}, op : {"invite"}, by : Users, email : Users, role : OrganizationRole \ {"OWNER"}]
  BY <1>4 DEF HandIdle
<1>5. CASE d \in [stage : {"entered"}, op : {"accept"}, by : Users, invitation : Invitations, at : Nat]
  BY <1>5 DEF HandIdle
<1>6. CASE d \in [stage : {"keyed", "retrying"}, op : {"key"}, by : Users, role : OrganizationRole]
  BY <1>6 DEF HandIdle
<1>7. CASE d \in [stage : {"listed"}, op : {"list"}, by : Users, keys : SUBSET APIKeys]
  BY <1>7 DEF HandIdle
<1>8. CASE d \in [stage : {"loaded"}, op : {"authenticate"}, by : Users, key : APIKeys, at : Nat, row : APIKeyRow]
  BY <1>8 DEF HandIdle
<1>9. CASE d \in [stage : {"looked"}, op : {"webhook"}, by : {Nobody}, event : Nat]
  BY <1>9 DEF HandIdle
<1>10. CASE d \in [stage : {"told"}, op : {"cancel"}, by : Users, role : OrganizationRole]
  BY <1>10 DEF HandIdle
<1> QED  BY <1>1, <1>2, <1>3, <1>4, <1>5, <1>6, <1>7, <1>8, <1>9, <1>10 DEF HandRec

\* What may be counted, and by how much a count moves.
LEMMA CountBy ==
    ASSUME NEW T, IsFiniteSet(T), NEW S \in SUBSET T, NEW R \in SUBSET T
    PROVE  /\ Cardinality(S) \in Nat /\ Cardinality(R) \in Nat
           /\ R \subseteq S => Cardinality(R) <= Cardinality(S)
           /\ \A x : R \subseteq S \cup {x} => Cardinality(R) <= Cardinality(S) + 1
           /\ \A x \in S : R \subseteq S \ {x} => Cardinality(R) + 1 <= Cardinality(S)
<1>1. /\ IsFiniteSet(S) /\ IsFiniteSet(R) /\ Cardinality(S) \in Nat /\ Cardinality(R) \in Nat
  BY FS_Subset, FS_CardinalityType
<1>2. R \subseteq S => Cardinality(R) <= Cardinality(S)
  BY <1>1, FS_Subset
<1>3. \A x : R \subseteq S \cup {x} => Cardinality(R) <= Cardinality(S) + 1
  <2> SUFFICES ASSUME NEW x, R \subseteq S \cup {x}  PROVE Cardinality(R) <= Cardinality(S) + 1
    OBVIOUS
  <2>1. /\ IsFiniteSet(S \cup {x})
        /\ Cardinality(S \cup {x}) = IF x \in S THEN Cardinality(S) ELSE Cardinality(S) + 1
    BY <1>1, FS_AddElement
  <2>2. Cardinality(R) <= Cardinality(S \cup {x})
    BY <2>1, FS_Subset
  <2> QED  BY <1>1, <2>1, <2>2
<1>4. \A x \in S : R \subseteq S \ {x} => Cardinality(R) + 1 <= Cardinality(S)
  <2> SUFFICES ASSUME NEW x \in S, R \subseteq S \ {x}  PROVE Cardinality(R) + 1 <= Cardinality(S)
    OBVIOUS
  <2>1. /\ IsFiniteSet(S \ {x}) /\ Cardinality(S \ {x}) = Cardinality(S) - 1
    BY <1>1, FS_RemoveElement
  <2>2. Cardinality(R) <= Cardinality(S \ {x})
    BY <2>1, FS_Subset
  <2> QED  BY <1>1, <2>1, <2>2
<1> QED  BY <1>1, <1>2, <1>3, <1>4

\* Arithmetic of an acceptance: the seats taken move by no more than the excuses
\* do, so what fitted the plan before still fits it, with one more asked for too.
LEMMA StillFits ==
  \A old, now, seats, s, t \in Nat : now + s <= old + t /\ old <= seats + s => now <= seats + t
BY SMT
LEMMA StillFitsOneMore ==
  \A old, now, seats, s, t \in Nat :
    now + s <= old + t /\ old + 1 <= seats + s => now + 1 <= seats + t
BY SMT

LEMMA Counts == MemberCount \in Nat /\ PendingCount \in Nat /\ KeyCount \in Nat
<1>1. MemberCount \in Nat
  BY CountBy, MembershipAssumption DEF MemberCount
<1>2. PendingCount \in Nat
  BY CountBy, MembershipAssumption DEF PendingCount
<1>3. KeyCount \in Nat
  BY CountBy, MembershipAssumption DEF KeyCount
<1> QED  BY <1>1, <1>2, <1>3

LEMMA MembersMove ==
    /\ MemberCount' \in Nat
    /\ (\A u \in Users : (member'[u].status = "ACTIVE" /\ member'[u].role # "OWNER") =>
                         (member[u].status = "ACTIVE" /\ member[u].role # "OWNER")) => MemberCount' <= MemberCount
    /\ \A v \in Users : (\A u \in Users \ {v} : member'[u] = member[u]) => MemberCount' <= MemberCount + 1
<1> DEFINE S == {u \in Users : member[u].status = "ACTIVE" /\ member[u].role # "OWNER"}
           R == {u \in Users : member'[u].status = "ACTIVE" /\ member'[u].role # "OWNER"}
<1>1. MemberCount = Cardinality(S) /\ MemberCount' = Cardinality(R)
  BY DEF MemberCount
<1>2. /\ Cardinality(S) \in Nat /\ Cardinality(R) \in Nat
      /\ R \subseteq S => Cardinality(R) <= Cardinality(S)
      /\ \A x : R \subseteq S \cup {x} => Cardinality(R) <= Cardinality(S) + 1
  <2>1. S \in SUBSET Users /\ R \in SUBSET Users /\ IsFiniteSet(Users)
    BY MembershipAssumption
  <2> HIDE DEF S, R
  <2> QED  BY <2>1, CountBy
<1>3. ASSUME NEW v \in Users, \A u \in Users \ {v} : member'[u] = member[u]
      PROVE  R \subseteq S \cup {v}
  BY <1>3
<1> QED  BY <1>1, <1>2, <1>3

LEMMA PendingMove ==
    ASSUME MsInv, msNow' \in Nat, msNow <= msNow', invitation' \in [Invitations -> {NoInvitation} \cup InvitationRow]
    PROVE  /\ PendingCount' \in Nat
           /\ (\A i \in Invitations : invitation'[i].status = "PENDING" => invitation'[i] = invitation[i]) =>
                 PendingCount' <= PendingCount
           /\ \A j \in Invitations :
                (\A i \in Invitations \ {j} : invitation'[i].status = "PENDING" => invitation'[i] = invitation[i]) =>
                   PendingCount' <= PendingCount + 1
           /\ \A j \in Invitations :
                (/\ \A i \in Invitations : invitation'[i].status = "PENDING" => invitation'[i] = invitation[i]
                 /\ Pending(j) /\ invitation'[j].status # "PENDING") => PendingCount' + 1 <= PendingCount
<1> DEFINE S == {i \in Invitations : Pending(i)}
           R == {i \in Invitations : invitation'[i].status = "PENDING" /\ invitation'[i].till > msNow'}
<1>1. PendingCount = Cardinality(S) /\ PendingCount' = Cardinality(R)
  BY DEF PendingCount, Pending
<1>2. /\ Cardinality(S) \in Nat /\ Cardinality(R) \in Nat
      /\ R \subseteq S => Cardinality(R) <= Cardinality(S)
      /\ \A x : R \subseteq S \cup {x} => Cardinality(R) <= Cardinality(S) + 1
      /\ \A x \in S : R \subseteq S \ {x} => Cardinality(R) + 1 <= Cardinality(S)
  <2>1. S \in SUBSET Invitations /\ R \in SUBSET Invitations /\ IsFiniteSet(Invitations)
    BY MembershipAssumption
  <2> HIDE DEF S, R
  <2> QED  BY <2>1, CountBy
<1>3. \A i \in Invitations : (invitation'[i] = invitation[i] /\ i \in R) => i \in S
  <2> SUFFICES ASSUME NEW i \in Invitations, invitation'[i] = invitation[i], i \in R  PROVE Pending(i)
    OBVIOUS
  <2>1. invitation[i] \in InvitationRow
    BY MsFacts, RowFacts
  <2>2. invitation[i].till \in Nat /\ msNow \in Nat
    BY <2>1, MsFacts, RowFacts
  <2> QED  BY <2>2 DEF Pending
<1>4. (\A i \in Invitations : invitation'[i].status = "PENDING" => invitation'[i] = invitation[i]) => R \subseteq S
  BY <1>3
<1>5. ASSUME NEW j \in Invitations,
             \A i \in Invitations \ {j} : invitation'[i].status = "PENDING" => invitation'[i] = invitation[i]
      PROVE  R \subseteq S \cup {j}
  BY <1>3, <1>5
<1>6. ASSUME NEW j \in Invitations,
             \A i \in Invitations : invitation'[i].status = "PENDING" => invitation'[i] = invitation[i],
             Pending(j), invitation'[j].status # "PENDING"
      PROVE  j \in S /\ R \subseteq S \ {j}
  BY <1>3, <1>6
<1> HIDE DEF S, R
<1> QED  BY <1>1, <1>2, <1>4, <1>5, <1>6

LEMMA KeysMove ==
    /\ KeyCount' \in Nat
    /\ (\A k \in APIKeys : apiKey'[k].status = "ACTIVE" => apiKey[k].status = "ACTIVE") => KeyCount' <= KeyCount
    /\ \A l \in APIKeys : (\A k \in APIKeys \ {l} : apiKey'[k] = apiKey[k]) => KeyCount' <= KeyCount + 1
<1> DEFINE S == {k \in APIKeys : apiKey[k].status = "ACTIVE"}
           R == {k \in APIKeys : apiKey'[k].status = "ACTIVE"}
<1>1. KeyCount = Cardinality(S) /\ KeyCount' = Cardinality(R)
  BY DEF KeyCount
<1>2. /\ Cardinality(S) \in Nat /\ Cardinality(R) \in Nat
      /\ R \subseteq S => Cardinality(R) <= Cardinality(S)
      /\ \A x : R \subseteq S \cup {x} => Cardinality(R) <= Cardinality(S) + 1
  <2>1. S \in SUBSET APIKeys /\ R \in SUBSET APIKeys /\ IsFiniteSet(APIKeys)
    BY MembershipAssumption
  <2> HIDE DEF S, R
  <2> QED  BY <2>1, CountBy
<1>3. ASSUME NEW l \in APIKeys, \A k \in APIKeys \ {l} : apiKey'[k] = apiKey[k]
      PROVE  R \subseteq S \cup {l}
  BY <1>3
<1> QED  BY <1>1, <1>2, <1>3

\* The lock is left, given up or taken by worker h alone.
LEMMA HeldStep ==
    ASSUME MsInv, NEW h \in Hands, \A q \in Hands : q # h => hand'[q] = hand[q],
           \/ UNCHANGED subLock /\ (Holding(hand'[h]) <=> Holding(hand[h]))
           \/ subLock' = (IF subLock = h THEN Nobody ELSE subLock) /\ ~Holding(hand'[h])
           \/ subLock = Nobody /\ subLock' = h /\ Holding(hand'[h])
    PROVE  HeldOK' /\ subLock' \in Hands \cup {Nobody}
<1>1. \A q \in Hands : subLock = q <=> Holding(hand[q])
  BY DEF MsInv, MsParts, HeldOK
<1>2. Nobody \notin Hands /\ subLock \in Hands \cup {Nobody}
  BY MsFacts
<1>3. CASE UNCHANGED subLock /\ (Holding(hand'[h]) <=> Holding(hand[h]))
  <2>1. \A q \in Hands : subLock' = q <=> Holding(hand'[q])
    BY <1>1, <1>3
  <2> QED  BY <1>2, <1>3, <2>1 DEF HeldOK, Holding
<1>4. CASE subLock' = (IF subLock = h THEN Nobody ELSE subLock) /\ ~Holding(hand'[h])
  <2>1. \A q \in Hands : subLock' = q <=> Holding(hand'[q])
    BY <1>1, <1>2, <1>4
  <2> QED  BY <1>2, <1>4, <2>1 DEF HeldOK, Holding
<1>5. CASE subLock = Nobody /\ subLock' = h /\ Holding(hand'[h])
  <2>1. \A q \in Hands : subLock' = q <=> Holding(hand'[q])
    BY <1>1, <1>2, <1>5
  <2> QED  BY <1>5, <2>1 DEF HeldOK, Holding
<1> QED  BY <1>3, <1>4, <1>5

\* Fewer seats taken, fewer keys.
LEMMA SeatsKept ==
    ASSUME MsInv, NEW h, \A q \in Hands : q # h => hand'[q] = hand[q], plansHad \subseteq plansHad', UNCHANGED slipped,
           MemberCount' \in Nat, MemberCount' <= MemberCount, PendingCount' \in Nat, PendingCount' <= PendingCount,
           h \in Hands => /\ hand'[h].stage # "seated"
                          /\ hand'[h].stage \in {"counted", "cleared"} => hand[h].stage \in {"counted", "cleared"}
    PROVE  SeatsOK'
<1>1. MemberCount \in Nat /\ PendingCount \in Nat /\ slipped \in Nat /\ \A p \in plansHad : MaxMembers[p] \in Nat
  BY Counts, MsFacts
<1>2. \E p \in plansHad' : MemberCount' + PendingCount' <= MaxMembers[p] + slipped'
  <2>1. PICK p \in plansHad : MemberCount + PendingCount <= MaxMembers[p] + slipped
    BY DEF MsInv, MsParts, SeatsOK
  <2>2. MaxMembers[p] \in Nat
    BY <1>1
  <2>3. MemberCount' + PendingCount' <= MaxMembers[p] + slipped'
    BY <1>1, <2>1, <2>2
  <2> QED  BY <2>3
<1>3. ASSUME NEW q \in Hands, hand'[q].stage = "seated"  PROVE MemberCount' <= hand'[q].seats + slipped'
  <2>1. q # h /\ hand'[q] = hand[q]
    BY <1>3
  <2>2. MemberCount <= hand[q].seats + slipped /\ hand[q].seats \in Nat
    BY <1>3, <2>1, MsFacts, HandFacts DEF MsInv, MsParts, SeatsOK
  <2> QED  BY <1>1, <2>1, <2>2
<1>4. ASSUME NEW q \in Hands, hand'[q].stage \in {"counted", "cleared"}
      PROVE  \E p \in plansHad' : MemberCount' + PendingCount' + 1 <= MaxMembers[p] + slipped'
  <2>1. hand[q].stage \in {"counted", "cleared"}
    BY <1>4
  <2>2. PICK p \in plansHad : MemberCount + PendingCount + 1 <= MaxMembers[p] + slipped
    BY <2>1 DEF MsInv, MsParts, SeatsOK
  <2>3. MaxMembers[p] \in Nat
    BY <1>1
  <2>4. MemberCount' + PendingCount' + 1 <= MaxMembers[p] + slipped'
    BY <1>1, <2>2, <2>3
  <2> QED  BY <2>4
<1> QED  BY <1>2, <1>3, <1>4 DEF SeatsOK

LEMMA KeysKept ==
    ASSUME MsInv, NEW h, \A q \in Hands : q # h => hand'[q] = hand[q], plansHad \subseteq plansHad', UNCHANGED unguarded,
           KeyCount' \in Nat, KeyCount' <= KeyCount, h \in Hands => hand'[h].stage # "keyed"
    PROVE  KeysOK'
<1>1. KeyCount \in Nat /\ unguarded \in Nat /\ \A p \in plansHad : MaxKeys[p] \in Nat
  BY Counts, MsFacts
<1>2. \E p \in plansHad' : KeyCount' <= MaxKeys[p] + unguarded'
  <2>1. PICK p \in plansHad : KeyCount <= MaxKeys[p] + unguarded
    BY DEF MsInv, MsParts, KeysOK
  <2>2. MaxKeys[p] \in Nat
    BY <1>1
  <2>3. KeyCount' <= MaxKeys[p] + unguarded'
    BY <1>1, <2>1, <2>2
  <2> QED  BY <2>3
<1>3. ASSUME NEW q \in Hands, hand'[q].stage = "keyed"
      PROVE  \E p \in plansHad' : KeyCount' + 1 <= MaxKeys[p] + unguarded'
  <2>1. hand[q].stage = "keyed"
    BY <1>3
  <2>2. PICK p \in plansHad : KeyCount + 1 <= MaxKeys[p] + unguarded
    BY <2>1 DEF MsInv, MsParts, KeysOK
  <2>3. MaxKeys[p] \in Nat
    BY <1>1
  <2>4. KeyCount' + 1 <= MaxKeys[p] + unguarded'
    BY <1>1, <2>2, <2>3
  <2> QED  BY <2>4
<1> QED  BY <1>2, <1>3 DEF KeysOK

\* Invitations that are open now were open before, as they are.
LEMMA PendingStays ==
    ASSUME MsInv, msNow' \in Nat, msNow <= msNow', NEW i \in Invitations, Pending(i)', invitation'[i] = invitation[i]
    PROVE  Pending(i)
<1>1. invitation[i].status = "PENDING" /\ invitation[i].till > msNow'
  BY DEF Pending
<1>2. invitation[i] \in InvitationRow
  BY <1>1, MsFacts, RowFacts
<1>3. invitation[i].till \in Nat /\ msNow \in Nat
  BY <1>2, MsFacts, RowFacts
<1> QED  BY <1>1, <1>3 DEF Pending

\* The keys that are at work after a step, by whom they belong to.
LEMMA KeysDie ==
    ASSUME apiKey' \in [APIKeys -> {NoAPIKey} \cup APIKeyRow],
           \A k \in APIKeys : \A v \in Users :
              (org'.bind /\ k \notin orphaned' /\ apiKey'[k].status = "ACTIVE" /\ apiKey'[k].by = v) =>
                RoleOf(v)' \in Capable("key") \/ v \in crossed'
    PROVE  KeysDieWithMembership'
<1>1. \A k \in APIKeys : apiKey'[k].status = "ACTIVE" => apiKey'[k].by \in Users
  BY RowFacts
<1> QED  BY <1>1 DEF KeysDieWithMembership, RoleOf

\* What a step of session h leaves alone keeps its part of the invariant.
LEMMA MsKept ==
    ASSUME MsInv, NEW h, \A q \in Hands : q # h => hand'[q] = hand[q], UNCHANGED org, msNow' \in Nat, msNow <= msNow',
           plansHad \subseteq plansHad', crossed \subseteq crossed', orphaned \subseteq orphaned'
    PROVE  /\ (/\ UNCHANGED <<member, invitation, slipped>>
               /\ h \in Hands => /\ hand'[h].stage # "seated"
                                 /\ hand'[h].stage \in {"counted", "cleared"} => hand[h].stage \in {"counted", "cleared"})
                 => SeatsOK'
           /\ (UNCHANGED <<apiKey, unguarded>> /\ (h \in Hands => hand'[h].stage # "keyed")) => KeysOK'
           /\ (/\ UNCHANGED <<member, invitation>>
               /\ h \in Hands => hand'[h].stage \notin {"cleared", "entered"} \/ (hand'[h].stage = "entered" /\ hand'[h].op # "accept"))
                 => OutsideOK'
           /\ (/\ \A i \in Invitations : invitation[i] # NoInvitation => invitation'[i] # NoInvitation
               /\ \A k \in APIKeys : apiKey[k] # NoAPIKey => apiKey'[k] # NoAPIKey
               /\ h \in Hands => /\ hand'[h].stage # "entered" \/ hand'[h].op # "accept"
                                 /\ hand'[h].stage \notin {"listed", "loaded"})
                 => SeenOK'
           /\ (UNCHANGED <<member, invitation>> /\ (h \in Hands => hand'[h].stage # "cleared")) => OwnerOK'
           /\ UNCHANGED <<member, apiKey>> => KeysDieWithMembership'
           /\ (UNCHANGED <<sub, billed, provider, emitted, applied, inOrder>> /\ (h \in Hands => hand'[h].stage # "told"))
                 => BilledOK'
<1>1. ASSUME UNCHANGED <<member, invitation, slipped>>,
             h \in Hands => /\ hand'[h].stage # "seated"
                            /\ hand'[h].stage \in {"counted", "cleared"} => hand[h].stage \in {"counted", "cleared"}
      PROVE  SeatsOK'
  <2>1. MemberCount' \in Nat /\ MemberCount' <= MemberCount
    BY <1>1, MembersMove
  <2>2. invitation' \in [Invitations -> {NoInvitation} \cup InvitationRow]
    BY <1>1, MsFacts
  <2>3. PendingCount' \in Nat /\ PendingCount' <= PendingCount
    BY <1>1, <2>2, PendingMove
  <2> QED  BY <1>1, <2>1, <2>3, SeatsKept
<1>2. ASSUME UNCHANGED <<apiKey, unguarded>>, h \in Hands => hand'[h].stage # "keyed"
      PROVE  KeysOK'
  <2>1. KeyCount' \in Nat /\ KeyCount' <= KeyCount
    BY <1>2, KeysMove
  <2> QED  BY <1>2, <2>1, KeysKept
<1>3. ASSUME UNCHANGED <<member, invitation>>,
             h \in Hands => hand'[h].stage \notin {"cleared", "entered"} \/ (hand'[h].stage = "entered" /\ hand'[h].op # "accept")
      PROVE  OutsideOK'
  <2>1. \A i \in Invitations : Pending(i)' => Pending(i)
    BY <1>3, PendingStays
  <2>2. \A u : (member[u].status # "ACTIVE" \/ u \in crossed) => (member'[u].status # "ACTIVE" \/ u \in crossed')
    BY <1>3
  <2>3. \A q \in Hands : MayJoin(q)' => MayJoin(q) /\ hand'[q] = hand[q]
    BY <1>3 DEF MayJoin
  <2>4. \A q \in Hands : hand'[q].stage = "cleared" => hand[q].stage = "cleared" /\ hand'[q] = hand[q]
    BY <1>3
  <2>5. OnePendingPerEmail'
    BY <1>3, <2>1 DEF MsInv, MsParts, OutsideOK, OnePendingPerEmail
  <2>6. \A i \in Invitations : Pending(i)' =>
          member'[invitation'[i].email].status # "ACTIVE" \/ invitation'[i].email \in crossed'
    BY <1>3, <2>1, <2>2 DEF MsInv, MsParts, OutsideOK, Outside
  <2>7. \A q \in Hands : hand'[q].stage = "cleared" =>
          member'[hand'[q].email].status # "ACTIVE" \/ hand'[q].email \in crossed'
    BY <2>2, <2>4 DEF MsInv, MsParts, OutsideOK, Outside
  <2>8. \A q \in Hands : MayJoin(q)' => member'[hand'[q].by].status # "ACTIVE" \/ hand'[q].by \in crossed'
    BY <2>2, <2>3 DEF MsInv, MsParts, OutsideOK, Outside
  <2> QED  BY <2>5, <2>6, <2>7, <2>8 DEF OutsideOK, Outside
<1>4. ASSUME UNCHANGED <<member, invitation>>, h \in Hands => hand'[h].stage # "cleared"
      PROVE  OwnerOK'
  BY <1>4 DEF MsInv, MsParts, OwnerOK
<1>5. ASSUME UNCHANGED <<member, apiKey>>  PROVE KeysDieWithMembership'
  BY <1>5 DEF MsInv, MsParts, KeysDieWithMembership, RoleOf
<1>6. ASSUME UNCHANGED <<sub, billed, provider, emitted, applied, inOrder>>, h \in Hands => hand'[h].stage # "told"
      PROVE  BilledOK'
  <2>1. Ending' => Ending
    BY <1>6 DEF Ending
  <2> QED  BY <1>6, <2>1 DEF MsInv, MsParts, BilledOK
<1>7. ASSUME \A i \in Invitations : invitation[i] # NoInvitation => invitation'[i] # NoInvitation,
             \A k \in APIKeys : apiKey[k] # NoAPIKey => apiKey'[k] # NoAPIKey,
             h \in Hands => /\ hand'[h].stage # "entered" \/ hand'[h].op # "accept"
                            /\ hand'[h].stage \notin {"listed", "loaded"}
      PROVE  SeenOK'
  <2>1. ASSUME NEW q \in Hands, At(q, "entered", "accept")'
        PROVE  invitation'[hand'[q].invitation] # NoInvitation
    <3>1. hand'[q] = hand[q] /\ At(q, "entered", "accept")
      BY <1>7, <2>1 DEF At
    <3>2. hand[q].invitation \in Invitations
      BY <3>1, MsFacts, HandFacts DEF At
    <3> QED  BY <1>7, <3>1, <3>2 DEF MsInv, MsParts, SeenOK
  <2>2. ASSUME NEW q \in Hands, hand'[q].stage = "listed", NEW k \in hand'[q].keys
        PROVE  apiKey'[k] # NoAPIKey
    <3>1. hand'[q] = hand[q]
      BY <1>7, <2>2
    <3>2. k \in APIKeys
      BY <2>2, <3>1, MsFacts, HandFacts
    <3> QED  BY <1>7, <2>2, <3>1, <3>2 DEF MsInv, MsParts, SeenOK
  <2>3. ASSUME NEW q \in Hands, hand'[q].stage = "loaded"
        PROVE  apiKey'[hand'[q].key] # NoAPIKey
    <3>1. hand'[q] = hand[q]
      BY <1>7, <2>3
    <3>2. hand[q].key \in APIKeys
      BY <2>3, <3>1, MsFacts, HandFacts
    <3> QED  BY <1>7, <2>3, <3>1, <3>2 DEF MsInv, MsParts, SeenOK
  <2> QED  BY <2>1, <2>2, <2>3 DEF SeenOK
<1> QED  BY <1>1, <1>2, <1>3, <1>4, <1>5, <1>6, <1>7


LEMMA HandStep ==
    ASSUME MsInv, NEW h \in Hands, NEW d \in HandRec, hand' = [hand EXCEPT ![h] = d],
           d.stage = "looked" => d.event \in DOMAIN emitted, DOMAIN emitted \subseteq DOMAIN emitted'
    PROVE  /\ hand' \in [Hands -> HandRec] /\ hand'[h] = d /\ \A q \in Hands : q # h => hand'[q] = hand[q]
           /\ \A q \in Hands : hand'[q].stage = "looked" => hand'[q].event \in DOMAIN emitted'
<1>1. /\ hand' \in [Hands -> HandRec] /\ hand'[h] = d /\ \A q \in Hands : q # h => hand'[q] = hand[q]
  BY MsFacts
<1>2. \A q \in Hands : hand[q].stage = "looked" => hand[q].event \in DOMAIN emitted
  BY DEF MsInv, MsTyped
<1> QED  BY <1>1, <1>2

\* A step that writes no row: only what the new stage promises is to be shown.
LEMMA MsHand ==
    ASSUME MsInv, NEW h \in Hands, NEW d \in HandRec, hand' = [hand EXCEPT ![h] = d],
           d.stage = "looked" => d.event \in DOMAIN emitted,
           UNCHANGED <<fixed, memberVars, keyVars, sub, billed, provider, emitted, plansHad, applied, inOrder>>,
           \/ UNCHANGED subLock /\ (Holding(d) <=> Holding(hand[h]))
           \/ subLock' = (IF subLock = h THEN Nobody ELSE subLock) /\ ~Holding(d)
           \/ subLock = Nobody /\ subLock' = h /\ Holding(d),
           d.stage = "seated" => SeatsOK',
           d.stage \in {"counted", "cleared"} => hand[h].stage \in {"counted", "cleared"} \/ SeatsOK',
           d.stage = "keyed" => KeysOK',
           (d.stage = "cleared" \/ (d.stage = "entered" /\ d.op = "accept")) => OutsideOK',
           (d.stage \in {"listed", "loaded"} \/ (d.stage = "entered" /\ d.op = "accept")) => SeenOK',
           d.stage = "cleared" => OwnerOK',
           d.stage = "told" => BilledOK'
    PROVE  MsInv'
<1> USE DEF fixed, memberVars, keyVars
<1>1. /\ hand' \in [Hands -> HandRec] /\ hand'[h] = d /\ \A q \in Hands : q # h => hand'[q] = hand[q]
      /\ \A q \in Hands : hand'[q].stage = "looked" => hand'[q].event \in DOMAIN emitted'
  BY HandStep
<1>2. HeldOK' /\ subLock' \in Hands \cup {Nobody}
  BY <1>1, HeldStep
<1>3. MsTyped'
  BY <1>1, <1>2, MsFacts DEF MsTyped
<1>4. msNow' \in Nat /\ msNow <= msNow'
  BY MsFacts
<1>5. SeatsOK'
  <2>1. CASE d.stage = "seated" \/ SeatsOK'
    BY <2>1
  <2>2. CASE ~(d.stage = "seated" \/ SeatsOK')
    <3>1. hand'[h].stage # "seated" /\ (hand'[h].stage \in {"counted", "cleared"} => hand[h].stage \in {"counted", "cleared"})
      BY <1>1, <2>2
    <3> QED  BY <1>1, <1>4, <3>1, MsKept
  <2> QED  BY <2>1, <2>2
<1>6. KeysOK'
  BY <1>1, <1>4, MsKept
<1>7. OutsideOK'
  BY <1>1, <1>4, MsKept
<1>8. OwnerOK'
  BY <1>1, <1>4, MsKept
<1>9. KeysDieWithMembership'
  BY <1>1, <1>4, MsKept
<1>10. BilledOK'
  BY <1>1, <1>4, MsKept
<1>11. SeenOK'
  BY <1>1, <1>4, MsKept
<1> QED  BY <1>2, <1>3, <1>5, <1>6, <1>7, <1>8, <1>9, <1>10, <1>11 DEF MsInv, MsParts

LEMMA CapableFacts ==
    ASSUME NEW op
    PROVE  /\ \A r \in Capable(op) : op \in EntryOps /\ r \in OrganizationRole
           /\ Capable("key") = {"OWNER", "ADMIN", "DEVELOPER"}
<1>1. CASE op \in {"invite", "revoke_invitation", "role", "remove", "checkout"}
  BY <1>1 DEF Capable, EntryOps, OrganizationRole
<1>2. CASE op = "cancel"
  BY <1>2 DEF Capable, EntryOps, OrganizationRole
<1>3. CASE op \in {"key", "list", "revoke_key"}
  BY <1>3 DEF Capable, EntryOps, OrganizationRole
<1>4. CASE op \notin {"invite", "revoke_invitation", "role", "remove", "checkout", "cancel", "key", "list", "revoke_key"}
  BY <1>4 DEF Capable
<1>5. Capable("key") = {"OWNER", "ADMIN", "DEVELOPER"}
  BY DEF Capable
<1> QED  BY <1>1, <1>2, <1>3, <1>4, <1>5

\* Requests that come, and handlers that end without a trace or only load.
LEMMA MsIdle ==
    ASSUME MsInv, NEW h \in Hands, Done(h),
           UNCHANGED <<fixed, memberVars, keyVars, sub, billed, provider, emitted, plansHad, applied, inOrder>>,
           Release(h) \/ (UNCHANGED subLock /\ ~Holding(hand[h]))
    PROVE  MsInv'
<1>1. HandIdle \in HandRec /\ HandIdle.stage = "idle" /\ ~Holding(HandIdle) /\ hand' = [hand EXCEPT ![h] = HandIdle]
  BY RowFacts DEF Done, Holding
<1>2. \/ UNCHANGED subLock /\ (Holding(HandIdle) <=> Holding(hand[h]))
      \/ subLock' = (IF subLock = h THEN Nobody ELSE subLock) /\ ~Holding(HandIdle)
  BY <1>1 DEF Release
<1> QED  BY <1>1, <1>2, MsHand

LEMMA MsCrash ==
    ASSUME MsInv, NEW h \in Hands, CrashHand(h)
    PROVE  MsInv'
BY MsIdle DEF CrashHand, billVars

LEMMA MsEnter ==
    ASSUME MsInv, NEW h \in Hands, NEW u \in Users, NEW op, Enter(h, u, op)
    PROVE  MsInv'
<1>1. PICK d : d = [stage |-> "entered", op |-> op, by |-> u, role |-> RoleOf(u)]
  OBVIOUS
<1>2. op \in EntryOps /\ RoleOf(u) \in OrganizationRole
  BY CapableFacts DEF Enter
<1>3. d \in HandRec /\ d.stage = "entered" /\ d.op # "accept"
  BY <1>1, <1>2 DEF HandRec, EntryOps
<1>4. ~Holding(d) /\ ~Holding(hand[h])
  BY <1>3, RowFacts DEF Enter, Free, Holding
<1>5. hand' = [hand EXCEPT ![h] = d]
  BY <1>1 DEF Enter
<1> QED  BY <1>3, <1>4, <1>5, MsHand DEF Enter, billVars

LEMMA MsBeginAccept ==
    ASSUME MsInv, NEW h \in Hands, NEW u \in Users, NEW i \in Invitations, BeginAccept(h, u, i)
    PROVE  MsInv'
<1>1. PICK d : d = [stage |-> "entered", op |-> "accept", by |-> u, invitation |-> i, at |-> msNow]
  OBVIOUS
<1>2. d \in HandRec /\ d.stage = "entered" /\ d.by = u /\ d.invitation = i /\ d.at = msNow
  BY <1>1, MsFacts DEF HandRec
<1>3. ~Holding(d) /\ ~Holding(hand[h])
  BY <1>2, RowFacts DEF BeginAccept, Free, Holding
<1>4. hand' = [hand EXCEPT ![h] = d]
  BY <1>1 DEF BeginAccept
<1>5. hand'[h] = d /\ \A q \in Hands : q # h => hand'[q] = hand[q]
  BY <1>2, <1>4, HandStep DEF BeginAccept, billVars
<1>6. UNCHANGED <<member, invitation, crossed, msNow>>
  BY DEF BeginAccept, fixed, memberVars
<1>7. OutsideOK'
  <2>1. OnePendingPerEmail'
    BY <1>6 DEF MsInv, MsParts, OutsideOK, OnePendingPerEmail, Pending
  <2>2. \A j \in Invitations : Pending(j)' => member'[invitation'[j].email].status # "ACTIVE" \/ invitation'[j].email \in crossed'
    BY <1>6 DEF MsInv, MsParts, OutsideOK, Outside, Pending
  <2>3. \A q \in Hands : hand'[q].stage = "cleared" => member'[hand'[q].email].status # "ACTIVE" \/ hand'[q].email \in crossed'
    BY <1>2, <1>5, <1>6 DEF MsInv, MsParts, OutsideOK, Outside
  <2>4. ASSUME NEW q \in Hands, MayJoin(q)'
        PROVE  member'[hand'[q].by].status # "ACTIVE" \/ hand'[q].by \in crossed'
    <3>1. CASE q = h
      <4>1. Pending(i) /\ invitation[i].email = u
        BY <1>2, <1>5, <1>6, <2>4, <3>1 DEF MayJoin, Pending
      <4> QED  BY <1>2, <1>5, <1>6, <3>1, <4>1 DEF MsInv, MsParts, OutsideOK, Outside
    <3>2. CASE q # h
      <4>1. MayJoin(q)
        BY <1>5, <1>6, <2>4, <3>2 DEF MayJoin
      <4> QED  BY <1>5, <1>6, <3>2, <4>1 DEF MsInv, MsParts, OutsideOK, Outside
    <3> QED  BY <3>1, <3>2
  <2> QED  BY <2>1, <2>2, <2>3, <2>4 DEF OutsideOK, Outside
<1>8. SeenOK'
  BY <1>2, <1>5, <1>6 DEF BeginAccept, keyVars, MsInv, MsParts, SeenOK, At
<1> QED  BY <1>2, <1>3, <1>4, <1>7, <1>8, MsHand DEF BeginAccept, billVars

LEMMA MsLoad ==
    ASSUME MsInv, NEW h \in Hands
    PROVE  /\ LoadKeys(h) => MsInv'
           /\ \A k \in APIKeys : LoadKey(h, k) => MsInv'
           /\ \A e \in DOMAIN emitted : LookupEvent(h, e) => MsInv'
<1>1. ASSUME LoadKeys(h)  PROVE MsInv'
  <2>1. PICK d : d = [stage |-> "listed", op |-> "list", by |-> hand[h].by,
                      keys |-> {k \in APIKeys : Visible(h, k) /\ apiKey[k].status = "ACTIVE" /\ apiKey[k].till <= msNow}]
    OBVIOUS
  <2>2. hand[h].by \in Users /\ ~Holding(hand[h])
    BY <1>1, MsFacts, HandFacts DEF LoadKeys, At, Holding
  <2>3. d \in HandRec /\ d.stage = "listed" /\ ~Holding(d)
    BY <2>1, <2>2 DEF HandRec, Holding
  <2>4. hand' = [hand EXCEPT ![h] = d] /\ UNCHANGED <<invitation, apiKey, emitted>>
    BY <1>1, <2>1 DEF LoadKeys, memberVars, keyVars, billVars
  <2>5. hand'[h] = d /\ \A q \in Hands : q # h => hand'[q] = hand[q]
    BY <2>3, <2>4, HandStep
  <2>6. \A k \in d.keys : apiKey[k] # NoAPIKey
    BY <2>1, RowFacts
  <2>7. SeenOK'
    BY <2>3, <2>4, <2>5, <2>6 DEF MsInv, MsParts, SeenOK, At
  <2> QED  BY <1>1, <2>2, <2>3, <2>4, <2>7, MsHand DEF LoadKeys, billVars
<1>2. ASSUME NEW k \in APIKeys, LoadKey(h, k)  PROVE MsInv'
  <2>1. PICK d : d = [stage |-> "loaded", op |-> "authenticate", by |-> apiKey[k].by, key |-> k, at |-> msNow, row |-> apiKey[k]]
    OBVIOUS
  <2>2. apiKey[k] \in APIKeyRow /\ apiKey[k].by \in Users /\ msNow \in Nat
    BY <1>2, MsFacts, RowFacts DEF LoadKey
  <2>3. d \in HandRec /\ d.stage = "loaded" /\ ~Holding(d)
    BY <2>1, <2>2 DEF HandRec, Holding
  <2>4. hand' = [hand EXCEPT ![h] = d] /\ ~Holding(hand[h])
    BY <1>2, <2>1, RowFacts DEF LoadKey, Free, Holding
  <2>5. UNCHANGED <<invitation, apiKey, emitted>>
    BY <1>2 DEF LoadKey, memberVars, keyVars, billVars
  <2>6. hand'[h] = d /\ \A q \in Hands : q # h => hand'[q] = hand[q]
    BY <2>3, <2>4, <2>5, HandStep
  <2>7. SeenOK'
    BY <1>2, <2>1, <2>3, <2>5, <2>6, RowFacts DEF LoadKey, MsInv, MsParts, SeenOK, At
  <2> QED  BY <1>2, <2>3, <2>4, <2>7, MsHand DEF LoadKey, billVars
<1>3. ASSUME NEW e \in DOMAIN emitted, LookupEvent(h, e)  PROVE MsInv'
  <2>1. PICK d : d = [stage |-> "looked", op |-> "webhook", by |-> Nobody, event |-> e]
    OBVIOUS
  <2>2. e \in Nat
    BY MsFacts, LenProperties
  <2>3. d \in HandRec /\ d.stage = "looked" /\ d.event = e /\ ~Holding(d)
    BY <2>1, <2>2 DEF HandRec, Holding
  <2>4. hand' = [hand EXCEPT ![h] = d] /\ ~Holding(hand[h])
    BY <1>3, <2>1, RowFacts DEF LookupEvent, Free, Holding
  <2> QED  BY <1>3, <2>3, <2>4, MsHand DEF LookupEvent, billVars
<1> QED  BY <1>1, <1>2, <1>3

LEMMA MsCheckout ==
    ASSUME MsInv, NEW h \in Hands, NEW p, create_checkout(h, p)
    PROVE  MsInv'
<1>1. ~Holding(hand[h])
  BY DEF create_checkout, At, Holding
<1> QED  BY <1>1, MsIdle DEF create_checkout

LEMMA MsCollide ==
    ASSUME MsInv, NEW h \in Hands, Collide(h)
    PROVE  MsInv'
<1>1. PICK d : d = [hand[h] EXCEPT !.stage = "retrying"]
  OBVIOUS
<1>2. /\ hand[h] = [stage |-> "keyed", op |-> "key", by |-> hand[h].by, role |-> hand[h].role]
      /\ hand[h].by \in Users /\ hand[h].role \in OrganizationRole
  <2>1. hand[h] \in HandRec /\ hand[h].stage = "keyed"
    BY MsFacts DEF Collide, At
  <2> QED  BY <2>1, HandFacts
<1>3. d = [stage |-> "retrying", op |-> "key", by |-> hand[h].by, role |-> hand[h].role]
  BY <1>1, <1>2
<1>4. d \in HandRec /\ d.stage = "retrying" /\ ~Holding(d)
  BY <1>2, <1>3 DEF HandRec, Holding
<1>5. hand' = [hand EXCEPT ![h] = d]
  BY <1>1 DEF Collide
<1>6. subLock' = IF subLock = h THEN Nobody ELSE subLock
  BY DEF Collide, Release
<1> QED  BY <1>4, <1>5, <1>6, MsHand DEF Collide, billVars

LEMMA MsLockSeats ==
    ASSUME MsInv, NEW h \in Hands, LockSeats(h)
    PROVE  MsInv'
<1>1. CASE ~_check_subscription_access
  <2>1. ~Holding(hand[h])
    BY DEF LockSeats, At, Holding
  <2> QED  BY <1>1, <2>1, MsIdle DEF LockSeats, billVars
<1>2. CASE _check_subscription_access
  <2>1. PICK d : d = [stage |-> "seated", op |-> "invite", by |-> hand[h].by, seats |-> MemberCount]
    OBVIOUS
  <2>2. hand[h].by \in Users
    BY MsFacts, HandFacts DEF LockSeats, At
  <2>3. d \in HandRec /\ d.stage = "seated" /\ d.seats = MemberCount /\ Holding(d)
    BY <2>1, <2>2, Counts DEF HandRec, Holding
  <2>4. hand' = [hand EXCEPT ![h] = d] /\ subLock = Nobody /\ subLock' = h
    BY <1>2, <2>1 DEF LockSeats
  <2>5. hand'[h] = d /\ \A q \in Hands : q # h => hand'[q] = hand[q]
    BY <2>3, <2>4, HandStep DEF LockSeats, billVars
  <2>6. UNCHANGED <<member, invitation, msNow, plansHad, slipped>>
    BY DEF LockSeats, fixed, memberVars, billVars
  <2>7. MemberCount' = MemberCount /\ PendingCount' = PendingCount
    BY <2>6 DEF MemberCount, PendingCount, Pending
  <2>8. \A q \in Hands : q # h => ~Holding(hand[q])
    BY <2>4, MsFacts DEF MsInv, MsParts, HeldOK
  <2>9. SeatsOK'
    <3>1. \E p \in plansHad' : MemberCount' + PendingCount' <= MaxMembers[p] + slipped'
      BY <2>6, <2>7 DEF MsInv, MsParts, SeatsOK
    <3>2. \A q \in Hands : hand'[q].stage = "seated" => MemberCount' <= hand'[q].seats + slipped'
      <4>1. MemberCount <= d.seats + slipped
        BY <2>3, Counts, MsFacts
      <4> QED  BY <2>5, <2>6, <2>7, <2>8, <4>1 DEF Holding
    <3>3. \A q \in Hands : hand'[q].stage \notin {"counted", "cleared"}
      BY <2>3, <2>5, <2>8 DEF Holding
    <3> QED  BY <3>1, <3>2, <3>3 DEF SeatsOK
  <2> QED  BY <2>3, <2>4, <2>9, MsHand DEF LockSeats, billVars
<1> QED  BY <1>1, <1>2

LEMMA MsCountPending ==
    ASSUME MsInv, NEW h \in Hands, CountPending(h)
    PROVE  MsInv'
<1>1. CASE ~MayAdd(SeatsTaken(hand[h].seats), MaxMembers[sub.plan])
  BY <1>1, MsIdle DEF CountPending, billVars
<1>2. CASE MayAdd(SeatsTaken(hand[h].seats), MaxMembers[sub.plan])
  <2>1. PICK d : d = [hand[h] EXCEPT !.stage = "counted"]
    OBVIOUS
  <2>2. hand[h] \in HandRec /\ hand[h].stage = "seated"
    BY MsFacts DEF CountPending, At
  <2>3. /\ hand[h] = [stage |-> "seated", op |-> "invite", by |-> hand[h].by, seats |-> hand[h].seats]
        /\ hand[h].by \in Users /\ hand[h].seats \in Nat
    BY <2>2, HandFacts
  <2>4. d = [stage |-> "counted", op |-> "invite", by |-> hand[h].by, seats |-> hand[h].seats]
    BY <2>1, <2>3
  <2>5. d \in HandRec /\ d.stage = "counted" /\ Holding(d) /\ Holding(hand[h])
    BY <2>2, <2>3, <2>4 DEF HandRec, Holding
  <2>6. hand' = [hand EXCEPT ![h] = d] /\ UNCHANGED subLock
    BY <1>2, <2>1 DEF CountPending
  <2>7. hand'[h] = d /\ \A q \in Hands : q # h => hand'[q] = hand[q]
    BY <2>5, <2>6, HandStep DEF CountPending, billVars
  <2>8. UNCHANGED <<member, invitation, msNow, plansHad, slipped>>
    BY DEF CountPending, fixed, memberVars, billVars
  <2>9. MemberCount' = MemberCount /\ PendingCount' = PendingCount
    BY <2>8 DEF MemberCount, PendingCount, Pending
  <2>10. subLock = h /\ \A q \in Hands : q # h => ~Holding(hand[q])
    BY <2>5, MsFacts DEF MsInv, MsParts, HeldOK
  <2>11. MemberCount + PendingCount + 1 <= MaxMembers[sub.plan] + slipped
    <3>1. MemberCount <= hand[h].seats + slipped
      BY <2>2 DEF MsInv, MsParts, SeatsOK
    <3>2. hand[h].seats + PendingCount < MaxMembers[sub.plan]
      BY <1>2 DEF MayAdd, SeatsTaken
    <3>3. MemberCount \in Nat /\ PendingCount \in Nat /\ slipped \in Nat /\ MaxMembers[sub.plan] \in Nat
      BY Counts, MsFacts
    <3> QED  BY <2>3, <3>1, <3>2, <3>3
  <2>12. SeatsOK'
    <3>1. \E p \in plansHad' : MemberCount' + PendingCount' <= MaxMembers[p] + slipped'
      BY <2>8, <2>9 DEF MsInv, MsParts, SeatsOK
    <3>2. \A q \in Hands : hand'[q].stage # "seated"
      BY <2>5, <2>7, <2>10 DEF Holding
    <3>3. \E p \in plansHad' : MemberCount' + PendingCount' + 1 <= MaxMembers[p] + slipped'
      BY <2>8, <2>9, <2>11, MsFacts
    <3> QED  BY <3>1, <3>2, <3>3 DEF SeatsOK
  <2> QED  BY <2>5, <2>6, <2>12, MsHand DEF CountPending, billVars
<1> QED  BY <1>1, <1>2

LEMMA MsCheckMember ==
    ASSUME MsInv, NEW h \in Hands, NEW email \in Users, NEW role \in org.roles, CheckMember(h, email, role)
    PROVE  MsInv'
<1>1. CASE IsMember(email)
  BY <1>1, MsIdle DEF CheckMember, billVars
<1>2. CASE ~IsMember(email)
  <2>1. PICK d : d = [stage |-> "cleared", op |-> "invite", by |-> hand[h].by, email |-> email, role |-> role]
    OBVIOUS
  <2>2. hand[h] \in HandRec /\ hand[h].stage = "counted" /\ role \in OrganizationRole \ {"OWNER"}
    BY MsFacts DEF CheckMember, At
  <2>3. hand[h].by \in Users
    BY <2>2, HandFacts
  <2>4. d \in HandRec
    BY <2>1, <2>2, <2>3 DEF HandRec
  <2>5. d.stage = "cleared" /\ d.email = email /\ Holding(d) /\ Holding(hand[h])
    BY <2>1, <2>2 DEF Holding
  <2>6. hand' = [hand EXCEPT ![h] = d] /\ UNCHANGED subLock
    BY <1>2, <2>1 DEF CheckMember
  <2>7. hand'[h] = d /\ \A q \in Hands : q # h => hand'[q] = hand[q]
    BY <2>4, <2>5, <2>6, HandStep DEF CheckMember, billVars
  <2>8. UNCHANGED <<member, invitation, msNow, crossed, org>>
    BY DEF CheckMember, fixed, memberVars
  <2>9. member[email].status # "ACTIVE"
    BY <1>2 DEF IsMember
  <2>10. OutsideOK'
    <3>1. OnePendingPerEmail'
      BY <2>8 DEF MsInv, MsParts, OutsideOK, OnePendingPerEmail, Pending
    <3>2. \A j \in Invitations : Pending(j)' => member'[invitation'[j].email].status # "ACTIVE" \/ invitation'[j].email \in crossed'
      BY <2>8 DEF MsInv, MsParts, OutsideOK, Outside, Pending
    <3>3. \A q \in Hands : hand'[q].stage = "cleared" => member'[hand'[q].email].status # "ACTIVE" \/ hand'[q].email \in crossed'
      BY <2>5, <2>7, <2>8, <2>9 DEF MsInv, MsParts, OutsideOK, Outside
    <3>4. \A q \in Hands : MayJoin(q)' => q # h /\ MayJoin(q)
      BY <2>5, <2>7, <2>8 DEF MayJoin
    <3>5. \A q \in Hands : MayJoin(q)' => member'[hand'[q].by].status # "ACTIVE" \/ hand'[q].by \in crossed'
      BY <2>7, <2>8, <3>4 DEF MsInv, MsParts, OutsideOK, Outside
    <3> QED  BY <3>1, <3>2, <3>3, <3>5 DEF OutsideOK, Outside
  <2>11. OwnerOK'
    <3>1. ASSUME org.bind  PROVE email # Owner
      BY <2>9, <3>1 DEF MsInv, MsParts, OwnerOK, Member
    <3> QED  BY <2>5, <2>7, <2>8, <3>1 DEF MsInv, MsParts, OwnerOK
  <2> QED  BY <2>2, <2>4, <2>5, <2>6, <2>10, <2>11, MsHand DEF CheckMember, billVars
<1> QED  BY <1>1, <1>2

LEMMA DoneStep ==
    ASSUME MsInv, NEW h \in Hands, Done(h), DOMAIN emitted \subseteq DOMAIN emitted'
    PROVE  /\ hand' \in [Hands -> HandRec] /\ hand'[h].stage = "idle" /\ \A q \in Hands : q # h => hand'[q] = hand[q]
           /\ \A q \in Hands : hand'[q].stage = "looked" => hand'[q].event \in DOMAIN emitted'
<1>1. HandIdle \in HandRec /\ HandIdle.stage = "idle" /\ hand' = [hand EXCEPT ![h] = HandIdle]
  BY RowFacts DEF Done
<1> QED  BY <1>1, HandStep

\* A handler that commits rows of members, invitations or keys and ends.
LEMMA MsRows ==
    ASSUME MsInv, NEW h \in Hands, Done(h),
           UNCHANGED <<fixed, sub, billed, provider, emitted, plansHad, applied, inOrder>>,
           Release(h) \/ (UNCHANGED subLock /\ ~Holding(hand[h])),
           member' \in [Users -> {NoMember} \cup MemberRow],
           invitation' \in [Invitations -> {NoInvitation} \cup InvitationRow],
           apiKey' \in [APIKeys -> {NoAPIKey} \cup APIKeyRow], slipped' \in Nat, unguarded' \in Nat,
           crossed \subseteq crossed', orphaned \subseteq orphaned',
           \A i \in Invitations : invitation[i] # NoInvitation => invitation'[i] # NoInvitation,
           \A k \in APIKeys : apiKey[k] # NoAPIKey => apiKey'[k] # NoAPIKey,
           SeatsOK', KeysOK', OutsideOK', OwnerOK', KeysDieWithMembership'
    PROVE  MsInv'
<1> USE DEF fixed
<1>1. /\ hand' \in [Hands -> HandRec] /\ hand'[h].stage = "idle" /\ (\A q \in Hands : q # h => hand'[q] = hand[q])
      /\ \A q \in Hands : hand'[q].stage = "looked" => hand'[q].event \in DOMAIN emitted'
  BY DoneStep
<1>2. \/ UNCHANGED subLock /\ (Holding(hand'[h]) <=> Holding(hand[h]))
      \/ subLock' = (IF subLock = h THEN Nobody ELSE subLock) /\ ~Holding(hand'[h])
  BY <1>1 DEF Release, Holding
<1>3. HeldOK' /\ subLock' \in Hands \cup {Nobody}
  BY <1>1, <1>2, HeldStep
<1>4. MsTyped'
  BY <1>1, <1>3, MsFacts DEF MsTyped
<1>5. msNow' \in Nat /\ msNow <= msNow' /\ UNCHANGED org
  BY MsFacts
<1>6. BilledOK'
  BY <1>1, <1>5, MsKept
<1>7. SeenOK'
  BY <1>1, <1>5, MsKept
<1> QED  BY <1>3, <1>4, <1>6, <1>7 DEF MsInv, MsParts

LEMMA MsCreateInvitation ==
    ASSUME MsInv, NEW h \in Hands, NEW i \in Invitations, create_invitation(h, i)
    PROVE  MsInv'
<1> USE DEF fixed, keyVars, billVars
<1>1. CASE InvitedAlready(hand[h].email)
  BY <1>1, MsIdle DEF create_invitation, memberVars
<1>2. CASE ~InvitedAlready(hand[h].email)
  <2> DEFINE d == hand[h]
  <2>1. PICK row : row = [email |-> d.email, role |-> d.role, status |-> "PENDING", till |-> msNow + InviteTTL]
    OBVIOUS
  <2>2. hand[h] \in HandRec /\ hand[h].stage = "cleared" /\ Done(h) /\ Release(h)
    BY MsFacts DEF create_invitation, At
  <2>3. d.email \in Users /\ d.role \in OrganizationRole \ {"OWNER"}
    BY <2>2, HandFacts
  <2>4. msNow + InviteTTL \in Nat /\ msNow \in Nat /\ msNow' \in Nat /\ msNow <= msNow'
    BY MsFacts, MembershipAssumption DEF create_invitation
  <2>5. row \in InvitationRow /\ row.email = d.email
    BY <2>1, <2>3, <2>4 DEF InvitationRow, InvitationStatus
  <2>6. /\ invitation' = [invitation EXCEPT ![i] = row]
        /\ UNCHANGED <<member, slipped, crossed, apiKey, unguarded, orphaned, msNow, org, plansHad, emitted>>
    BY <1>2, <2>1 DEF create_invitation
  <2>7. /\ invitation' \in [Invitations -> {NoInvitation} \cup InvitationRow] /\ invitation'[i] = row
        /\ \A j \in Invitations \ {i} : invitation'[j] = invitation[j]
        /\ \A j \in Invitations : invitation[j] # NoInvitation => invitation'[j] # NoInvitation
    BY <2>5, <2>6, MsFacts, RowFacts
  <2>8. hand'[h].stage = "idle" /\ \A q \in Hands : q # h => hand'[q] = hand[q]
    BY <2>2, <2>6, DoneStep
  <2>9. \A q \in Hands : q # h => ~Holding(hand[q])
    <3>1. Holding(hand[h])
      BY <2>2 DEF Holding
    <3> QED  BY <3>1, MsFacts DEF MsInv, MsParts, HeldOK
  <2>10. SeatsOK'
    <3>1. MemberCount' = MemberCount /\ PendingCount' <= PendingCount + 1 /\ PendingCount' \in Nat
      BY <2>4, <2>6, <2>7, PendingMove DEF MemberCount
    <3>2. PICK p \in plansHad : MemberCount + PendingCount + 1 <= MaxMembers[p] + slipped
      BY <2>2 DEF MsInv, MsParts, SeatsOK
    <3>3. MemberCount \in Nat /\ PendingCount \in Nat /\ slipped \in Nat /\ MaxMembers[p] \in Nat
      BY Counts, MsFacts
    <3>4. MemberCount' + PendingCount' <= MaxMembers[p] + slipped'
      BY <2>6, <3>1, <3>2, <3>3
    <3>5. \A q \in Hands : hand'[q].stage \notin {"seated", "counted", "cleared"}
      BY <2>8, <2>9 DEF Holding
    <3> QED  BY <2>6, <3>4, <3>5 DEF SeatsOK
  <2>11. KeysOK'
    BY <2>4, <2>6, <2>8, MsKept
  <2>12. KeysDieWithMembership'
    BY <2>4, <2>6, <2>8, MsKept
  <2>13. OutsideOK'
    <3>1. member[d.email].status # "ACTIVE" \/ d.email \in crossed
      BY <2>2 DEF MsInv, MsParts, OutsideOK, Outside
    <3>2. \A j \in Invitations \ {i} : Pending(j)' => Pending(j) /\ invitation'[j].email = invitation[j].email
      BY <2>4, <2>7, PendingStays
    <3>3. OnePendingPerEmail'
      <4>1. \A j \in Invitations \ {i} : Pending(j)' => invitation'[j].email # invitation'[i].email
        BY <1>2, <2>5, <2>7, <3>2 DEF InvitedAlready
      <4>2. \A j, l \in Invitations \ {i} : (j # l /\ Pending(j)' /\ Pending(l)') => invitation'[j].email # invitation'[l].email
        BY <3>2 DEF MsInv, MsParts, OutsideOK, OnePendingPerEmail
      <4> QED  BY <4>1, <4>2 DEF OnePendingPerEmail
    <3>4. \A j \in Invitations : Pending(j)' => member'[invitation'[j].email].status # "ACTIVE" \/ invitation'[j].email \in crossed'
      BY <2>5, <2>6, <2>7, <3>1, <3>2 DEF MsInv, MsParts, OutsideOK, Outside
    <3>5. \A q \in Hands : hand'[q].stage # "cleared"
      BY <2>8, <2>9 DEF Holding
    <3>6. ASSUME NEW q \in Hands, MayJoin(q)'
          PROVE  member'[hand'[q].by].status # "ACTIVE" \/ hand'[q].by \in crossed'
      <4>1. q # h /\ hand'[q] = hand[q] /\ hand[q].stage = "entered" /\ hand[q].op = "accept"
        BY <2>8, <3>6 DEF MayJoin
      <4>2. hand[q].invitation \in Invitations
        BY <4>1, MsFacts, HandFacts
      <4>3. CASE hand[q].invitation = i
        BY <2>5, <2>6, <2>7, <3>1, <3>6, <4>1, <4>3 DEF MayJoin
      <4>4. CASE hand[q].invitation # i
        <5>1. MayJoin(q)
          BY <2>7, <3>6, <4>1, <4>2, <4>4 DEF MayJoin
        <5> QED  BY <2>6, <4>1, <5>1 DEF MsInv, MsParts, OutsideOK, Outside
      <4> QED  BY <4>3, <4>4
    <3> QED  BY <3>3, <3>4, <3>5, <3>6 DEF OutsideOK, Outside
  <2>14. OwnerOK'
    <3>1. org.bind => d.email # Owner
      BY <2>2 DEF MsInv, MsParts, OwnerOK
    <3>2. \A q \in Hands : hand'[q].stage # "cleared"
      BY <2>8, <2>9 DEF Holding
    <3>3. org.bind => member'[Owner] = Member("OWNER")
      BY <2>6 DEF MsInv, MsParts, OwnerOK
    <3>4. org.bind => \A j \in Invitations : invitation'[j] # NoInvitation => invitation'[j].email # Owner
      BY <2>5, <2>7, <3>1 DEF MsInv, MsParts, OwnerOK
    <3> QED  BY <2>6, <3>2, <3>3, <3>4 DEF OwnerOK
  <2>15. UNCHANGED <<fixed, sub, billed, provider, emitted, plansHad, applied, inOrder>> /\ slipped' \in Nat /\ unguarded' \in Nat
         /\ member' \in [Users -> {NoMember} \cup MemberRow] /\ apiKey' \in [APIKeys -> {NoAPIKey} \cup APIKeyRow]
    BY <2>6, MsFacts DEF create_invitation
  <2> QED  BY <2>2, <2>6, <2>7, <2>10, <2>11, <2>12, <2>13, <2>14, <2>15, MsRows
<1> QED  BY <1>1, <1>2

\* An invitation that stops being open without making a member.
LEMMA MsClose ==
    ASSUME MsInv, NEW h \in Hands, NEW i \in Invitations, NEW s \in InvitationStatus \ {"PENDING"},
           ~Holding(hand[h]), Done(h), invitation[i] # NoInvitation,
           invitation' = [invitation EXCEPT ![i].status = s],
           UNCHANGED <<fixed, member, slipped, crossed, keyVars, billVars, subLock>>
    PROVE  MsInv'
<1> USE DEF fixed, keyVars, billVars
<1>1. invitation[i] \in InvitationRow
  BY MsFacts, RowFacts
<1>2. /\ invitation'[i] = [invitation[i] EXCEPT !.status = s] /\ \A j \in Invitations \ {i} : invitation'[j] = invitation[j]
  BY MsFacts
<1>3. invitation'[i] \in InvitationRow /\ invitation'[i].status = s /\ invitation'[i].email = invitation[i].email
  BY <1>1, <1>2 DEF InvitationRow
<1>4. /\ invitation' \in [Invitations -> {NoInvitation} \cup InvitationRow]
      /\ \A j \in Invitations : invitation[j] # NoInvitation => invitation'[j] # NoInvitation
  BY <1>2, <1>3, MsFacts, RowFacts
<1>5. hand'[h].stage = "idle" /\ \A q \in Hands : q # h => hand'[q] = hand[q]
  BY DoneStep
<1>6. msNow' \in Nat /\ msNow <= msNow'
  BY MsFacts
<1>7. \A j \in Invitations : invitation'[j].status = "PENDING" => invitation'[j] = invitation[j]
  BY <1>2, <1>3
<1>8. SeatsOK'
  <2>1. PendingCount' \in Nat /\ PendingCount' <= PendingCount
    BY <1>4, <1>6, <1>7, PendingMove
  <2>2. MemberCount' \in Nat /\ MemberCount' <= MemberCount
    BY MembersMove
  <2> QED  BY <1>5, <2>1, <2>2, SeatsKept
<1>9. KeysOK' /\ KeysDieWithMembership'
  BY <1>5, <1>6, MsKept
<1>10. OutsideOK'
  <2>1. \A j \in Invitations : Pending(j)' => Pending(j) /\ invitation'[j] = invitation[j]
    BY <1>6, <1>7, PendingStays DEF Pending
  <2>2. OnePendingPerEmail'
    BY <2>1 DEF MsInv, MsParts, OutsideOK, OnePendingPerEmail
  <2>3. \A j \in Invitations : Pending(j)' => member'[invitation'[j].email].status # "ACTIVE" \/ invitation'[j].email \in crossed'
    BY <2>1 DEF MsInv, MsParts, OutsideOK, Outside
  <2>4. \A q \in Hands : hand'[q].stage = "cleared" => member'[hand'[q].email].status # "ACTIVE" \/ hand'[q].email \in crossed'
    BY <1>5 DEF MsInv, MsParts, OutsideOK, Outside
  <2>5. ASSUME NEW q \in Hands, MayJoin(q)'
        PROVE  member'[hand'[q].by].status # "ACTIVE" \/ hand'[q].by \in crossed'
    <3>1. hand'[q] = hand[q] /\ hand[q].stage = "entered" /\ hand[q].op = "accept"
      BY <1>5, <2>5 DEF MayJoin
    <3>2. hand[q].invitation \in Invitations
      BY <3>1, MsFacts, HandFacts
    <3>3. MayJoin(q)
      BY <1>7, <2>5, <3>1, <3>2 DEF MayJoin
    <3> QED  BY <3>1, <3>3 DEF MsInv, MsParts, OutsideOK, Outside
  <2> QED  BY <2>2, <2>3, <2>4, <2>5 DEF OutsideOK, Outside
<1>11. OwnerOK'
  <2>1. \A q \in Hands : hand'[q].stage = "cleared" => hand'[q] = hand[q]
    BY <1>5
  <2>2. \A j \in Invitations : invitation'[j] # NoInvitation => invitation[j] # NoInvitation /\ invitation'[j].email = invitation[j].email
    BY <1>2, <1>3
  <2> QED  BY <2>1, <2>2 DEF MsInv, MsParts, OwnerOK
<1>12. UNCHANGED <<fixed, sub, billed, provider, emitted, plansHad, applied, inOrder>> /\ slipped' \in Nat /\ unguarded' \in Nat
       /\ member' \in [Users -> {NoMember} \cup MemberRow] /\ apiKey' \in [APIKeys -> {NoAPIKey} \cup APIKeyRow]
  BY MsFacts
<1> QED  BY <1>4, <1>8, <1>9, <1>10, <1>11, <1>12, MsRows

LEMMA MsRevokeInvitation ==
    ASSUME MsInv, NEW h \in Hands, NEW i \in Invitations, revoke_invitation(h, i)
    PROVE  MsInv'
<1>1. ~Holding(hand[h]) /\ invitation[i] # NoInvitation
  BY RowFacts DEF revoke_invitation, At, Holding
<1>2. "REVOKED" \in InvitationStatus \ {"PENDING"}
  BY DEF InvitationStatus
<1> QED  BY <1>1, <1>2, MsClose DEF revoke_invitation

\* An acceptance moves a seat from the invitations to the members, or is counted as slipped.
LEMMA MsJoin ==
    ASSUME MsInv, NEW h \in Hands, accept_invitation(h), invitation[hand[h].invitation].status \notin {"REVOKED", "ACCEPTED"},
           ~ExpiredWhen(hand[h].invitation, hand[h].at), MayAccept(hand[h].by, hand[h].invitation)
    PROVE  MsInv'
<1> DEFINE d == hand[h]  u == d.by  i == d.invitation  row == invitation[i]
<1> USE DEF fixed, keyVars, billVars
<1>1. hand[h] \in HandRec /\ hand[h].stage = "entered" /\ hand[h].op = "accept" /\ Done(h) /\ ~Holding(hand[h])
  BY MsFacts DEF accept_invitation, At, Holding
<1>2. u \in Users /\ i \in Invitations /\ d.at \in Nat
  BY <1>1, HandFacts
<1>3. /\ invitation' = [invitation EXCEPT ![i].status = "ACCEPTED"]
      /\ member' = [member EXCEPT ![u] = Member(row.role)]
      /\ slipped' = IF row.till <= msNow \/ \E q \in Hands : hand[q].stage = "seated" THEN slipped + 1 ELSE slipped
      /\ crossed' = IF \/ \E q \in Hands : hand[q].stage = "cleared" /\ hand[q].email = u
                       \/ \E j \in Invitations \ {i} : Pending(j) /\ invitation[j].email = u
                       \/ \E q \in Hands : At(q, "entered", "accept") /\ hand[q].by = u /\ hand[q].invitation # i
                    THEN crossed \cup {u} ELSE crossed
      /\ UNCHANGED <<fixed, keyVars, billVars, subLock>>
  BY DEF accept_invitation
<1>4. row \in InvitationRow
  BY <1>1, <1>2, MsFacts DEF MsInv, MsParts, SeenOK, At
<1>5. row.status = "PENDING" /\ row.till \in Nat /\ row.till > d.at /\ row.role \in OrganizationRole \ {"OWNER"}
  BY <1>2, <1>4, RowFacts DEF ExpiredWhen, InvitationStatus
<1>6. /\ invitation'[i] = [row EXCEPT !.status = "ACCEPTED"] /\ \A j \in Invitations \ {i} : invitation'[j] = invitation[j]
  BY <1>2, <1>3, MsFacts
<1>7. invitation'[i] \in InvitationRow /\ invitation'[i].status = "ACCEPTED" /\ invitation'[i].email = row.email
  BY <1>4, <1>6 DEF InvitationRow, InvitationStatus
<1>8. /\ invitation' \in [Invitations -> {NoInvitation} \cup InvitationRow]
      /\ \A j \in Invitations : invitation[j] # NoInvitation => invitation'[j] # NoInvitation
  BY <1>2, <1>3, <1>6, <1>7, MsFacts, RowFacts
<1>9. /\ Member(row.role) \in MemberRow /\ Member(row.role).status = "ACTIVE" /\ Member(row.role).role = row.role
  BY <1>5 DEF Member, MemberRow, MemberStatus
<1>10. /\ member' \in [Users -> {NoMember} \cup MemberRow] /\ member'[u] = Member(row.role)
       /\ \A v \in Users \ {u} : member'[v] = member[v]
  BY <1>2, <1>3, <1>9, MsFacts
<1>11. hand'[h].stage = "idle" /\ \A q \in Hands : q # h => hand'[q] = hand[q]
  BY <1>1, <1>3, DoneStep
<1>12. msNow' \in Nat /\ msNow <= msNow' /\ slipped' \in Nat /\ crossed \subseteq crossed'
  BY <1>3, MsFacts
<1>13. \A j \in Invitations : invitation'[j].status = "PENDING" => j # i /\ invitation'[j] = invitation[j]
  BY <1>6, <1>7
<1>14. \A j \in Invitations : Pending(j)' => j # i /\ Pending(j) /\ invitation'[j] = invitation[j]
  BY <1>12, <1>13, PendingStays DEF Pending
<1>15. ASSUME NEW v, v # u, member[v].status # "ACTIVE" \/ v \in crossed, v \in Users
       PROVE  member'[v].status # "ACTIVE" \/ v \in crossed'
  BY <1>10, <1>12, <1>15
<1>16. SeatsOK'
  <2>1. MemberCount' \in Nat /\ MemberCount' <= MemberCount + 1
    BY <1>2, <1>10, MembersMove
  <2>2. PendingCount' \in Nat /\ PendingCount' <= PendingCount
    BY <1>8, <1>12, <1>13, PendingMove
  <2>3. PICK old \in Nat : old = MemberCount + PendingCount
    BY Counts
  <2>4. PICK now \in Nat : now = MemberCount' + PendingCount'
    BY <2>1, <2>2
  <2>5. slipped \in Nat /\ slipped' \in Nat /\ plansHad' = plansHad
    BY <1>3, <1>12, MsFacts
  <2>6. /\ now + slipped <= old + slipped'
        /\ \A q \in Hands : hand[q].stage = "seated" => slipped' = slipped + 1
    <3>1. CASE slipped' = slipped + 1
      <4>1. now <= old + 1
        BY <2>1, <2>2, <2>3, <2>4, Counts
      <4> QED  BY <2>5, <3>1, <4>1
    <3>2. CASE ~(row.till <= msNow) /\ ~\E q \in Hands : hand[q].stage = "seated"
      <4>1. Pending(i) /\ slipped' = slipped
        BY <1>3, <1>5, <3>2, MsFacts DEF Pending
      <4>2. PendingCount' + 1 <= PendingCount
        BY <1>2, <1>7, <1>8, <1>12, <1>13, <4>1, PendingMove
      <4>3. PICK m \in Nat, p \in Nat : m = MemberCount /\ p = PendingCount
        BY Counts
      <4>4. PICK n \in Nat, q \in Nat : n = MemberCount' /\ q = PendingCount'
        BY <2>1, <2>2
      <4>5. n <= m + 1 /\ q + 1 <= p
        BY <2>1, <4>2, <4>3, <4>4
      <4>6. now = n + q /\ old = m + p
        BY <2>3, <2>4, <4>3, <4>4
      <4>7. now <= old
        BY <4>5, <4>6
      <4> QED  BY <2>5, <3>2, <4>1, <4>7
    <3> QED  BY <1>3, <3>1, <3>2
  <2>7. \E p \in plansHad' : MemberCount' + PendingCount' <= MaxMembers[p] + slipped'
    <3>1. PICK p \in plansHad : old <= MaxMembers[p] + slipped
      BY <2>3 DEF MsInv, MsParts, SeatsOK
    <3>2. PICK seats \in Nat : seats = MaxMembers[p]
      BY MsFacts
    <3>3. now + slipped <= old + slipped'
      BY <2>6
    <3>4. old <= seats + slipped
      BY <3>1, <3>2
    <3>5. slipped \in Nat /\ slipped' \in Nat
      BY <2>5
    <3>6. now <= seats + slipped'
      BY <3>3, <3>4, <3>5, StillFits
    <3>7. MemberCount' + PendingCount' <= MaxMembers[p] + slipped'
      BY <2>4, <3>2, <3>6
    <3>8. p \in plansHad'
      BY <2>5
    <3> QED  BY <3>7, <3>8
  <2>8. ASSUME NEW q \in Hands, hand'[q].stage = "seated"  PROVE MemberCount' <= hand'[q].seats + slipped'
    <3>1. hand'[q] = hand[q] /\ slipped' = slipped + 1
      BY <1>11, <2>6, <2>8
    <3>2. hand[q].seats \in Nat /\ MemberCount <= hand[q].seats + slipped
      BY <2>8, <3>1, MsFacts, HandFacts DEF MsInv, MsParts, SeatsOK
    <3>3. MemberCount \in Nat
      BY Counts
    <3> QED  BY <2>1, <2>5, <3>1, <3>2, <3>3
  <2>9. ASSUME NEW q \in Hands, hand'[q].stage \in {"counted", "cleared"}
        PROVE  \E p \in plansHad' : MemberCount' + PendingCount' + 1 <= MaxMembers[p] + slipped'
    <3>1. hand'[q] = hand[q]
      BY <1>11, <2>9
    <3>2. PICK p \in plansHad : old + 1 <= MaxMembers[p] + slipped
      BY <2>3, <2>9, <3>1 DEF MsInv, MsParts, SeatsOK
    <3>3. PICK seats \in Nat : seats = MaxMembers[p]
      BY MsFacts
    <3>4. now + slipped <= old + slipped'
      BY <2>6
    <3>5. old + 1 <= seats + slipped
      BY <3>2, <3>3
    <3>6. slipped \in Nat /\ slipped' \in Nat
      BY <2>5
    <3>7. now + 1 <= seats + slipped'
      BY <3>4, <3>5, <3>6, StillFitsOneMore
    <3>8. MemberCount' + PendingCount' + 1 <= MaxMembers[p] + slipped'
      <4>1. MemberCount' + PendingCount' + 1 = now + 1
        BY <2>4
      <4> QED  BY <3>3, <3>7, <4>1
    <3>9. p \in plansHad'
      BY <2>5
    <3> QED  BY <3>8, <3>9
  <2> QED  BY <2>7, <2>8, <2>9 DEF SeatsOK
<1>17. KeysOK'
  BY <1>3, <1>11, <1>12, MsKept
<1>18. OutsideOK'
  <2>1. OnePendingPerEmail'
    BY <1>14 DEF MsInv, MsParts, OutsideOK, OnePendingPerEmail
  <2>2. ASSUME NEW j \in Invitations, Pending(j)'
        PROVE  member'[invitation'[j].email].status # "ACTIVE" \/ invitation'[j].email \in crossed'
    <3>1. j # i /\ Pending(j) /\ invitation'[j] = invitation[j]
      BY <1>14, <2>2
    <3>2. invitation[j].email \in Users
      BY <3>1, MsFacts, RowFacts DEF Pending
    <3>3. CASE invitation[j].email = u
      BY <1>3, <3>1, <3>3
    <3>4. CASE invitation[j].email # u
      BY <1>15, <3>1, <3>2, <3>4 DEF MsInv, MsParts, OutsideOK, Outside
    <3> QED  BY <3>3, <3>4
  <2>3. ASSUME NEW q \in Hands, hand'[q].stage = "cleared"
        PROVE  member'[hand'[q].email].status # "ACTIVE" \/ hand'[q].email \in crossed'
    <3>1. hand'[q] = hand[q]
      BY <1>11, <2>3
    <3>2. hand[q].email \in Users
      BY <2>3, <3>1, MsFacts, HandFacts
    <3>3. CASE hand[q].email = u
      BY <1>3, <2>3, <3>1, <3>3
    <3>4. CASE hand[q].email # u
      BY <1>15, <2>3, <3>1, <3>2, <3>4 DEF MsInv, MsParts, OutsideOK, Outside
    <3> QED  BY <3>3, <3>4
  <2>4. ASSUME NEW q \in Hands, MayJoin(q)'
        PROVE  member'[hand'[q].by].status # "ACTIVE" \/ hand'[q].by \in crossed'
    <3>1. hand'[q] = hand[q] /\ hand[q].stage = "entered" /\ hand[q].op = "accept"
      BY <1>11, <2>4 DEF MayJoin
    <3>2. hand[q].invitation \in Invitations /\ hand[q].by \in Users
      BY <3>1, MsFacts, HandFacts
    <3>3. hand[q].invitation # i /\ MayJoin(q)
      BY <1>13, <2>4, <3>1, <3>2 DEF MayJoin
    <3>4. CASE hand[q].by = u
      BY <1>3, <3>1, <3>3, <3>4 DEF At
    <3>5. CASE hand[q].by # u
      BY <1>15, <3>1, <3>2, <3>3, <3>5 DEF MsInv, MsParts, OutsideOK, Outside
    <3> QED  BY <3>4, <3>5
  <2> QED  BY <2>1, <2>2, <2>3, <2>4 DEF OutsideOK, Outside
<1>19. org.bind => row.email = u /\ MayJoin(h)
  BY <1>1, <1>5 DEF MayAccept, MayJoin
<1>20. OwnerOK'
  <2>1. ASSUME org.bind  PROVE member'[Owner] = Member("OWNER")
    <3>1. row.email # Owner
      BY <1>2, <1>4, <2>1, RowFacts DEF MsInv, MsParts, OwnerOK
    <3>2. Owner # u /\ Owner \in Users /\ member[Owner] = Member("OWNER")
      BY <1>19, <2>1, <3>1, MembershipAssumption DEF MsInv, MsParts, OwnerOK
    <3> QED  BY <1>10, <3>2
  <2>2. \A j \in Invitations : invitation'[j] # NoInvitation => invitation[j] # NoInvitation /\ invitation'[j].email = invitation[j].email
    BY <1>4, <1>6, <1>7, RowFacts
  <2>3. \A q \in Hands : hand'[q].stage = "cleared" => hand'[q] = hand[q]
    BY <1>11
  <2> QED  BY <1>3, <2>1, <2>2, <2>3 DEF MsInv, MsParts, OwnerOK
<1>21. KeysDieWithMembership'
  <2>1. apiKey' \in [APIKeys -> {NoAPIKey} \cup APIKeyRow]
    BY <1>3, MsFacts
  <2>2. SUFFICES ASSUME NEW k \in APIKeys, NEW v \in Users, org'.bind, k \notin orphaned',
                        apiKey'[k].status = "ACTIVE", apiKey'[k].by = v
                 PROVE  RoleOf(v)' \in Capable("key") \/ v \in crossed'
    BY <2>1, KeysDie
  <2>3. org.bind /\ k \in APIKeys \ orphaned /\ apiKey[k].status = "ACTIVE" /\ apiKey[k].by = v
    BY <1>3, <2>2
  <2>4. RoleOf(v) \in Capable("key") \/ v \in crossed
    BY <2>3 DEF MsInv, MsParts, KeysDieWithMembership
  <2>5. CASE v \in crossed
    BY <1>12, <2>5
  <2>6. CASE v \notin crossed
    <3>1. member[v].status # "ACTIVE" \/ v # u
      BY <1>19, <2>3, <2>6 DEF MsInv, MsParts, OutsideOK, Outside
    <3>2. v # u \/ v = Owner
      BY <2>4, <2>6, <3>1, CapableFacts DEF RoleOf
    <3>3. v = Owner => member[v].status = "ACTIVE"
      BY <2>3 DEF MsInv, MsParts, OwnerOK, Member
    <3>4. member'[v] = member[v]
      BY <1>10, <3>1, <3>2, <3>3
    <3>5. RoleOf(v)' = RoleOf(v)
      BY <3>4 DEF RoleOf
    <3> QED  BY <2>4, <2>6, <3>5
  <2> QED  BY <2>5, <2>6
<1> HIDE DEF d, u, i, row
<1>22. UNCHANGED <<fixed, sub, billed, provider, emitted, plansHad, applied, inOrder, subLock>> /\ unguarded' \in Nat
       /\ apiKey' \in [APIKeys -> {NoAPIKey} \cup APIKeyRow] /\ orphaned \subseteq orphaned'
       /\ \A k \in APIKeys : apiKey[k] # NoAPIKey => apiKey'[k] # NoAPIKey
  BY <1>3, MsFacts
<1> QED  BY <1>1, <1>8, <1>10, <1>12, <1>16, <1>17, <1>18, <1>20, <1>21, <1>22, MsRows

LEMMA MsAccept ==
    ASSUME MsInv, NEW h \in Hands, accept_invitation(h)
    PROVE  MsInv'
<1> DEFINE i == hand[h].invitation
<1> USE DEF fixed, keyVars, billVars
<1>1. hand[h] \in HandRec /\ At(h, "entered", "accept") /\ Done(h) /\ ~Holding(hand[h])
  BY MsFacts DEF accept_invitation, At, Holding
<1>2. i \in Invitations /\ invitation[i] # NoInvitation
  BY <1>1, HandFacts DEF At, MsInv, MsParts, SeenOK
<1>3. CASE UNCHANGED memberVars
  BY <1>1, <1>3, MsIdle DEF accept_invitation
<1>4. CASE invitation[i].status \notin {"REVOKED", "ACCEPTED"} /\ ExpiredWhen(i, hand[h].at)
  <2>1. "EXPIRED" \in InvitationStatus \ {"PENDING"}
    BY DEF InvitationStatus
  <2>2. invitation' = [invitation EXCEPT ![i].status = "EXPIRED"] /\ UNCHANGED <<member, slipped, crossed>>
    BY <1>4 DEF accept_invitation
  <2>3. UNCHANGED <<fixed, keyVars, billVars, subLock>>
    BY DEF accept_invitation
  <2> HIDE DEF i
  <2> QED  BY <1>1, <1>2, <2>1, <2>2, <2>3, MsClose
<1>5. CASE /\ invitation[i].status \notin {"REVOKED", "ACCEPTED"}
           /\ ~ExpiredWhen(i, hand[h].at) /\ MayAccept(hand[h].by, i)
  BY <1>5, MsJoin
<1> QED  BY <1>3, <1>4, <1>5 DEF accept_invitation

\* Keys that end and stay whose they were.
LEMMA RevokeFacts ==
    ASSUME MsInv, NEW ks \in SUBSET APIKeys, \A k \in ks : apiKey[k].status = "ACTIVE", RevokeKeys(ks)
    PROVE  /\ apiKey' \in [APIKeys -> {NoAPIKey} \cup APIKeyRow]
           /\ \A k \in ks : apiKey'[k].status = "REVOKED"
           /\ \A k \in APIKeys \ ks : apiKey'[k] = apiKey[k]
           /\ \A k \in APIKeys : apiKey'[k].status = "ACTIVE" => apiKey'[k] = apiKey[k]
           /\ \A k \in APIKeys : apiKey[k] # NoAPIKey => apiKey'[k] # NoAPIKey
<1>1. ASSUME NEW k \in ks  PROVE apiKey'[k] \in APIKeyRow /\ apiKey'[k].status = "REVOKED"
  <2>1. apiKey[k] \in APIKeyRow
    BY MsFacts, RowFacts
  <2>2. apiKey'[k] = [apiKey[k] EXCEPT !.status = "REVOKED"]
    BY DEF RevokeKeys
  <2> QED  BY <2>1, <2>2 DEF APIKeyRow, APIKeyStatus
<1>2. ASSUME NEW k \in APIKeys \ ks  PROVE apiKey'[k] = apiKey[k] /\ apiKey'[k] \in {NoAPIKey} \cup APIKeyRow
  BY MsFacts DEF RevokeKeys
<1>3. apiKey' \in [APIKeys -> {NoAPIKey} \cup APIKeyRow]
  BY <1>1, <1>2 DEF RevokeKeys
<1> QED  BY <1>1, <1>2, <1>3, RowFacts

\* An administrator gives a member another role or removes them, and their keys go along
\* with what is lost.
LEMMA MsMember ==
    ASSUME MsInv, NEW h \in Hands, NEW u \in Users, NEW row \in MemberRow, NEW ks \in SUBSET KeysOf(u),
           ~Holding(hand[h]), Done(h), member[u].status = "ACTIVE", member[u].role # "OWNER", row.role # "OWNER",
           member' = [member EXCEPT ![u] = row], RevokeKeys(ks),
           (row.status = "ACTIVE" /\ row.role \in Capable("key")) \/ ks = KeysOf(u),
           UNCHANGED <<fixed, invitation, slipped, crossed, unguarded, orphaned, billVars, subLock>>
    PROVE  MsInv'
<1> USE DEF fixed, billVars
<1>1. member' \in [Users -> {NoMember} \cup MemberRow] /\ member'[u] = row /\ \A v \in Users \ {u} : member'[v] = member[v]
  BY MsFacts
<1>2. /\ apiKey' \in [APIKeys -> {NoAPIKey} \cup APIKeyRow]
      /\ \A k \in ks : apiKey'[k].status = "REVOKED"
      /\ \A k \in APIKeys : apiKey'[k].status = "ACTIVE" => apiKey'[k] = apiKey[k]
      /\ \A k \in APIKeys : apiKey[k] # NoAPIKey => apiKey'[k] # NoAPIKey
  <2>1. ks \in SUBSET APIKeys /\ \A k \in ks : apiKey[k].status = "ACTIVE"
    BY DEF KeysOf
  <2> QED  BY <2>1, RevokeFacts
<1>3. hand'[h].stage = "idle" /\ \A q \in Hands : q # h => hand'[q] = hand[q]
  BY DoneStep
<1>4. msNow' \in Nat /\ msNow <= msNow'
  BY MsFacts
<1>5. \A v \in Users : (member[v].status # "ACTIVE" \/ v \in crossed) => (member'[v].status # "ACTIVE" \/ v \in crossed')
  BY <1>1
<1>6. SeatsOK'
  <2>1. MemberCount' \in Nat /\ MemberCount' <= MemberCount
    BY <1>1, MembersMove
  <2>2. invitation' \in [Invitations -> {NoInvitation} \cup InvitationRow]
    BY MsFacts
  <2>3. PendingCount' \in Nat /\ PendingCount' <= PendingCount
    BY <1>4, <2>2, PendingMove
  <2> QED  BY <1>3, <2>1, <2>3, SeatsKept
<1>7. KeysOK'
  <2>1. KeyCount' \in Nat /\ KeyCount' <= KeyCount
    BY <1>2, KeysMove
  <2> QED  BY <1>3, <2>1, KeysKept
<1>8. OutsideOK'
  <2>1. \A i \in Invitations : Pending(i)' => Pending(i)
    BY <1>4, PendingStays
  <2>2. \A i \in Invitations : Pending(i) => invitation[i].email \in Users
    BY MsFacts, RowFacts DEF Pending
  <2>3. \A q \in Hands : hand'[q].stage = "cleared" => hand'[q] = hand[q] /\ hand[q].email \in Users
    BY <1>3, MsFacts, HandFacts
  <2>4. \A q \in Hands : MayJoin(q)' => MayJoin(q) /\ hand'[q] = hand[q] /\ hand[q].by \in Users
    BY <1>3, MsFacts, HandFacts DEF MayJoin
  <2>5. OnePendingPerEmail'
    BY <2>1 DEF MsInv, MsParts, OutsideOK, OnePendingPerEmail
  <2>6. \A i \in Invitations : Pending(i)' => member'[invitation'[i].email].status # "ACTIVE" \/ invitation'[i].email \in crossed'
    BY <1>5, <2>1, <2>2 DEF MsInv, MsParts, OutsideOK, Outside
  <2>7. \A q \in Hands : hand'[q].stage = "cleared" => member'[hand'[q].email].status # "ACTIVE" \/ hand'[q].email \in crossed'
    BY <1>5, <2>3 DEF MsInv, MsParts, OutsideOK, Outside
  <2>8. \A q \in Hands : MayJoin(q)' => member'[hand'[q].by].status # "ACTIVE" \/ hand'[q].by \in crossed'
    BY <1>5, <2>4 DEF MsInv, MsParts, OutsideOK, Outside
  <2> QED  BY <2>5, <2>6, <2>7, <2>8 DEF OutsideOK, Outside
<1>9. OwnerOK'
  <2>1. \A q \in Hands : hand'[q].stage = "cleared" => hand'[q] = hand[q]
    BY <1>3
  <2>2. org.bind => member'[Owner] = Member("OWNER")
    BY <1>1, MembershipAssumption DEF MsInv, MsParts, OwnerOK, Member
  <2> QED  BY <2>1, <2>2 DEF MsInv, MsParts, OwnerOK
<1>10. KeysDieWithMembership'
  <2>1. SUFFICES ASSUME NEW k \in APIKeys, NEW v \in Users, org'.bind, k \notin orphaned',
                        apiKey'[k].status = "ACTIVE", apiKey'[k].by = v
                 PROVE  RoleOf(v)' \in Capable("key") \/ v \in crossed'
    BY <1>2, KeysDie
  <2>2. org.bind /\ k \in APIKeys \ orphaned /\ apiKey[k].status = "ACTIVE" /\ apiKey[k].by = v /\ k \notin ks
    BY <1>2, <2>1
  <2>3. RoleOf(v) \in Capable("key") \/ v \in crossed
    BY <2>2 DEF MsInv, MsParts, KeysDieWithMembership
  <2>4. CASE v # u
    <3>1. RoleOf(v)' = RoleOf(v)
      BY <1>1, <2>4 DEF RoleOf
    <3> QED  BY <2>3, <3>1
  <2>5. CASE v = u
    <3>1. row.status = "ACTIVE" /\ row.role \in Capable("key")
      BY <2>2, <2>5 DEF KeysOf
    <3> QED  BY <1>1, <2>5, <3>1 DEF RoleOf
  <2> QED  BY <2>4, <2>5
<1>11. /\ UNCHANGED <<sub, billed, provider, emitted, plansHad, applied, inOrder>> /\ slipped' \in Nat /\ unguarded' \in Nat
       /\ invitation' \in [Invitations -> {NoInvitation} \cup InvitationRow]
  BY MsFacts
<1> QED  BY <1>1, <1>2, <1>6, <1>7, <1>8, <1>9, <1>10, <1>11, MsRows

LEMMA MsChangeRole ==
    ASSUME MsInv, NEW h \in Hands, NEW u \in Users, NEW role \in org.roles, change_member_role(h, u, role)
    PROVE  MsInv'
<1>1. ~Holding(hand[h]) /\ Done(h) /\ member[u].status = "ACTIVE"
  BY DEF change_member_role, At, Holding
<1>2. CASE ~MayChange(h, u)
  BY <1>1, <1>2, MsIdle DEF change_member_role, memberVars, keyVars, billVars
<1>3. CASE MayChange(h, u)
  <2>1. PICK row : row = [member[u] EXCEPT !.role = role]
    OBVIOUS
  <2>2. member[u] \in MemberRow /\ role \in OrganizationRole \ {"OWNER"} /\ member[u].role # "OWNER"
    BY <1>1, <1>3, MsFacts, RowFacts DEF MayChange
  <2>3. row \in MemberRow /\ row.role = role /\ row.status = "ACTIVE"
    BY <1>1, <2>1, <2>2 DEF MemberRow
  <2>4. PICK ks \in SUBSET KeysOf(u) : ks = IF role = "VIEWER" THEN KeysOf(u) ELSE {}
    OBVIOUS
  <2>5. member' = [member EXCEPT ![u] = row] /\ RevokeKeys(ks)
    BY <1>3, <2>1, <2>4 DEF change_member_role
  <2>6. row.role \in Capable("key") \/ ks = KeysOf(u)
    BY <2>2, <2>3, <2>4, CapableFacts DEF OrganizationRole
  <2> QED  BY <1>1, <2>2, <2>3, <2>5, <2>6, MsMember DEF change_member_role
<1> QED  BY <1>2, <1>3

LEMMA MsRemoveMember ==
    ASSUME MsInv, NEW h \in Hands, NEW u \in Users, remove_member(h, u)
    PROVE  MsInv'
<1>1. ~Holding(hand[h]) /\ Done(h) /\ member[u].status = "ACTIVE"
  BY DEF remove_member, At, Holding
<1>2. CASE ~MayChange(h, u)
  BY <1>1, <1>2, MsIdle DEF remove_member, memberVars, keyVars, billVars
<1>3. CASE MayChange(h, u)
  <2>1. PICK row : row = [member[u] EXCEPT !.status = "REMOVED"]
    OBVIOUS
  <2>2. member[u] \in MemberRow /\ member[u].role # "OWNER"
    BY <1>1, <1>3, MsFacts, RowFacts DEF MayChange
  <2>3. row \in MemberRow /\ row.role # "OWNER"
    BY <2>1, <2>2 DEF MemberRow, MemberStatus
  <2>4. member' = [member EXCEPT ![u] = row] /\ RevokeKeys(KeysOf(u))
    BY <1>3, <2>1 DEF remove_member
  <2> QED  BY <1>1, <2>2, <2>3, <2>4, MsMember DEF remove_member
<1> QED  BY <1>2, <1>3

LEMMA MsLockKeys ==
    ASSUME MsInv, NEW h \in Hands, LockKeys(h)
    PROVE  MsInv'
<1>1. CASE ~(_check_subscription_access /\ MayAdd(KeyCount, MaxKeys[sub.plan]))
  <2>1. ~Holding(hand[h])
    BY DEF LockKeys, At, Holding
  <2> QED  BY <1>1, <2>1, MsIdle DEF LockKeys, billVars
<1>2. CASE _check_subscription_access /\ MayAdd(KeyCount, MaxKeys[sub.plan])
  <2>1. PICK d : d = [hand[h] EXCEPT !.stage = "keyed"]
    OBVIOUS
  <2>2. /\ hand[h] = [stage |-> "entered", op |-> "key", by |-> hand[h].by, role |-> hand[h].role]
        /\ hand[h].by \in Users /\ hand[h].role \in OrganizationRole
    <3>1. hand[h] \in HandRec /\ hand[h].stage = "entered" /\ hand[h].op = "key"
      BY MsFacts DEF LockKeys, At
    <3> QED  BY <3>1, HandFacts
  <2>3. d = [stage |-> "keyed", op |-> "key", by |-> hand[h].by, role |-> hand[h].role]
    BY <2>1, <2>2
  <2>4. d \in HandRec /\ d.stage = "keyed" /\ Holding(d)
    BY <2>2, <2>3 DEF HandRec, Holding
  <2>5. hand' = [hand EXCEPT ![h] = d] /\ subLock = Nobody /\ subLock' = h
    BY <1>2, <2>1 DEF LockKeys
  <2>6. UNCHANGED <<apiKey, unguarded, plansHad, emitted>>
    BY DEF LockKeys, keyVars, billVars
  <2>7. hand'[h] = d /\ \A q \in Hands : q # h => hand'[q] = hand[q]
    BY <2>4, <2>5, <2>6, HandStep
  <2>8. \A q \in Hands : q # h => ~Holding(hand[q])
    BY <2>5, MsFacts DEF MsInv, MsParts, HeldOK
  <2>9. KeysOK'
    <3>1. KeyCount' = KeyCount
      BY <2>6 DEF KeyCount
    <3>2. KeyCount + 1 <= MaxKeys[sub.plan] + unguarded
      <4>1. KeyCount \in Nat /\ MaxKeys[sub.plan] \in Nat /\ unguarded \in Nat
        BY Counts, MsFacts
      <4>2. KeyCount < MaxKeys[sub.plan]
        BY <1>2 DEF MayAdd
      <4> QED  BY <4>1, <4>2
    <3>3. \E p \in plansHad' : KeyCount' <= MaxKeys[p] + unguarded'
      BY <2>6, <3>1 DEF MsInv, MsParts, KeysOK
    <3>4. \E p \in plansHad' : KeyCount' + 1 <= MaxKeys[p] + unguarded'
      BY <2>6, <3>1, <3>2, MsFacts
    <3> QED  BY <3>3, <3>4 DEF KeysOK
  <2> QED  BY <2>4, <2>5, <2>9, MsHand DEF LockKeys, billVars
<1> QED  BY <1>1, <1>2

\* A key is counted under the lock, or by the history of attempts that had lost it.
LEMMA MsCreateKey ==
    ASSUME MsInv, NEW h \in Hands, NEW k \in APIKeys, NEW till \in org.expiries, create_api_key(h, k, till)
    PROVE  MsInv'
<1> USE DEF fixed, memberVars, billVars
<1>1. PICK row : row = [by |-> hand[h].by, status |-> "ACTIVE", till |-> till]
  OBVIOUS
<1>2. hand[h] \in HandRec /\ hand[h].stage \in {"keyed", "retrying"} /\ Done(h) /\ Release(h)
  BY MsFacts DEF create_api_key, At
<1>3. row \in APIKeyRow /\ row.by = hand[h].by /\ row.status = "ACTIVE"
  <2>1. hand[h].by \in Users /\ till \in Nat
    BY <1>2, HandFacts, MsFacts
  <2> QED  BY <1>1, <2>1 DEF APIKeyRow, APIKeyStatus
<1>4. /\ apiKey' = [apiKey EXCEPT ![k] = row]
      /\ unguarded' = IF hand[h].stage = "retrying" THEN unguarded + 1 ELSE unguarded
      /\ orphaned' = IF RoleOf(hand[h].by) \in Capable("key") THEN orphaned ELSE orphaned \cup {k}
      /\ UNCHANGED <<fixed, memberVars, billVars>>
  BY <1>1 DEF create_api_key
<1>5. /\ apiKey' \in [APIKeys -> {NoAPIKey} \cup APIKeyRow] /\ apiKey'[k] = row
      /\ \A l \in APIKeys \ {k} : apiKey'[l] = apiKey[l]
      /\ \A l \in APIKeys : apiKey[l] # NoAPIKey => apiKey'[l] # NoAPIKey
  BY <1>3, <1>4, MsFacts, RowFacts
<1>6. hand'[h].stage = "idle" /\ \A q \in Hands : q # h => hand'[q] = hand[q]
  BY <1>2, <1>4, DoneStep
<1>7. msNow' \in Nat /\ msNow <= msNow' /\ unguarded' \in Nat /\ unguarded <= unguarded' /\ orphaned \subseteq orphaned'
  BY <1>4, MsFacts
<1>8. SeatsOK' /\ OutsideOK' /\ OwnerOK'
  BY <1>4, <1>6, <1>7, MsKept
<1>9. KeysOK'
  <2>1. KeyCount' \in Nat /\ KeyCount' <= KeyCount + 1
    BY <1>5, KeysMove
  <2>2. KeyCount \in Nat /\ unguarded \in Nat
    BY Counts, MsFacts
  <2>3. CASE hand[h].stage = "keyed"
    <3>1. PICK p \in plansHad : KeyCount + 1 <= MaxKeys[p] + unguarded
      BY <2>3 DEF MsInv, MsParts, KeysOK
    <3>2. MaxKeys[p] \in Nat
      BY MsFacts
    <3>3. KeyCount' <= MaxKeys[p] + unguarded'
      BY <1>7, <2>1, <2>2, <3>1, <3>2
    <3>4. \A q \in Hands : hand'[q].stage # "keyed"
      <4>1. Holding(hand[h])
        BY <2>3 DEF Holding
      <4>2. \A q \in Hands : q # h => ~Holding(hand[q])
        BY <4>1, MsFacts DEF MsInv, MsParts, HeldOK
      <4> QED  BY <1>6, <4>2 DEF Holding
    <3> QED  BY <1>4, <3>3, <3>4 DEF KeysOK
  <2>4. CASE hand[h].stage = "retrying"
    <3>1. unguarded' = unguarded + 1
      BY <1>4, <2>4
    <3>2. \E p \in plansHad' : KeyCount' <= MaxKeys[p] + unguarded'
      <4>1. PICK p \in plansHad : KeyCount <= MaxKeys[p] + unguarded
        BY DEF MsInv, MsParts, KeysOK
      <4>2. MaxKeys[p] \in Nat
        BY MsFacts
      <4>3. KeyCount' <= MaxKeys[p] + unguarded'
        BY <2>1, <2>2, <3>1, <4>1, <4>2
      <4> QED  BY <1>4, <4>3
    <3>3. ASSUME NEW q \in Hands, hand'[q].stage = "keyed"
          PROVE  \E p \in plansHad' : KeyCount' + 1 <= MaxKeys[p] + unguarded'
      <4>1. hand[q].stage = "keyed"
        BY <1>6, <3>3
      <4>2. PICK p \in plansHad : KeyCount + 1 <= MaxKeys[p] + unguarded
        BY <4>1 DEF MsInv, MsParts, KeysOK
      <4>3. MaxKeys[p] \in Nat
        BY MsFacts
      <4>4. KeyCount' + 1 <= MaxKeys[p] + unguarded'
        BY <2>1, <2>2, <3>1, <4>2, <4>3
      <4> QED  BY <1>4, <4>4
    <3> QED  BY <3>2, <3>3 DEF KeysOK
  <2> QED  BY <1>2, <2>3, <2>4
<1>10. KeysDieWithMembership'
  <2>1. SUFFICES ASSUME NEW l \in APIKeys, NEW v \in Users, org'.bind, l \notin orphaned',
                        apiKey'[l].status = "ACTIVE", apiKey'[l].by = v
                 PROVE  RoleOf(v)' \in Capable("key") \/ v \in crossed'
    BY <1>5, KeysDie
  <2>2. RoleOf(v)' = RoleOf(v)
    BY <1>4 DEF RoleOf
  <2>3. CASE l = k
    <3>1. RoleOf(hand[h].by) \in Capable("key")
      BY <1>4, <2>1, <2>3
    <3> QED  BY <1>3, <1>5, <2>1, <2>2, <2>3, <3>1
  <2>4. CASE l # k
    BY <1>4, <1>5, <1>7, <2>1, <2>2, <2>4 DEF MsInv, MsParts, KeysDieWithMembership
  <2> QED  BY <2>3, <2>4
<1>11. /\ UNCHANGED <<sub, billed, provider, emitted, plansHad, applied, inOrder>> /\ slipped' \in Nat
       /\ member' \in [Users -> {NoMember} \cup MemberRow] /\ invitation' \in [Invitations -> {NoInvitation} \cup InvitationRow]
       /\ crossed \subseteq crossed' /\ \A i \in Invitations : invitation[i] # NoInvitation => invitation'[i] # NoInvitation
  BY <1>4, MsFacts
<1> QED  BY <1>2, <1>4, <1>5, <1>7, <1>8, <1>9, <1>10, <1>11, MsRows

\* A handler that ends keys, and makes none work.
LEMMA MsEndKeys ==
    ASSUME MsInv, NEW h \in Hands, ~Holding(hand[h]), Done(h),
           apiKey' \in [APIKeys -> {NoAPIKey} \cup APIKeyRow],
           \A k \in APIKeys : apiKey'[k].status = "ACTIVE" => apiKey'[k] = apiKey[k],
           \A k \in APIKeys : apiKey[k] # NoAPIKey => apiKey'[k] # NoAPIKey,
           UNCHANGED <<fixed, memberVars, unguarded, orphaned, billVars, subLock>>
    PROVE  MsInv'
<1> USE DEF fixed, memberVars, billVars
<1>1. hand'[h].stage = "idle" /\ \A q \in Hands : q # h => hand'[q] = hand[q]
  BY DoneStep
<1>2. msNow' \in Nat /\ msNow <= msNow'
  BY MsFacts
<1>3. SeatsOK' /\ OutsideOK' /\ OwnerOK'
  BY <1>1, <1>2, MsKept
<1>4. KeysOK'
  <2>1. KeyCount' \in Nat /\ KeyCount' <= KeyCount
    BY KeysMove
  <2> QED  BY <1>1, <2>1, KeysKept
<1>5. KeysDieWithMembership'
  <2>1. SUFFICES ASSUME NEW k \in APIKeys, NEW v \in Users, org'.bind, k \notin orphaned',
                        apiKey'[k].status = "ACTIVE", apiKey'[k].by = v
                 PROVE  RoleOf(v)' \in Capable("key") \/ v \in crossed'
    BY KeysDie
  <2>2. RoleOf(v)' = RoleOf(v)
    BY DEF RoleOf
  <2> QED  BY <2>1, <2>2 DEF MsInv, MsParts, KeysDieWithMembership
<1>6. /\ slipped' \in Nat /\ unguarded' \in Nat
      /\ member' \in [Users -> {NoMember} \cup MemberRow] /\ invitation' \in [Invitations -> {NoInvitation} \cup InvitationRow]
  BY MsFacts
<1> QED  BY <1>3, <1>4, <1>5, <1>6, MsRows

LEMMA ExpiredRow ==
    ASSUME NEW r \in APIKeyRow
    PROVE  [r EXCEPT !.status = "EXPIRED"] \in APIKeyRow /\ [r EXCEPT !.status = "EXPIRED"].status = "EXPIRED"
BY DEF APIKeyRow, APIKeyStatus

LEMMA MsListKeys ==
    ASSUME MsInv, NEW h \in Hands, list_api_keys(h)
    PROVE  MsInv'
<1>1. hand[h] \in HandRec /\ hand[h].stage = "listed" /\ Done(h) /\ ~Holding(hand[h])
  BY MsFacts DEF list_api_keys, At, Holding
<1>2. \A k \in hand[h].keys : k \in APIKeys /\ apiKey[k] \in APIKeyRow
  <2>1. hand[h].keys \subseteq APIKeys
    BY <1>1, HandFacts
  <2>2. \A k \in hand[h].keys : apiKey[k] # NoAPIKey
    BY <1>1 DEF MsInv, MsParts, SeenOK
  <2> QED  BY <2>1, <2>2, MsFacts
<1>3. /\ \A k \in APIKeys : k \in hand[h].keys => apiKey'[k] \in APIKeyRow /\ apiKey'[k].status = "EXPIRED"
      /\ \A k \in APIKeys : k \notin hand[h].keys => apiKey'[k] = apiKey[k]
  BY <1>2, ExpiredRow DEF list_api_keys
<1>4. apiKey' \in [APIKeys -> {NoAPIKey} \cup APIKeyRow]
  BY <1>3, MsFacts DEF list_api_keys
<1>5. /\ \A k \in APIKeys : apiKey'[k].status = "ACTIVE" => apiKey'[k] = apiKey[k]
      /\ \A k \in APIKeys : apiKey[k] # NoAPIKey => apiKey'[k] # NoAPIKey
  BY <1>3, RowFacts
<1> QED  BY <1>1, <1>4, <1>5, MsEndKeys DEF list_api_keys

LEMMA MsRevokeKey ==
    ASSUME MsInv, NEW h \in Hands, NEW k \in APIKeys, revoke_api_key(h, k)
    PROVE  MsInv'
<1>1. Done(h) /\ ~Holding(hand[h])
  BY DEF revoke_api_key, At, Holding
<1>2. PICK ks \in SUBSET APIKeys : ks = {k} \cap KeysOf(apiKey[k].by)
  OBVIOUS
<1>3. (\A l \in ks : apiKey[l].status = "ACTIVE") /\ RevokeKeys(ks)
  BY <1>2 DEF KeysOf, revoke_api_key
<1>4. /\ apiKey' \in [APIKeys -> {NoAPIKey} \cup APIKeyRow]
      /\ \A l \in APIKeys : apiKey'[l].status = "ACTIVE" => apiKey'[l] = apiKey[l]
      /\ \A l \in APIKeys : apiKey[l] # NoAPIKey => apiKey'[l] # NoAPIKey
  BY <1>3, RevokeFacts
<1> QED  BY <1>1, <1>4, MsEndKeys DEF revoke_api_key

LEMMA MsAuthenticate ==
    ASSUME MsInv, NEW h \in Hands, authenticate_api_key(h)
    PROVE  MsInv'
<1>1. hand[h] \in HandRec /\ hand[h].stage = "loaded" /\ Done(h) /\ ~Holding(hand[h])
  BY MsFacts DEF authenticate_api_key, At, Holding
<1>2. PICK k \in APIKeys : k = hand[h].key
  BY <1>1, HandFacts
<1>3. apiKey[k] \in APIKeyRow
  <2>1. apiKey[k] # NoAPIKey
    BY <1>1, <1>2 DEF MsInv, MsParts, SeenOK
  <2> QED  BY <2>1, MsFacts
<1>4. PICK r : r = AfterUse(hand[h])
  OBVIOUS
<1>5. r \in APIKeyRow /\ (r = apiKey[k] \/ r.status = "EXPIRED")
  BY <1>2, <1>3, <1>4, ExpiredRow DEF AfterUse, Touched
<1>6. apiKey' = [apiKey EXCEPT ![k] = r]
  BY <1>2, <1>4 DEF authenticate_api_key
<1>7. /\ apiKey' \in [APIKeys -> {NoAPIKey} \cup APIKeyRow] /\ apiKey'[k] = r
      /\ \A l \in APIKeys \ {k} : apiKey'[l] = apiKey[l]
  BY <1>5, <1>6, MsFacts
<1>8. /\ \A l \in APIKeys : apiKey'[l].status = "ACTIVE" => apiKey'[l] = apiKey[l]
      /\ \A l \in APIKeys : apiKey[l] # NoAPIKey => apiKey'[l] # NoAPIKey
  BY <1>5, <1>7, RowFacts
<1> QED  BY <1>1, <1>7, <1>8, MsEndKeys DEF authenticate_api_key

\* A step that leaves members, invitations and keys alone.
LEMMA MsBill ==
    ASSUME MsInv, NEW h, \A q \in Hands : q # h => hand'[q] = hand[q], UNCHANGED <<org, memberVars, keyVars>>,
           msNow' \in Nat, msNow <= msNow',
           hand' \in [Hands -> HandRec], \A q \in Hands : hand'[q].stage = "looked" => hand'[q].event \in DOMAIN emitted',
           h \in Hands => hand'[h].stage \in {"idle", "told"},
           HeldOK', subLock' \in Hands \cup {Nobody},
           sub' \in SubRow, plansHad' \subseteq DOMAIN MaxMembers, plansHad \subseteq plansHad', sub'.plan \in plansHad',
           provider' \in [plan : DOMAIN MaxMembers, told : BOOLEAN],
           emitted' \in Seq(BillingEvent), billed' \subseteq DOMAIN emitted', applied' \in Seq(Nat), BilledOK'
    PROVE  MsInv'
<1> USE DEF memberVars, keyVars
<1>1. MsTyped'
  BY MsFacts DEF MsTyped
<1>2. SeatsOK'
  BY MsKept
<1>3. KeysOK'
  BY MsKept
<1>4. OutsideOK' /\ OwnerOK'
  BY MsKept
<1>5. SeenOK'
  BY MsKept
<1>6. KeysDieWithMembership'
  BY MsKept
<1> QED  BY <1>1, <1>2, <1>3, <1>4, <1>5, <1>6 DEF MsInv, MsParts

LEMMA MsTime ==
    ASSUME MsInv, MsTick
    PROVE  MsInv'
<1> USE DEF MsTick, billVars
<1>1. msNow \in Nat /\ msNow' \in Nat /\ msNow <= msNow'
  BY MsFacts
<1>2. HeldOK'
  BY DEF MsInv, MsParts, HeldOK, Holding
<1>3. \A q \in Hands : hand[q].stage = "looked" => hand[q].event \in DOMAIN emitted
  BY DEF MsInv, MsTyped
<1>4. BilledOK'
  BY <1>1, MsFacts, MsKept DEF memberVars, keyVars
<1> QED  BY <1>1, <1>2, <1>3, <1>4, MsFacts, MsBill

LEMMA EventFacts ==
    ASSUME MsInv
    PROVE  /\ Len(emitted) \in Nat /\ DOMAIN emitted = 1..Len(emitted) /\ billed \subseteq 1..Len(emitted)
           /\ \A e \in 1..Len(emitted) : /\ emitted[e] \in BillingEvent
                                         /\ emitted[e].plan \in DOMAIN MaxMembers \ {"free"}
                                         /\ PlanOf(emitted[e]) \in DOMAIN MaxMembers
                                         /\ PlanOf(emitted[e]) = "free" <=> emitted[e].type = "canceled"
<1>1. Len(emitted) \in Nat /\ DOMAIN emitted = 1..Len(emitted) /\ billed \subseteq DOMAIN emitted
  BY MsFacts, LenProperties
<1>2. ASSUME NEW e \in 1..Len(emitted)
      PROVE  emitted[e] \in BillingEvent /\ emitted[e].plan \in DOMAIN MaxMembers \ {"free"}
  <2>1. emitted[e] \in BillingEvent
    BY <1>1, <1>2, MsFacts, ElementOfSeq
  <2> QED  BY <2>1 DEF BillingEvent
<1> QED  BY <1>1, <1>2, MembershipAssumption DEF PlanOf

LEMMA PlanUnique ==
    ASSUME NEW a, NEW s, NEW m \in Nat, NEW p, NEW q, PlanAfter(a, s, m, p), PlanAfter(a, s, m, q)
    PROVE  p = q
<1>1. CASE \A j \in 1..m : ~Changes(s[j])
  BY <1>1 DEF PlanAfter
<1>2. CASE ~\A j \in 1..m : ~Changes(s[j])
  <2>1. PICK l \in 1..m : Changes(s[l]) /\ p = PlanOf(s[l]) /\ \A j \in (l + 1)..m : ~Changes(s[j])
    BY <1>2 DEF PlanAfter
  <2>2. PICK k \in 1..m : Changes(s[k]) /\ q = PlanOf(s[k]) /\ \A j \in (k + 1)..m : ~Changes(s[j])
    BY <1>2 DEF PlanAfter
  <2>3. ~(l < k) /\ ~(k < l)
    BY <2>1, <2>2
  <2> QED  BY <2>1, <2>2, <2>3
<1> QED  BY <1>1, <1>2

\* Only the first m events count.
LEMMA PlanSame ==
    ASSUME NEW a, NEW s, NEW t, NEW m \in Nat, NEW p, \A j \in 1..m : t[j] = s[j], PlanAfter(a, s, m, p)
    PROVE  PlanAfter(a, t, m, p)
<1>1. CASE p = a /\ \A j \in 1..m : ~Changes(s[j])
  BY <1>1 DEF PlanAfter
<1>2. ASSUME NEW l \in 1..m, Changes(s[l]), p = PlanOf(s[l]), \A j \in (l + 1)..m : ~Changes(s[j])
      PROVE  PlanAfter(a, t, m, p)
  <2>1. t[l] = s[l] /\ \A j \in (l + 1)..m : t[j] = s[j]
    OBVIOUS
  <2> QED  BY <1>2, <2>1 DEF PlanAfter
<1> QED  BY <1>1, <1>2 DEF PlanAfter

\* One event more.
LEMMA PlanNext ==
    ASSUME NEW a, NEW s, NEW m \in Nat, NEW p
    PROVE  /\ Changes(s[m + 1]) => PlanAfter(a, s, m + 1, PlanOf(s[m + 1]))
           /\ (PlanAfter(a, s, m, p) /\ ~Changes(s[m + 1])) => PlanAfter(a, s, m + 1, p)
<1>1. ASSUME Changes(s[m + 1])  PROVE PlanAfter(a, s, m + 1, PlanOf(s[m + 1]))
  <2>1. m + 1 \in 1..(m + 1) /\ \A j \in (m + 1 + 1)..(m + 1) : ~Changes(s[j])
    OBVIOUS
  <2> QED  BY <1>1, <2>1 DEF PlanAfter
<1>2. ASSUME PlanAfter(a, s, m, p), ~Changes(s[m + 1])  PROVE PlanAfter(a, s, m + 1, p)
  <2>1. CASE p = a /\ \A j \in 1..m : ~Changes(s[j])
    <3>1. \A j \in 1..(m + 1) : ~Changes(s[j])
      BY <1>2, <2>1
    <3> QED  BY <2>1, <3>1 DEF PlanAfter
  <2>2. ASSUME NEW l \in 1..m, Changes(s[l]), p = PlanOf(s[l]), \A j \in (l + 1)..m : ~Changes(s[j])
        PROVE  PlanAfter(a, s, m + 1, p)
    <3>1. l \in 1..(m + 1) /\ \A j \in (l + 1)..(m + 1) : ~Changes(s[j])
      BY <1>2, <2>2
    <3> QED  BY <2>2, <3>1 DEF PlanAfter
  <2> QED  BY <1>2, <2>1, <2>2 DEF PlanAfter
<1> QED  BY <1>1, <1>2

LEMMA MsEmit ==
    ASSUME MsInv, NEW type \in {"completed", "failed", "updated", "past_due", "canceled"},
           NEW p \in DOMAIN MaxMembers \ {"free"}, Emit(type, p)
    PROVE  MsInv'
<1> DEFINE n == Len(emitted)
<1> USE DEF fixed
<1>1. PICK e : e = [type |-> type, plan |-> p]
  OBVIOUS
<1>2. e \in BillingEvent /\ e.type = type /\ e.plan = p
  BY <1>1 DEF BillingEvent
<1>3. /\ emitted' = Append(emitted, e) /\ applied' = Append(applied, 0)
      /\ UNCHANGED <<fixed, memberVars, keyVars, sub, billed, checkout, plansHad, inOrder, subLock, hand>>
  BY <1>1 DEF Emit
<1>4. n \in Nat /\ DOMAIN emitted = 1..n /\ billed \subseteq 1..n
  BY EventFacts
<1>5. /\ emitted' \in Seq(BillingEvent) /\ Len(emitted') = n + 1 /\ DOMAIN emitted' = 1..(n + 1)
      /\ emitted'[n + 1] = e /\ \A j \in 1..n : emitted'[j] = emitted[j]
  BY <1>2, <1>3, <1>4, MsFacts, AppendProperties
<1>6. DOMAIN applied = 1..n /\ Len(applied) = n
  BY <1>4, MsFacts, LenProperties DEF MsInv, MsParts, BilledOK
<1>7. /\ applied' \in Seq(Nat) /\ DOMAIN applied' = 1..(n + 1)
      /\ applied'[n + 1] = 0 /\ \A j \in 1..n : applied'[j] = applied[j]
  <2>1. 0 \in Nat
    OBVIOUS
  <2> QED  BY <1>3, <1>6, <2>1, MsFacts, AppendProperties, LenProperties
<1>8. /\ provider.plan \in DOMAIN MaxMembers
      /\ type \in {"completed", "updated"} => provider' = [provider EXCEPT !.plan = p]
      /\ type = "canceled" => provider' = [plan |-> "free", told |-> FALSE]
      /\ type \in {"failed", "past_due"} => provider' = provider
  <2>1. provider.plan \in DOMAIN MaxMembers
    BY MsFacts
  <2>2. type \in {"completed", "updated"} => provider' = [provider EXCEPT !.plan = p]
    BY DEF Emit
  <2>3. type = "canceled" => provider' = [plan |-> "free", told |-> FALSE]
    BY DEF Emit
  <2>4. type \in {"failed", "past_due"} => provider' = provider
    BY DEF Emit
  <2> QED  BY <2>1, <2>2, <2>3, <2>4
<1>9. /\ provider' \in [plan : DOMAIN MaxMembers, told : BOOLEAN]
      /\ provider'.plan = IF Changes(e) THEN PlanOf(e) ELSE provider.plan
      /\ type # "canceled" => (provider'.told <=> provider.told)
  <2>1. CASE type \in {"completed", "updated"}
    BY <1>2, <1>8, <2>1, MsFacts DEF Changes, PlanOf
  <2>2. CASE type = "canceled"
    <3>1. provider'.plan = "free" /\ PlanOf(e) = "free" /\ Changes(e)
      BY <1>2, <1>8, <2>2 DEF Changes, PlanOf
    <3>2. PICK no \in BOOLEAN : ~no
      OBVIOUS
    <3>3. provider' = [plan |-> "free", told |-> no]
      BY <1>8, <2>2, <3>2
    <3>4. provider' \in [plan : DOMAIN MaxMembers, told : BOOLEAN]
      BY <3>3, MembershipAssumption
    <3> QED  BY <2>2, <3>1, <3>4
  <2>3. CASE type \in {"failed", "past_due"}
    BY <1>2, <1>8, <2>3, MsFacts DEF Changes, PlanOf
  <2> QED  BY <2>1, <2>2, <2>3
<1>10. \A m \in 0..n : \A x : PlanAfter(org.plan, emitted, m, x) => PlanAfter(org'.plan, emitted', m, x)
  <2>1. ASSUME NEW m \in 0..n, NEW x, PlanAfter(org.plan, emitted, m, x)
        PROVE  PlanAfter(org'.plan, emitted', m, x)
    <3>1. m \in Nat /\ (\A j \in 1..m : emitted'[j] = emitted[j]) /\ org' = org
      BY <1>3, <1>4, <1>5
    <3> QED  BY <2>1, <3>1, PlanSame
  <2> QED  BY <2>1
<1>11. PlanAfter(org'.plan, emitted', n + 1, provider'.plan)
  <2>1. CASE Changes(e)
    BY <1>4, <1>5, <1>9, <2>1, PlanNext
  <2>2. CASE ~Changes(e)
    <3>1. PlanAfter(org'.plan, emitted', n, provider'.plan)
      BY <1>4, <1>9, <1>10, <2>2 DEF MsInv, MsParts, BilledOK
    <3> QED  BY <1>4, <1>5, <2>2, <3>1, PlanNext
  <2> QED  BY <2>1, <2>2
<1>12. \A j \in DOMAIN applied' : applied'[j] = IF j \in billed' THEN 1 ELSE 0
  <2>1. n + 1 \notin billed
    BY <1>4
  <2>2. \A j \in 1..n : applied[j] = IF j \in billed THEN 1 ELSE 0
    BY <1>6 DEF MsInv, MsParts, BilledOK
  <2> QED  BY <1>3, <1>4, <1>7, <2>1, <2>2
<1>13. ASSUME NEW m \in 0..(n + 1), inOrder', billed' = 1..m
       PROVE  /\ PlanAfter(org'.plan, emitted', m, sub'.plan)
              /\ m > 0 => (sub'.status = "PAST_DUE" <=> emitted'[m].type \in {"past_due", "failed"})
              /\ Ending' => provider'.told \/ \E j \in (m + 1)..(n + 1) : emitted'[j].type = "canceled"
  <2>1. m \in 0..n
    <3>1. m # n + 1
      BY <1>3, <1>4, <1>13
    <3> QED  BY <1>4, <3>1
  <2>2. /\ PlanAfter(org.plan, emitted, m, sub.plan)
        /\ m > 0 => (sub.status = "PAST_DUE" <=> emitted[m].type \in {"past_due", "failed"})
        /\ Ending => provider.told \/ \E j \in (m + 1)..n : emitted[j].type = "canceled"
    BY <1>3, <1>13, <2>1 DEF MsInv, MsParts, BilledOK
  <2>3. PlanAfter(org'.plan, emitted', m, sub'.plan)
    BY <1>3, <1>10, <2>1, <2>2
  <2>4. m > 0 => (sub'.status = "PAST_DUE" <=> emitted'[m].type \in {"past_due", "failed"})
    BY <1>3, <1>5, <2>1, <2>2
  <2>5. ASSUME Ending'  PROVE provider'.told \/ \E j \in (m + 1)..(n + 1) : emitted'[j].type = "canceled"
    <3>1. Ending
      BY <1>3, <2>5 DEF Ending
    <3>2. CASE type = "canceled"
      <4>1. n + 1 \in (m + 1)..(n + 1) /\ emitted'[n + 1].type = "canceled"
        BY <1>2, <1>4, <1>5, <2>1, <3>2
      <4> QED  BY <4>1
    <3>3. CASE type # "canceled" /\ provider.told
      BY <1>9, <3>3
    <3>4. ASSUME NEW j \in (m + 1)..n, emitted[j].type = "canceled"
          PROVE  \E k \in (m + 1)..(n + 1) : emitted'[k].type = "canceled"
      <4>1. j \in (m + 1)..(n + 1) /\ j \in 1..n
        BY <1>4, <2>1
      <4> QED  BY <1>5, <3>4, <4>1
    <3> QED  BY <2>2, <3>1, <3>2, <3>3, <3>4
  <2> QED  BY <2>3, <2>4, <2>5
<1>14. BilledOK'
  <2>1. DOMAIN applied' = DOMAIN emitted' /\ Len(emitted') = n + 1
    BY <1>5, <1>7
  <2> HIDE DEF n
  <2> QED  BY <1>11, <1>12, <1>13, <2>1 DEF BilledOK
<1>15. HeldOK'
  BY <1>3 DEF MsInv, MsParts, HeldOK, Holding
<1>16. /\ UNCHANGED <<org, memberVars, keyVars, hand>> /\ msNow' \in Nat /\ msNow <= msNow'
       /\ hand' \in [Hands -> HandRec] /\ subLock' \in Hands \cup {Nobody} /\ Nobody \notin Hands
       /\ sub' \in SubRow /\ plansHad' \subseteq DOMAIN MaxMembers /\ plansHad \subseteq plansHad' /\ sub'.plan \in plansHad'
  BY <1>3, MsFacts
<1>17. billed' \subseteq DOMAIN emitted'
  BY <1>3, <1>4, <1>5
<1>18. \A q \in Hands : hand'[q].stage = "looked" => hand'[q].event \in DOMAIN emitted'
  <2>1. \A q \in Hands : hand[q].stage = "looked" => hand[q].event \in DOMAIN emitted
    BY DEF MsInv, MsTyped
  <2> QED  BY <1>3, <1>4, <1>5, <2>1
<1> QED  BY <1>5, <1>7, <1>9, <1>14, <1>15, <1>16, <1>17, <1>18, MsBill

\* What a delivery does to the subscription.
LEMMA AppliedFacts ==
    ASSUME MsInv, NEW e \in BillingEvent, NEW row, row = Applied(sub, e)
    PROVE  /\ row \in SubRow
           /\ row.plan = IF Changes(e) THEN PlanOf(e) ELSE sub.plan
           /\ row.status = "PAST_DUE" <=> e.type \in {"past_due", "failed"}
           /\ row.cancelling => sub.cancelling /\ e.type # "canceled"
<1>1. e.type \in {"completed", "failed", "updated", "past_due", "canceled"} /\ e.plan \in DOMAIN MaxMembers
  BY DEF BillingEvent
<1>2. sub \in SubRow /\ msNow + Grace \in Nat /\ "free" \in DOMAIN MaxMembers
  BY MsFacts, MembershipAssumption
<1>3. PICK no \in BOOLEAN : ~no
  OBVIOUS
<1>4. CASE e.type \in {"completed", "updated"}
  <2>1. row = [plan |-> e.plan, status |-> "ACTIVE", grace |-> 0, cancelling |-> no]
    BY <1>3, <1>4 DEF Applied
  <2>2. 0 \in Nat
    OBVIOUS
  <2>3. row \in SubRow
    BY <1>1, <2>1, <2>2 DEF SubRow, SubscriptionStatus
  <2>4. row.plan = e.plan /\ row.status = "ACTIVE" /\ row.cancelling = no
    BY <2>1
  <2> QED  BY <1>3, <1>4, <2>3, <2>4 DEF Changes, PlanOf
<1>5. CASE e.type \in {"past_due", "failed"}
  <2>1. row = [sub EXCEPT !.status = "PAST_DUE", !.grace = msNow + Grace]
    BY <1>5 DEF Applied
  <2>2. row \in SubRow
    BY <1>2, <2>1 DEF SubRow, SubscriptionStatus
  <2>3. row.plan = sub.plan /\ row.status = "PAST_DUE" /\ row.cancelling = sub.cancelling
    BY <1>2, <2>1 DEF SubRow
  <2> QED  BY <1>5, <2>2, <2>3 DEF Changes, PlanOf
<1>6. CASE e.type = "canceled"
  <2>1. row = [sub EXCEPT !.plan = "free", !.status = "CANCELED", !.cancelling = no]
    BY <1>3, <1>6 DEF Applied
  <2>2. row \in SubRow
    BY <1>2, <2>1 DEF SubRow, SubscriptionStatus
  <2>3. row.plan = "free" /\ row.status = "CANCELED" /\ row.cancelling = no
    BY <1>2, <2>1 DEF SubRow
  <2> QED  BY <1>3, <1>6, <2>2, <2>3 DEF Changes, PlanOf
<1> QED  BY <1>1, <1>4, <1>5, <1>6

LEMMA MsWebhook ==
    ASSUME MsInv, NEW h \in Hands, process_webhook(h)
    PROVE  MsInv'
<1> DEFINE n == Len(emitted)
<1> USE DEF fixed
<1>1. hand[h] \in HandRec /\ hand[h].stage = "looked" /\ Done(h) /\ ~Holding(hand[h])
  BY MsFacts DEF process_webhook, At, Holding
<1>2. n \in Nat /\ DOMAIN emitted = 1..n /\ billed \subseteq 1..n
  BY EventFacts
<1>3. PICK e \in 1..n : e = hand[h].event
  <2>1. hand[h].event \in DOMAIN emitted
    BY <1>1 DEF MsInv, MsTyped
  <2> QED  BY <1>2, <2>1
<1>4. CASE e \in billed
  BY <1>1, <1>3, <1>4, MsIdle DEF process_webhook, Recorded, billVars
<1>5. CASE e \notin billed
  <2>1. /\ subLock = Nobody /\ sub' = Applied(sub, emitted[e]) /\ billed' = billed \cup {e}
        /\ plansHad' = plansHad \cup {sub'.plan} /\ applied' = [applied EXCEPT ![e] = @ + 1]
        /\ (inOrder' <=> inOrder /\ \A f \in billed : f < e)
        /\ UNCHANGED <<provider, emitted, fixed, memberVars, keyVars, subLock>>
    BY <1>3, <1>5 DEF process_webhook, Recorded
  <2>2. emitted[e] \in BillingEvent /\ PlanOf(emitted[e]) \in DOMAIN MaxMembers
    BY <1>3, EventFacts
  <2>3. /\ sub' \in SubRow
        /\ sub'.plan = IF Changes(emitted[e]) THEN PlanOf(emitted[e]) ELSE sub.plan
        /\ sub'.status = "PAST_DUE" <=> emitted[e].type \in {"past_due", "failed"}
        /\ sub'.cancelling => sub.cancelling /\ emitted[e].type # "canceled"
    BY <2>1, <2>2, AppliedFacts
  <2>4. /\ hand' \in [Hands -> HandRec] /\ hand'[h].stage = "idle" /\ (\A q \in Hands : q # h => hand'[q] = hand[q])
        /\ \A q \in Hands : hand'[q].stage = "looked" => hand'[q].event \in DOMAIN emitted'
    BY <1>1, <2>1, DoneStep
  <2>5. HeldOK' /\ subLock' \in Hands \cup {Nobody}
    <3>1. Holding(hand'[h]) <=> Holding(hand[h])
      BY <1>1, <2>4 DEF Holding
    <3> QED  BY <2>1, <2>4, <3>1, HeldStep
  <2>6. DOMAIN applied = 1..n /\ Len(applied) = n /\ \A j \in 1..n : applied[j] = IF j \in billed THEN 1 ELSE 0
    BY <1>2, MsFacts, LenProperties DEF MsInv, MsParts, BilledOK
  <2>7. /\ applied' \in Seq(Nat) /\ DOMAIN applied' = 1..n /\ applied'[e] = 1
        /\ \A j \in 1..n : j # e => applied'[j] = applied[j]
    <3>1. applied[e] = 0 /\ 0 + 1 \in Nat /\ 0 + 1 = 1
      BY <1>3, <1>5, <2>6
    <3>2. applied' = [applied EXCEPT ![e] = 1]
      BY <2>1, <3>1
    <3> QED  BY <1>3, <2>6, <3>1, <3>2, MsFacts, ExceptSeq
  <2>8. \A j \in 1..n : applied'[j] = IF j \in billed' THEN 1 ELSE 0
    BY <1>3, <2>1, <2>6, <2>7
  <2>9. \A q \in Hands : hand'[q].stage # "told"
    <3>1. \A q \in Hands : ~Holding(hand[q])
      BY <2>1, MsFacts DEF MsInv, MsParts, HeldOK
    <3> QED  BY <2>4, <3>1 DEF Holding
  <2>10. ASSUME NEW m \in 0..n, inOrder', billed' = 1..m
         PROVE  /\ PlanAfter(org.plan, emitted, m, sub'.plan)
                /\ m > 0 => (sub'.status = "PAST_DUE" <=> emitted[m].type \in {"past_due", "failed"})
                /\ sub'.cancelling => provider.told \/ \E j \in (m + 1)..n : emitted[j].type = "canceled"
    <3>1. m = e
      <4>1. e \in 1..m /\ m \in 1..m
        BY <1>2, <1>3, <2>1, <2>10
      <4>2. m = e \/ m < e
        BY <2>1, <2>10, <4>1
      <4> QED  BY <1>2, <4>1, <4>2
    <3>2. inOrder /\ billed = 1..(m - 1) /\ m - 1 \in 0..n /\ m - 1 \in Nat /\ (m - 1) + 1 = m
      <4>1. m - 1 \in 0..n /\ m - 1 \in Nat /\ (m - 1) + 1 = m
        BY <1>2, <1>3, <3>1
      <4>2. billed = (1..m) \ {m}
        BY <1>5, <2>1, <2>10, <3>1
      <4>3. (1..m) \ {m} = 1..(m - 1)
        BY <1>2
      <4> QED  BY <2>1, <2>10, <4>1, <4>2, <4>3
    <3>3. /\ PlanAfter(org.plan, emitted, m - 1, sub.plan)
          /\ Ending => provider.told \/ \E j \in ((m - 1) + 1)..n : emitted[j].type = "canceled"
      BY <3>2 DEF MsInv, MsParts, BilledOK
    <3>4. PlanAfter(org.plan, emitted, m, sub'.plan)
      <4>1. CASE Changes(emitted[m])
        <5>1. PlanAfter(org.plan, emitted, (m - 1) + 1, PlanOf(emitted[(m - 1) + 1]))
          BY <3>2, <4>1, PlanNext
        <5> QED  BY <2>3, <3>1, <3>2, <4>1, <5>1
      <4>2. CASE ~Changes(emitted[m])
        <5>1. PlanAfter(org.plan, emitted, (m - 1) + 1, sub.plan)
          BY <3>2, <3>3, <4>2, PlanNext
        <5> QED  BY <2>3, <3>1, <3>2, <4>2, <5>1
      <4> QED  BY <4>1, <4>2
    <3>5. ASSUME sub'.cancelling  PROVE provider.told \/ \E j \in (m + 1)..n : emitted[j].type = "canceled"
      <4>1. Ending /\ emitted[m].type # "canceled"
        BY <2>3, <3>1, <3>5 DEF Ending
      <4>2. \A j \in m..n : j = m \/ j \in (m + 1)..n
        BY <1>2
      <4> QED  BY <3>2, <3>3, <4>1, <4>2
    <3> QED  BY <2>3, <3>1, <3>4, <3>5
  <2>11. PlanAfter(org.plan, emitted, n, provider.plan)
    BY DEF MsInv, MsParts, BilledOK
  <2>12. BilledOK'
    <3>1. Ending' => sub'.cancelling
      BY <2>9 DEF Ending
    <3>2. UNCHANGED <<org, emitted, provider>> /\ DOMAIN applied' = DOMAIN emitted' /\ DOMAIN applied' = 1..n
      BY <1>2, <2>1, <2>7
    <3> QED  BY <2>8, <2>10, <2>11, <3>1, <3>2 DEF BilledOK
  <2>13. plansHad' \subseteq DOMAIN MaxMembers /\ plansHad \subseteq plansHad' /\ sub'.plan \in plansHad'
    BY <2>1, <2>2, <2>3, MsFacts
  <2>14. /\ UNCHANGED <<org, memberVars, keyVars>> /\ msNow' \in Nat /\ msNow <= msNow'
         /\ provider' \in [plan : DOMAIN MaxMembers, told : BOOLEAN] /\ emitted' \in Seq(BillingEvent)
    BY <2>1, MsFacts
  <2>15. billed' \subseteq DOMAIN emitted'
    BY <1>2, <1>3, <2>1
  <2> HIDE DEF n
  <2> QED  BY <2>3, <2>4, <2>5, <2>7, <2>12, <2>13, <2>14, <2>15, MsBill
<1> QED  BY <1>4, <1>5

LEMMA MsCancel ==
    ASSUME MsInv, NEW h \in Hands, cancel(h)
    PROVE  MsInv'
<1> USE DEF fixed
<1>1. hand[h].stage = "told" /\ Done(h) /\ Release(h)
  BY DEF cancel, At
<1>2. UNCHANGED <<fixed, memberVars, keyVars, billed, provider, emitted, plansHad, applied, inOrder>>
  BY DEF cancel
<1>3. PICK yes \in BOOLEAN : yes
  OBVIOUS
<1>4. sub' = [sub EXCEPT !.cancelling = yes]
  BY <1>3 DEF cancel
<1>5. sub' \in SubRow /\ sub'.plan = sub.plan /\ sub'.status = sub.status
  BY <1>4, MsFacts DEF SubRow
<1>6. /\ hand' \in [Hands -> HandRec] /\ hand'[h].stage = "idle" /\ (\A q \in Hands : q # h => hand'[q] = hand[q])
      /\ \A q \in Hands : hand'[q].stage = "looked" => hand'[q].event \in DOMAIN emitted'
  BY <1>1, <1>2, DoneStep
<1>7. HeldOK' /\ subLock' \in Hands \cup {Nobody}
  <2>1. subLock' = (IF subLock = h THEN Nobody ELSE subLock) /\ ~Holding(hand'[h])
    BY <1>1, <1>6 DEF Release, Holding
  <2> QED  BY <1>6, <2>1, HeldStep
<1>8. Ending
  BY <1>1 DEF Ending
<1>9. BilledOK'
  BY <1>2, <1>5, <1>8 DEF MsInv, MsParts, BilledOK
<1>10. /\ plansHad' \subseteq DOMAIN MaxMembers /\ plansHad \subseteq plansHad' /\ sub'.plan \in plansHad' /\ applied' \in Seq(Nat)
       /\ UNCHANGED <<org, memberVars, keyVars>> /\ msNow' \in Nat /\ msNow <= msNow' /\ billed' \subseteq DOMAIN emitted'
       /\ provider' \in [plan : DOMAIN MaxMembers, told : BOOLEAN] /\ emitted' \in Seq(BillingEvent)
  BY <1>2, <1>5, MsFacts
<1> QED  BY <1>5, <1>6, <1>7, <1>9, <1>10, MsBill

\* The provider is told: unless it has ended the subscription already, which an event will say.
LEMMA MsTell ==
    ASSUME MsInv, NEW h \in Hands, NEW accepts \in BOOLEAN, TellProvider(h, accepts)
    PROVE  MsInv'
<1> DEFINE n == Len(emitted)
<1> USE DEF fixed
<1>1. At(h, "entered", "cancel") /\ ~Holding(hand[h]) /\ subLock = Nobody
  BY DEF TellProvider, At, Holding
<1>2. CASE ~(sub.plan # "free" /\ Proceeds(accepts))
  BY <1>1, <1>2, MsIdle DEF TellProvider
<1>3. CASE sub.plan # "free" /\ Proceeds(accepts)
  <2>1. PICK d : d = [hand[h] EXCEPT !.stage = "told"]
    OBVIOUS
  <2>2. /\ hand[h] = [stage |-> "entered", op |-> "cancel", by |-> hand[h].by, role |-> hand[h].role]
        /\ hand[h].by \in Users /\ hand[h].role \in OrganizationRole
    <3>1. hand[h] \in HandRec /\ hand[h].stage = "entered" /\ hand[h].op = "cancel"
      BY <1>1, MsFacts DEF At
    <3> QED  BY <3>1, HandFacts
  <2>3. d = [stage |-> "told", op |-> "cancel", by |-> hand[h].by, role |-> hand[h].role]
    BY <2>1, <2>2
  <2>4. d \in HandRec /\ d.stage = "told" /\ Holding(d)
    BY <2>2, <2>3 DEF HandRec, Holding
  <2>5. /\ hand' = [hand EXCEPT ![h] = d] /\ subLock' = h
        /\ UNCHANGED <<fixed, memberVars, keyVars, sub, billed, checkout, emitted, plansHad, applied, inOrder>>
    BY <1>3, <2>1 DEF TellProvider
  <2>6. PICK told \in BOOLEAN : told <=> provider.told \/ (accepts /\ provider.plan # "free")
    OBVIOUS
  <2>7. provider' = [provider EXCEPT !.told = told]
    BY <1>3, <2>6, MsFacts DEF TellProvider
  <2>8. /\ provider' \in [plan : DOMAIN MaxMembers, told : BOOLEAN] /\ provider'.plan = provider.plan
        /\ provider'.told <=> provider.told \/ provider.plan # "free"
    BY <1>3, <2>6, <2>7, MsFacts DEF Proceeds
  <2>9. /\ hand' \in [Hands -> HandRec] /\ hand'[h] = d /\ (\A q \in Hands : q # h => hand'[q] = hand[q])
        /\ \A q \in Hands : hand'[q].stage = "looked" => hand'[q].event \in DOMAIN emitted'
    BY <2>4, <2>5, HandStep
  <2>10. HeldOK' /\ subLock' \in Hands \cup {Nobody}
    BY <1>1, <2>4, <2>5, <2>9, HeldStep
  <2>11. ASSUME NEW m \in 0..n, inOrder, billed = 1..m
         PROVE  provider.plan # "free" \/ \E j \in (m + 1)..n : emitted[j].type = "canceled"
    <3>1. SUFFICES ASSUME provider.plan = "free"  PROVE \E j \in (m + 1)..n : emitted[j].type = "canceled"
      OBVIOUS
    <3>2. PlanAfter(org.plan, emitted, m, sub.plan) /\ PlanAfter(org.plan, emitted, n, "free")
      BY <2>11, <3>1 DEF MsInv, MsParts, BilledOK
    <3>3. n \in Nat /\ m \in Nat /\ m <= n
      BY EventFacts
    <3>4. ~PlanAfter(org.plan, emitted, m, "free")
      BY <1>3, <3>2, <3>3, PlanUnique
    <3>5. CASE "free" = org.plan /\ \A j \in 1..n : ~Changes(emitted[j])
      <4>1. \A j \in 1..m : ~Changes(emitted[j])
        BY <3>3, <3>5
      <4> QED  BY <3>4, <3>5, <4>1 DEF PlanAfter
    <3>6. ASSUME NEW l \in 1..n, Changes(emitted[l]), "free" = PlanOf(emitted[l]),
                 \A j \in (l + 1)..n : ~Changes(emitted[j])
          PROVE  \E j \in (m + 1)..n : emitted[j].type = "canceled"
      <4>1. emitted[l].type = "canceled"
        BY <3>6, EventFacts
      <4>2. CASE l \in 1..m
        <5>1. \A j \in (l + 1)..m : ~Changes(emitted[j])
          BY <3>3, <3>6
        <5> QED  BY <3>4, <3>6, <4>2, <5>1 DEF PlanAfter
      <4>3. CASE l \in (m + 1)..n
        BY <4>1, <4>3
      <4> QED  BY <3>3, <4>2, <4>3
    <3> QED  BY <3>2, <3>5, <3>6 DEF PlanAfter
  <2>12. BilledOK'
    <3>1. UNCHANGED <<org, sub, billed, emitted, applied, inOrder>>
      BY <2>5
    <3>2. ASSUME NEW m \in 0..n, inOrder, billed = 1..m
          PROVE  provider'.told \/ \E j \in (m + 1)..n : emitted[j].type = "canceled"
      BY <2>8, <2>11, <3>2
    <3> QED  BY <2>8, <3>1, <3>2 DEF MsInv, MsParts, BilledOK
  <2>13. /\ sub' \in SubRow /\ plansHad' \subseteq DOMAIN MaxMembers /\ plansHad \subseteq plansHad' /\ sub'.plan \in plansHad'
         /\ UNCHANGED <<org, memberVars, keyVars>> /\ msNow' \in Nat /\ msNow <= msNow' /\ billed' \subseteq DOMAIN emitted'
         /\ emitted' \in Seq(BillingEvent) /\ applied' \in Seq(Nat)
    BY <2>5, MsFacts
  <2> QED  BY <2>4, <2>8, <2>9, <2>10, <2>12, <2>13, MsBill
<1> QED  BY <1>2, <1>3

LEMMA MsInitOK == MsInit => MsInv
<1> SUFFICES ASSUME MsInit  PROVE MsInv
  OBVIOUS
<1>1. org \in Orgs /\ org.plan \in DOMAIN MaxMembers /\ msNow = 0
  BY OrgsAssumption DEF MsInit
<1>2. /\ member = [u \in Users |-> IF u = Owner THEN Member("OWNER") ELSE org.members[u]]
      /\ invitation = [i \in Invitations |-> NoInvitation] /\ apiKey = [k \in APIKeys |-> NoAPIKey]
      /\ subLock = Nobody /\ billed = {} /\ emitted = <<>> /\ applied = <<>>
      /\ provider.plan = org.plan /\ plansHad = {org.plan} /\ slipped = 0 /\ unguarded = 0
  BY DEF MsInit
<1>3. \A q \in Hands : hand[q] = HandIdle /\ hand[q].stage = "idle" /\ hand[q] \in HandRec
  BY RowFacts DEF MsInit
<1>4. MsTyped
  <2>1. 0 \in Nat
    OBVIOUS
  <2>2. member \in [Users -> {NoMember} \cup MemberRow]
    <3>1. Member("OWNER") \in MemberRow
      BY DEF Member, MemberRow, OrganizationRole, MemberStatus
    <3>2. \A u \in Users : org.members[u] \in {NoMember} \cup MemberRow
      BY <1>1, OrgsAssumption DEF MemberRow
    <3> QED  BY <1>2, <3>1, <3>2
  <2>3. sub \in SubRow /\ sub.plan = org.plan
    <3>1. PICK no \in BOOLEAN : ~no
      OBVIOUS
    <3>2. sub = [plan |-> org.plan, status |-> "ACTIVE", grace |-> 0, cancelling |-> no]
      BY <3>1 DEF MsInit, FreeSubscription
    <3> QED  BY <1>1, <2>1, <3>2 DEF SubRow, SubscriptionStatus
  <2>4. provider \in [plan : DOMAIN MaxMembers, told : BOOLEAN]
    <3>1. PICK no \in BOOLEAN : ~no
      OBVIOUS
    <3>2. provider = [plan |-> org.plan, told |-> no]
      BY <3>1 DEF MsInit
    <3> QED  BY <1>1, <3>2
  <2>5. emitted \in Seq(BillingEvent) /\ applied \in Seq(Nat)
    BY <1>2, EmptySeq
  <2>6. hand \in [Hands -> HandRec] /\ \A q \in Hands : hand[q].stage # "looked"
    BY <1>3 DEF MsInit
  <2>7. /\ invitation \in [Invitations -> {NoInvitation} \cup InvitationRow]
        /\ apiKey \in [APIKeys -> {NoAPIKey} \cup APIKeyRow]
    BY <1>2
  <2> QED  BY <1>1, <1>2, <2>1, <2>2, <2>3, <2>4, <2>5, <2>6, <2>7 DEF MsTyped
<1>5. HeldOK
  BY <1>2, <1>3, MembershipAssumption DEF HeldOK, Holding, Nobody
<1>6. \A i \in Invitations : invitation[i].status = "none" /\ ~Pending(i)
  BY <1>2, RowFacts DEF Pending
<1>7. \A k \in APIKeys : apiKey[k].status = "none"
  BY <1>2, RowFacts
<1>8. SeatsOK
  <2> DEFINE S == {u \in Users \ {Owner} : org.members[u].status = "ACTIVE"}
             R == {u \in Users : member[u].status = "ACTIVE" /\ member[u].role # "OWNER"}
  <2>1. Cardinality(S) <= MaxMembers[org.plan]
    BY <1>1, OrgsAssumption
  <2>2. R \subseteq S
    BY <1>2 DEF Member
  <2>3. S \in SUBSET Users /\ R \in SUBSET Users /\ IsFiniteSet(Users)
    BY MembershipAssumption
  <2>4. Cardinality(S) \in Nat /\ Cardinality(R) \in Nat /\ Cardinality(R) <= Cardinality(S)
    <3> HIDE DEF S, R
    <3> QED  BY <2>2, <2>3, CountBy
  <2>5. MemberCount = Cardinality(R)
    BY DEF MemberCount
  <2>6. {i \in Invitations : Pending(i)} = {}
    BY <1>6
  <2>7. PendingCount = 0
    BY <2>6, FS_EmptySet DEF PendingCount
  <2>8. MaxMembers[org.plan] \in Nat
    BY <1>1, MembershipAssumption
  <2> HIDE DEF S, R
  <2>9. MemberCount + PendingCount <= MaxMembers[org.plan] + slipped
    BY <1>2, <2>1, <2>4, <2>5, <2>7, <2>8
  <2> QED  BY <1>2, <1>3, <2>9 DEF SeatsOK
<1>9. KeysOK
  <2>1. {k \in APIKeys : apiKey[k].status = "ACTIVE"} = {}
    BY <1>7
  <2>2. KeyCount = 0
    BY <2>1, FS_EmptySet DEF KeyCount
  <2>3. MaxKeys[org.plan] \in Nat
    BY <1>1, MembershipAssumption
  <2>4. KeyCount <= MaxKeys[org.plan] + unguarded
    BY <1>2, <2>2, <2>3
  <2> QED  BY <1>2, <1>3, <2>4 DEF KeysOK
<1>10. OutsideOK
  BY <1>3, <1>6 DEF OutsideOK, OnePendingPerEmail, MayJoin
<1>11. SeenOK
  BY <1>3 DEF SeenOK, At
<1>12. OwnerOK
  BY <1>2, <1>3, MembershipAssumption DEF OwnerOK
<1>13. KeysDieWithMembership
  BY <1>7 DEF KeysDieWithMembership
<1>14. BilledOK
  <2>1. Len(emitted) = 0 /\ DOMAIN emitted = {} /\ DOMAIN applied = {}
    BY <1>2
  <2>2. ~Ending
    <3>1. ~sub.cancelling
      BY DEF MsInit, FreeSubscription
    <3> QED  BY <1>3, <3>1 DEF Ending
  <2>3. sub.plan = org.plan
    BY DEF MsInit, FreeSubscription
  <2>4. PlanAfter(org.plan, emitted, 0, org.plan)
    BY DEF PlanAfter
  <2> QED  BY <1>2, <2>1, <2>2, <2>3, <2>4 DEF BilledOK
<1> QED  BY <1>4, <1>5, <1>8, <1>9, <1>10, <1>11, <1>12, <1>13, <1>14 DEF MsInv, MsParts

LEMMA MsStutter ==
    ASSUME MsInv, UNCHANGED msVars
    PROVE  MsInv'
<1>1. UNCHANGED <<org, msNow, memberVars, keyVars, sub, billed, provider, emitted, plansHad, applied, inOrder, subLock, hand>>
  BY DEF msVars, memberVars, keyVars
<1>2. HeldOK'
  BY <1>1 DEF MsInv, MsParts, HeldOK, Holding
<1>3. \A q \in Hands : hand[q].stage = "looked" => hand[q].event \in DOMAIN emitted
  BY DEF MsInv, MsTyped
<1>4. msNow' \in Nat /\ msNow <= msNow' /\ Nobody \notin Hands
  BY <1>1, MsFacts
<1>5. BilledOK'
  BY <1>1, <1>4, MsKept DEF memberVars, keyVars
<1> QED  BY <1>1, <1>2, <1>3, <1>4, <1>5, MsFacts, MsBill

LEMMA MsNextOK == MsInv /\ [MsNext]_msVars => MsInv'
<1> SUFFICES ASSUME MsInv, [MsNext]_msVars  PROVE MsInv'
  OBVIOUS
<1>1. CASE UNCHANGED msVars
  BY <1>1, MsStutter
<1>2. CASE MsTick
  BY <1>2, MsTime
<1>3. ASSUME NEW type \in {"completed", "failed", "updated", "past_due", "canceled"},
             NEW p \in DOMAIN MaxMembers \ {"free"}, Emit(type, p)
      PROVE  MsInv'
  BY <1>3, MsEmit
<1>4. ASSUME NEW h \in org.hands,
             \/ CrashHand(h) \/ LockSeats(h) \/ CountPending(h) \/ accept_invitation(h)
             \/ \E u \in org.actors, op \in org.ops : Enter(h, u, op)
             \/ \E u \in Users, role \in org.roles : CheckMember(h, u, role) \/ change_member_role(h, u, role)
             \/ \E u \in Users : remove_member(h, u)
             \/ \E i \in Invitations : create_invitation(h, i) \/ revoke_invitation(h, i)
             \/ \E u \in Users, i \in Invitations : BeginAccept(h, u, i)
      PROVE  MsInv'
  <2>1. h \in Hands /\ org.actors \subseteq Users
    BY MsFacts
  <2>2. CASE CrashHand(h) \/ LockSeats(h) \/ CountPending(h) \/ accept_invitation(h)
    BY <2>1, <2>2, MsCrash, MsLockSeats, MsCountPending, MsAccept
  <2>3. ASSUME NEW u \in org.actors, NEW op \in org.ops, Enter(h, u, op)  PROVE MsInv'
    BY <2>1, <2>3, MsEnter
  <2>4. ASSUME NEW u \in Users, NEW role \in org.roles, CheckMember(h, u, role) \/ change_member_role(h, u, role)  PROVE MsInv'
    BY <2>1, <2>4, MsCheckMember, MsChangeRole
  <2>5. ASSUME NEW u \in Users, remove_member(h, u)  PROVE MsInv'
    BY <2>1, <2>5, MsRemoveMember
  <2>6. ASSUME NEW i \in Invitations, create_invitation(h, i) \/ revoke_invitation(h, i)  PROVE MsInv'
    BY <2>1, <2>6, MsCreateInvitation, MsRevokeInvitation
  <2>7. ASSUME NEW u \in Users, NEW i \in Invitations, BeginAccept(h, u, i)  PROVE MsInv'
    BY <2>1, <2>7, MsBeginAccept
  <2> QED  BY <1>4, <2>2, <2>3, <2>4, <2>5, <2>6, <2>7
<1>5. ASSUME NEW h \in org.hands,
             \/ LockKeys(h) \/ Collide(h) \/ LoadKeys(h) \/ list_api_keys(h) \/ authenticate_api_key(h)
             \/ \E k \in APIKeys : revoke_api_key(h, k) \/ LoadKey(h, k)
                                   \/ \E till \in org.expiries : create_api_key(h, k, till)
      PROVE  MsInv'
  <2>1. h \in Hands
    BY MsFacts
  <2>2. CASE LockKeys(h) \/ Collide(h) \/ LoadKeys(h) \/ list_api_keys(h) \/ authenticate_api_key(h)
    BY <2>1, <2>2, MsLockKeys, MsCollide, MsLoad, MsListKeys, MsAuthenticate
  <2>3. ASSUME NEW k \in APIKeys, revoke_api_key(h, k) \/ LoadKey(h, k)  PROVE MsInv'
    BY <2>1, <2>3, MsRevokeKey, MsLoad
  <2>4. ASSUME NEW k \in APIKeys, NEW till \in org.expiries, create_api_key(h, k, till)  PROVE MsInv'
    BY <2>1, <2>4, MsCreateKey
  <2> QED  BY <1>5, <2>2, <2>3, <2>4
<1>6. ASSUME NEW h \in org.hands,
             \/ \E p \in DOMAIN MaxMembers : create_checkout(h, p)
             \/ \E e \in DOMAIN emitted : LookupEvent(h, e)
             \/ process_webhook(h) \/ cancel(h) \/ \E accepts \in BOOLEAN : TellProvider(h, accepts)
      PROVE  MsInv'
  <2>1. h \in Hands
    BY MsFacts
  <2>2. ASSUME NEW p \in DOMAIN MaxMembers, create_checkout(h, p)  PROVE MsInv'
    BY <2>1, <2>2, MsCheckout
  <2>3. ASSUME NEW e \in DOMAIN emitted, LookupEvent(h, e)  PROVE MsInv'
    BY <2>1, <2>3, MsLoad
  <2>4. ASSUME NEW accepts \in BOOLEAN, TellProvider(h, accepts)  PROVE MsInv'
    BY <2>1, <2>4, MsTell
  <2>5. CASE process_webhook(h) \/ cancel(h)
    BY <2>1, <2>5, MsWebhook, MsCancel
  <2> QED  BY <1>6, <2>2, <2>3, <2>4, <2>5
<1> QED  BY <1>1, <1>2, <1>3, <1>4, <1>5, <1>6 DEF MsNext

\* Whatever the organization starts with and its handlers, crashes and events do: the lock is
\* held by whoever counts, what was counted is still free, and the record of billing is that
\* of the events in order (services/organizations.py, api_keys.py, plan_limits.py, billing.py).
THEOREM MsInvariance == MsSpec => []MsInv
<1> QED  BY MsInitOK, MsNextOK, PTL DEF MsSpec

\* Seats and keys stay within the plan but for what overlapped, an address has one open
\* invitation, the owner stays, and keys die with the membership.
THEOREM MembershipTheorem == MsSpec => []MembershipHolds
<1>1. MsInv => MembershipHolds
  <2> SUFFICES ASSUME MsInv  PROVE MembershipHolds
    OBVIOUS
  <2>1. MsTypeOK
    <3>1. \A u \in Users : member[u] # NoMember => member[u].role \in OrganizationRole /\ member[u].status \in MemberStatus
      BY MsFacts, RowFacts
    <3>2. \A i \in Invitations : invitation[i] # NoInvitation =>
             invitation[i].status \in InvitationStatus /\ invitation[i].role \in OrganizationRole \ {"OWNER"}
      BY MsFacts, RowFacts
    <3>3. \A k \in APIKeys : apiKey[k] # NoAPIKey => apiKey[k].status \in APIKeyStatus
      BY MsFacts, RowFacts
    <3>4. sub.plan \in DOMAIN MaxMembers /\ sub.status \in SubscriptionStatus
      BY MsFacts DEF SubRow
    <3>5. subLock # Nobody => Holding(hand[subLock])
      BY MsFacts DEF MsInv, MsParts, HeldOK
    <3> QED  BY <3>1, <3>2, <3>3, <3>4, <3>5 DEF MsTypeOK, Holding
  <2>2. SeatsWithinPlan /\ KeysWithinPlan
    BY DEF MsInv, MsParts, SeatsOK, KeysOK, SeatsWithinPlan, KeysWithinPlan
  <2>3. OnePendingPerEmail /\ PendingForOutsiders
    BY DEF MsInv, MsParts, OutsideOK, Outside, PendingForOutsiders
  <2>4. OwnerStays
    BY DEF MsInv, MsParts, OwnerOK, OwnerStays
  <2>5. KeysDieWithMembership
    BY DEF MsInv, MsParts
  <2> QED  BY <2>1, <2>2, <2>3, <2>4, <2>5 DEF MembershipHolds
<1> QED  BY <1>1, MsInvariance, PTL

\* Each event of the provider is applied once, and once all have arrived in order, plan and
\* status are the provider's, and an ending that is shown was told.
THEOREM BillingTheorem == MsSpec => []BillingHolds
<1>1. MsInv => BillingHolds
  <2> SUFFICES ASSUME MsInv  PROVE BillingHolds
    OBVIOUS
  <2> DEFINE n == Len(emitted)
  <2>1. n \in Nat /\ DOMAIN emitted = 1..n
    BY EventFacts
  <2>2. BilledOnce
    BY DEF MsInv, MsParts, BilledOK, BilledOnce
  <2>3. ASSUME inOrder, billed = DOMAIN emitted
        PROVE  /\ PlanAfter(org.plan, emitted, n, sub.plan)
               /\ n > 0 => (sub.status = "PAST_DUE" <=> emitted[n].type \in {"past_due", "failed"})
               /\ Ending => provider.told
    <3>1. n \in 0..n /\ billed = 1..n /\ (n + 1)..n = {}
      BY <2>1, <2>3
    <3> QED  BY <2>3, <3>1 DEF MsInv, MsParts, BilledOK
  <2>4. EntitlementFollowsProvider
    <3>1. SUFFICES ASSUME inOrder, billed # {}, billed = DOMAIN emitted
                   PROVE  sub.plan = provider.plan /\ (sub.status = "PAST_DUE" <=> emitted[n].type \in {"past_due", "failed"})
      BY DEF EntitlementFollowsProvider
    <3>2. n > 0
      BY <2>1, <3>1
    <3>3. PlanAfter(org.plan, emitted, n, provider.plan)
      BY DEF MsInv, MsParts, BilledOK
    <3> QED  BY <2>1, <2>3, <3>1, <3>2, <3>3, PlanUnique
  <2>5. EndingWasTold
    BY <2>3 DEF EndingWasTold, Ending
  <2> QED  BY <2>2, <2>4, <2>5 DEF BillingHolds
<1> QED  BY <1>1, MsInvariance, PTL

\* No handler, whatever row it loaded and when, brings a dead key back to life.
THEOREM DeadKeysTheorem == MsSpec => DeadKeysStay
<1> DEFINE Good == \A k \in APIKeys : apiKey[k].status \in {"REVOKED", "EXPIRED"} => apiKey'[k].status # "ACTIVE"
<1>1. MsInv /\ [MsNext]_msVars => [Good]_msVars
  <2> SUFFICES ASSUME MsInv, MsNext  PROVE Good
    OBVIOUS
  <2>1. CASE UNCHANGED apiKey
    BY <2>1
  <2>2. ASSUME NEW h \in Hands, NEW u \in Users, NEW role, change_member_role(h, u, role) \/ remove_member(h, u)  PROVE Good
    <3>1. CASE UNCHANGED apiKey
      BY <3>1
    <3>2. ASSUME NEW ks \in SUBSET KeysOf(u), RevokeKeys(ks)  PROVE Good
      <4>1. ks \in SUBSET APIKeys /\ \A k \in ks : apiKey[k].status = "ACTIVE"
        BY DEF KeysOf
      <4>2. \A k \in APIKeys : apiKey'[k].status = "ACTIVE" => apiKey'[k] = apiKey[k]
        BY <3>2, <4>1, RevokeFacts
      <4> QED  BY <4>2
    <3>3. UNCHANGED apiKey \/ \E ks \in SUBSET KeysOf(u) : RevokeKeys(ks)
      BY <2>2 DEF change_member_role, remove_member
    <3> QED  BY <3>1, <3>2, <3>3
  <2>3. ASSUME NEW h \in Hands, list_api_keys(h)  PROVE Good
    BY <2>3 DEF list_api_keys
  <2>4. ASSUME NEW h \in Hands, authenticate_api_key(h)  PROVE Good
    <3>1. hand[h].stage = "loaded" /\ hand[h] \in HandRec
      BY <2>4, MsFacts DEF authenticate_api_key, At
    <3>2. PICK k \in APIKeys : k = hand[h].key
      BY <3>1, HandFacts
    <3>3. apiKey[k] \in APIKeyRow
      BY <3>1, <3>2, MsFacts DEF MsInv, MsParts, SeenOK
    <3>4. AfterUse(hand[h]) = apiKey[k] \/ AfterUse(hand[h]).status = "EXPIRED"
      BY <3>2, <3>3, ExpiredRow DEF AfterUse, Touched
    <3>5. apiKey' = [apiKey EXCEPT ![k] = AfterUse(hand[h])]
      BY <2>4, <3>2 DEF authenticate_api_key
    <3> QED  BY <3>4, <3>5, MsFacts
  <2>5. ASSUME NEW h \in Hands, NEW k \in APIKeys, revoke_api_key(h, k)  PROVE Good
    <3>1. PICK ks \in SUBSET APIKeys : ks = {k} \cap KeysOf(apiKey[k].by)
      OBVIOUS
    <3>2. (\A l \in ks : apiKey[l].status = "ACTIVE") /\ RevokeKeys(ks)
      BY <2>5, <3>1 DEF KeysOf, revoke_api_key
    <3>3. \A l \in APIKeys : apiKey'[l].status = "ACTIVE" => apiKey'[l] = apiKey[l]
      BY <3>2, RevokeFacts
    <3> QED  BY <3>3
  <2>6. ASSUME NEW h \in Hands, NEW k \in APIKeys, NEW till, create_api_key(h, k, till)  PROVE Good
    <3>1. apiKey[k].status = "none"
      BY <2>6, RowFacts DEF create_api_key, New
    <3>2. \A l \in APIKeys \ {k} : apiKey'[l] = apiKey[l]
      BY <2>6, MsFacts DEF create_api_key
    <3> QED  BY <3>1, <3>2
  <2> HIDE DEF Good
  <2>7. CASE MsTick \/ \E type \in {"completed", "failed", "updated", "past_due", "canceled"},
                          p \in DOMAIN MaxMembers \ {"free"} : Emit(type, p)
    BY <2>1, <2>7 DEF MsTick, Emit, keyVars
  <2>8. ASSUME NEW h \in org.hands,
               \/ CrashHand(h) \/ LockSeats(h) \/ CountPending(h) \/ accept_invitation(h)
               \/ \E u \in org.actors, op \in org.ops : Enter(h, u, op)
               \/ \E u \in Users, role \in org.roles : CheckMember(h, u, role)
               \/ \E i \in Invitations : create_invitation(h, i) \/ revoke_invitation(h, i)
               \/ \E u \in Users, i \in Invitations : BeginAccept(h, u, i)
        PROVE  Good
    <3>1. UNCHANGED apiKey
      BY <2>8 DEF CrashHand, LockSeats, CountPending, accept_invitation, Enter, CheckMember, create_invitation,
                  revoke_invitation, BeginAccept, keyVars
    <3> QED  BY <2>1, <3>1
  <2>9. ASSUME NEW h \in org.hands,
               \/ LockKeys(h) \/ Collide(h) \/ LoadKeys(h)
               \/ \E k \in APIKeys : LoadKey(h, k)
               \/ \E p \in DOMAIN MaxMembers : create_checkout(h, p)
               \/ \E e \in DOMAIN emitted : LookupEvent(h, e)
               \/ process_webhook(h) \/ cancel(h) \/ \E accepts \in BOOLEAN : TellProvider(h, accepts)
        PROVE  Good
    <3>1. UNCHANGED apiKey
      BY <2>9 DEF LockKeys, Collide, LoadKeys, LoadKey, create_checkout, LookupEvent, process_webhook, cancel,
                  TellProvider, keyVars
    <3> QED  BY <2>1, <3>1
  <2>10. org.hands \subseteq Hands
    BY MsFacts
  <2> QED  BY <2>2, <2>3, <2>4, <2>5, <2>6, <2>7, <2>8, <2>9, <2>10 DEF MsNext
<1>2. [][Good]_msVars => DeadKeysStay
  BY DEF DeadKeysStay
<1> QED  BY <1>1, <1>2, MsInvariance, PTL DEF MsSpec

-----------------------------------------------------------------------------
\* Whatever copy of its row a handler writes back, a key that is REVOKED or EXPIRED and a session that
\* is revoked stay so.
THEOREM DeadStaysTheorem == PlatformSpec => DeadStays
BY RevokedTheorem, DeadKeysTheorem, PTL DEF PlatformSpec, DeadStays
=============================================================================
