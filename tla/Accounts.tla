------------------------------ MODULE Accounts ------------------------------
(***************************************************************************)
(* One account: its password (services/auth.py), second factor             *)
(* (services/mfa.py) and sessions (services/sessions.py), sign-in through  *)
(* the organization's OIDC provider (services/sso.py), and the policy that *)
(* requires it (api/enterprise_security.py).                               *)
(*                                                                         *)
(* authenticate_user locks the user row.  When it has failures to clear it *)
(* commits, which gives the lock up; otherwise the lock is held until the  *)
(* session or the challenge is committed.  Passwords are numbered in the   *)
(* order they were set, so are the secrets of authenticators and the sets  *)
(* of recovery codes; a set stands for one of its codes.                   *)
(***************************************************************************)
EXTENDS Integers, FiniteSets

CONSTANTS
    Workers,        \* workers of the server, numbered
    Sessions, MfaChallenges, Attempts,  \* rows there may be, numbered
    account_lock_attempts, mfa_max_attempts,
    LockTime, ChallengeTime, StepTime,  \* account_lock_minutes and mfa_lock_minutes, how long a
                                        \* challenge and a step-up last
    Accts           \* what a behaviour is about: factor (is a second factor enabled), open
                    \* (sessions), ops, workers,
                    \* horizon, and how many challenges, passwords, secrets and sets of codes
                    \* there may be

ASSUME AccountsAssumption ==
    /\ 0 \notin Workers /\ 0 \notin Attempts
    /\ account_lock_attempts \in Nat \ {0} /\ mfa_max_attempts \in Nat \ {0}
    /\ LockTime \in Nat /\ ChallengeTime \in Nat
ASSUME AcctsAssumption ==
    \A a \in Accts : a.factor \in BOOLEAN /\ a.workers \subseteq Workers /\ a.passwords \in Nat

VARIABLES
    acNow,
    user,       \* the users row: password, failed_login_attempts, locked_until
    userLock,   \* the worker that holds its lock, or NoWorker
    session,    \* session[s]: the auth_sessions row, or NoSession
    cred,       \* the mfa_credentials row, or NoCred
    codes,      \* sets of recovery codes that are unused
    minted,     \* secrets and sets of codes made so far
    mfaChallenge,   \* mfaChallenge[c]: the mfa_challenges row, or NoMfaChallenge
    attempt,    \* attempt[a]: where the sso_login_attempts row and its ticket are
    joined,     \* is the user an ACTIVE member of the organization
    conn,       \* status of its sso_connections row
    requireSso, \* require_sso of its policy
    work,       \* work[h]: the handler of worker h
    accepted,   \* history: factors accepted, each with how often
    confirmed,  \* history: the secret confirmed last
    fromState,  \* history: fromState[a]: sessions that came from attempt a
    raced,      \* history: handlers that overlapped
    acct        \* \in Accts

acVars == <<acNow, user, userLock, session, cred, codes, minted, mfaChallenge, attempt, joined, conn,
            requireSso, work, accepted, confirmed, fromState, raced, acct>>
factorVars == <<cred, codes, accepted>>
setupVars == <<minted, confirmed>>
ssoVars == <<attempt, joined, conn, requireSso, fromState>>
acFixed == <<acNow, acct>>

NoWorker == 0
Never == -9
NoSession == [live |-> FALSE]
NoCred == [enabled |-> FALSE, secret |-> 0]
NoMfaChallenge == [used |-> TRUE]
WorkIdle == [stage |-> "idle"]
Enabled(secret) == [enabled |-> TRUE, secret |-> secret, pending |-> FALSE, last |-> Never, fails |-> 0, locked |-> 0]

AcInit ==
    /\ acct \in Accts /\ acNow = 0
    /\ user = [pw |-> 0, fails |-> 0, locked |-> 0] /\ userLock = NoWorker
    /\ session = [s \in Sessions |-> IF s > acct.open THEN NoSession
          ELSE [live |-> TRUE, pw |-> 0, via |-> "locked", mfa |-> acct.factor, step |-> 0, late |-> FALSE]]
    /\ cred = (IF acct.factor THEN Enabled(1) ELSE NoCred)
    /\ codes = (IF acct.factor THEN {1} ELSE {})
    /\ minted = (IF acct.factor THEN [secrets |-> 1, sets |-> 1] ELSE [secrets |-> 0, sets |-> 0])
    /\ mfaChallenge = [c \in MfaChallenges |-> NoMfaChallenge]
    /\ attempt = [a \in Attempts |-> "none"] /\ fromState = [a \in Attempts |-> 0]
    /\ joined = TRUE /\ conn = "active" /\ requireSso = FALSE
    /\ work = [h \in Workers |-> WorkIdle]
    /\ accepted = <<>> /\ confirmed = minted.secrets /\ raced = {}

AcTick ==
    /\ acNow < acct.horizon /\ acNow' = acNow + 1
    /\ UNCHANGED <<user, userLock, session, factorVars, setupVars, mfaChallenge, ssoVars, work, raced, acct>>

Next1(table, empty) == {i \in DOMAIN table : table[i] = empty /\ \A j \in DOMAIN table : j < i => table[j] # empty}
Waiting(h) == work[h] = WorkIdle /\ \A q \in acct.workers : q < h => work[q] # WorkIdle
Rest(h) == work' = [work EXCEPT ![h] = WorkIdle]
Unlock(h) == userLock' = IF userLock = h THEN NoWorker ELSE userLock
Busy(stage) == \E q \in Workers : work[q].stage = stage

\* The process dies: what is not committed is gone, and what was to follow does not happen.
CrashWork(h) ==
    /\ "crash" \in acct.ops /\ work[h].stage \in {"issuing", "cutting", "burnt"}
    /\ Rest(h) /\ Unlock(h)
    /\ raced' = IF work[h].stage = "cutting" THEN raced \cup {"uncut"} ELSE raced
    /\ UNCHANGED <<acFixed, user, session, factorVars, setupVars, mfaChallenge, ssoVars>>

(***************************************************************************)
(* Signing in.                                                             *)
(***************************************************************************)

Fail(row) ==
    IF row.fails + 1 >= account_lock_attempts THEN [row EXCEPT !.fails = 0, !.locked = acNow + LockTime]
    ELSE [row EXCEPT !.fails = @ + 1]

HoldsUser(h, clears) == IF clears THEN NoWorker ELSE h

authenticate_user(h, right) ==
    /\ Waiting(h) /\ "login" \in acct.ops /\ userLock = NoWorker /\ user.locked <= acNow
    /\ IF ~right THEN user' = Fail(user) /\ UNCHANGED <<userLock, work>>
       ELSE LET clears == user.fails > 0 \/ user.locked > 0 IN
            /\ user' = [user EXCEPT !.fails = 0, !.locked = 0]
            /\ userLock' = HoldsUser(h, clears)
            /\ work' = [work EXCEPT ![h] =
                  [stage |-> "password", pw |-> user.pw, via |-> IF clears THEN "unlocked" ELSE "locked"]]
    /\ UNCHANGED <<acFixed, session, factorVars, setupVars, mfaChallenge, ssoVars, raced>>

CallsForChallenge == cred.enabled

\* login
LookupCredential(h) ==
    /\ work[h].stage = "password"
    /\ IF CallsForChallenge
       THEN \E c \in Next1(mfaChallenge, NoMfaChallenge) :
              /\ c <= acct.challenges
              /\ mfaChallenge' = [mfaChallenge EXCEPT ![c] =
                    [used |-> FALSE, attempts |-> 0, till |-> acNow + ChallengeTime, pw |-> work[h].pw]]
              /\ Rest(h) /\ Unlock(h)
       ELSE /\ work' = [work EXCEPT ![h] = [stage |-> "issuing", pw |-> work[h].pw, via |-> work[h].via,
                                            mfa |-> FALSE, state |-> 0, seen |-> cred.enabled]]
            /\ UNCHANGED <<mfaChallenge, userLock>>
    /\ UNCHANGED <<acFixed, user, session, factorVars, setupVars, ssoVars, raced>>

issue_session(h) ==
    LET d == work[h] IN
    /\ d.stage = "issuing"
    /\ \E s \in Next1(session, NoSession) :
          session' = [session EXCEPT ![s] =
              [live |-> TRUE, pw |-> d.pw, via |-> d.via, mfa |-> d.mfa,
               step |-> IF d.via # "oidc" \/ d.mfa THEN acNow ELSE Never,
               late |-> ~d.seen /\ cred.enabled]]
    /\ fromState' = IF d.state = 0 THEN fromState ELSE [fromState EXCEPT ![d.state] = @ + 1]
    /\ Rest(h) /\ Unlock(h)
    /\ UNCHANGED <<acFixed, user, factorVars, setupVars, mfaChallenge, attempt, joined, conn, requireSso, raced>>

(***************************************************************************)
(* The second factor.                                                      *)
(***************************************************************************)
\* Codes that may be entered: of the authenticator, around now, or of a set; others are wrong.
Totp(step) == [secret |-> cred.secret, step |-> step]
Entered == {Totp(t) : t \in (acNow - 1)..(acNow + 1)} \cup {[set |-> g] : g \in codes}
Wrong == [set |-> 0]

\* Mutant: the step used last is accepted again.
FreshAgain(code) == "step" \in DOMAIN code => code.step >= cred.last

Fresh(code) == "step" \in DOMAIN code => code.step > cred.last

Count(f) == [x \in DOMAIN accepted \cup {f} |->
                (IF x \in DOMAIN accepted THEN accepted[x] ELSE 0) + (IF x = f THEN 1 ELSE 0)]

FailFactor(row) ==
    IF row.fails + 1 >= mfa_max_attempts THEN [row EXCEPT !.fails = 0, !.locked = acNow + LockTime]
    ELSE [row EXCEPT !.fails = @ + 1]

\* _verify_factor, for a caller that holds the lock of the credential.
Accepts(code) == cred.locked <= acNow /\ code \in Entered /\ Fresh(code)

_verify_factor(code) ==
    IF Accepts(code)
    THEN /\ cred' = [cred EXCEPT !.fails = 0, !.locked = 0, !.last = IF "step" \in DOMAIN code THEN code.step ELSE @]
         /\ codes' = IF "set" \in DOMAIN code THEN codes \ {code.set} ELSE codes
         /\ accepted' = Count(code)
    ELSE /\ cred' = IF cred.locked <= acNow THEN FailFactor(cred) ELSE cred
         /\ UNCHANGED <<codes, accepted>>

verify_challenge(h, c, code) ==
    LET row == mfaChallenge[c] IN
    /\ Waiting(h) /\ ~row.used /\ row.till > acNow /\ row.attempts < mfa_max_attempts /\ cred.enabled
    /\ _verify_factor(code)
    /\ mfaChallenge' = [mfaChallenge EXCEPT ![c].attempts = @ + 1, ![c].used = Accepts(code)]
    /\ work' = IF ~Accepts(code) THEN work
               ELSE [work EXCEPT ![h] = [stage |-> "issuing", pw |-> row.pw, via |-> "challenge",
                                         mfa |-> TRUE, state |-> 0, seen |-> TRUE]]
    /\ UNCHANGED <<acFixed, user, userLock, session, setupVars, ssoVars, raced>>

Recent(s) == session[s].live /\ session[s].step + StepTime >= acNow

MayStart == ~cred.enabled

\* start_setup reads the row without a lock.
LoadSetup(h, s) ==
    /\ Waiting(h) /\ "setup" \in acct.ops /\ Recent(s) /\ MayStart
    /\ work' = [work EXCEPT ![h] = [stage |-> "setup", new |-> cred = NoCred]]
    /\ UNCHANGED <<acFixed, user, userLock, session, factorVars, setupVars, mfaChallenge, ssoVars, raced>>

\* An INSERT of a row that is there now, or an UPDATE of one that is gone, fails.
start_setup(h) ==
    LET secret == minted.secrets + 1  fits == work[h].new <=> cred = NoCred IN
    /\ work[h].stage = "setup" /\ minted.secrets < acct.secrets
    /\ cred' = IF ~fits THEN cred
               ELSE IF cred = NoCred THEN [Enabled(secret) EXCEPT !.enabled = FALSE, !.pending = TRUE]
               ELSE [cred EXCEPT !.secret = secret, !.pending = TRUE]
    /\ minted' = IF fits THEN [minted EXCEPT !.secrets = secret] ELSE minted
    /\ Rest(h)
    /\ UNCHANGED <<acFixed, user, userLock, session, codes, accepted, confirmed, mfaChallenge, ssoVars, raced>>

\* _new_recovery_codes: the sets seen by the DELETE go, a new one comes.
NewSet(seen, g) == (codes \ seen) \cup {g}

\* confirm_setup, under the lock of the credential; the sessions follow in a second transaction.
confirm_setup(h, s, step) ==
    /\ Waiting(h) /\ session[s].live /\ cred # NoCred /\ ~cred.enabled /\ cred.pending
    /\ minted.sets < acct.sets /\ step \in (acNow - 1)..(acNow + 1)
    /\ cred' = [cred EXCEPT !.enabled = TRUE, !.pending = FALSE, !.last = step, !.fails = 0, !.locked = 0]
    /\ codes' = NewSet(codes, minted.sets + 1)
    /\ minted' = [minted EXCEPT !.sets = @ + 1]
    /\ accepted' = Count(Totp(step)) /\ confirmed' = cred.secret
    /\ work' = [work EXCEPT ![h] = [stage |-> "cutting", session |-> s, mfa |-> TRUE]]
    /\ raced' = raced \cup (IF Busy("setup") THEN {"setup"} ELSE {})
                      \cup (IF Busy("renewing") THEN {"codes"} ELSE {})
    /\ UNCHANGED <<acFixed, user, userLock, session, mfaChallenge, ssoVars>>

\* The sessions that go when the account is secured: all but the current one.
Cut(s) == {x \in Sessions : session[x].live /\ x # s}

\* confirm_mfa and remove_mfa, second transaction.
CutSessions(h) ==
    LET d == work[h] IN
    /\ d.stage = "cutting"
    /\ session' = [x \in Sessions |->
          IF x \in Cut(d.session) THEN [session[x] EXCEPT !.live = FALSE]
          ELSE IF x = d.session /\ session[x].live
          THEN [session[x] EXCEPT !.mfa = d.mfa, !.step = IF d.mfa THEN acNow ELSE @] ELSE session[x]]
    /\ raced' = IF ~d.mfa /\ cred.enabled THEN raced \cup {"uncut"} ELSE raced
    /\ Rest(h)
    /\ UNCHANGED <<acFixed, user, userLock, factorVars, setupVars, mfaChallenge, ssoVars>>

(***************************************************************************)
(* What calls for the password and, when it is enabled, the second factor. *)
(***************************************************************************)
Ask(h, s, op) ==
    /\ Waiting(h) /\ op \in acct.ops /\ op \in {"change", "step_up", "codes", "disable"} /\ session[s].live
    /\ op \in {"codes", "disable"} => cred.enabled
    /\ work' = [work EXCEPT ![h] =
          [stage |-> IF cred.enabled THEN "asked" ELSE "proven", op |-> op, session |-> s]]
    /\ UNCHANGED <<acFixed, user, userLock, session, factorVars, setupVars, mfaChallenge, ssoVars, raced>>

\* Commits, so the lock of the credential is free again when the operation itself runs.
require_factor(h, code) ==
    /\ work[h].stage = "asked"
    /\ IF cred.enabled THEN _verify_factor(code) ELSE UNCHANGED factorVars
    /\ IF cred.enabled /\ Accepts(code) THEN work' = [work EXCEPT ![h].stage = "proven"] ELSE Rest(h)
    /\ UNCHANGED <<acFixed, user, userLock, session, setupVars, mfaChallenge, ssoVars, raced>>

Proven(h, op) == work[h].stage = "proven" /\ work[h].op = op

\* The UPDATE of the user row is flushed, and waits for the row, before the sessions are read.
change_password(h) ==
    LET s == work[h].session IN
    /\ Proven(h, "change") /\ userLock = NoWorker /\ user.pw < acct.passwords
    /\ user' = [pw |-> user.pw + 1, fails |-> 0, locked |-> 0]
    /\ session' = [x \in Sessions |->
          IF x \in Cut(s) THEN [session[x] EXCEPT !.live = FALSE]
          ELSE IF x = s /\ session[x].live THEN [session[x] EXCEPT !.step = acNow, !.pw = user.pw + 1]
          ELSE session[x]]
    /\ Rest(h)
    /\ UNCHANGED <<acFixed, userLock, factorVars, setupVars, mfaChallenge, ssoVars, raced>>

\* step_up_at is the only column written.
Stepped(s) == [session[s] EXCEPT !.step = acNow]

step_up(h) ==
    /\ Proven(h, "step_up")
    /\ session' = [session EXCEPT ![work[h].session] = Stepped(work[h].session)]
    /\ Rest(h)
    /\ UNCHANGED <<acFixed, user, userLock, factorVars, setupVars, mfaChallenge, ssoVars, raced>>

\* The DELETE of regenerate_recovery_codes sees the sets that are committed.
DeleteCodes(h) ==
    /\ Proven(h, "codes") /\ minted.sets < acct.sets
    /\ work' = [work EXCEPT ![h] = [stage |-> "renewing", seen |-> codes]]
    /\ raced' = IF Busy("renewing") THEN raced \cup {"codes"} ELSE raced
    /\ UNCHANGED <<acFixed, user, userLock, session, factorVars, setupVars, mfaChallenge, ssoVars>>

regenerate_recovery_codes(h) ==
    /\ work[h].stage = "renewing"
    /\ codes' = NewSet(work[h].seen, minted.sets + 1)
    /\ minted' = [minted EXCEPT !.sets = @ + 1]
    /\ Rest(h)
    /\ UNCHANGED <<acFixed, user, userLock, session, cred, accepted, confirmed, mfaChallenge, ssoVars, raced>>

disable_mfa(h) ==
    /\ Proven(h, "disable")
    /\ cred' = NoCred /\ codes' = {}
    /\ work' = [work EXCEPT ![h] = [stage |-> "cutting", session |-> work[h].session, mfa |-> FALSE]]
    /\ UNCHANGED <<acFixed, user, userLock, session, accepted, setupVars, mfaChallenge, ssoVars, raced>>

\* logout, revoke_one, and a session that the organization's policy ends.
revoke_session(s) ==
    /\ "revoke" \in acct.ops /\ session[s].live
    /\ session' = [session EXCEPT ![s].live = FALSE]
    /\ UNCHANGED <<acFixed, user, userLock, factorVars, setupVars, mfaChallenge, ssoVars, work, raced>>

revoke_others(s) ==
    /\ "revoke" \in acct.ops /\ session[s].live
    /\ session' = [x \in Sessions |-> IF x \in Cut(s) THEN [session[x] EXCEPT !.live = FALSE] ELSE session[x]]
    /\ UNCHANGED <<acFixed, user, userLock, factorVars, setupVars, mfaChallenge, ssoVars, work, raced>>

(***************************************************************************)
(* Single sign-on.                                                         *)
(***************************************************************************)
start_login(a) ==
    /\ "sso" \in acct.ops /\ a \in Next1(attempt, "none") /\ conn = "active"
    /\ attempt' = [attempt EXCEPT ![a] = "started"]
    /\ UNCHANGED <<acFixed, user, userLock, session, factorVars, setupVars, mfaChallenge, joined, conn,
                   requireSso, work, fromState, raced>>

Burnt(a) == "burnt"

\* complete_login commits the use of the state before it contacts the provider.
BurnState(h, a) ==
    /\ Waiting(h) /\ attempt[a] = "started"
    /\ attempt' = [attempt EXCEPT ![a] = Burnt(a)]
    /\ work' = [work EXCEPT ![h] = [stage |-> "burnt", state |-> a]]
    /\ UNCHANGED <<acFixed, user, userLock, session, factorVars, setupVars, mfaChallenge, joined, conn,
                   requireSso, fromState, raced>>

\* A ticket when the provider vouches for a member, and says whether it saw a second factor.
complete_login(h, vouched, mfa) ==
    LET a == work[h].state IN
    /\ work[h].stage = "burnt"
    /\ attempt' = IF conn = "active" /\ vouched /\ joined
                  THEN [attempt EXCEPT ![a] = IF mfa THEN "ticket+mfa" ELSE "ticket"] ELSE attempt
    /\ Rest(h)
    /\ UNCHANGED <<acFixed, user, userLock, session, factorVars, setupVars, mfaChallenge, joined, conn,
                   requireSso, fromState, raced>>

redeem_ticket(h, a) ==
    /\ Waiting(h) /\ attempt[a] \in {"ticket", "ticket+mfa"} /\ joined
    /\ attempt' = [attempt EXCEPT ![a] = "redeemed"]
    /\ work' = [work EXCEPT ![h] = [stage |-> "issuing", pw |-> user.pw, via |-> "oidc",
                                    mfa |-> attempt[a] = "ticket+mfa", state |-> a, seen |-> TRUE]]
    /\ UNCHANGED <<acFixed, user, userLock, session, factorVars, setupVars, mfaChallenge, joined, conn,
                   requireSso, fromState, raced>>

\* An administrator removes the member.
Leave ==
    /\ "sso" \in acct.ops /\ joined /\ joined' = FALSE
    /\ UNCHANGED <<acFixed, user, userLock, session, factorVars, setupVars, mfaChallenge, attempt, conn,
                   requireSso, work, fromState, raced>>

\* set_policy looks for an active connection, disable_connection at the policy; neither locks.
LoadPolicy(h, sso) ==
    /\ Waiting(h) /\ "policy" \in acct.ops /\ (sso => conn = "active")
    /\ work' = [work EXCEPT ![h] = [stage |-> "policy", sso |-> sso]]
    /\ UNCHANGED <<acFixed, user, userLock, session, factorVars, setupVars, mfaChallenge, ssoVars, raced>>

set_policy(h) ==
    /\ work[h].stage = "policy"
    /\ requireSso' = work[h].sso
    /\ raced' = IF Busy("disabling") THEN raced \cup {"policy"} ELSE raced
    /\ Rest(h)
    /\ UNCHANGED <<acFixed, user, userLock, session, factorVars, setupVars, mfaChallenge, attempt, joined,
                   conn, fromState>>

MayDisable == ~requireSso

LoadConnection(h) ==
    /\ Waiting(h) /\ "policy" \in acct.ops /\ conn = "active" /\ MayDisable
    /\ work' = [work EXCEPT ![h] = [stage |-> "disabling"]]
    /\ UNCHANGED <<acFixed, user, userLock, session, factorVars, setupVars, mfaChallenge, ssoVars, raced>>

disable_connection(h) ==
    /\ work[h].stage = "disabling"
    /\ conn' = "disabled"
    /\ raced' = IF \E q \in Workers : work[q].stage = "policy" /\ work[q].sso THEN raced \cup {"policy"} ELSE raced
    /\ Rest(h)
    /\ UNCHANGED <<acFixed, user, userLock, session, factorVars, setupVars, mfaChallenge, attempt, joined,
                   requireSso, fromState>>

\* The connection was tested before, and the test is not asked for again.
enable_connection ==
    /\ "policy" \in acct.ops /\ conn = "disabled" /\ conn' = "active"
    /\ UNCHANGED <<acFixed, user, userLock, session, factorVars, setupVars, mfaChallenge, attempt, joined,
                   requireSso, fromState, work, raced>>

AcNext ==
    \/ AcTick \/ Leave \/ enable_connection
    \/ \E s \in Sessions : revoke_session(s) \/ revoke_others(s)
    \/ \E a \in Attempts : start_login(a)
    \/ \E h \in acct.workers :
        \/ CrashWork(h) \/ LookupCredential(h) \/ issue_session(h) \/ start_setup(h) \/ CutSessions(h)
        \/ \E right \in BOOLEAN : authenticate_user(h, right)
        \/ \E code \in Entered \cup {Wrong} :
              require_factor(h, code) \/ \E c \in MfaChallenges : verify_challenge(h, c, code)
        \/ \E s \in Sessions : LoadSetup(h, s) \/ \E t \in {acNow, acNow + 1} : confirm_setup(h, s, t)
        \/ \E s \in Sessions, op \in acct.ops : Ask(h, s, op)
        \/ change_password(h) \/ step_up(h) \/ DeleteCodes(h) \/ regenerate_recovery_codes(h) \/ disable_mfa(h)
        \/ \E a \in Attempts : BurnState(h, a) \/ redeem_ticket(h, a)
        \/ \E vouched, mfa \in BOOLEAN : complete_login(h, vouched, mfa)
        \/ \E sso \in BOOLEAN : LoadPolicy(h, sso)
        \/ set_policy(h) \/ LoadConnection(h) \/ disable_connection(h)

AcSpec == AcInit /\ [][AcNext]_acVars

(***************************************************************************)
(* Properties.                                                             *)
(***************************************************************************)
\* Counters stay below the number at which they lock; the lock of the user row is held by
\* a sign-in that has not committed.
AcTypeOK ==
    /\ user.fails \in 0..(account_lock_attempts - 1) /\ user.pw \in 0..acct.passwords
    /\ userLock # NoWorker => work[userLock].stage \in {"password", "issuing"}
    /\ cred # NoCred => cred.fails \in 0..(mfa_max_attempts - 1)
    /\ \A c \in MfaChallenges : mfaChallenge[c] # NoMfaChallenge =>
          mfaChallenge[c].attempts \in 0..mfa_max_attempts

\* A code of the authenticator and a recovery code open one thing each, whether they are
\* entered at sign-in, for a step-up or to confirm the setup, and however these overlap.
FactorOnce == \A f \in DOMAIN accepted : accepted[f] = 1

\* An enabled credential has the secret that was confirmed, unless a setup had loaded the
\* row before it was confirmed: that one replaces the secret of an enabled credential.
EnabledSecretConfirmed == cred.enabled => cred.secret = confirmed \/ "setup" \in raced

\* There is one set of recovery codes, unless two handlers renewed it at the same time.
OneSetOfCodes == Cardinality(codes) <= 1 \/ "codes" \in raced

\* Once a second factor is on and the other sessions are cut, a session that was opened
\* with the password alone is one whose sign-in had looked for the credential before it
\* was enabled.
NoSingleFactor ==
    (cred.enabled /\ ~Busy("cutting") /\ "uncut" \notin raced) =>
        \A s \in Sessions : (session[s].live /\ session[s].via # "oidc" /\ ~session[s].mfa) => session[s].late

\* A session that was opened with an earlier password is gone, unless the sign-in had
\* cleared failures, which gave up the lock of the user row, or went through a challenge:
\* a challenge outlives the password it was made for.
PasswordChangeEndsSessions ==
    \A s \in Sessions : (session[s].live /\ session[s].pw < user.pw) =>
        session[s].via \in {"unlocked", "challenge", "oidc"}

\* A session that was revoked stays revoked.
RevokedStays ==
    [][\A s \in Sessions : (session[s] # NoSession /\ ~session[s].live) => ~session'[s].live]_acVars

\* A state opens one session, however often the provider calls back and the ticket is
\* handed in.
StateOnce == \A a \in Attempts : fromState[a] <= 1

\* While SSO is required there is a connection to sign in with, unless the requirement and
\* the end of the connection were written at the same time.
SsoReachable == requireSso => conn = "active" \/ "policy" \in raced

\* However sign-ins, set-ups and password changes overlap: a code, a ticket and a state count
\* once, a second factor that is enabled was confirmed and is asked for, one set of recovery
\* codes is valid, a changed password ends the sessions of the old one, and nobody is locked
\* out by a sign-in provider that is gone, but for the overlaps recorded in raced.
AccountHolds ==
    /\ AcTypeOK /\ FactorOnce /\ EnabledSecretConfirmed /\ OneSetOfCodes /\ NoSingleFactor
    /\ PasswordChangeEndsSessions /\ StateOnce /\ SsoReachable
=============================================================================
