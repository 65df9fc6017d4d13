---------------------------- MODULE Credentials ----------------------------
(***************************************************************************)
(* The trust registry of one organization: issuers, their signing keys,    *)
(* the credentials of one agent, and their verification by anybody.        *)
(* services/credential_service.py and api/trust_registry.py.               *)
(*                                                                         *)
(* A signature is the record of the fields it covers.  Each SELECT of a    *)
(* verification reads what is committed when it runs.                      *)
(***************************************************************************)
EXTENDS Naturals, FiniteSets

CONSTANTS
    Registrars,     \* sessions
    Issuers, IssuerKeys, Creds,
    Capabilities,   \* capability names
    Leeway,         \* clock skew that a verification tolerates (30 s)
    Validity,       \* lifetime of a credential
    MaxRegTime      \* bound on the clock

ASSUME RegistryAssumption == Issuers # {} /\ IssuerKeys # {} /\ Creds # {}
ASSUME RegTimeAssumption == Leeway \in Nat /\ Validity \in Nat /\ MaxRegTime \in Nat

VARIABLES
    regNow,
    subject,    \* the agent: [status, caps], caps its registered capabilities
    issuer,     \* issuer[i]: status of credential_issuers row i
    ikey,       \* ikey[k]: [status, issuer]
    credential, \* credential[c]: the agent_credentials row with its signature
    work,       \* work[s]: the handler in session s
    raced       \* history: issuers whose rotations overlapped, "agent" when an
                \* issuance overlapped the agent's retirement

regVars == <<regNow, subject, issuer, ikey, credential, work, raced>>

IssuerStatus == {"none", "ACTIVE", "SUSPENDED", "REVOKED"}
IssuerKeyStatus == {"none", "ACTIVE", "ROTATED", "REVOKED"}
Environments == {"production", "sandbox"}
KeyRow == [status : IssuerKeyStatus, issuer : Issuers]
\* What the signature covers.
Envelope == [id : Creds, issuer : Issuers, env : Environments, expires : Nat,
             caps : SUBSET Capabilities]
CredentialRow == [status : {"none", "ACTIVE", "REVOKED"}, key : IssuerKeys, envelope : Envelope]

RegIdle == [stage |-> "idle"]
AnyIssuer == CHOOSE i \in Issuers : TRUE
NoCredential == [status |-> "none", key |-> CHOOSE k \in IssuerKeys : TRUE,
                 envelope |-> [id |-> CHOOSE c \in Creds : TRUE, issuer |-> AnyIssuer,
                               env |-> "production", expires |-> 0, caps |-> {}]]

RegInit ==
    /\ regNow = 0
    /\ subject \in [status : {"active"}, caps : SUBSET Capabilities]
    /\ issuer = [i \in Issuers |-> "none"]
    /\ ikey = [k \in IssuerKeys |-> [status |-> "none", issuer |-> AnyIssuer]]
    /\ credential = [c \in Creds |-> NoCredential]
    /\ work = [s \in Registrars |-> RegIdle]
    /\ raced = {}

RegTick ==
    /\ regNow < MaxRegTime
    /\ regNow' = regNow + 1
    /\ UNCHANGED <<subject, issuer, ikey, credential, work, raced>>

ActiveKeys(i) == {k \in IssuerKeys : ikey[k].issuer = i /\ ikey[k].status = "ACTIVE"}
Finish(s) == work' = [work EXCEPT ![s] = RegIdle]

(***************************************************************************)
(* Issuers and keys.                                                       *)
(***************************************************************************)
\* POST .../issuers, and the first step of an issuance when no issuer is ACTIVE.
create_credential_issuer(i, k) ==
    /\ issuer[i] = "none" /\ ikey[k].status = "none"
    /\ issuer' = [issuer EXCEPT ![i] = "ACTIVE"]
    /\ ikey' = [ikey EXCEPT ![k] = [status |-> "ACTIVE", issuer |-> i]]
    /\ UNCHANGED <<regNow, subject, credential, work, raced>>

\* suspend_issuer and revoke_issuer accept an issuer of any status.
StopIssuer(i, to) ==
    /\ issuer[i] # "none"
    /\ issuer' = [issuer EXCEPT ![i] = to]
    /\ UNCHANGED <<regNow, subject, ikey, credential, work, raced>>

\* scalar_one_or_none: two ACTIVE keys are an error, none is not.
LoadRotation(s, i) ==
    /\ work[s] = RegIdle
    /\ issuer[i] = "ACTIVE" /\ Cardinality(ActiveKeys(i)) <= 1
    /\ work' = [work EXCEPT ![s] = [stage |-> "rotating", issuer |-> i, old |-> ActiveKeys(i)]]
    /\ raced' = IF \E q \in Registrars : work[q].stage = "rotating" /\ work[q].issuer = i
                THEN raced \cup {i} ELSE raced
    /\ UNCHANGED <<regNow, subject, issuer, ikey, credential>>

\* Mutant: the old key stays ACTIVE until somebody revokes it.
OldKeyKept(row, revoke_old_key) == IF revoke_old_key THEN [row EXCEPT !.status = "REVOKED"] ELSE row

OldKey(row, revoke_old_key) ==
    [row EXCEPT !.status = IF revoke_old_key THEN "REVOKED" ELSE "ROTATED"]

Rotated(i, old, new, revoke_old_key) ==
    [k \in IssuerKeys |->
       CASE k = new -> [status |-> "ACTIVE", issuer |-> i]
         [] k \in old -> OldKey(ikey[k], revoke_old_key)
         [] OTHER -> ikey[k]]

rotate_issuer_signing_key(s, new, revoke_old_key) ==
    /\ work[s].stage = "rotating" /\ ikey[new].status = "none"
    /\ ikey' = Rotated(work[s].issuer, work[s].old, new, revoke_old_key)
    /\ Finish(s)
    /\ UNCHANGED <<regNow, subject, issuer, credential, raced>>

(***************************************************************************)
(* Issuance.                                                               *)
(***************************************************************************)
\* A capability is checked against the registered ones, if there is any.
MayClaim(caps) == subject.caps # {} => caps \subseteq subject.caps

\* issuer, agent and key are loaded; signing and the INSERT follow.
LoadIssue(s, i, caps) ==
    /\ work[s] = RegIdle
    /\ issuer[i] = "ACTIVE" /\ subject.status = "active" /\ MayClaim(caps)
    /\ \E k \in ActiveKeys(i) :
          /\ ActiveKeys(i) = {k}
          /\ work' = [work EXCEPT ![s] = [stage |-> "signing", issuer |-> i, key |-> k, caps |-> caps]]
    /\ UNCHANGED <<regNow, subject, issuer, ikey, credential, raced>>

build_atc_canonical_ascii(e) == e

issue_agent_credential(s, c, env) ==
    LET t == work[s] IN
    /\ t.stage = "signing" /\ credential[c].status = "none"
    /\ credential' = [credential EXCEPT ![c] =
          [status |-> "ACTIVE", key |-> t.key,
           envelope |-> [id |-> c, issuer |-> t.issuer, env |-> env,
                         expires |-> regNow + Validity, caps |-> t.caps]]]
    /\ Finish(s)
    /\ UNCHANGED <<regNow, subject, issuer, ikey, raced>>

revoke_agent_credential(c) ==
    /\ credential[c].status # "none"
    /\ credential' = [credential EXCEPT ![c].status = "REVOKED"]
    /\ UNCHANGED <<regNow, subject, issuer, ikey, work, raced>>

(***************************************************************************)
(* The agent, as the lifecycle changes it.                                 *)
(***************************************************************************)

_execute_retirement_cleanup(c) ==
    IF credential[c].status = "ACTIVE" THEN [credential[c] EXCEPT !.status = "REVOKED"] ELSE credential[c]

RetireAgent ==
    /\ subject.status = "active"
    /\ subject' = [subject EXCEPT !.status = "retired"]
    /\ credential' = [c \in Creds |-> _execute_retirement_cleanup(c)]
    /\ raced' = IF \E s \in Registrars : work[s].stage = "signing" THEN raced \cup {"agent"} ELSE raced
    /\ UNCHANGED <<regNow, issuer, ikey, work>>

\* PATCH /agents/{id} makes it active again.
RestoreAgent ==
    /\ subject.status = "retired"
    /\ subject' = [subject EXCEPT !.status = "active"]
    /\ UNCHANGED <<regNow, issuer, ikey, credential, work, raced>>

(***************************************************************************)
(* Verification: four SELECTs.  Somebody presents the envelope of a        *)
(* credential, perhaps with its environment altered; began is a history    *)
(* of what was already revoked by then.                                    *)
(***************************************************************************)
Present(s, c, env, expected) ==
    LET e == [credential[c].envelope EXCEPT !.env = env] IN
    /\ work[s] = RegIdle /\ credential[c].status # "none"
    /\ ~(env = "sandbox" /\ expected = "production")
    /\ regNow <= e.expires + Leeway
    /\ issuer[e.issuer] = "ACTIVE"
    /\ work' = [work EXCEPT ![s] =
          [stage |-> "issuer-ok", presented |-> e, expected |-> expected,
           began |-> [revoked |-> credential[c].status = "REVOKED",
                      badkey  |-> ikey[credential[c].key].status = "REVOKED"]]]
    /\ UNCHANGED <<regNow, subject, issuer, ikey, credential, raced>>

Step(s, from, to, ok) ==
    /\ work[s].stage = from
    /\ work' = [work EXCEPT ![s] = IF ok THEN [@ EXCEPT !.stage = to] ELSE RegIdle]
    /\ UNCHANGED <<regNow, subject, issuer, ikey, credential, raced>>

KeyUsable(k) == ikey[k].status # "REVOKED"

VerifySignature(s) ==
    LET row == credential[work[s].presented.id] IN
    Step(s, "issuer-ok", "signature-ok",
         /\ KeyUsable(row.key)
         /\ build_atc_canonical_ascii(work[s].presented) = build_atc_canonical_ascii(row.envelope))

NotRevoked(c) == credential[c].status # "REVOKED"

VerifyRow(s) == Step(s, "signature-ok", "row-ok", NotRevoked(work[s].presented.id))

VerifySubject(s) == Step(s, "row-ok", "accepted", subject.status = "active")

Answer(s) == work[s].stage = "accepted" /\ Finish(s)
             /\ UNCHANGED <<regNow, subject, issuer, ikey, credential, raced>>

verify_agent_credential(s) ==
    VerifySignature(s) \/ VerifyRow(s) \/ VerifySubject(s) \/ Answer(s)

RegNext ==
    \/ RegTick \/ RetireAgent \/ RestoreAgent
    \/ \E i \in Issuers, k \in IssuerKeys : create_credential_issuer(i, k)
    \/ \E i \in Issuers, to \in {"SUSPENDED", "REVOKED"} : StopIssuer(i, to)
    \/ \E s \in Registrars, i \in Issuers : LoadRotation(s, i)
    \/ \E s \in Registrars, k \in IssuerKeys, b \in BOOLEAN : rotate_issuer_signing_key(s, k, b)
    \/ \E s \in Registrars, i \in Issuers, caps \in SUBSET Capabilities : LoadIssue(s, i, caps)
    \/ \E s \in Registrars, c \in Creds, env \in Environments : issue_agent_credential(s, c, env)
    \/ \E c \in Creds : revoke_agent_credential(c)
    \/ \E s \in Registrars, c \in Creds, env, expected \in Environments : Present(s, c, env, expected)
    \/ \E s \in Registrars : verify_agent_credential(s)

RegSpec == RegInit /\ [][RegNext]_regVars

(***************************************************************************)
(* Properties.                                                             *)
(***************************************************************************)
\* Every row has its type and every session is in one of its stages.
RegTypeOK ==
    /\ regNow \in 0 .. MaxRegTime
    /\ subject \in [status : {"active", "retired"}, caps : SUBSET Capabilities]
    /\ issuer \in [Issuers -> IssuerStatus]
    /\ ikey \in [IssuerKeys -> KeyRow]
    /\ credential \in [Creds -> CredentialRow]
    /\ \A s \in Registrars : work[s].stage \in {"idle", "rotating", "signing", "issuer-ok",
                                                "signature-ok", "row-ok", "accepted"}

\* An issuer has exactly one ACTIVE key, whatever was rotated or revoked, unless two
\* rotations overlapped.  With two, every later issuance and rotation of the issuer
\* fails, and nothing in the service repairs it.
OneActiveKey ==
    \A i \in Issuers : (issuer[i] # "none" /\ i \notin raced) => Cardinality(ActiveKeys(i)) = 1

\* A key that was revoked is never accepted again, unless it was revoked by one of two
\* overlapping rotations: the other marks it ROTATED.
KeyRevocationStands ==
    [][\A k \in IssuerKeys : (ikey[k].status = "REVOKED" /\ ikey[k].issuer \notin raced)
                                 => ikey'[k].status = "REVOKED"]_regVars

\* A verification whose four reads interleave with revocations accepts only an
\* envelope as it was signed, in the environment it was issued for, of a credential
\* that was not revoked when the verification began, under a key that was not revoked
\* then (short of a rotation race).
AcceptedWasGood ==
    \A s \in Registrars : work[s].stage = "accepted" =>
        LET e == work[s].presented IN
        /\ ~work[s].began.revoked
        /\ e.issuer \notin raced => ~work[s].began.badkey
        /\ work[s].expected = "production" => credential[e.id].envelope.env = "production"

\* A retired agent holds no ACTIVE credential, except one whose issuance had loaded the
\* agent before it was retired: that one counts again if the agent is restored.
RetiredHoldsNone ==
    (subject.status = "retired" /\ "agent" \notin raced)
        => \A c \in Creds : credential[c].status # "ACTIVE"

\* An issuer has one ACTIVE key but for rotations that overlapped, a verification accepts no
\* credential that was revoked before it began, and a retired agent holds none.
RegistryHolds == RegTypeOK /\ OneActiveKey /\ AcceptedWasGood /\ RetiredHoldsNone
=============================================================================
