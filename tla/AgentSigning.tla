---------------------------- MODULE AgentSigning ----------------------------
(***************************************************************************)
(* The Ed25519 identity of one agent (services/agent_signing.py): its      *)
(* signing keys, managed by administrators through api/agent_signing.py,   *)
(* and the verification of signed requests, with the nonce guard in Redis  *)
(* and PostgreSQL.                                                         *)
(*                                                                         *)
(* A verification reads the clock once and then makes several blocking     *)
(* calls, each with a timeout (statement_timeout=5000, socket_timeout=2):  *)
(* MaxStall bounds the time from the reading to the last call.  A request  *)
(* may arrive any number of times, at any time, in any order.              *)
(***************************************************************************)
EXTENDS Integers, FiniteSets

CONSTANTS
    Keys,         \* the pool of key ids
    FirstKey,     \* the key that the agent starts with
    Nonces,
    Threads,      \* verifications that run at a time
    Admins,       \* administrators that manage keys at a time
    Ops,          \* what administrators do: "add", "rotate", "revoke"
    MaxKeys,      \* agent_max_active_signing_keys
    Lifetimes,    \* the expires_at values that keys are registered with
    Window,       \* agent_signature_clock_window_seconds
    Margin,       \* the 30 seconds on top of twice the window
    MaxStall,
    MaxTime       \* bound on the clock

ASSUME KeysAssumption == FirstKey \in Keys /\ IsFiniteSet(Keys)
ASSUME LimitAssumption == MaxKeys \in Nat \ {0} /\ Lifetimes \subseteq Nat
ASSUME TimeAssumption == Window \in Nat /\ Margin \in Nat /\ MaxTime \in Nat
ASSUME StallAssumption == MaxStall \in Nat /\ MaxStall < Margin

VARIABLES
    now,
    key,        \* key[k]: the agent_signing_keys row
    agent,      \* the agent's own status
    admin,      \* admin[a]: what an administrator has loaded
    redis,      \* digests that Redis holds
    nonces,     \* nonces[d]: expires_at of the agent_request_nonces row, or Absent
    job,        \* job[t]: the verification that thread t is in
    accepts,    \* history: how often each signed request was accepted
    revoked     \* history: keys whose revocation was committed

keyVars == <<key, agent, admin, revoked>>
requestVars == <<redis, nonces, job, accepts>>
vars == <<now, keyVars, requestVars>>

Time == 0 .. MaxTime
Messages == [key : Keys, nonce : Nonces, at : Time]
Digest(m) == <<m.key, m.nonce>>
Absent == -1
Usable == {"ACTIVE", "ROTATING"}
Idle == [stage |-> "idle"]

Init ==
    /\ now = 0
    /\ key = [k \in Keys |-> [status |-> IF k = FirstKey THEN "ACTIVE" ELSE "none",
                              expires |-> MaxTime + 1]]
    /\ agent = "active"
    /\ admin = [a \in Admins |-> Idle]
    /\ redis = {}
    /\ nonces = [d \in Keys \X Nonces |-> Absent]
    /\ job = [t \in Threads |-> Idle]
    /\ accepts = [m \in Messages |-> 0]
    /\ revoked = {}

\* Time passes, but no verification outlasts its timeouts.
Tick ==
    /\ now < MaxTime
    /\ \A t \in Threads : job[t].stage # "idle" => now < job[t].checked + MaxStall
    /\ now' = now + 1
    /\ UNCHANGED <<keyVars, requestVars>>

-----------------------------------------------------------------------------
(* Key management.                                                         *)

\* add_key and rotate first load the agent, and the key to rotate; register_key
\* works on these copies, also after its SELECT ... FOR UPDATE of the agent.
LoadForAdd(a) ==
    /\ "add" \in Ops /\ admin[a] = Idle
    /\ admin' = [admin EXCEPT ![a] = [stage |-> "loaded", agent |-> agent,
                                      old |-> FirstKey, seen |-> "none"]]
    /\ UNCHANGED <<now, key, agent, revoked, requestVars>>

LoadForRotate(a, k) ==
    /\ "rotate" \in Ops /\ admin[a] = Idle
    /\ key[k].status \in Usable
    /\ admin' = [admin EXCEPT ![a] = [stage |-> "loaded", agent |-> agent,
                                      old |-> k, seen |-> key[k].status]]
    /\ UNCHANGED <<now, key, agent, revoked, requestVars>>

UsableKeys == {k \in Keys : key[k].status \in Usable /\ key[k].expires > now}

\* Mutant: the rotated key stops at once.
RegisteredRetires(a, k, e) ==
    [j \in Keys |->
        CASE j = k -> [status |-> "ACTIVE", expires |-> e]
          [] j # k /\ j = admin[a].old /\ admin[a].seen = "ACTIVE" ->
               [key[j] EXCEPT !.status = "EXPIRED"]
          [] OTHER -> key[j]]

\* The key that is rotated becomes ROTATING, whatever has become of it since it
\* was loaded as ACTIVE; one that was loaded as ROTATING is not written.
Registered(a, k, e) ==
    [j \in Keys |->
        CASE j = k -> [status |-> "ACTIVE", expires |-> e]
          [] j # k /\ j = admin[a].old /\ admin[a].seen = "ACTIVE" ->
               [key[j] EXCEPT !.status = "ROTATING"]
          [] OTHER -> key[j]]

\* Mutant: one key too many.
RegisterKeyOffByOne(a, k, e) ==
    /\ admin[a].stage = "loaded" /\ admin[a].agent # "revoked"
    /\ key[k].status = "none"
    /\ Cardinality(UsableKeys) <= MaxKeys
    /\ key' = Registered(a, k, e)
    /\ admin' = [admin EXCEPT ![a] = Idle]
    /\ UNCHANGED <<now, agent, revoked, requestVars>>

\* register_key, one at a time behind the agent's row lock.
RegisterKey(a, k, e) ==
    /\ admin[a].stage = "loaded" /\ admin[a].agent # "revoked"
    /\ key[k].status = "none"
    /\ Cardinality(UsableKeys) < MaxKeys
    /\ key' = Registered(a, k, e)
    /\ admin' = [admin EXCEPT ![a] = Idle]
    /\ UNCHANGED <<now, agent, revoked, requestVars>>

\* AGENT_NOT_AVAILABLE, ACTIVE_KEY_LIMIT_REACHED, INVALID_PUBLIC_KEY or
\* PUBLIC_KEY_ALREADY_REGISTERED.
RefuseKey(a) ==
    /\ admin[a].stage = "loaded"
    /\ admin' = [admin EXCEPT ![a] = Idle]
    /\ UNCHANGED <<now, key, agent, revoked, requestVars>>

RevokeKey(k) ==
    /\ "revoke" \in Ops
    /\ key[k].status \notin {"none", "REVOKED"}
    /\ key' = [key EXCEPT ![k].status = "REVOKED"]
    /\ revoked' = revoked \cup {k}
    /\ UNCHANGED <<now, agent, admin, requestVars>>

\* list_keys, and the worker, mark what has expired.
ExpireKeys ==
    LET old == {k \in Keys : key[k].status \in Usable /\ key[k].expires <= now}
    IN  /\ old # {}
        /\ key' = [k \in Keys |->
              IF k \in old THEN [key[k] EXCEPT !.status = "EXPIRED"] ELSE key[k]]
        /\ UNCHANGED <<now, agent, admin, revoked, requestVars>>

\* Elsewhere the agent is revoked; verify_request does not look at its status.
RevokeAgent ==
    /\ agent = "active"
    /\ agent' = "revoked"
    /\ UNCHANGED <<now, key, admin, revoked, requestVars>>

-----------------------------------------------------------------------------
(* Verification of signed requests.                                        *)

Gap(x, y) == IF x > y THEN x - y ELSE y - x

\* The headers are in order and the timestamp is in the window around the clock
\* (otherwise the request is refused on the spot).  "late" notes a request that
\* arrives after the revocation of its key.
StartVerify(t, m) ==
    /\ job[t] = Idle
    /\ Gap(now, m.at) <= Window
    /\ job' = [job EXCEPT ![t] =
          [stage |-> "started", msg |-> m, checked |-> now,
           late |-> IF m.key \in revoked THEN "yes" ELSE "no"]]
    /\ UNCHANGED <<now, keyVars, redis, nonces, accepts>>

\* Mutant: only the expiry is checked.
CheckKeyExpiryOnly(t) ==
    /\ job[t].stage = "started"
    /\ job' = [job EXCEPT ![t] =
          IF key[job[t].msg.key].expires > job[t].checked
          THEN [job[t] EXCEPT !.stage = "verified"] ELSE Idle]
    /\ UNCHANGED <<now, keyVars, redis, nonces, accepts>>

\* The key row is read: SIGNING_KEY_REVOKED, SIGNING_KEY_EXPIRED, or the
\* signature is verified with it.
CheckKey(t) ==
    LET row == key[job[t].msg.key]
    IN  /\ job[t].stage = "started"
        /\ job' = [job EXCEPT ![t] =
              IF row.status \in Usable /\ row.expires > job[t].checked
              THEN [job[t] EXCEPT !.stage = "verified"] ELSE Idle]
        /\ UNCHANGED <<now, keyVars, redis, nonces, accepts>>

\* SET ... NX in Redis: a digest that is there is REPLAY_DETECTED.
SetInRedis(t) ==
    LET d == Digest(job[t].msg)
    IN  /\ job[t].stage = "verified"
        /\ job' = [job EXCEPT ![t] =
              IF d \in redis THEN Idle ELSE [job[t] EXCEPT !.stage = "cached"]]
        /\ redis' = redis \cup {d}
        /\ UNCHANGED <<now, keyVars, nonces, accepts>>

\* Without a configured Redis the PostgreSQL guard is alone.
SkipRedis(t) ==
    /\ job[t].stage = "verified"
    /\ job' = [job EXCEPT ![t] = [job[t] EXCEPT !.stage = "cached"]]
    /\ UNCHANGED <<now, keyVars, redis, nonces, accepts>>

\* REPLAY_PROTECTION_UNAVAILABLE: Redis or the transaction failed.
Unavailable(t) ==
    /\ job[t].stage \in {"verified", "cached"}
    /\ job' = [job EXCEPT ![t] = Idle]
    /\ UNCHANGED <<now, keyVars, redis, nonces, accepts>>

\* Mutant: the retention is the window, not twice the window.
ExpiryOneWindow(checked) == checked + Window + Margin

\* expires_at of a nonce: ttl after the clock that was read.
NonceExpiry(checked) == checked + 2 * Window + Margin

\* One transaction: now and then expired nonces are purged, then the nonce is
\* inserted, or found (REPLAY_DETECTED).
InsertNonce(t, purge) ==
    LET d == Digest(job[t].msg)
        kept == [e \in Keys \X Nonces |->
                   IF purge /\ nonces[e] <= job[t].checked THEN Absent ELSE nonces[e]]
    IN  /\ job[t].stage = "cached"
        /\ nonces' = IF kept[d] = Absent
                     THEN [kept EXCEPT ![d] = NonceExpiry(job[t].checked)] ELSE kept
        /\ accepts' = IF kept[d] = Absent
                      THEN [accepts EXCEPT ![job[t].msg] = @ + 1] ELSE accepts
        /\ job' = [job EXCEPT ![t] = Idle]
        /\ UNCHANGED <<now, keyVars, redis>>

\* cleanup_expired_nonces, in the worker, in batches.
CleanupNonce(d) ==
    /\ nonces[d] # Absent /\ nonces[d] <= now
    /\ nonces' = [nonces EXCEPT ![d] = Absent]
    /\ UNCHANGED <<now, keyVars, redis, job, accepts>>

\* Redis forgets a digest: at the end of its TTL, by eviction, or in a restart.
RedisForgets(d) ==
    /\ d \in redis
    /\ redis' = redis \ {d}
    /\ UNCHANGED <<now, keyVars, nonces, job, accepts>>

Verify(t) ==
    \/ \E m \in Messages : StartVerify(t, m)
    \/ CheckKey(t) \/ SetInRedis(t) \/ SkipRedis(t) \/ Unavailable(t)
    \/ \E purge \in BOOLEAN : InsertNonce(t, purge)

Manage(a) ==
    \/ LoadForAdd(a) \/ RefuseKey(a)
    \/ \E k \in Keys : LoadForRotate(a, k) \/ \E e \in Lifetimes : RegisterKey(a, k, e)

Next ==
    \/ Tick \/ ExpireKeys \/ RevokeAgent
    \/ \E k \in Keys : RevokeKey(k)
    \/ \E a \in Admins : Manage(a)
    \/ \E t \in Threads : Verify(t)
    \/ \E d \in Keys \X Nonces : CleanupNonce(d) \/ RedisForgets(d)

Spec == Init /\ [][Next]_vars

-----------------------------------------------------------------------------
(* Properties.                                                             *)

KeyRow == [status : Usable \cup {"none", "REVOKED", "EXPIRED"}, expires : Nat]
AdminRec == [stage : {"loaded"}, agent : {"active", "revoked"}, old : Keys,
             seen : Usable \cup {"none"}]
JobRec == [stage : {"started", "verified", "cached"}, msg : Messages,
           checked : Time, late : {"yes", "no"}]

\* Type invariant of the rows, the Redis set and the requests in flight.
TypeOK ==
    /\ now \in Time
    /\ key \in [Keys -> KeyRow]
    /\ agent \in {"active", "revoked"}
    /\ admin \in [Admins -> AdminRec \cup {Idle}]
    /\ redis \subseteq Keys \X Nonces
    /\ nonces \in [Keys \X Nonces -> Nat \cup {Absent}]
    /\ job \in [Threads -> JobRec \cup {Idle}]
    /\ accepts \in [Messages -> Nat]
    /\ revoked \subseteq Keys

\* docs/AGENT_SIGNING.md: early Redis eviction cannot permit replay.  However
\* often a signed request arrives, and whatever Redis forgets or the cleanup
\* deletes meanwhile, _accept_nonce lets it through at most once.
AcceptedOnce == \A m \in Messages : accepts[m] <= 1

\* docs/AGENT_SIGNING.md: at most three active or rotating keys.  Concurrent
\* registrations never leave the agent with more than MaxKeys usable keys.
KeyCap == Cardinality(UsableKeys) <= MaxKeys

\* docs/AGENT_SIGNING.md: both keys work temporarily.  No rotation, registration
\* or expiry sweep takes a working key out of use before it expires or is revoked.
RotationOverlaps ==
    [][\A k \in UsableKeys :
          key[k].expires > now' /\ k \notin revoked' => k \in UsableKeys']_vars

\* docs/AGENT_SIGNING.md: a revoked key fails immediately on subsequent requests.
\* No request that arrived after the revocation of its key was committed gets as
\* far as being accepted.
RevokedFailsAtOnce ==
    \A t \in Threads : job[t].stage \in {"verified", "cached"} => job[t].late = "no"
=============================================================================
