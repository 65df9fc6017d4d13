--------------------------- MODULE GatewayControl ---------------------------
(***************************************************************************)
(* The control plane of one enterprise gateway: its registration,          *)
(* enrolment, heartbeats, suspension and revocation, and the numbered,     *)
(* signed configuration bundles of its organization.                       *)
(* services/gateway_control_service.py and api/enterprise_gateways.py.     *)
(*                                                                         *)
(* Every handler loads its row without a lock and commits later.  A        *)
(* bundle is abstracted to the list of agents and credentials it revokes.  *)
(***************************************************************************)
EXTENDS Naturals, FiniteSets, FiniteSetsExt, UnitOfWork

CONSTANTS
    Managers,       \* sessions of the control plane
    GwKeys,         \* Ed25519 public keys
    FirstKey,       \* the key of a gateway that is enrolled from the start
    GwEnvironments,
    Subjects,       \* agents and credentials that can be revoked
    Deployments,    \* what happens in a behaviour: the operations used (ops), the sessions,
                    \* threads, keys, environments, nonces and offline policy that occur,
                    \* whether the gateway is enrolled, and bounds on time, versions, faults
    TokenTTL, BundleTTL,
    MaxVersion,     \* bound on published bundles
    MaxGwTime       \* bound on the clock

Unenrolled == "no key"

ASSUME GatewayAssumption ==
    /\ {TokenTTL, BundleTTL, MaxVersion, MaxGwTime} \subseteq Nat
    /\ FirstKey \in GwKeys /\ Unenrolled \notin GwKeys
    /\ \A d \in Deployments :
         /\ d.managers \subseteq Managers /\ d.keys \subseteq GwKeys /\ d.envs \subseteq GwEnvironments
         /\ d.horizon \in 0 .. MaxGwTime /\ d.versions \in 0 .. MaxVersion

VARIABLES
    gwNow,
    gw,         \* the enterprise_gateways row
    bundle,     \* bundle[v]: the gateway_config_bundles row numbered v, or NoBundle
    struckAt,   \* struckAt[a]: since when a is suspended, retired or revoked, or Standing
    job,        \* job[m]: the handler in session m
    use,        \* the deployment of this behaviour
    gwRaced     \* history: "enroll" when another handler overlapped an enrolment

gwVars == <<gwNow, gw, bundle, struckAt, job, use, gwRaced>>

Standing == MaxGwTime + 1
GatewayStatus == {"none", "ENROLLING", "ACTIVE", "SUSPENDED", "REVOKED"}
GatewayRow == [status : GatewayStatus, key : GwKeys \cup {Unenrolled}, token : BOOLEAN,
               tokenExpires : Nat, reported : 0 .. MaxVersion, env : GwEnvironments]
BundleRow == [env : GwEnvironments, revocations : SUBSET Subjects, given : BOOLEAN, expires : Nat]
NoBundle == [env |-> "none"]
GwIdle == [op |-> "idle"]

Struck == {a \in Subjects : struckAt[a] <= gwNow}
Published(env) == {v \in 1 .. MaxVersion : bundle[v] # NoBundle /\ bundle[v].env = env}
latest_bundle(env) == IF Published(env) = {} THEN 0 ELSE Max(Published(env))
Stopped(row) == row.status \in {"REVOKED", "SUSPENDED"}

GwInit ==
    /\ gwNow = 0
    /\ use \in Deployments
    /\ gw \in [status : {IF use.enrolled THEN "ACTIVE" ELSE "none"},
               key : {IF use.enrolled THEN FirstKey ELSE Unenrolled},
               token : {FALSE}, tokenExpires : {0}, reported : {0}, env : use.envs]
    /\ bundle = [v \in 1 .. MaxVersion |-> NoBundle]
    /\ struckAt = [a \in Subjects |-> Standing]
    /\ job = [m \in Managers |-> GwIdle]
    /\ gwRaced = {}

GwTick ==
    /\ gwNow < use.horizon
    /\ gwNow' = gwNow + 1
    /\ UNCHANGED <<gw, bundle, struckAt, job, use, gwRaced>>

\* The lifecycle and the registry strike an agent or a credential, or PATCH restores it.
Strike(a) ==
    /\ "strike" \in use.ops /\ struckAt[a] = Standing
    /\ struckAt' = [struckAt EXCEPT ![a] = gwNow]
    /\ UNCHANGED <<gwNow, gw, bundle, job, use, gwRaced>>
Restore(a) ==
    /\ "strike" \in use.ops /\ struckAt[a] # Standing
    /\ struckAt' = [struckAt EXCEPT ![a] = Standing]
    /\ UNCHANGED <<gwNow, gw, bundle, job, use, gwRaced>>

(***************************************************************************)
(* The gateway row.                                                        *)
(***************************************************************************)
register_enterprise_gateway ==
    /\ gw.status = "none"
    /\ gw' = [gw EXCEPT !.status = "ENROLLING", !.token = TRUE, !.tokenExpires = gwNow + TokenTTL]
    /\ UNCHANGED <<gwNow, bundle, struckAt, job, use, gwRaced>>

MayEnroll(row) == ~Stopped(row) /\ row.token /\ row.tokenExpires >= gwNow

\* Mutant: the token survives the enrolment.
EnrolledKeepsToken(row, k) == [row EXCEPT !.key = k, !.status = "ACTIVE"]

Enrolled(row, k) == [row EXCEPT !.key = k, !.status = "ACTIVE", !.token = FALSE]

Heard(row, v) ==
    [row EXCEPT !.reported = v,
                !.status = IF @ \in {"OFFLINE", "DEGRADED"} THEN "ACTIVE" ELSE @]

suspend_enterprise_gateway(row) == [row EXCEPT !.status = "SUSPENDED"]
revoke_enterprise_gateway(row) ==
    [row EXCEPT !.status = "REVOKED", !.key = Unenrolled, !.token = FALSE]

Start(m, op, row) ==
    /\ job[m] = GwIdle /\ gw.status # "none" /\ op \in use.ops
    /\ job' = [job EXCEPT ![m] = [op |-> op, loaded |-> gw, edited |-> row]]
    /\ gwRaced' = IF \E q \in Managers : job[q].op \in {"enroll", "stop"} /\ "enroll" \in {op, job[q].op}
                  THEN gwRaced \cup {"enroll"} ELSE gwRaced
    /\ UNCHANGED <<gwNow, gw, bundle, struckAt, use>>

enroll_enterprise_gateway(m, k) == MayEnroll(gw) /\ Start(m, "enroll", Enrolled(gw, k))

\* The heartbeat of a gateway that has applied version v, signed with key k.
verify_gateway_heartbeat(m, v, k) ==
    ~Stopped(gw) /\ gw.key = k /\ Start(m, "heartbeat", Heard(gw, v))

StopGateway(m) ==
    \E row \in {suspend_enterprise_gateway(gw), revoke_enterprise_gateway(gw)} : Start(m, "stop", row)

CommitGateway(m) ==
    /\ job[m].op \in {"enroll", "heartbeat", "stop"}
    /\ gw' = Flush(gw, job[m].loaded, job[m].edited)
    /\ job' = [job EXCEPT ![m] = GwIdle]
    /\ UNCHANGED <<gwNow, bundle, struckAt, use, gwRaced>>

(***************************************************************************)
(* Bundles.                                                                *)
(***************************************************************************)
\* An empty list, given or copied from an old bundle, is computed from the database.
Revocations(given) == IF given = {} THEN Struck ELSE given

Publish(m, env, given) ==
    LET v == latest_bundle(env) + 1 IN
    /\ job[m] = GwIdle /\ v <= use.versions
    /\ job' = [job EXCEPT ![m] =
          [op |-> "publish", version |-> v,
           row |-> [env |-> env, revocations |-> Revocations(given), given |-> given # {},
                    expires |-> gwNow + BundleTTL]]]
    /\ UNCHANGED <<gwNow, gw, bundle, struckAt, use, gwRaced>>

build_and_publish_config(m, env, given) == "publish" \in use.ops /\ Publish(m, env, given)

rollback_gateway_config(m, v) ==
    /\ "rollback" \in use.ops /\ bundle[v] # NoBundle
    /\ Publish(m, bundle[v].env, bundle[v].revocations)

\* A download publishes the first bundle of the gateway's environment.
FirstBundle(m) ==
    /\ "publish" \in use.ops /\ gw.status # "none" /\ ~Stopped(gw)
    /\ latest_bundle(gw.env) = 0 /\ Publish(m, gw.env, {})

\* The unique index is on the organization and the number, whatever the environment.
InsertConflicts(v, env) == bundle[v] # NoBundle

CommitBundle(m) ==
    /\ job[m].op = "publish"
    /\ bundle' = IF InsertConflicts(job[m].version, job[m].row.env) THEN bundle
                 ELSE [bundle EXCEPT ![job[m].version] = job[m].row]
    /\ job' = [job EXCEPT ![m] = GwIdle]
    /\ UNCHANGED <<gwNow, gw, struckAt, use, gwRaced>>

\* What GET .../config answers a gateway that has version v: a number, or "304", "403".
get_signed_config_bundle(v) ==
    CASE gw.status = "none" \/ Stopped(gw) -> "403"
      [] v >= latest_bundle(gw.env)        -> "304"
      [] OTHER                             -> "200"

GwNext ==
    \/ GwTick \/ register_enterprise_gateway
    \/ \E a \in Subjects : Strike(a) \/ Restore(a)
    \/ \E m \in use.managers :
         \/ StopGateway(m) \/ CommitGateway(m) \/ FirstBundle(m) \/ CommitBundle(m)
         \/ \E k \in use.keys : enroll_enterprise_gateway(m, k)
         \/ \E env \in use.envs, given \in SUBSET Subjects : build_and_publish_config(m, env, given)
         \/ \E v \in 1 .. MaxVersion : rollback_gateway_config(m, v)

(***************************************************************************)
(* Properties.                                                             *)
(***************************************************************************)
\* Every row has its type.
GwTypeOK ==
    /\ gwNow \in 0 .. MaxGwTime
    /\ gw \in GatewayRow
    /\ \A v \in 1 .. MaxVersion : bundle[v] \in BundleRow \cup {NoBundle}
    /\ struckAt \in [Subjects -> 0 .. Standing]
    /\ \A m \in Managers : job[m].op \in {"idle", "enroll", "heartbeat", "stop", "publish"}

\* A gateway that was suspended or revoked stays out of service: no heartbeat in flight,
\* no token and no later call brings it back.  Only an enrolment that had loaded the row
\* before does, and then it holds a key again.
StoppedStays ==
    [][(Stopped(gw) /\ "enroll" \notin gwRaced) => Stopped(gw')]_gwVars

\* A one-time token binds one key: the key of a gateway is never replaced by another,
\* unless two enrolments with the same token overlapped.
OneKeyPerToken ==
    [][(gw.key \in GwKeys /\ "enroll" \notin gwRaced) => gw'.key \in {gw.key, Unenrolled}]_gwVars

\* Concurrent publications and rollbacks, of any environment, neither rewrite a number
\* that gateways may have applied nor leave a gap.
PublishedForGood ==
    [][/\ \A v \in 1 .. MaxVersion : bundle[v] # NoBundle => bundle'[v] = bundle[v]
       /\ \A v \in 2 .. MaxVersion : bundle'[v] # NoBundle => bundle'[v - 1] # NoBundle]_gwVars

\* A stopped gateway stays stopped, a token binds one key, a published bundle is for good.
GatewaySteps == StoppedStays /\ OneKeyPerToken /\ PublishedForGood
=============================================================================
