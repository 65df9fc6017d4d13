------------------------------ MODULE Sidecar ------------------------------
(***************************************************************************)
(* The sidecar of the gateway of GatewayControl: a process with an event   *)
(* loop that synchronizes the configuration and worker threads that        *)
(* answer requests, sharing one SidecarState.  src/sidecar/.               *)
(*                                                                         *)
(* Every statement that touches the shared state is a step; lock is the    *)
(* threading.Lock of SidecarState, which its holder cannot take again.     *)
(* control_plane_public_key is never assigned, so that the signature of a  *)
(* bundle is not verified: bundles come from the control plane alone.      *)
(***************************************************************************)
EXTENDS GatewayControl

CONSTANTS
    Threads, Loop,      \* Loop \in Threads runs _background_sync_loop
    LocalKey,           \* \in GwKeys
    NoNonce,            \* a request need not carry one
    Nonces, NonceTTL    \* what a nonce may be, and for how long it is remembered

ASSUME SidecarAssumption ==
    /\ NonceTTL \in Nat
    /\ \A d \in Deployments :
         d.threads \subseteq Threads /\ d.nonces \subseteq Nonces \cup {NoNonce}

VARIABLES
    applied,    \* applied_config_version; the bundle is bundle[applied]
    reachable,  \* control_plane_reachable
    seen,       \* processed_nonces: seen[n] is its expiry, 0 when absent
    cache,      \* config_cache.json: a version, 0 when absent
    lock,       \* the thread that holds state._lock, or "free"
    task,       \* task[t]: what thread t is doing
    offline_policy,
    faults,     \* restarts and failures of the network so far
    let,        \* history: let[n], until when n must not pass again
    scRaced     \* history: "config", "nonce": unlocked steps of two threads overlapped

scVars == <<applied, reachable, seen, cache, lock, task, offline_policy, faults, let, scRaced>>

ScIdle == [stage |-> "idle"]
Forgotten == [n \in Nonces |-> 0]
Decisions == {"LOCAL_APPROVED", "CENTRAL_CHECK_REQUIRED", "PENDING_HUMAN_APPROVAL", "REJECTED"}
Goto(t, s) == task' = [task EXCEPT ![t].stage = s]
Done(t) == task' = [task EXCEPT ![t] = ScIdle]

ScInit ==
    /\ applied = 0 /\ cache = 0 /\ reachable = TRUE /\ lock = "free"
    /\ seen = Forgotten /\ let = Forgotten
    /\ task = [t \in Threads |-> ScIdle]
    /\ offline_policy = use.policy
    /\ faults = 0 /\ scRaced = {}

(***************************************************************************)
(* sync_configuration_sync, by the loop and by POST /internal/sync.        *)
(***************************************************************************)
SyncFetch(t) ==
    /\ task[t] = ScIdle /\ "sync" \in use.ops
    /\ CASE get_signed_config_bundle(applied) = "403" -> reachable' = FALSE /\ UNCHANGED task
         [] get_signed_config_bundle(applied) = "304" -> reachable' = TRUE /\ UNCHANGED task
         [] OTHER -> /\ reachable' = TRUE
                     /\ task' = [task EXCEPT ![t] = [stage |-> "fetched", got |-> latest_bundle(gw.env)]]
    /\ UNCHANGED <<applied, seen, cache, lock, offline_policy, faults, let, scRaced, gwVars>>

SyncUnreachable(t) ==
    /\ task[t] = ScIdle /\ "sync" \in use.ops /\ faults < use.faults
    /\ reachable' = FALSE /\ faults' = faults + 1
    /\ UNCHANGED <<applied, seen, cache, lock, task, offline_policy, let, scRaced, gwVars>>

\* Mutant: the version is compared only where the bundle is signed.
NewerAny(v) == TRUE

Newer(v) == ~(v <= applied /\ applied > 0)

SyncCheck(t) ==
    /\ task[t].stage = "fetched"
    /\ task' = [task EXCEPT ![t] =
          IF Newer(task[t].got) THEN [stage |-> "checked", got |-> task[t].got, over |-> applied]
          ELSE ScIdle]
    /\ UNCHANGED <<applied, reachable, seen, cache, lock, offline_policy, faults, let, scRaced, gwVars>>

update_config(t) ==
    /\ task[t].stage = "checked" /\ lock = "free"
    /\ applied' = task[t].got
    /\ scRaced' = IF task[t].over = applied THEN scRaced ELSE scRaced \cup {"config"}
    /\ Goto(t, "updated")
    /\ UNCHANGED <<reachable, seen, cache, lock, offline_policy, faults, let, gwVars>>

save_config_cache(t) ==
    /\ task[t].stage = "updated"
    /\ cache' = task[t].got
    /\ Done(t)
    /\ UNCHANGED <<applied, reachable, seen, lock, offline_policy, faults, let, scRaced, gwVars>>

send_heartbeat_sync(m) ==
    /\ verify_gateway_heartbeat(m, applied, LocalKey)
    /\ reachable' = TRUE
    /\ UNCHANGED <<applied, seen, cache, lock, task, offline_policy, faults, let, scRaced>>

(***************************************************************************)
(* evaluate_local_request.                                                 *)
(***************************************************************************)

Pruned(dict) == [n \in Nonces |-> IF dict[n] > gwNow THEN dict[n] ELSE 0]

\* What is asked for: within the policies and credential requirements of the bundle
\* (allowed) or not (denied), or beyond what may be approved automatically (high).
Asked == {"allowed", "denied", "high"}

evaluate_local_request(t, a, n, asked) ==
    /\ task[t] = ScIdle /\ t # Loop /\ "evaluate" \in use.ops
    /\ task' = [task EXCEPT ![t] =
          [stage |-> IF n = NoNonce THEN "current?" ELSE "pruning", agent |-> a, nonce |-> n,
           for |-> asked, offline |-> ~reachable, dict |-> Pruned(seen)]]
    /\ scRaced' = IF n # NoNonce /\ \E q \in Threads : task[q].stage \in {"pruning", "pruned", "unseen"}
                  THEN scRaced \cup {"nonce"} ELSE scRaced
    /\ UNCHANGED <<applied, reachable, seen, cache, lock, offline_policy, faults, let, gwVars>>

ReplacePruned(t) ==
    /\ task[t].stage = "pruning"
    /\ seen' = task[t].dict
    /\ Goto(t, "pruned")
    /\ UNCHANGED <<applied, reachable, cache, lock, offline_policy, faults, let, scRaced, gwVars>>

LookupNonce(t) ==
    /\ task[t].stage = "pruned"
    /\ IF seen[task[t].nonce] # 0 THEN Done(t) ELSE Goto(t, "unseen")
    /\ UNCHANGED <<applied, reachable, seen, cache, lock, offline_policy, faults, let, scRaced, gwVars>>

InsertNonce(t) ==
    /\ task[t].stage = "unseen"
    /\ seen' = [seen EXCEPT ![task[t].nonce] = gwNow + NonceTTL]
    /\ let' = [let EXCEPT ![task[t].nonce] = gwNow + NonceTTL]
    /\ Goto(t, "current?")
    /\ UNCHANGED <<applied, reachable, cache, lock, offline_policy, faults, scRaced, gwVars>>

\* Mutant: a bundle expires only when it was never there.
is_config_expiredNever(v) == v = 0

is_config_expired(v) == v = 0 \/ gwNow > bundle[v].expires

\* The evaluation and the health summary ask under the lock; the summary holds it already.
AskExpired(t) ==
    /\ task[t].stage \in {"current?", "health"} /\ lock = "free"
    /\ task' = [task EXCEPT ![t] = IF task[t].stage = "health" \/ is_config_expired(applied)
                                   THEN ScIdle
                                   ELSE [stage |-> "current", agent |-> @.agent, for |-> @.for,
                                         offline |-> @.offline, asked |-> gwNow]]
    /\ UNCHANGED <<applied, reachable, seen, cache, lock, offline_policy, faults, let, scRaced, gwVars>>

Decision(r) ==
    CASE r.offline /\ offline_policy = "FAIL_CLOSED" -> "REJECTED"
      [] r.offline /\ r.for = "high"                 -> "CENTRAL_CHECK_REQUIRED"
      [] r.agent \in bundle[applied].revocations     -> "REJECTED"
      [] r.for = "high"                              -> "PENDING_HUMAN_APPROVAL"
      [] r.for = "denied"                            -> "REJECTED"
      [] OTHER                                       -> "LOCAL_APPROVED"

Judge(t) ==
    /\ task[t].stage = "current" /\ lock = "free"
    /\ task' = [task EXCEPT ![t] = [stage |-> "answered", agent |-> @.agent, asked |-> @.asked,
                                    decision |-> Decision(@), under |-> bundle[applied]]]
    /\ UNCHANGED <<applied, reachable, seen, cache, lock, offline_policy, faults, let, scRaced, gwVars>>

Respond(t) ==
    /\ task[t].stage = "answered" /\ Done(t)
    /\ UNCHANGED <<applied, reachable, seen, cache, lock, offline_policy, faults, let, scRaced, gwVars>>

\* GET /health and GET /ready.
get_health_summary(t) ==
    /\ task[t] = ScIdle /\ t # Loop /\ "health" \in use.ops /\ lock = "free"
    /\ lock' = t
    /\ task' = [task EXCEPT ![t] = [stage |-> "health"]]
    /\ UNCHANGED <<applied, reachable, seen, cache, offline_policy, faults, let, scRaced, gwVars>>

\* The process dies and starts again from the cached bundle.
load_config_cache ==
    /\ faults < use.faults /\ faults' = faults + 1
    /\ applied' = cache /\ reachable' = TRUE
    /\ seen' = Forgotten /\ let' = Forgotten
    /\ lock' = "free" /\ task' = [t \in Threads |-> ScIdle] /\ scRaced' = scRaced \ {"nonce"}
    /\ UNCHANGED <<cache, offline_policy, gwVars>>

Sync(t) == SyncFetch(t) \/ SyncCheck(t) \/ update_config(t) \/ save_config_cache(t)
Serve(t) == ReplacePruned(t) \/ LookupNonce(t) \/ InsertNonce(t) \/ AskExpired(t)
            \/ Judge(t) \/ Respond(t)

ScNext ==
    \/ GwNext /\ UNCHANGED scVars
    \/ load_config_cache
    \/ \E m \in use.managers : send_heartbeat_sync(m)
    \/ \E t \in use.threads : Sync(t) \/ SyncUnreachable(t) \/ Serve(t) \/ get_health_summary(t)
    \/ \E t \in use.threads, a \in Subjects, n \in use.nonces, asked \in Asked :
          evaluate_local_request(t, a, n, asked)

ScSpec == GwInit /\ ScInit /\ [][ScNext]_<<gwVars, scVars>>

\* The event loop runs its synchronization again and again; a thread that serves runs on.
ScFairness == WF_<<gwVars, scVars>>(Sync(Loop))
ServeFairness == \A t \in Threads \ {Loop} : WF_<<gwVars, scVars>>(Serve(t))

(***************************************************************************)
(* Properties.                                                             *)
(***************************************************************************)
\* The shared state has its type.
ScTypeOK ==
    /\ applied \in 0 .. MaxVersion /\ cache \in 0 .. MaxVersion
    /\ reachable \in BOOLEAN /\ lock \in Threads \cup {"free"}
    /\ seen \in [Nonces -> 0 .. MaxGwTime + NonceTTL]
    /\ \A t \in Threads : task[t].stage = "answered" => task[t].decision \in Decisions
    /\ applied > 0 => bundle[applied] # NoBundle

\* The configuration in force never goes back to an older number while the process
\* runs, whatever two synchronizations fetch, unless one of them replaced the
\* configuration between the other's comparison and its update.
NoDowngrade ==
    [][(applied' < applied /\ faults' = faults) => "config" \in scRaced']_<<gwVars, scVars>>

\* A nonce passes once within its lifetime, unless two evaluations overlapped: the
\* pruning of one then writes back a dictionary without the nonce of the other.
NoncePassesOnce ==
    [][\A n \in Nonces : (let'[n] # let[n] /\ let'[n] # 0)
          => (let[n] <= gwNow \/ "nonce" \in scRaced)]_<<gwVars, scVars>>

\* However long the sidecar is cut off, and whatever a restart restores, it approves a
\* revoked agent no longer than a bundle's lifetime after the revocation.  Exempt is a
\* bundle whose list was given or copied by a rollback: what was revoked since is not in it.
StalenessBounded ==
    \A t \in Threads : (task[t].stage = "answered" /\ task[t].decision = "LOCAL_APPROVED"
                           /\ ~task[t].under.given /\ "config" \notin scRaced)
        => struckAt[task[t].agent] + BundleTTL >= task[t].asked

\* A sidecar that is cut off follows a revocation at most BundleTTL late.
GatewayHolds == GwTypeOK /\ ScTypeOK /\ StalenessBounded

\* A sidecar never goes back to an older bundle and lets a nonce pass once, but for overlaps.
SidecarSteps == NoDowngrade /\ NoncePassesOnce

\* The loop has applied the latest bundle, if it may: the gateway is in service, and no
\* health probe holds the lock.
UpToDate ==
    \/ applied >= latest_bundle(gw.env) \/ "sync" \notin use.ops
    \/ Stopped(gw) \/ lock # "free"

\* "Liveness probe: returns health summary" (sidecar/main.py): a probe is answered.
HealthAnswers == \A t \in Threads : (task[t].stage = "health") ~> (task[t] = ScIdle)
=============================================================================
