--------------------------- MODULE AgentServices ---------------------------
(***************************************************************************)
(* Agents that call each other's services: the registry of services,       *)
(* capabilities and endpoints (services/agent_service_registry.py), the    *)
(* router (services/agent_service_router.py) and the call pipeline         *)
(* (services/agent_call_pipeline.py).                                      *)
(*                                                                         *)
(* Every agent may host one service, named after it, with one capability.  *)
(* A called agent may call on while it is being called; it repeats the     *)
(* chain it was called with, or forgets it: chain and depth are what the   *)
(* client says they are.                                                   *)
(***************************************************************************)
EXTENDS Naturals, Sequences, FiniteSets, SequencesExt, UnitOfWork

CONSTANTS
    Desks,          \* sessions
    SvAgents, OrgOf,
    Endpoints, HostOf,  \* endpoints of services, and the agent that hosts the service
    Challenges,
    CallKeys, NoKey,    \* idempotency keys
    max_depth,
    DegradeAfter,   \* failures after which an endpoint is DEGRADED (3)
    ChallengeTTL,
    Scenes          \* what a behaviour is about: the rows there are, the operations (ops),
                    \* sessions, hosts and columns edited, callers with their targets, keys, bounds

VARIABLES
    svNow,
    svAgent,    \* agents.status
    svTrust,    \* is there an ACTIVE trust between the organizations
    service,    \* service[a]: the agent_services row of a's service, or NoService
    capability, \* capability[a]: is a call to it held for approval; "none" before it is registered
    endpoint,   \* endpoint[e]: the agent_service_endpoints row, or NoEndpoint
    challenge,  \* challenge[c]: the service_verification_challenges row, or NoChallenge
    rows,       \* rows[a][k]: statuses of the agent_call_records of a under key k, oldest first
    desk,       \* desk[s]: the handler in session s
    calls,      \* calls made so far
    executed,   \* history: executed[a][k]: how often a call of a under key k was carried out
    failedSince,\* history: failures of an endpoint since it was last verified
    used,       \* history: how often a challenge verified its endpoint
    svRaced,    \* history: endpoints and challenges whose row two handlers had in hand at once
    scene       \* \in Scenes

svVars == <<svNow, svAgent, svTrust, service, capability, endpoint, challenge, rows, desk, calls,
            executed, failedSince, used, svRaced, scene>>
registryVars == <<svNow, svAgent, svTrust, service, capability, challenge, used, scene>>
callVars == <<rows, calls, executed>>

ServiceStatus == {"DRAFT", "ACTIVE", "DEGRADED", "DISABLED", "RETIRED"}
ServiceVisibility == {"PRIVATE", "ORGANIZATION", "TRUSTED_ORGANIZATIONS", "PUBLIC_DISCOVERABLE"}
EndpointHealthStatus == {"HEALTHY", "DEGRADED", "UNHEALTHY", "UNKNOWN"}
NoService == [status |-> "none"]
NoEndpoint == [health |-> "none"]
NoChallenge == [status |-> "none"]
ServiceRow == [status : ServiceStatus, visibility : ServiceVisibility]
EndpointRow == [health : EndpointHealthStatus, failures : Nat]
ASSUME ServicesAssumption ==
    /\ IsFiniteSet(Endpoints) /\ HostOf \in [Endpoints -> SvAgents]
    /\ DegradeAfter \in Nat \ {0} /\ max_depth \in Nat /\ ChallengeTTL \in Nat /\ NoKey \notin CallKeys
ASSUME ScenesAssumption ==
    \A sc \in Scenes :
        /\ sc.service \in [SvAgents -> {NoService} \cup ServiceRow]
        /\ sc.endpoints \subseteq Endpoints /\ sc.desks \subseteq Desks /\ sc.hosts \subseteq SvAgents
        /\ sc.pairs \subseteq SvAgents \X SvAgents /\ sc.keys \subseteq CallKeys \cup {NoKey}
NewEndpoint == [health |-> "UNKNOWN", failures |-> 0]
SvIdle == [stage |-> "idle"]
NoParent == "client"
EndCall(s) == desk' = [desk EXCEPT ![s] = SvIdle]

SvInit ==
    /\ scene \in Scenes
    /\ svNow = 0 /\ svTrust = TRUE /\ calls = 0 /\ svRaced = {}
    /\ svAgent = [a \in SvAgents |-> "ACTIVE"]
    /\ service = [a \in SvAgents |-> scene.service[a]]
    /\ capability = [a \in SvAgents |-> "open"]
    /\ endpoint = [e \in Endpoints |-> IF e \in scene.endpoints THEN NewEndpoint ELSE NoEndpoint]
    /\ challenge = [c \in Challenges |-> NoChallenge]
    /\ rows = [a \in SvAgents |-> [k \in CallKeys |-> <<>>]]
    /\ desk = [s \in Desks |-> SvIdle]
    /\ executed = [a \in SvAgents |-> [k \in CallKeys |-> 0]]
    /\ failedSince = [e \in Endpoints |-> 0]
    /\ used = [c \in Challenges |-> 0]

SvTick ==
    /\ svNow < scene.horizon /\ svNow' = svNow + 1
    /\ UNCHANGED <<svAgent, svTrust, service, capability, endpoint, challenge, desk, callVars,
                   failedSince, used, svRaced, scene>>

\* Other parts of the system suspend an agent or end the trust.
Outside ==
    /\ "outside" \in scene.ops
    /\ \/ \E a \in SvAgents : svAgent[a] = "ACTIVE" /\ svAgent' = [svAgent EXCEPT ![a] = "SUSPENDED"]
          /\ UNCHANGED svTrust
       \/ svTrust /\ svTrust' = FALSE /\ UNCHANGED svAgent
    /\ UNCHANGED <<svNow, service, capability, endpoint, challenge, desk, callVars, failedSince, used,
                   svRaced, scene>>

(***************************************************************************)
(* Registry: every handler works for an organization.                      *)
(***************************************************************************)
\* get_service: another organization's row is shown when it is meant for others.
Shown(a, org) ==
    /\ service[a] # NoService
    /\ org = OrgOf[a] \/ service[a].visibility \in {"PUBLIC_DISCOVERABLE", "TRUSTED_ORGANIZATIONS"}

LookupName(s, a) ==
    /\ "create" \in scene.ops /\ desk[s] = SvIdle
    /\ service[a] = NoService /\ svAgent[a] \notin {"RETIRED", "SUSPENDED"}
    /\ desk' = [desk EXCEPT ![s] = [stage |-> "creating", agent |-> a, org |-> OrgOf[a]]]
    /\ UNCHANGED <<registryVars, endpoint, callVars, failedSince, svRaced>>

\* The unique index over organization and name refuses the later of two.
create_service(s, v) ==
    LET a == desk[s].agent IN
    /\ desk[s].stage = "creating"
    /\ service' = IF service[a] # NoService THEN service
                  ELSE [service EXCEPT ![a] = [status |-> "ACTIVE", visibility |-> v]]
    /\ EndCall(s)
    /\ UNCHANGED <<svNow, svAgent, svTrust, capability, endpoint, challenge, callVars, failedSince,
                   used, svRaced, scene>>

MayEdit(a, org) == Shown(a, org) /\ org = OrgOf[a]

RetiredStatus == "RETIRED"

\* What PATCH and DELETE may set.
Edits == {[status |-> x] : x \in {"ACTIVE", "DISABLED", RetiredStatus}} \cup
         {[visibility |-> v] : v \in {"ORGANIZATION", "PUBLIC_DISCOVERABLE"}}

LoadService(s, a, org, edit) ==
    /\ desk[s] = SvIdle /\ DOMAIN edit \subseteq scene.edits /\ MayEdit(a, org)
    /\ desk' = [desk EXCEPT ![s] =
          [stage |-> "editing", agent |-> a, org |-> org, row |-> service[a], edit |-> edit]]
    /\ UNCHANGED <<registryVars, endpoint, callVars, failedSince, svRaced>>

\* update_service and delete_service: any status may follow any other.
update_service(s) ==
    LET d == desk[s] IN
    /\ d.stage = "editing"
    /\ service' = [service EXCEPT ![d.agent] =
          Flush(@, d.row, [f \in DOMAIN d.row |-> IF f \in DOMAIN d.edit THEN d.edit[f] ELSE d.row[f]])]
    /\ EndCall(s)
    /\ UNCHANGED <<svNow, svAgent, svTrust, capability, endpoint, challenge, callVars, failedSince,
                   used, svRaced, scene>>

\* Inserts the capability or overwrites the one of that name and version.
register_capability(a, hold) ==
    /\ "capability" \in scene.ops /\ service[a] # NoService /\ capability[a] # hold
    /\ capability' = [capability EXCEPT ![a] = hold]
    /\ UNCHANGED <<svNow, svAgent, svTrust, service, endpoint, challenge, desk, callVars, failedSince,
                   used, svRaced, scene>>

register_endpoint(e) ==
    /\ "create" \in scene.ops /\ endpoint[e] = NoEndpoint /\ service[HostOf[e]] # NoService
    /\ endpoint' = [endpoint EXCEPT ![e] = NewEndpoint]
    /\ UNCHANGED <<registryVars, desk, callVars, failedSince, svRaced>>

initiate_endpoint_verification(c, e, org) ==
    /\ "verify" \in scene.ops /\ challenge[c] = NoChallenge /\ endpoint[e] # NoEndpoint
    /\ Shown(HostOf[e], org)
    /\ challenge' = [challenge EXCEPT ![c] =
          [status |-> "PENDING", endpoint |-> e, till |-> svNow + ChallengeTTL]]
    /\ UNCHANGED <<svNow, svAgent, svTrust, service, capability, endpoint, desk, callVars, failedSince,
                   used, svRaced, scene>>

InHands(what) == {q \in Desks : desk[q].stage \in {"verifying", "counting"} /\ what \in desk[q].holds}

\* The challenge is answered with its token; a signature is checked when there is one.
LoadChallenge(s, c, org) ==
    LET e == challenge[c].endpoint IN
    /\ desk[s] = SvIdle /\ challenge[c].status = "PENDING" /\ Shown(HostOf[e], org)
    /\ \/ /\ challenge[c].till < svNow
          /\ challenge' = [challenge EXCEPT ![c].status = "EXPIRED"]
          /\ UNCHANGED <<desk, svRaced>>
       \/ /\ svNow <= challenge[c].till
          /\ desk' = [desk EXCEPT ![s] =
                [stage |-> "verifying", holds |-> {c, e}, challenge |-> c, endpoint |-> e, org |-> org,
                 row |-> endpoint[e], shown |-> service[HostOf[e]].visibility]]
          /\ svRaced' = svRaced \cup {x \in {c, e} : InHands(x) # {}}
          /\ UNCHANGED challenge
    /\ UNCHANGED <<svNow, svAgent, svTrust, service, capability, endpoint, callVars, failedSince, used, scene>>

Answered(c) == [challenge[c] EXCEPT !.status = "VERIFIED"]

verify_endpoint_challenge(s) ==
    LET d == desk[s] IN
    /\ d.stage = "verifying"
    /\ challenge' = [challenge EXCEPT ![d.challenge] = Answered(d.challenge)]
    /\ endpoint' = [endpoint EXCEPT ![d.endpoint] =
          Flush(@, d.row, [health |-> "HEALTHY", failures |-> 0])]
    /\ used' = [used EXCEPT ![d.challenge] = @ + 1]
    /\ failedSince' = [failedSince EXCEPT ![d.endpoint] = 0]
    /\ EndCall(s)
    /\ UNCHANGED <<svNow, svAgent, svTrust, service, capability, callVars, svRaced, scene>>

(***************************************************************************)
(* Calls.                                                                  *)
(***************************************************************************)
\* The chain as the pipeline completes it.
Chain(told, caller) == IF told = <<>> \/ Last(told) # caller THEN Append(told, caller) ELSE told

\* Mutant: the records of a key are not consulted.
MayRunAlways(a, k) == TRUE

\* The lookup takes one of the records of the key, whichever comes first.
MayRun(a, k) ==
    k # NoKey => rows[a][k] = <<>> \/ \E i \in DOMAIN rows[a][k] : rows[a][k][i] # "COMPLETED"

\* A client calls, or an agent while it is being called.
Call(s, caller, target, k, parent, aware) ==
    LET nested == parent # NoParent
        above == desk[parent].call
        told == IF nested /\ aware THEN above.chain ELSE <<>>
    IN
    /\ desk[s] = SvIdle /\ calls < scene.calls /\ calls' = calls + 1
    /\ nested => desk[parent].stage = "dispatch" /\ desk[parent].eps # <<>> /\ above.target = caller
    /\ aware \/ (nested /\ "forget" \in scene.ops)
    /\ svAgent[caller] = "ACTIVE" /\ MayRun(caller, k)
    /\ desk' = [desk EXCEPT ![s] = [stage |-> "looked", call |->
          [caller |-> caller, target |-> target, key |-> k, parent |-> parent,
           chain |-> Chain(told, caller),
           depth |-> IF nested /\ aware THEN above.depth + 1 ELSE 1,
           path |-> IF nested THEN Append(above.path, caller) ELSE <<caller>>,
           aware |-> aware /\ (nested => above.aware)]]]
    /\ UNCHANGED <<registryVars, endpoint, rows, executed, failedSince, svRaced>>

_verify_visibility_and_trust(caller, target) ==
    CASE service[target].visibility = "PRIVATE" -> caller = target
      [] service[target].visibility = "ORGANIZATION" -> OrgOf[caller] = OrgOf[target]
      [] service[target].visibility = "TRUSTED_ORGANIZATIONS" -> OrgOf[caller] = OrgOf[target] \/ svTrust
      [] OTHER -> TRUE

Resolvable(caller, target) ==
    /\ svAgent[caller] = "ACTIVE" /\ svAgent[target] = "ACTIVE"
    /\ service[target].status \notin {"none", "DISABLED", "RETIRED"}
    /\ _verify_visibility_and_trust(caller, target)
    /\ capability[target] # "none"

health_score(e) ==
    CASE endpoint[e].health = "HEALTHY" -> 3 [] endpoint[e].health = "DEGRADED" -> 2
      [] endpoint[e].health = "UNKNOWN" -> 1 [] OTHER -> 0

\* The endpoints of the target whose health scores n, in the order of their identifiers.
Scored(target, n) == SetToSeq({e \in Endpoints : HostOf[e] = target /\ endpoint[e] # NoEndpoint /\ health_score(e) = n})

\* The endpoints in the order they are tried, all of one priority and weight.
Route(target) == Scored(target, 3) \o Scored(target, 2) \o Scored(target, 1) \o Scored(target, 0)

\* Mutant: only the agent that called last is compared.
InChainLast(target, chain) == target = Last(chain)

InChain(target, chain) == \E i \in DOMAIN chain : chain[i] = target

\* What the checks before the dispatch make of a call.
Verdict(c) ==
    CASE ~Resolvable(c.caller, c.target) \/ Route(c.target) = <<>> -> "refused"
      [] InChain(c.target, c.chain) -> "LOOP_PREVENTED"
      [] c.depth >= max_depth -> "DEPTH_EXCEEDED"
      [] capability[c.target] = "approval" -> "PENDING_APPROVAL"
      [] OTHER -> "dispatch"

WriteRecord(c, st) == rows' = IF c.key = NoKey THEN rows ELSE [rows EXCEPT ![c.caller][c.key] = Append(@, st)]

Resolve(s) ==
    LET c == desk[s].call  verdict == Verdict(c) IN
    /\ desk[s].stage = "looked"
    /\ IF verdict = "dispatch"
       THEN /\ desk' = [desk EXCEPT ![s] = [stage |-> "dispatch", call |-> c, eps |-> Route(c.target)]]
            /\ UNCHANGED rows
       ELSE EndCall(s) /\ IF verdict = "refused" THEN UNCHANGED rows ELSE WriteRecord(c, verdict)
    /\ UNCHANGED <<registryVars, endpoint, calls, executed, failedSince, svRaced>>

\* An endpoint answers once no call that it made is open; one that fails may have acted.
_dispatch_to_endpoint(s, ok, acted) ==
    LET d == desk[s]  c == d.call  e == Head(d.eps) IN
    /\ d.stage = "dispatch" /\ d.eps # <<>> /\ (ok => acted)
    /\ \A q \in Desks : "call" \in DOMAIN desk[q] => desk[q].call.parent # s
    /\ executed' = IF acted /\ c.key # NoKey THEN [executed EXCEPT ![c.caller][c.key] = @ + 1] ELSE executed
    /\ failedSince' = IF ok THEN failedSince ELSE [failedSince EXCEPT ![e] = @ + 1]
    /\ IF ok THEN desk' = [desk EXCEPT ![s] = [stage |-> "answered", call |-> c]] /\ UNCHANGED svRaced
       ELSE \* the row is loaded to count the failure
            /\ desk' = [desk EXCEPT ![s] =
                   [stage |-> "counting", call |-> c, eps |-> d.eps, holds |-> {e}, row |-> endpoint[e]]]
            /\ svRaced' = IF InHands(e) = {} THEN svRaced ELSE svRaced \cup {e}
    /\ UNCHANGED <<registryVars, endpoint, rows, calls>>

Failed(row) == [failures |-> row.failures + 1,
                health |-> IF row.failures + 1 >= DegradeAfter THEN "DEGRADED" ELSE row.health]

CountFailure(s) ==
    LET d == desk[s] IN
    /\ d.stage = "counting"
    /\ endpoint' = [endpoint EXCEPT ![Head(d.eps)] = Flush(@, d.row, Failed(d.row))]
    /\ desk' = [desk EXCEPT ![s] = [stage |-> "dispatch", call |-> d.call, eps |-> Tail(d.eps)]]
    /\ UNCHANGED <<registryVars, callVars, failedSince, svRaced>>

\* No endpoint is left, or one answered; an answer to another request leaves no record.
RecordCall(s, bound) ==
    LET d == desk[s] IN
    /\ \/ d.stage = "dispatch" /\ d.eps = <<>> /\ ~bound /\ WriteRecord(d.call, "FAILED")
       \/ d.stage = "answered" /\ IF bound THEN WriteRecord(d.call, "COMPLETED") ELSE UNCHANGED rows
    /\ EndCall(s)
    /\ UNCHANGED <<registryVars, endpoint, calls, executed, failedSince, svRaced>>

execute_agent_to_agent_call(s) ==
    \/ Resolve(s) \/ CountFailure(s)
    \/ \E ok, acted \in BOOLEAN : _dispatch_to_endpoint(s, ok, acted)
    \/ \E bound \in BOOLEAN : RecordCall(s, bound)

SvOrgs == {OrgOf[a] : a \in SvAgents}

SvNext ==
    \/ SvTick \/ Outside
    \/ \E a \in scene.hosts, hold \in {"open", "approval"} : register_capability(a, hold)
    \/ \E e \in Endpoints : register_endpoint(e)
    \/ \E c \in Challenges, e \in Endpoints, org \in SvOrgs : initiate_endpoint_verification(c, e, org)
    \/ \E s \in scene.desks :
          \/ \E a \in scene.hosts, org \in SvOrgs, edit \in Edits : LoadService(s, a, org, edit)
          \/ \E a \in scene.hosts : LookupName(s, a)
          \/ \E v \in {"ORGANIZATION", "TRUSTED_ORGANIZATIONS"} : create_service(s, v)
          \/ update_service(s)
          \/ \E c \in Challenges, org \in SvOrgs : LoadChallenge(s, c, org)
          \/ verify_endpoint_challenge(s)
          \/ \E pair \in scene.pairs, k \in scene.keys, parent \in Desks \cup {NoParent},
                aware \in BOOLEAN : Call(s, pair[1], pair[2], k, parent, aware)
          \/ execute_agent_to_agent_call(s)

SvSpec == SvInit /\ [][SvNext]_svVars

(***************************************************************************)
(* Properties.                                                             *)
(***************************************************************************)
\* Every row has its type.
SvTypeOK ==
    /\ service \in [SvAgents -> {NoService} \cup ServiceRow]
    /\ endpoint \in [Endpoints -> {NoEndpoint} \cup EndpointRow]

\* When every agent passes on the chain it was called with, no agent is called while a
\* call of its own waits for the answer, and fewer than max_depth calls wait for each other;
\* one agent that forgets the chain is enough for both to fail, so they are claimed for
\* the calls below which nobody forgot it.
NoReentry ==
    \A s \in Desks : (desk[s].stage \in {"dispatch", "counting", "answered"} /\ desk[s].call.aware) =>
        /\ IsInjective(Append(desk[s].call.path, desk[s].call.target))
        /\ Len(desk[s].call.path) < max_depth

\* Nobody is at work on the key, and all it ever led to is completed calls.
Settled(a, k) ==
    /\ rows[a][k] # <<>> /\ \A i \in DOMAIN rows[a][k] : rows[a][k][i] = "COMPLETED"
    /\ \A s \in Desks : "call" \in DOMAIN desk[s] => desk[s].call.key # k \/ desk[s].call.caller # a

\* A retry of a completed call is answered from its record for good: it is not carried
\* out again.  A key under which a call failed or was held first does not settle: the
\* lookup may find that record although a later attempt completed.
SettledForGood ==
    [][\A a \in SvAgents, k \in CallKeys : Settled(a, k) =>
          Settled(a, k)' /\ executed'[a][k] = executed[a][k]]_svVars

Counting(e) == \E s \in Desks : desk[s].stage = "counting" /\ Head(desk[s].eps) = e

\* The health of an endpoint reflects the failures since its last verification, whatever
\* succeeded in between, unless two handlers had its row in hand at once: then a failure
\* is lost, or a verified endpoint is DEGRADED by a failure of before.
HealthSerial ==
    \A e \in Endpoints : (endpoint[e] # NoEndpoint /\ e \notin svRaced /\ ~Counting(e)) =>
        /\ endpoint[e].failures = failedSince[e]
        /\ endpoint[e].health = "DEGRADED" <=> failedSince[e] >= DegradeAfter

\* A challenge verifies its endpoint once, unless two answers to it overlapped.
ChallengeOnce == \A c \in Challenges \ svRaced : used[c] <= 1

\* No chain of calls re-enters an agent that is on it, the health of an endpoint is that of the
\* failures since it was verified, and a challenge verifies it once, but for overlaps.
ServicesHold == SvTypeOK /\ NoReentry /\ HealthSerial /\ ChallengeOnce

\* A service is changed by its own organization only.  An endpoint is verified by
\* another one too, with the token the platform hands to whoever asks, but only while
\* the service is shown to others.
OwnRowsOnly ==
    [][\A s \in Desks : (desk[s].stage \in {"creating", "editing", "verifying"} /\ desk'[s] = SvIdle) =>
          \/ desk[s].stage # "verifying"
             /\ \A a \in SvAgents : service'[a] # service[a] => desk[s].org = OrgOf[a]
          \/ desk[s].stage = "verifying"
             /\ (\/ desk[s].org = OrgOf[HostOf[desk[s].endpoint]]
                 \/ desk[s].shown \in {"PUBLIC_DISCOVERABLE", "TRUSTED_ORGANIZATIONS"})]_svVars

\* A retry of a completed call is never carried out again, and a service is changed by its own
\* organization only.
ServiceSteps == SettledForGood /\ OwnRowsOnly
=============================================================================
