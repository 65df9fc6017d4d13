# AgentTrust in TLA+

AgentTrust decides whether an AI agent may perform an action: it keeps agents,
the permissions they hold, the delegations between them, requests that wait for
a human, and the keys agents sign with, behind an HTTP API over PostgreSQL and
Redis. Around that it keeps what an organization needs to run agents: their
lifecycle, trust between organizations, credentials, gateways, services that
agents call, members, sign-in, billing, discovery, policies. This directory
models those parts, checks them with TLC and proves their safety properties
with TLAPS.

The API runs as several replicas with several worker processes each
(`deploy/kubernetes/ha-deployment.yaml`), every request in READ COMMITTED
transactions of its own. Nothing but the database relates two requests. So the
models share one view of the program: **a step is what one database
transaction, or one read inside it, does atomically**; between two steps of a
request anything may happen. Where the code takes a row lock
(`with_for_update`), the lock is in the model; where it does not, the rows it
has read may be stale when it writes. What is written is what SQLAlchemy
writes: the columns that the handler changed in its copy, whatever the row has
become (`UnitOfWork`). The sidecar, which is a program of its own with threads
and a `threading.Lock`, is modelled statement by statement where it touches
shared state.

Paths below are relative to `src/backend/app/` unless they start with `docs/`,
`deploy/` or `sidecar/`.

## Inventory

| Component | State it keeps | Operations | Hard behaviours | What makes it correct | Module |
|---|---|---|---|---|---|
| Agent delegation (`services/agent_delegation.py`) | `agent_delegations` | create, revoke with cascade, verify a chain | checks and insert without locks; chain read row by row | chains narrow, stay in one organization, have no cycle; a request respects its whole chain | `Delegation` |
| Authorization (`services/authorization.py`) | `audit_logs`, `authorization_requests` | find a permission or verify a delegation, then risk, organization policy, APL; decide or queue | state checked early and used late | no decision beyond the grant | `Delegation`, `ManualApproval`, `RiskEngine` |
| Manual approval (`services/authorization_requests.py`) | status of queued requests | list (which expires), decide | two operators and sweeps on one row; a clock read before a lock wait | one decision, in its window, final | `ManualApproval` |
| Permissions (`services/permissions.py`) | `permissions` | create, revoke, lazy expiry | unlocked read-modify-write of the status | dead permissions stay dead; the owner is told | `Delegation`, `ManualApproval`, `Notifications` |
| Agent signing (`services/agent_signing.py`) | `agent_signing_keys`, nonces in Redis and PostgreSQL | add, rotate, revoke, list (which expires) keys; verify; clean up | replays against retention; Redis losing data; rotation against revocation | accepted once; a revoked key is dead; the key cap | `AgentSigning` |
| Developer API (`services/developer.py`) | `developer_requests` | `POST /api/v1/authorize` with an Idempotency-Key | four commits and a compensation; retries, failures, crashes between them | one decision and one answer per key | `DeveloperAuthorize` |
| Plan limits (`services/plan_limits.py`) | `usage_records`, plans | meter, seats, keys | last unit under concurrency; month boundary; counts in two statements | the limits hold | `DeveloperAuthorize`, `Membership` |
| Agent lifecycle and governance (`services/agent_lifecycle.py`, `agent_governance.py`, `agents.py`) | `agents.status`, certifications, owners | register, PATCH, transitions, retirement, certification, transfer, bulk, scan | unlocked transitions; three writers of one column | the state machine is bypassed only in known ways | `Governance` |
| Webhooks (`services/webhooks.py`, `workers/notifications.py`) | endpoints, deliveries | configure, enqueue, send, test, retry | commits inside a locked batch; inline sender against worker; crashes | at least once, bounded attempts, settled | `Webhooks`, `Outbox` |
| Notifications (`services/notification_*.py`) | notifications, deliveries, devices | create, expire and warn, deliver batches, devices | one commit after a batch of sends; lazy expiry ahead of the job | repeated only by a crash, silent only for a known reason | `Notifications` |
| Cross-organization trust and authorization (`services/cross_organization_trust.py`, `cross_org_authorization.py`) | trust, policies, connections, requests with approvals | request, accept, reject, revoke, connect, authorize, decide | two organizations acting on one row, no locks | both sides agreed and still do | `CrossOrg` |
| Trust registry credentials (`services/credential_service.py`) | issuers, keys, credentials | issue, rotate, revoke, verify | four reads per verification; overlapping rotations | a revoked credential or key does not verify | `Credentials` |
| Enterprise gateways (`services/gateway_control_service.py`, `sidecar/`) | gateways, bundles; the sidecar's cached state | enrol, heartbeat, stop, publish, roll back; sync, evaluate, restart | stale bundles, overlapping syncs, restart, a lock taken twice | no older bundle; bounded staleness; a stopped gateway stays stopped | `GatewayControl`, `Sidecar` |
| ATP pipeline (`services/gateway_pipeline.py`, `atp_router.py`) | nonces, messages, deliveries, endpoints | admit, route with retries, register endpoints | duplicates, crashes between commits | one session delivers, a bounded number of times | `AtpPipeline` |
| Agent services (`services/agent_service_*.py`, `agent_call_pipeline.py`) | services, endpoints, challenges, call records | register, verify, resolve, call, fail over | nested calls, retries that overlap, unlocked failure counter | no re-entry, a completed call is not repeated | `AgentServices` |
| Organizations, API keys, billing (`services/organizations.py`, `api_keys.py`, `billing.py`) | members, invitations, keys, subscription | invite, accept, roles, remove; keys; provider events | role resolved early; counts that miss; repeated and reordered events | the owner stays; keys die with membership; the plan is the provider's | `Membership` |
| Accounts (`services/auth.py`, `sessions.py`, `mfa.py`, `sso.py`) | user, sessions, factor, codes, SSO rows | sign in, set up and remove a factor, change password, OIDC | sign-in against set-up and password change | a code counts once; a changed password ends sessions | `Accounts` |
| Discovery (`services/discovery/`) | sources, runs, candidates, alarms | scan, ignore, reject, match, onboard | overlapping scans; scans against people; death of a scan | one candidate per workload; what people decide stands | `Discovery` |
| Policy language (`services/apl/`) | a document | parse, validate, lint, evaluate, compare | malformed and missing values | a valid document means one thing; weakenings are reported | `Apl` |
| Risk (`services/risk_engine.py`, `organization_policy.py`) | risk policy, assessments | score, decide, update | bursts that do not see each other; first row of a scope | a burst is bounded; the organization only strengthens | `RiskEngine` |
| SOC, sandbox, reliability, audit log, cryptography, SDKs, web and mobile, migrations, deployment | | | | | not modelled |

How they meet: the developer API meters a request and calls authorization;
authorization finds a permission or has delegation verify a chain, scores the
request, and queues what needs a human for manual approval; signing (and the ATP
and cross-organization paths that use it) authenticates the caller first; the
lifecycle of an agent revokes its delegations and credentials when it retires and
decides whether it may call and be called; decisions produce webhooks and
notifications after their commit; gateways take revocations with the next bundle;
the subscription sets the limits of members, keys and requests. Everything shared
is a database row.

`PROJECT.json` lists every component with its files and status, and the hazards
(what is hard to test in this code) with the line where each one bites and the
property that covers it.

## Modules

| Module | Models | Extends or instantiates |
|---|---|---|
| `Grants` | limits, windows and narrowing, common to permissions and delegations | |
| `Delegation` | creating, revoking and verifying delegations | `Grants` |
| `Verdicts` | abstract: an authorization service | |
| `ManualApproval` | requests that wait for a human | `Grants`, `Verdicts` |
| `DeveloperAuthorize` | the idempotent, metered endpoint | |
| `AgentSigning` | keys of one agent and verification of its requests | |
| `UnitOfWork` | what a SQLAlchemy session writes | |
| `Governance` | lifecycle, certification, ownership | `UnitOfWork` |
| `CrossOrg` | trust between two organizations and requests across it | `UnitOfWork` |
| `Credentials` | issuers, keys, credentials | |
| `AgentServices` | services, endpoints and calls between agents | `UnitOfWork` |
| `Outbox` | abstract: at-least-once delivery from a table | |
| `Webhooks` | delivery rows, inline sender, workers | `UnitOfWork`, `Outbox` |
| `Notifications` | one user's notifications, devices and the expiry jobs | |
| `AtpPipeline` | admission and routing of ATP messages | |
| `GatewayControl` | control plane of one gateway | `UnitOfWork` |
| `Sidecar` | its sidecar process | `GatewayControl` |
| `Membership` | members, invitations, API keys, subscription | |
| `Accounts` | password, second factor, sessions, SSO | |
| `Discovery` | scans, candidates and the people who review them | `UnitOfWork` |
| `Apl` | the policy language | |
| `RiskEngine` | scores and what follows from them | |
| `AgentTrust` | composes what an agent is allowed to be | `Governance`, `CrossOrg`, `Credentials`, `AgentServices` |
| `Background` | composes what goes on behind the requests | `Webhooks`, `Notifications`, `AtpPipeline` |
| `Platform` | composes what an organization keeps of its own | `Membership`, `Accounts`, `Discovery`, `Apl`, `RiskEngine` |
| `MCAgents`, `MCPlatform` | instances of `AgentTrust` and `Platform` | the module |
| `MCBackground` | an instance of `Background` and the gateway | `Background`, `MCGateway` |
| other `MC...` | small instances of one component | the module |
| `DelegationProofs`, `ManualApprovalProofs`, `AgentSigningProofs`, `DeveloperAuthorizeProofs` | theorems about the component | the module, `TLAPS` |
| `AgentsProofs` | theorems about lifecycle, credentials, trust and services | `AgentTrust`, `TLAPS` |
| `BackgroundProofs` | theorems about webhooks, messages, notifications, gateway and sidecar | `Background`, `Sidecar`, `TLAPS` |
| `PlatformProofs` | theorems about accounts, membership, keys and billing | `Platform`, `TLAPS` |
| `DiscoveryPolicyRiskProofs` | theorems about scans, candidates and the people who decide, about the policy language, about bursts and scores | `Discovery`, `Apl`, `RiskEngine`, `TLAPS` |

Definitions named "Mutant" in a comment are deliberately wrong variants of the
definition that follows them; each breaks the property it is listed with in
`PROJECT.json`, which shows that the property depends on that code.

Two conventions of the newer modules. First, a **scenario constant** (`Worlds`,
`FedWorlds`, `Scenes`, `Traffics`, `Deployments`, `Orgs`, `Accts`, `Lands`,
`Weathers`) holds records that say which rows exist and which operations clients
use in a behaviour; Init picks one. The actions are those of the whole
component; a scenario keeps combinations apart that have nothing to say to each
other, so that each can be explored with more rows and sessions. Second, a **race history**
(`overlapped`, `raced`, `gwRaced`, `scRaced`, `apRaced`, `svRaced`, `diRaced`,
`slipped`, `unguarded`, `orphaned`, `crossed`, `strayed`) records that two handlers had one
row in hand at the same time. Much of this code locks nothing; a promise that an overlap
breaks is stated as "unless these two overlapped", which pins down the overlap that
breaks it, and shows that nothing else does.

### Delegation

State: `agentStatus`, `perms` and `delegs` are the tables; `creating[h]` is the
row that request thread `h` has checked and not yet inserted; `calls[c]` is a
delegated authorization under way: the node it stands at, what it has loaded,
the limit and the approval flag it has accumulated.

| Action | Code |
|---|---|
| `CheckRootDelegation`, `CheckChainedDelegation`, then `InsertDelegation` | `create_delegation`: all checks; the insert and commit |
| `RevokeDelegation` | `revoke_delegation` with its cascade through ACTIVE children, one transaction |
| `StartCall`, `VerifyNode` (once per row), `VerifyRoot`, `CompleteOrQueue`, `Respond` | the delegated branch of `authorize_action`, `verify_delegation_chain`, `_complete_or_queue` |
| `CreatePermission`, `ExpirePermission`, `RevokePermission` | `services/permissions.py` |
| `PatchAgent`, `RetireAgent` | `update_owned_agent`; retirement with `_execute_retirement_cleanup` |

Abstractions. An (action, resource) pair is one scope: the code only compares
them for equality, both at once. `INACTIVE` stands for all agent statuses this
code need not tell apart. What the organization policy, the risk engine and the
APL say about a verified request is a free choice (`Gates`). An agent row is
loaded once by a request and then served from the session's identity map, which
is why `calls[c].loaded` remembers the agents a walk has already found active.
Two fields of a call are history: which delegations were already revoked
(`revoked`) and which permissions dead (`dead`) when the request began.

`RevocationHonoured` is deliberately about the moment a request **begins**. A
revocation that commits while a chain is being walked may come too late for that
request, as in any system without locks; the property says it never comes too
late for the next one. `ChainWellFormed` is the table: every row narrower than
what is above it, in one organization, no agent twice in a chain.

### ManualApproval and Verdicts

State: `requests` and `audits` are the tables, `lock` the row locks, `queueing`
and `deciding` the threads. `PermTerms` are the columns of permissions that
nothing updates.

| Action | Code |
|---|---|
| `MatchPermission`, `MatchDelegated`, then `Queue` or `DecideAtOnce` | `authorize_action` after its checks; `_save_pending_request`, `_save_audit_log` |
| `StartDecision`, `LockRecord`, `Validate`, `Commit` | `decide_owned_request`: reads the clock, waits for the row, validates without further locks, `_finalize` |
| `ExpireRecords` | `_expire_records`, which every listing runs |
| `Abort` | a request that dies: PostgreSQL rolls back and releases the row |
| `SetAgent`, `ExpirePermission`, `RevokePermission`, `Tick` | the surroundings |

`deciding[d].found` is history: the permission's status when the operator's
answer arrived. A permission revoked after that, while the decision is in its
transaction, is not noticed by the code, and the property does not claim it.
`DecisionSound` says that every request is decided once, in its window, within its
permission and while that was live, and that its audit row says the same.

`Verdicts` is what a client may rely on: a request is answered at once or waits; one that waits
is approved only by a backer whose yes came while the grant was alive and the request not overdue,
expires only when overdue, and its verdict is told once, with it, and stays. `ImplementsVerdicts`
is the refinement: what stands is the row's status (or the audit of a request that was never queued),
what was told is the last entry of the audit log, a grant is alive while the permission is `ACTIVE`,
and a decider backs a request from a yes in time until its transaction ends.

### DeveloperAuthorize

One production key of one organization (sandbox keys and personal keys skip the
meter). `Reserve`, `Consume`, `Decide` and `Complete` are the four commits of
`developer_authorize`; `ReadExisting` is the losing side of the unique key;
`Raise` enters the `except` clause, whose two transactions are `Release` and
`Unreserve`. `Faults` says which failures there are: `"early"` (an exception
before the decision), `"late"` (after it), `"crash"` (the process dies, or the
`except` clause itself fails). Months are numbered; `NextMonth` is the turn of the
calendar. `strayed` is history: `"late"` once an exception followed a committed decision, `"month"` once a unit
was given back in another month than it was taken. A behaviour of `MCSpec` is about crashes and early failures within a month, or about
failures at any point without crashes.

### AgentSigning

The keys of one agent and the verification of its requests. `LoadForAdd` and
`LoadForRotate` are the reads of the API handlers before `register_key` takes the
agent's row lock; `RegisterKey` is the rest, and writes from the copy loaded before
(SQLAlchemy does not refresh an object that the session already holds).
`RevokeKey` and `ExpireKeys` are whole handlers. A verification is `StartVerify`
(headers, clock and window; the agent's own status is not looked at), `CheckKey` (key and signature), `SetInRedis` or
`SkipRedis`, then `InsertNonce`, which now and then purges expired rows first; `CleanupNonce` deletes expired rows one at a time, which includes the
batches of `cleanup_expired_nonces`. A signature is what was signed: a message
is its key, nonce and timestamp. Messages may arrive any number of times in any
order: Redis may forget anything at any time (`RedisForgets`) or be unreachable.

`MaxStall` bounds the time between the clock reading of a verification and its last
database call. The code does not state such a bound; its timeouts imply one
(`statement_timeout=5000` in `database/session.py`, `socket_timeout=2` in `main.py`)
well below the 30 seconds that `_accept_nonce` adds to twice the window (`Margin`).
`AcceptedOnce` needs exactly this: `MaxStall < Margin`.

### Governance

A session loads the agent's row (`Serve`), then validates, edits its copy and commits
(`Commit`, or `Refused`); `execute_bulk_governance` and `BulkNext` do so for several
agents in one session with a commit each. `Requests` are the handlers: transitions, retirement,
review, certification decision, transfer, the overdue scan, and the PATCH of
`services/agents.py`. `Register` and `ImportAgent` make rows, `GrantLink` the
delegations and credentials that retirement revokes. The governance policy is fixed in
a behaviour: `PUT /governance/policy` (`api/agent_governance.py`:249) requires the capability "admin", which no
role has.

`RetirementUndone` lists the ways out of RETIRED, which docs/AGENT_LIFECYCLE.md calls
terminal: a PATCH, a rejected certification, a session that had loaded the row before.
`ActiveHasWindow` says that only a PATCH makes an agent ACTIVE without a review period
(no scan would ever find it), `OwnerTrail` that the ownership history explains the
owner although transfers overlap.

### CrossOrg

The four rows of one ordered pair of organizations (`bond`) and the requests across
it. `LoadTrust` and `CommitTrust` are every handler of
`cross_organization_trust.py`. A request is `BeginAuthorize` (signature and
idempotency key), `ReadTrust`, `Judge` (connection, policies, the source's own permission or
delegation), `Record`; a decision is `LoadDecision`, `FlushApproval`, `CommitDecision`. An empty list of allowed
actions allows all, and a request without an amount passes every threshold: both are the code's
rules. `overlapped` marks the trust, keys and requests that two handlers worked on at once; unless
marked, connections end with their trust, approvals agree with the status, and a key has one request.

### Credentials

Issuers, their keys and the credentials of one agent. `LoadRotation` and
`rotate_issuer_signing_key`, `LoadIssue` and `issue_agent_credential` are read and commit;
a verification is `Present` and then four reads (`verify_agent_credential`). Revocations, the stop of an issuer and the agent's retirement
may come between any two. A signature is the record of the fields it
covers; the environment of a presented envelope may have been altered. `AcceptedWasGood` relates an
acceptance to what was revoked when the verification **began**.

### AgentServices

Registry handlers work for an organization in a session (`LoadService` or `LookupName`, then
`create_service`, `update_service`, `register_capability`, `register_endpoint`). A verification of an
endpoint is `initiate_endpoint_verification`, `LoadChallenge`, `verify_endpoint_challenge`. A `Call` resolves the target, and
`execute_agent_to_agent_call` dispatches to one endpoint after the other, counts failures and records.
The called agent may call on, with the chain it was given or without (the chain and depth are what
the client says they are): `NoReentry` is about calls below which nobody forgot it. `Outside` changes
agents and trust.

### Webhooks and Outbox

`DecideRequest` commits a decision; `deliver_decision_webhook` inserts its row and
sends it (`Undeliverable`, `Unusable`: no row); a worker fetches a batch `FOR UPDATE SKIP LOCKED`, and each
of its sends commits and so releases the locks of the whole batch (`SendStep`). `send_test_webhook` and `retry_sandbox_webhook` are
the sandbox. `Crash` may come between any two steps. `BecomesDue` is the passing of time.

`Outbox` is what this promises: a delivery that was queued is taken by senders, its outcome
changes only when one of them reports, "delivered" only if the receiver accepted it, and a
production delivery is not queued again. `ImplementsOutbox` is the refinement
(`AbstractOutbox == INSTANCE Outbox WITH ...`: the phase of a delivery is its row's status,
its senders are the processes that hold a copy of the row).

### Notifications

One user. `FindDuplicate` and `create_notification` are the read and the insert under the
deduplication key; `process_notification_deliveries` locks a batch, sends all of it and commits once, and
`WorkerDies` repeats it. `WarnPermission`, `ExpirePermission`, `ExpireKey` are the worker's jobs;
`get_owned_permission` is the lazy expiry of any read, after which the job no longer sees the row and the owner is not told
(`OnlyReadsSilence`). `CountDevices` and `register_device` are a count and an insert; a token that comes
back from revocation is not counted (`DeviceCap`).

### AtpPipeline

`Submit` to `process_atp_message`: timestamp, key, nonce, duplicate, credential, policy, record; then the
route with its retries. A session that has flushed a nonce holds it until it commits: another one with the same nonce waits
(`FlushNonce`). `PurgeNonces`, `Withdraw` (the source loses its key or trust), `Rebind` and the handlers of
endpoints, and `CrashRelay` surround it. `StrandedForGood` states what the code does with a message that
a crash or a missing endpoint left PENDING or FAILED: its id makes every later submission a
duplicate, so it is never sent.

### GatewayControl and Sidecar

The control plane's handlers load and commit like all others (`CommitGateway`, `CommitBundle`, which meets the
unique index over organization and version). A bundle is the list of agents and
credentials it revokes; a rollback copies an old list (`given`). The sidecar's event loop and threads share `SidecarState`:
`Sync` has the fetch, the comparison, the locked update and the cache write as steps of their own; `evaluate_local_request` the
pruning of nonces, the test and the decision; `get_health_summary` takes `state._lock` twice. `load_config_cache` is a restart, `SyncUnreachable` a network
that fails. The signature of a bundle is not verified by the sidecar, because `control_plane_public_key` is never assigned
(`sidecar/sync.py`:56), so bundles here come from the control plane only.

`StalenessBounded`: a sidecar that is cut off, and restarted, approves a revoked agent no longer than a bundle's
lifetime after the revocation. `NoDowngrade` and `NoncePassesOnce` hold but for the overlaps that `scRaced` records.

### Membership

A handler resolves the role of its user (`Enter`) and keeps it. `LockSeats`, `CountPending`, `CheckMember`, `create_invitation` are the
statements of one handler under the lock of the subscription row; `BeginAccept` and `accept_invitation` take no lock, so
that an acceptance can pass between the two counts (`slipped`), and two acceptances of one user can cross (`crossed`): one that found
its invitation open commits after it has expired, another was accepted and given a key meanwhile, and the first one then makes a VIEWER
of a member whose keys stay. `LockKeys`, `create_api_key` likewise, with the retry after a
collision of the key's prefix, which has lost the lock (`Collide`, `unguarded`). Billing: `create_checkout`, the provider's events (`Emit`,
delivered any number of times in any order by `LookupEvent` and `process_webhook`), and `cancel`, which tells the provider before it commits (`TellProvider`).

### Accounts

`authenticate_user` locks the user row; when it clears failures it commits and gives the lock up, which
`PasswordChangeEndsSessions` has to except. `LookupCredential`, `issue_session`, `verify_challenge` complete a sign-in;
`LoadSetup`, `start_setup`, `confirm_setup`, `CutSessions`, `DeleteCodes`, `regenerate_recovery_codes`, `disable_mfa` are the factor;
`start_login`, `BurnState`, `complete_login`, `redeem_ticket` are OIDC; `LoadPolicy`, `set_policy` and `LoadConnection`, `disable_connection` are the write skew behind `SsoReachable`.
Passwords, secrets and sets of codes are numbered in the order they were made.

### Discovery

A scan (`StartRun`, `ScanStep`) is one session: it commits when it inserts a candidate and at its end, and its other changes
wait for the next commit. `Die` loses it. People load a candidate and decide (`LoadCandidate`, `PersonStep`: ignore, false positive, match,
onboard). Scoring and matching are functions of what a workload shows; what a source reports is fixed, because the connectors read
nothing else than its configuration. `mark_stale_candidates` is not called by anything and not modelled.

### Apl

Parser defaults, validator, linter, evaluator and semantic difference as operators over documents with missing
and malformed parts, checked for every document and context of a bounded language; `NewVersion` replaces a document by another, and
`WeakeningReported` compares the two. `ValidNeverFallsBack`, `ContradictionsNeverMatch` and `DeadRulesOnlyTighten` relate the
validator and the linter to the evaluator. The operators over substrings are left out.

Conditions are trees: the constant `Conditions` is a set of them with everything below each, `Depth` says how deep each is, and a child is
less deep than its parent (`ConditionsAssumption`); the functions along a tree are recursive functions over `Conditions`. YAML is
parsed into finite trees, so every condition the program meets is in such a set. A malformed node is one of kind `malformed`, whatever is wrong with it.
`_validate_condition_node` carries the depth as the code does, from 1 to one more than the limit, where it stops.

### RiskEngine

`LookupPolicy`, `InsertPolicy` (the first request of a scope creates its row, and concurrent ones lose to the
unique index), `Evaluate` (the score from the committed history), `Commit` of assessment and decision together, `Abandon`, `update_policy`. Weights and thresholds
are the code's; a score is the sum of the points of its rules, each by the highest of its tiers that is reached. `BurstBounded` says by how many requests a burst can pass the velocity rule:
it holds while nobody updates the policy, and if the 35 points of a high velocity are more than LOW, which the settings decide.

## Runs

Times are for two workers.

| Run | Instance | Distinct states | Shows |
|---|---|---|---|
| `delegation_create` | 4 agents in 2 organizations, 2 concurrent creators, 3 delegations, 2 permission and 6 delegation terms | 308,926 (200 s) | `ChainWellFormed` |
| `delegation_calls` | 3 agents, 2 delegations, 1 creator, 1 caller, limits of two sizes, approval and none | 346,142 (90 s) | `RevocationHonoured`, `MoneyWithinWholeChain`, `ApprovalNeverBypassed`, `EveryCallAnswered` |
| `delegation_cascade` | a chain of three | violated | finding 1 |
| `approval_decide` | 1 request, 2 operators, 2 agents, window inside and across the permission's end | 133,344 (30 s) | `DecisionSound`, `ImplementsVerdicts`, `EveryDecisionEnds` |
| `approval_delegated` | the same | violated | finding 2 |
| `developer` | 2 threads, 3 requests, one key and none, 2 payloads, quota 2, 2 months; early and late failures, crashes | 185,233 (10 s) | `IdempotentUnlessLate`, `QuotaWithinMonth`, `ResolvesUnlessCrash` |
| `signing` | requests: 1 nonce, every timestamp, 2 verifications, window 1, margin 2, time 0..6; or rotation: 3 keys, cap 2, 2 administrators | 441,153 (30 s) | `AcceptedOnce`, `RevokedFailsAtOnce`, `KeyCap`, `RotationOverlaps` |
| `signing_resurrected` | 2 keys, rotation and revocation | violated | finding 3 |
| `sidecar_health` | 3 threads, a probe, a synchronization, an evaluation | violated | finding 4 |
| `agents` | `MCAgents`: 2 sessions for each of lifecycle, ownership, trust, issuer keys, credential holder; 3 desks for nested calls | 711,454 (130 s) | `GovernanceHolds`, `TrustHolds`, `RegistryHolds`, `ServicesHold`, `RetirementUndone`, `RevocationsStand`, `ServiceSteps` |
| `background` | `MCBackground`: 1 API process and 2 workers with 2 deliveries and a crash; 2 jobs; 2 relays; 8 deployments of a gateway | 353,435 (145 s) | `WebhooksHold`, `NotificationsHold`, `AtpHolds`, `GatewayHolds`, `ImplementsOutbox`, `NeverTakenUpAgain`, `GatewaySteps`, `SidecarSteps`, `WorkSettles` |
| `platform` | `MCPlatform`: 2 handlers in an organization, 2 workers of an account, 2 scanners and 2 people, 3 request threads, some 250 policy documents and 12 contexts | 553,635 (120 s) | `MembershipHolds`, `BillingHolds`, `AccountHolds`, `RunsAccounted`, `CandidatesHold`, `PolicyReadsTrue`, `RiskHolds`, `DeadStays`, `WeakeningReported` |

In the three composed runs a variable `side` says which component a behaviour is about. The components of one run share no row
that more than one of them writes, except the agent's status, which every component of `AgentTrust` loads for itself
and finds changed at any time; so their interleavings are those of each component, and exploring the product would only
multiply independent states. The properties named `...Hold` and `...Holds` are conjunctions of the named properties of the components, each stated,
with its reason, in the component's module; `RevocationsStand`, `NeverTakenUpAgain` and `DeadStays` conjoin
promises of several components, in the module that composes them.

### Why the bounds are enough

Delegation: each check of `create_delegation` passes for
one term and fails for another (too large, other currency, no limit below a limit, dropped
approval, depth used up, later expiry, other organization; the flag
`allow_further_delegation` is TRUE in all terms and its check is left to the proof). Three
delegations are the shortest chain with a row in the middle that has one above
and one below it, and four agents are what such a chain needs. Verification
treats every node alike, so two rows show what a walk can see change behind and
ahead of it. Approvals: every interaction is between pairs of decisions about one
row, or one decision and one sweep, and requests do not refer to each other.
Idempotency: the third request is the one that arrives after the first two have
collided. Replay: time runs to 6, past the four units (twice the window and the
margin) that the row of an early request lives, so that rows
expire, are purged and are cleaned up inside the run, and requests signed for the future are
still in their window then. The terms of PATCH requests are reduced to
`ACTIVE`, the only target that can make something valid again; the proofs allow every status.
The proofs have none of these bounds.

The unlocked handlers of the newer modules interact in pairs: one loads, another commits, the first commits. Two
sessions reach every such overlap; a third one only repeats it, and is given where something counts (nested calls, threads of a burst,
the loop of the sidecar). Limits are small enough to be met: one device, one key and two seats on the free plan, two attempts of a webhook,
two failures until an endpoint is degraded, velocity thresholds of 2, 3 and 4, and there is always room for one more than the limit. Clocks run past
the longest lifetime in the scenario that is about it and stand still in the others. One crash (restart, lost worker, lost scan) is allowed where
the code has something to recover from: a second one finds the same states. Policy documents cover every operator with values of right and wrong type,
every kind of group, empty and malformed ones, one or two rules of every effect, duplicated ids, targets and defaults.

Deadlock is checked in the runs of the four core components; an instance that has used up its clock or its
pool of fresh identities still has steps there (patches, repeated requests, or `Exhausted`,
which stands for the end of the pool of request ids and not for anything in the program). In the composed runs and in `sidecar_health` a behaviour may
stop because its scenario is exhausted, so deadlock is not checked; that work does not get stuck is `WorkSettles` there.

Symmetry is used for interchangeable rows and threads in runs without liveness properties only. Where there is one, a fixed
order of allocation does the same (`Canonical`, `Renamed`).

### Fairness

* `Delegation`: weak fairness of the steps of a caller. A request that the
  server has begun keeps being executed by its worker; the statements of the walk take no locks.
* `ManualApproval`: weak fairness of a decision's steps, and strong fairness of
  `LockRecord`, because other transactions may take the row in between:
  PostgreSQL queues the waiters of a row lock, so one that waits is served. The
  clock, operators and sweeps have no fairness.
* `DeveloperAuthorize`: weak fairness of a request's own steps, including its
  `except` clause. Crashes are excluded from the liveness property: a process that
  dies after `Reserve` leaves its key reserved for ever, since nothing in the code expires
  a `developer_requests` row without a result (listed as a hazard).
* `Webhooks` (`HookFairness`): a worker loops for ever, time passes, and an HTTP call returns
  within its timeout. Receivers may fail every attempt; then the row ends as failed.
* `Notifications` (`NtFairness`): the worker runs the expiry job again and again.
* `AtpPipeline` (`ApFairness`): a handler runs to its end; strong fairness for the insert that waits for a nonce, as PostgreSQL serves waiters in
  their order.
* `Sidecar` (`ScFairness`): the event loop synchronizes again and again; `ServeFairness`, in `sidecar_health` only: a thread that serves runs
  on when it can, so that the probe that is not answered is stuck and not merely slow.

## Findings

Four statements of the documentation and the code's own comments do not hold of the code; each has a run
whose counterexample is the shortest one.

1. `delegation_cascade`: docs/AGENT_DELEGATION.md says a revocation revokes all
   descending delegations. The cascade follows ACTIVE children only. When the
   agent in the middle retires, its own delegation is revoked but not the one
   below; a later revocation of the top stops at the revoked row. Authorization
   is unaffected (`RevocationHonoured` holds): the row is ACTIVE in lists only.
2. `approval_delegated`: docs/AGENT_DELEGATION.md describes delegated requests
   that a user approves. `_validate_for_approval` demands that the request's agent is
   the permission's own, and a delegated request carries the acting
   agent: every approval of one becomes a rejection. Safe, but the path never succeeds.
3. `signing_resurrected`: docs/AGENT_SIGNING.md says that a revoked key fails
   immediately. A rotation that loaded the key before the revocation
   assigns `ROTATING` to its copy and so overwrites `REVOKED`.
4. `sidecar_health`: `sidecar/main.py`:83 calls `GET /health` a liveness probe that returns a
   summary. `get_health_summary` holds a `threading.Lock` and calls
   `is_config_expired`, which takes it again: the first probe never returns, and synchronization
   and evaluation wait behind it.

Met while modelling, without a run of their own:

* An exception after a committed decision frees the Idempotency-Key, and the retry is decided again, although
  docs/developer-api.md:49 says that a reused key returns the first result (`services/developer.py`:134). Across the turn of
  a month `release_authorization_request` takes a unit off the new month's row. A delegated request without an amount passes
  under a permission with a limit, which the direct path refuses.
* Governance: separation of duties does not cover the path REVIEW_REQUIRED to REGISTERED to ACTIVE; a RETIRED agent comes back by PATCH.
* Cross-organization: an idempotency key is replayed before the signature is verified (`cross_org_authorization.py`:105); overlapping decisions of the two
  organizations overwrite each other (473). Credentials: an issuer with two ACTIVE keys, after overlapping rotations, can neither issue nor rotate any more.
* Gateways: bundle numbers are unique per organization, not per environment (`models/enterprise_gateway.py`:132); a rollback restores the revocation list of
  the old bundle (`gateway_control_service.py`:620).
* ATP: a FAILED or PENDING message is never taken up again, and nothing approves a PENDING_APPROVAL one; overlapping registrations of an endpoint make
  every later route fail (`api/atp_gateway.py`:221). Calls: a caller chooses its own chain and depth (`agent_call_pipeline.py`:83).
* Platform: seats are undercounted by an acceptance between two counts (`plan_limits.py`:85); billing events apply in the order they arrive (`billing.py`:108);
  requiring SSO and disabling its connection at once leaves nobody a way in (`api/enterprise_security.py`:54, 152).
* Policies: the exception that `PolicyVersion.is_active` raises (`authorization.py`:270; the model has no such column) is swallowed, so that no stored policy is
  applied; the linter calls rules unreachable that the evaluator lets decide; the difference of two versions does not see changed conditions.

## Proofs

TLAPS checks every theorem for any sets of agents, rows, threads, keys and
messages, any terms, and any bound on the clock. The assumptions on
the constants are the named `ASSUME`s of each module; TLC evaluates them in every run. They say
what the code says or what makes a model one at all: types of the terms; `None` is none of the values;
`MaxStall < Margin`; pools are finite where something is counted; limits that the settings keep above zero are; an organization starts
within its plan (`OrgsAssumption`); a condition is deeper than what is below it; a target starts with one endpoint at most (`AtpAssumption`). A scenario
constant is assumed to hold scenarios, never particular ones.

The handlers of this program load rows, think, and write without a lock, so almost every invariant below needs
the same strengthening: **what a copy in a handler's hands still says of the row, whatever was committed since**. A safety property of the table alone is
never inductive here, because the step that could break it is the commit of a handler whose checks are
some steps old. Where an overlap really breaks the promise, the race history says so, and the invariant says that
who is at work alone on a row still has it as it loaded it. TLC checked each of these invariants, as an invariant of
the component's run, before it was proved.

* **DelegationProofs.** `IInv` is the type invariant, the three properties of stored rows,
  `PendingOK` (a row that a creator is about to insert already has the properties of
  stored rows) and `CallsOK`. `PendingOK` is inductive although its row was checked
  against other rows some steps ago, because the columns it was compared with
  never change: only the status does. `CallsOK` says what a walk knows: the nodes
  it has accepted are the chain of its leaf up to where it stands, none of them
  was revoked when it began, the accumulated limit is the leaf's, which is no wider
  than any above it, and the flag is set if one of them asks for approval. When the walk has
  reached the root its nodes are the whole chain, which gives `RevocationSafety`,
  `MoneySafety` and `ApprovalSafety`. The chain above a row is defined without
  recursion (the least set closed under parents), which keeps the proofs free of induction;
  `ChainSafety` states what the run `delegation_create` checks.
* **ManualApprovalProofs.** Row-lock ownership: `LocksHeld` (a thread past
  `LockRecord` holds its row), `JobsOK` (its row exists, and a permission that was dead when the answer
  arrived still is), `DecisionsOK` (what it is about to commit still
  fits the row, since nobody else can have changed it). From these follow `OneDecision`, `DeadlineSafety`,
  `FitSafety`, `LiveApproval`, their conjunction `SoundDecision`, and `Finality` as an action property
  (of the whole row; the run checks the part of it that `ImplementsVerdicts` says).
  `VerdictsTheorem` is the refinement of `Verdicts`, one lemma per action. It needs two facts more
  (`Timely`, itself inductive): a decision's clock reading is not ahead of the clock, so that what it expires
  is overdue by then, and an approval it is about to commit was asked for; and that of a queued row only the
  status ever changes (`RowsStay`), so that whose yes was in time does not change under a decision.
* **DeveloperAuthorizeProofs.** Reservation ownership: an incomplete reservation
  has one owner, who alone can decide for its key (`OwnersOK`); a thread that lost the race
  has a key to look up (`ConflictsOK`); what was decided or
  answered for a key is still on record in its row (`RecordsOK`). So `IdempotentTheorem`, as long as no exception follows a committed
  decision. `QuotaTheorem` rests on `MeterOK`: the meter of a month covers the decisions it pays for and the
  requests that still hold a unit, and is itself within the quota; both are counted with the cardinality theorems of the library,
  so for any quota and any number of requests. Neither assumes anything about which failures
  there are: both are stated, like the run's properties, until something `strayed`.
* **AgentSigningProofs.** Retention: `RetainedOK` says that the nonce row of an accepted
  request lives until no verification can pass the clock check and still be in flight,
  `InFlightOK` bounds how late a verification can be; together `NoReplay`. `CapTheorem` rests on
  the agent's row lock, and assumes that rotation and revocation are not both in use;
  `RevocationTheorem` assumes no rotation (finding 3). `OverlapTheorem` is an action property
  without such an assumption.
* **AgentsProofs.**
  Governance: `LoadedOK` (a review date that a copy has, the row has too; a scan's copies were ACTIVE) makes `ActiveHasWindow` inductive,
  and `RetirementTheorem` names every way out of RETIRED as an action property.
  Credentials: `RotationsOK`, `SigningOK` and `VerifyingOK` say what a rotation, an issuance and each of the four reads of a verification
  still know; `SingleKeys` (one ACTIVE key, unless rotations overlapped) is what a verification relies on. `KeyRevocationTheorem`: a revoked issuer key stays revoked.
  CrossOrg: `OneAtWork` (whoever meets another at work on a row leaves it on record) with what each stage was admitted for (`OffersOK`,
  `JudgingsOK`, `DecidingsOK`) gives `TrustTheorem` and, as an action property, `TrustRevocationTheorem`.
  Services: `ChainsOK` (the chain an unbroken line of calls passes on is the line itself) gives the bound on nesting and the absence of re-entry;
  `HealthOK` (the failures are on the row, or the last is being counted) the health of endpoints; `ServiceStepsTheorem` is an action property.
* **BackgroundProofs.**
  Webhooks: `CopiesOK` (a copy of a pending row has an attempt left, whoever else has sent it since) with `DecidedOK` (a decision without a row has one process that is at it).
  `OutboxTheorem` is the refinement of `Outbox`: the initial states map to initial states and each of the sender's steps to a step of the abstract outbox or to a stutter, under
  the mapping of `AbstractOutbox`. It is about safety; that queued work settles is `WorkSettles`, which TLC checks.
  ATP: `OneRoute` (one session routes a message) bounds the attempts; `NonceHeld` (who has flushed a nonce is the only one) makes nonces unique; `StrandedTheorem` is the action
  property about messages a crash left behind.
  Notifications: `LocksOK` (a batch holds its rows alone) and `SentOK` (what was sent is recorded, lost in a crash, or in a batch not committed); `CapOK` counts the devices that were never revived
  together with the registrations that have counted and not inserted.
  Gateways: `Ordered` (every number below a published one is published, and expires no later) and `GwFresh` (an agent that a computed list leaves out was struck no earlier than the list)
  on the control plane; `CurrentOK` and `AnswerOK` on the sidecar, which carry the bundle's age through the unlocked steps of an evaluation. Together `GatewayTheorem`: the staleness bound
  of a sidecar that is cut off. `NoncesOK` is about the dictionary in force and the one being pruned. `GatewayStepsTheorem` and `SidecarStepsTheorem` are action properties.
* **PlatformProofs.**
  Accounts: `LockOK` (a sign-in under the row lock has the password that holds), `FactorOK` (what was accepted lies behind what may be accepted), `CutOK` (sessions without the second factor
  are gone, or will be by who confirmed it), `StateOK` (a login state is at one place). `AccountTheorem` is their consequence, `RevokedTheorem` an action property.
  Membership: `HeldOK` (who counts holds the subscription row), `SeatsOK` and `KeysOK` (a place that was found is still free, but for what slipped), `OutsideOK` (whoever is invited, being invited or about to accept
  is no member, but for crossings) and `OwnerOK`; from these `MembershipTheorem`, for any plans, users and numbers of seats. `DeadKeysTheorem` is an action property.
  Billing: `BilledOK` says what the subscription is after the first *m* events, for every *m*: the plan of the last event that changes it. `BillingTheorem` is the case of all of them.
  Proving `KeysDieWithMembership` showed that it was false: the history `crossed` did not cover two acceptances that cross. TLC confirmed the
  counterexample in an organization where invitations expire; the promise now names it, and that organization is one of the run's.

* **DiscoveryPolicyRiskProofs.**
  Discovery: a scan keeps its edits of candidates it has seen until its next commit, and every commit of a session writes only the columns that session changed. `CopiesOK` says what is
  left of a row that was loaded some commits ago: its fingerprint and source, and an agent if it had one (`Heir`), and that what the scan makes of it is one of the few edits
  `ScanStep` knows (`SeenEdit`). `AloneOK`: until a row is marked as raced one session has it in hand, as it is, which makes `VerdictHolds` and `LinkHolds` inductive; `SourceOK` is the same for sources.
  `RunOK` ties a run to its one session. `FewOf` counts the rows of a fingerprint together with the scans about to insert one: a scan that found none may still be
  overtaken, but by no more scans than there are. `CountsOK` separates the candidates of completed runs from those of the run that is under way, so that a lost count understates and never
  overstates. From these `RunsTheorem` and `CandidatesTheorem`, for any reports and any numbers of sources, runs, scans and people.
  Policies: a recursive function that is defined by `CHOOSE` has to be shown to exist before anything is known of it. `RankRecursion` does that once, for any
  function over a set with a rank that looks at lower ranks only, and `EvaluateIs`, `ValidIs` and `NodesAre` are its three uses: evaluator, validator and the nodes of a tree satisfy
  their defining equations. `RankInduction` then gives what they compute for trees of any depth. Both rest on `Induction`, which speaks of sets of numbers instead of
  predicates and follows from the well-foundedness of the naturals. With that: what the validator accepts at any depth has no node to fall back on (`ValidIsSound`), and a condition without negation that holds with a field less holds
  with it (`PositiveOnLess`). `PrecedenceIs` reduces a decision to which effects occur among the rules that match; the order of the rules, the removal of a dead rule and a new version are
  then questions of which effects can come and go (`LegalIsOrderFree`, `LegalDeadRulesOnlyTighten`, `QuietIsNoWeaker`). `PolicyTheorem` holds for any documents and contexts,
  `WeakeningTheorem` is an action property.
  Risk: `OneCreates` (one clerk has the row of a scope's policy uncommitted), `LostOK` (those who will lose to it and those who have are no more than the clerks), `SettledOK` (a request in hand carries the policy in force while
  nobody updates it) and `BurstOK`, which counts the approvals of an instant on record together with the requests that were scored and are not committed: whoever is scored after the high count is on
  record passes no more. The sum over the history is a recursive function of its length, and `ScoreMonotone` is the monotonicity of its tiers. `RiskTheorem` is for any clerks, settings and requests.

  Writing these two down found assumptions that had been in the models' instances only: `BurstBounded` needs that the settings put the
  points of a high velocity above LOW, and `DeadRulesOnlyTighten` that every rule has an effect the language knows. Both are now part of the properties.

Model-checked only, and why:

* Liveness: `EveryCallAnswered`, `EveryDecisionEnds`, `ResolvesUnlessCrash`, `WorkSettles` and the violated `HealthAnswers`. Fairness and ENABLED are out of the prover's reach.
  Every other property of a passing run is stated by a theorem.
* The statements of the four findings, which are false.

## Plan

Modelled and checked: all components marked so in the inventory. Proved: delegation, approval, developer API, signing; then lifecycle, credentials, trust, services, webhooks, messages,
notifications, gateways, accounts, membership, billing and discovery; then the policy language and risk. Next:

1. That `DeveloperAuthorize` implements an abstract service of its own, with idempotency keys instead of waiting.
2. `PermissionMatching`: which of several permissions `authorize_action` picks, against a reference definition.
3. The sandbox endpoints and quickstart of `api/developer.py`, and the limits on agents and webhooks.

## Not modelled

* Security operations: an incident is edited by single requests, its exports and aggregates only read.
* Developer sandbox, apart from its webhooks: test data that production does not rely on.
* Reliability and rate limits: fixed-window counters in Redis and health checks, on which no decision depends.
* Audit log views: append-only and read-only; what decisions write is part of `ManualApproval`.
* Storage of policies: `models/policy.py` lacks the columns that `api/policies.py` and `authorization.py` use, so that no policy can be
  stored or applied at this commit; there is no behaviour to model.
* Cryptography, canonical encodings and outbound URL checks: pure functions over bytes and addresses; a signature is
  the record of what was signed, a hash is its argument.
* Connectors and exporters (I/O), inventories and dashboards (reads), metrics.
* SDKs, web console, mobile app, migrations, deployment files and scripts: clients and configuration.
