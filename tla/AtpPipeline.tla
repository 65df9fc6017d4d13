---------------------------- MODULE AtpPipeline ----------------------------
(***************************************************************************)
(* ATP messages through the gateway: admission (services/                  *)
(* gateway_pipeline.py), delivery with retries (services/atp_router.py),   *)
(* and the endpoints of the target (api/atp_gateway.py).                   *)
(*                                                                         *)
(* One source agent sends signed envelopes to one target agent; an         *)
(* envelope may be submitted any number of times.  A session holds a       *)
(* nonce it has flushed until it commits or rolls back: another that       *)
(* inserts the same nonce waits.                                           *)
(***************************************************************************)
EXTENDS Naturals, Sequences, FiniteSets, FiniteSetsExt

CONSTANTS
    Relays,         \* sessions
    Envelopes,      \* records [id, nonce, sent, hold, cred, mock]
    Traffics,       \* what a behaviour is about: the envelopes submitted, the rows the
                    \* target starts with, what else happens (ops), a bound on time
    Skew,           \* accepted age of a timestamp (300 s), and life of a nonce
    max_retries,
    MaxApCrashes

VARIABLES
    apNow,
    origin,     \* is the source agent active with an ACTIVE key, and the trust ACTIVE
    nonceRow,   \* agent_request_nonces: nonce -> its expiry, 0 when absent
    message,    \* message[i]: the atp_messages row of id i, or NoMessage
    delivery,   \* delivery[i]: the statuses of its atp_message_deliveries rows, by attempt
    target,     \* agent_endpoints rows of the target: "safe" or "unsafe" URLs
    relay,      \* relay[s]: the handler in session s
    arrivals,   \* arrivals[i]: how often the target received message i
    apCrashes,
    apRaced,    \* history: "endpoint" when two registrations overlapped
    traffic     \* \in Traffics

apVars == <<apNow, origin, nonceRow, message, delivery, target, relay, arrivals, apCrashes, apRaced, traffic>>

\* Two endpoints come only of registrations that overlap, so a behaviour starts with one.
ASSUME AtpAssumption ==
    /\ Skew \in Nat /\ max_retries \in Nat
    /\ \A t \in Traffics : /\ t.envelopes \subseteq Envelopes
                          /\ t.target \in Seq({"safe", "unsafe"}) /\ Len(t.target) <= 1

Ids == {e.id : e \in Envelopes}
EnvelopeNonces == {e.nonce : e \in Envelopes}
NoMessage == [status |-> "none"]
ATPDeliveryStatus == {"PENDING", "PENDING_APPROVAL", "DELIVERED", "FAILED"}
AttemptStatus == {"DELIVERING", "RETRYING", "DELIVERED", "FAILED"}
ApIdle == [stage |-> "idle"]
Rest(s) == relay' = [relay EXCEPT ![s] = ApIdle]
MessageStatus(i, to) == message' = [message EXCEPT ![i].status = to]

ApInit ==
    /\ apNow = 0
    /\ origin = [active |-> TRUE, trusted |-> TRUE]
    /\ nonceRow = [n \in EnvelopeNonces |-> 0]
    /\ message = [i \in Ids |-> NoMessage]
    /\ delivery = [i \in Ids |-> <<>>]
    /\ traffic \in Traffics /\ target = traffic.target
    /\ relay = [s \in Relays |-> ApIdle]
    /\ arrivals = [i \in Ids |-> 0]
    /\ apCrashes = 0 /\ apRaced = {}

ApTick ==
    /\ apNow < traffic.horizon
    /\ apNow' = apNow + 1
    /\ UNCHANGED <<origin, nonceRow, message, delivery, target, relay, arrivals, apCrashes, apRaced, traffic>>

\* The agent, its key or the trust relationship goes out of service.
Withdraw(what) ==
    /\ "withdraw" \in traffic.ops /\ origin[what]
    /\ origin' = [origin EXCEPT ![what] = FALSE]
    /\ UNCHANGED <<apNow, nonceRow, message, delivery, target, relay, arrivals, apCrashes, apRaced, traffic>>

\* The signed requests of other agents purge expired nonces.
PurgeNonces ==
    /\ \E n \in EnvelopeNonces : nonceRow[n] # 0 /\ nonceRow[n] <= apNow
    /\ nonceRow' = [n \in EnvelopeNonces |-> IF nonceRow[n] <= apNow THEN 0 ELSE nonceRow[n]]
    /\ UNCHANGED <<apNow, origin, message, delivery, target, relay, arrivals, apCrashes, apRaced, traffic>>

(***************************************************************************)
(* Admission.                                                              *)
(***************************************************************************)
AnsweredFromRecord(i) == message[i].status \in {"DELIVERED", "PENDING_APPROVAL"}

Fresh(e) == e.sent <= apNow + Skew /\ apNow <= e.sent + Skew

\* Up to the signature and the timestamp; an envelope that fails changes nothing.
Submit(s, e) ==
    /\ relay[s] = ApIdle
    /\ ~AnsweredFromRecord(e.id)
    /\ origin.active /\ Fresh(e)
    /\ relay' = [relay EXCEPT ![s] = [stage |-> "verified", env |-> e, expiry |-> apNow + Skew]]
    /\ UNCHANGED <<apNow, origin, nonceRow, message, delivery, target, arrivals, apCrashes, apRaced, traffic>>

HoldsNonce(s, n) == relay[s].stage = "flushed" /\ relay[s].env.nonce = n

FlushNonce(s) ==
    LET n == relay[s].env.nonce IN
    /\ relay[s].stage = "verified"
    /\ \A q \in Relays : ~HoldsNonce(q, n)
    /\ IF nonceRow[n] # 0 THEN Rest(s) ELSE relay' = [relay EXCEPT ![s].stage = "flushed"]
    /\ UNCHANGED <<apNow, origin, nonceRow, message, delivery, target, arrivals, apCrashes, apRaced, traffic>>

\* Mutant: the nonce of a message is written after its record, by another transaction.
ConsumeNonceLater(s) == nonceRow

ConsumeNonce(s) == [nonceRow EXCEPT ![relay[s].env.nonce] = relay[s].expiry]

\* A credential that does not verify or does not fit is recorded, and the nonce with it.
RefuseCredential(s) ==
    /\ relay[s].stage = "flushed" /\ relay[s].env.cred = "bad"
    /\ nonceRow' = ConsumeNonce(s)
    /\ Rest(s)
    /\ UNCHANGED <<apNow, origin, message, delivery, target, arrivals, apCrashes, apRaced, traffic>>

\* Without trust the transaction is rolled back: the nonce stays unused.
RefuseTrust(s) ==
    /\ relay[s].stage = "flushed" /\ relay[s].env.cred # "bad"
    /\ ~relay[s].env.mock /\ ~origin.trusted
    /\ Rest(s)
    /\ UNCHANGED <<apNow, origin, nonceRow, message, delivery, target, arrivals, apCrashes, apRaced, traffic>>

AdmittedStatus(e) == IF e.hold THEN "PENDING_APPROVAL" ELSE "PENDING"

\* Mutant: a record that failed is replaced.
DuplicateIdUnlessFailed(i) == message[i].status \notin {"none", "FAILED"}

DuplicateId(i) == message[i] # NoMessage

\* INSERT of the record; a second one with the same message_id fails and rolls back.
RecordMessage(s) ==
    LET e == relay[s].env IN
    /\ relay[s].stage = "flushed" /\ e.cred # "bad" /\ (e.mock \/ origin.trusted)
    /\ IF DuplicateId(e.id) THEN Rest(s) /\ UNCHANGED <<message, nonceRow>>
       ELSE /\ message' = [message EXCEPT ![e.id] = 
                   [status |-> AdmittedStatus(e), nonce |-> e.nonce, at |-> apNow, till |-> relay[s].expiry]]
            /\ nonceRow' = ConsumeNonce(s)
            /\ IF AdmittedStatus(e) = "PENDING_APPROVAL" THEN Rest(s)
               ELSE relay' = [relay EXCEPT ![s] = [stage |-> "recorded", env |-> e]]
    /\ UNCHANGED <<apNow, origin, delivery, target, arrivals, apCrashes, apRaced, traffic>>

(***************************************************************************)
(* route_atp_message.                                                      *)
(***************************************************************************)
\* No endpoint, or two of them, is an error that leaves the record PENDING.
FindRoute(s) ==
    LET i == relay[s].env.id IN
    /\ relay[s].stage = "recorded"
    /\ \/ /\ relay[s].env.mock
          /\ MessageStatus(i, "DELIVERED") /\ delivery' = [delivery EXCEPT ![i] = Append(@, "DELIVERED")]
          /\ arrivals' = [arrivals EXCEPT ![i] = @ + 1] /\ Rest(s)
       \/ /\ ~relay[s].env.mock /\ Len(target) # 1 /\ Rest(s) /\ UNCHANGED <<message, delivery, arrivals>>
       \/ /\ ~relay[s].env.mock /\ target = <<"unsafe">>
          /\ MessageStatus(i, "FAILED") /\ Rest(s) /\ UNCHANGED <<delivery, arrivals>>
       \/ /\ ~relay[s].env.mock /\ target = <<"safe">>
          /\ relay' = [relay EXCEPT ![s] = [stage |-> "routed", id |-> i, attempt |-> 0]]
          /\ UNCHANGED <<message, delivery, arrivals>>
    /\ UNCHANGED <<apNow, origin, nonceRow, target, apCrashes, apRaced, traffic>>

BeginAttempt(s) ==
    /\ relay[s].stage = "routed"
    /\ delivery' = [delivery EXCEPT ![relay[s].id] = Append(@, "DELIVERING")]
    /\ relay' = [relay EXCEPT ![s].stage = "posting", ![s].attempt = @ + 1]
    /\ UNCHANGED <<apNow, origin, nonceRow, message, target, arrivals, apCrashes, apRaced, traffic>>

MayRetry(attempt) == attempt <= max_retries

Answers == {"ok", "transient", "error", "network"}

\* The answer to a POST; after an error the target may have received it all the same.
AttemptEnds(s, answer, arrived) ==
    LET i == relay[s].id
        retry == answer \in {"transient", "network"} /\ MayRetry(relay[s].attempt)
        outcome == CASE answer = "ok" -> "DELIVERED" [] retry -> "RETRYING" [] OTHER -> "FAILED"
    IN
    /\ relay[s].stage = "posting" /\ (answer = "ok" => arrived)
    /\ arrivals' = [arrivals EXCEPT ![i] = IF arrived THEN @ + 1 ELSE @]
    /\ delivery' = [delivery EXCEPT ![i][Len(delivery[i])] = outcome]
    /\ CASE retry -> relay' = [relay EXCEPT ![s].stage = "routed"] /\ UNCHANGED message
         [] ~retry /\ answer = "network" -> relay' = [relay EXCEPT ![s].stage = "unreachable"] /\ UNCHANGED message
         [] OTHER -> Rest(s) /\ MessageStatus(i, outcome)
    /\ UNCHANGED <<apNow, origin, nonceRow, target, apCrashes, apRaced, traffic>>

\* After the last network error the record follows in a commit of its own.
RecordUnreachable(s) ==
    /\ relay[s].stage = "unreachable"
    /\ MessageStatus(relay[s].id, "FAILED") /\ Rest(s)
    /\ UNCHANGED <<apNow, origin, nonceRow, delivery, target, arrivals, apCrashes, apRaced, traffic>>

\* The worker dies: what it had not committed is gone.
CrashRelay(s) ==
    /\ relay[s] # ApIdle /\ apCrashes < MaxApCrashes
    /\ apCrashes' = apCrashes + 1
    /\ Rest(s)
    /\ UNCHANGED <<apNow, origin, nonceRow, message, delivery, target, arrivals, apRaced, traffic>>

(***************************************************************************)
(* Endpoints.                                                              *)
(***************************************************************************)
\* scalar_one_or_none fails on two rows; the URL is validated before it is stored.
LookupEndpoint(s) ==
    /\ "endpoint" \in traffic.ops /\ relay[s] = ApIdle /\ Len(target) <= 1
    /\ relay' = [relay EXCEPT ![s] = [stage |-> "registering", known |-> Len(target)]]
    /\ apRaced' = IF \E q \in Relays : relay[q].stage = "registering"
                  THEN apRaced \cup {"endpoint"} ELSE apRaced
    /\ UNCHANGED <<apNow, origin, nonceRow, message, delivery, target, arrivals, apCrashes, traffic>>

\* An UPDATE of a row that is gone fails.
Registered(endpoints, known) ==
    IF known = 0 THEN Append(endpoints, "safe")
    ELSE IF endpoints = <<>> THEN endpoints ELSE [endpoints EXCEPT ![1] = "safe"]

register_agent_endpoint(s) ==
    /\ relay[s].stage = "registering"
    /\ target' = Registered(target, relay[s].known)
    /\ Rest(s)
    /\ UNCHANGED <<apNow, origin, nonceRow, message, delivery, arrivals, apCrashes, apRaced, traffic>>

\* A validated host resolves to an address that is not allowed any more.
Rebind ==
    /\ "endpoint" \in traffic.ops /\ target = <<"safe">> /\ target' = <<"unsafe">>
    /\ UNCHANGED <<apNow, origin, nonceRow, message, delivery, relay, arrivals, apCrashes, apRaced, traffic>>

delete_agent_endpoint ==
    /\ "endpoint" \in traffic.ops /\ target # <<>> /\ target' = Tail(target)
    /\ UNCHANGED <<apNow, origin, nonceRow, message, delivery, relay, arrivals, apCrashes, apRaced, traffic>>

process_atp_message(s) ==
    FlushNonce(s) \/ RefuseCredential(s) \/ RefuseTrust(s) \/ RecordMessage(s)
    \/ FindRoute(s) \/ BeginAttempt(s) \/ RecordUnreachable(s)
    \/ \E answer \in Answers, arrived \in BOOLEAN : AttemptEnds(s, answer, arrived)

ApNext ==
    \/ ApTick \/ PurgeNonces \/ Rebind \/ delete_agent_endpoint
    \/ \E what \in {"active", "trusted"} : Withdraw(what)
    \/ \E s \in Relays, e \in traffic.envelopes : Submit(s, e)
    \/ \E s \in Relays : process_atp_message(s) \/ CrashRelay(s)
                         \/ LookupEndpoint(s) \/ register_agent_endpoint(s)

ApSpec == ApInit /\ [][ApNext]_apVars

\* A worker runs its handler to the end, and PostgreSQL serves those that wait for the
\* row of a nonce in their order.
ApFairness == \A s \in Relays : WF_apVars(process_atp_message(s)) /\ SF_apVars(FlushNonce(s))

(***************************************************************************)
(* Properties.                                                             *)
(***************************************************************************)
\* Every row has its type.
ApTypeOK ==
    /\ \A i \in Ids : message[i] # NoMessage =>
                          message[i].status \in ATPDeliveryStatus /\ message[i].nonce \in EnvelopeNonces
    /\ \A i \in Ids : \A k \in DOMAIN delivery[i] : delivery[i][k] \in AttemptStatus
    /\ target \in Seq({"safe", "unsafe"})

\* Sessions at work on message i after its record is committed.
Routing(i) == {s \in Relays : \/ relay[s].stage = "recorded" /\ relay[s].env.id = i
                              \/ relay[s].stage \in {"routed", "posting", "unreachable"} /\ relay[s].id = i}

\* However often an envelope is submitted, at the same time, after a failure or after
\* its nonce was purged, and whoever crashes: the target receives a message from one
\* session only, max_retries + 1 times at most, and never one that waits for approval.
BoundedReceipts ==
    \A i \in Ids : /\ arrivals[i] <= Len(delivery[i])
                   /\ Len(delivery[i]) <= max_retries + 1
                   /\ Cardinality(Routing(i)) <= 1

\* A message all of whose envelopes call for an approval never leaves.
HeldNeverLeaves ==
    \A e \in traffic.envelopes :
        (e.hold /\ \A f \in traffic.envelopes : f.id = e.id => f.hold) => arrivals[e.id] = 0

\* A nonce admits one message within its lifetime: of two messages recorded under the
\* same nonce, one came after the row of the other's nonce had expired.
OneMessagePerNonce ==
    \A i, j \in Ids : (/\ i # j /\ message[i] # NoMessage /\ message[j] # NoMessage
                       /\ message[i].nonce = message[j].nonce)
        => message[j].at >= message[i].till \/ message[i].at >= message[j].till

\* A record that says PENDING has a session at work on it, or it stays PENDING for
\* good: no submission of the same message takes up what a crash or a missing endpoint left.
StrandedForGood ==
    [][\A i \in Ids : (message[i].status \in {"PENDING", "FAILED"} /\ Routing(i) = {})
          => message'[i] = message[i] /\ Routing(i)' = {}]_apVars

\* A target has one endpoint at most, unless two registrations overlapped: then every
\* later message to it and every later registration fails.
OneEndpoint == "endpoint" \notin apRaced => Len(target) <= 1

\* A target receives a message from one relay, a bounded number of times, never when it waits
\* for an approval; a nonce admits one message; a target keeps one endpoint but for overlaps.
AtpHolds == ApTypeOK /\ BoundedReceipts /\ HeldNeverLeaves /\ OneMessagePerNonce /\ OneEndpoint

\* A relay has verified a submission, and it is free again.
UnderWay(s) == relay[s].stage = "verified"
AtRest(s) == relay[s] = ApIdle
=============================================================================
