------------------------- MODULE DeveloperAuthorize -------------------------
(***************************************************************************)
(* POST /api/v1/authorize: developer_authorize (services/developer.py) with *)
(* its idempotency reservation and the monthly meter of                    *)
(* services/plan_limits.py, for the requests of one organization's key.    *)
(*                                                                         *)
(* The handler commits four times (reservation, meter, decision,           *)
(* completion) and compensates in an except clause, in two more            *)
(* transactions.  Each commit is a step; between any two of them other     *)
(* requests run, an exception is raised, the month ends, or the process    *)
(* dies.                                                                   *)
(***************************************************************************)
EXTENDS Integers, FiniteSets

CONSTANTS
    Threads,      \* concurrent requests
    Keys,         \* Idempotency-Key headers in use
    Payloads,
    ReqIds,       \* the pool of generated request ids
    None,
    Limit,        \* plan.max_authorization_requests_monthly
    LastMonth,    \* bound on the calendar
    Faults        \* what may go wrong: "early", "late" exceptions, "crash"

ASSUME NoneAssumption == None \notin Keys /\ None \notin ReqIds /\ None \notin Nat
ASSUME PoolsAssumption == IsFiniteSet(Threads) /\ IsFiniteSet(ReqIds)
ASSUME LimitAssumption == Limit \in Nat /\ LastMonth \in Nat

VARIABLES
    month,
    reserved,    \* reserved[k]: the developer_requests row with key k, or None
    usage,       \* usage[m]: usage_records.quantity of month m
    decisions,   \* what authorize_action has committed, by request id
    answers,     \* history: results that callers got, <<key, payload, id>>
    job,         \* job[t]: the request thread t works on
    strayed      \* history: "late" once an exception followed a decision, "month" once a
                 \* unit was given back to a month it was not taken from

vars == <<month, reserved, usage, decisions, answers, job, strayed>>

Months == 0 .. LastMonth
Row == [payload : Payloads, request : ReqIds \cup {None}]
Idle == [stage |-> "idle"]

ASSUME NoneIsNoRow == None \notin Row

Init ==
    /\ month = 0
    /\ reserved = [k \in Keys |-> None]
    /\ usage = [m \in Months |-> 0]
    /\ decisions = [r \in {} |-> None]
    /\ answers = {}
    /\ job = [t \in Threads |-> Idle]
    /\ strayed = {}

NextMonth ==
    /\ month < LastMonth
    /\ month' = month + 1
    /\ UNCHANGED <<reserved, usage, decisions, answers, job, strayed>>

-----------------------------------------------------------------------------
(* The handler's commits.                                                  *)

Step(t, fields) == job' = [job EXCEPT ![t] = fields]

\* Bound: an id is left for every request that is accepted.
IdsLeft ==
    Cardinality(DOMAIN decisions)
    + Cardinality({t \in Threads : job[t].stage # "idle"}) < Cardinality(ReqIds)

\* Mutant: an upsert in place of the insert.
ReserveUpserts(t, k, p) ==
    /\ job[t].stage = "idle" /\ IdsLeft
    /\ Step(t, [stage |-> "reserved", key |-> k, payload |-> p,
                metered |-> None, request |-> None])
    /\ reserved' = IF k # None
                   THEN [reserved EXCEPT ![k] = [payload |-> p, request |-> None]]
                   ELSE reserved
    /\ UNCHANGED <<month, usage, decisions, answers, strayed>>

\* The reservation is inserted, unless its key is taken.  A request without a
\* key inserts a row that no other request ever looks up.
Reserve(t, k, p) ==
    /\ job[t].stage = "idle" /\ IdsLeft
    /\ LET fresh == k = None \/ reserved[k] = None
       IN  /\ Step(t, [stage |-> IF fresh THEN "reserved" ELSE "conflict",
                       key |-> k, payload |-> p, metered |-> None, request |-> None])
           /\ reserved' = IF fresh /\ k # None
                          THEN [reserved EXCEPT ![k] = [payload |-> p, request |-> None]]
                          ELSE reserved
    /\ UNCHANGED <<month, usage, decisions, answers, strayed>>

\* After the IntegrityError, a new transaction reads the row that was in the
\* way: IdempotencyConflict, RequestInProgress, the stored result, or, if the
\* row has gone, the IntegrityError again.
ReadExisting(t) ==
    LET row == reserved[job[t].key]
    IN  /\ job[t].stage = "conflict"
        /\ answers' =
              IF /\ row # None
                 /\ row.payload = job[t].payload
                 /\ row.request # None
              THEN answers \cup {<<job[t].key, job[t].payload, row.request>>}
              ELSE answers
        /\ Step(t, Idle)
        /\ UNCHANGED <<month, reserved, usage, decisions, strayed>>

\* Mutant: the quota is read without the row lock, one request too late.
ConsumeOffByOne(t) ==
    /\ job[t].stage = "reserved"
    /\ IF usage[month] <= Limit
       THEN /\ usage' = [usage EXCEPT ![month] = @ + 1]
            /\ Step(t, [job[t] EXCEPT !.stage = "metered", !.metered = month])
       ELSE /\ usage' = usage
            /\ Step(t, [job[t] EXCEPT !.stage = "failing"])
    /\ UNCHANGED <<month, reserved, decisions, answers, strayed>>

\* consume_authorization_request, under the locks on the subscription and the
\* usage row.  At the limit PlanLimitReached sends the handler to its except
\* clause.
Consume(t) ==
    /\ job[t].stage = "reserved"
    /\ IF usage[month] < Limit
       THEN /\ usage' = [usage EXCEPT ![month] = @ + 1]
            /\ Step(t, [job[t] EXCEPT !.stage = "metered", !.metered = month])
       ELSE /\ usage' = usage
            /\ Step(t, [job[t] EXCEPT !.stage = "failing"])
    /\ UNCHANGED <<month, reserved, decisions, answers, strayed>>

\* authorize_action commits its decision (an audit entry or a queued request)
\* under a request id of its own.
Decide(t, r) ==
    /\ job[t].stage = "metered"
    /\ r \notin DOMAIN decisions
    /\ decisions' = [q \in DOMAIN decisions \cup {r} |->
          IF q = r THEN [key |-> job[t].key, payload |-> job[t].payload,
                         metered |-> job[t].metered]
                   ELSE decisions[q]]
    /\ Step(t, [job[t] EXCEPT !.stage = "decided", !.request = r])
    /\ UNCHANGED <<month, reserved, usage, answers, strayed>>

\* reservation.request_id = result.request_id
Complete(t) ==
    /\ job[t].stage = "decided"
    /\ reserved' = IF job[t].key = None THEN reserved
                   ELSE [reserved EXCEPT ![job[t].key].request = job[t].request]
    /\ Step(t, [job[t] EXCEPT !.stage = "completed"])
    /\ UNCHANGED <<month, usage, decisions, answers, strayed>>

\* The decision webhook has been tried, and the caller gets the result.
Answer(t) ==
    /\ job[t].stage = "completed"
    /\ answers' = answers \cup {<<job[t].key, job[t].payload, job[t].request>>}
    /\ Step(t, Idle)
    /\ UNCHANGED <<month, reserved, usage, decisions, strayed>>

-----------------------------------------------------------------------------
(* The except clause.                                                      *)

\* An exception before the decision is committed (billing is restricted, a
\* database error) or after it (the completing commit, the webhook's rows).
Raise(t) ==
    /\ \/ "early" \in Faults /\ job[t].stage \in {"reserved", "metered"}
       \/ "late" \in Faults /\ job[t].stage \in {"decided", "completed"}
    /\ Step(t, [job[t] EXCEPT !.stage = "failing"])
    /\ strayed' = IF job[t].stage \in {"decided", "completed"} THEN strayed \cup {"late"} ELSE strayed
    /\ UNCHANGED <<month, reserved, usage, decisions, answers>>

\* release_authorization_request: the row of the current month, down to zero.
Release(t) ==
    /\ job[t].stage = "failing" /\ job[t].metered # None
    /\ usage' = [usage EXCEPT ![month] = IF @ > 0 THEN @ - 1 ELSE 0]
    /\ Step(t, [job[t] EXCEPT !.metered = None])
    /\ strayed' = IF job[t].metered = month THEN strayed ELSE strayed \cup {"month"}
    /\ UNCHANGED <<month, reserved, decisions, answers>>

\* Mutant: the reservation is left behind.
UnreserveNothing(t) ==
    /\ job[t].stage = "failing" /\ job[t].metered = None
    /\ Step(t, Idle)
    /\ UNCHANGED <<month, reserved, usage, decisions, answers, strayed>>

\* The reservation is deleted, and the exception reaches the caller.
Unreserve(t) ==
    /\ job[t].stage = "failing" /\ job[t].metered = None
    /\ reserved' = IF job[t].key = None THEN reserved
                   ELSE [reserved EXCEPT ![job[t].key] = None]
    /\ Step(t, Idle)
    /\ UNCHANGED <<month, usage, decisions, answers, strayed>>

\* The process dies: what was committed stays.
Crash(t) ==
    /\ "crash" \in Faults
    /\ job[t].stage # "idle"
    /\ Step(t, Idle)
    /\ UNCHANGED <<month, reserved, usage, decisions, answers, strayed>>

-----------------------------------------------------------------------------
\* The pool of request ids, not the program, ends here.
Exhausted ==
    /\ ~IdsLeft /\ \A t \in Threads : job[t].stage = "idle"
    /\ UNCHANGED vars

Work(t) ==
    \/ ReadExisting(t) \/ Consume(t) \/ Complete(t) \/ Answer(t)
    \/ Release(t) \/ Unreserve(t)
    \/ \E r \in ReqIds : Decide(t, r)

Next ==
    \/ NextMonth \/ Exhausted
    \/ \E t \in Threads :
          \/ \E k \in Keys \cup {None}, p \in Payloads : Reserve(t, k, p)
          \/ Work(t) \/ Raise(t) \/ Crash(t)

Spec == Init /\ [][Next]_vars

\* A request that was accepted keeps being served.
FairSpec == Spec /\ \A t \in Threads : WF_vars(Work(t))

-----------------------------------------------------------------------------
(* Properties.                                                             *)

JobRec ==
    [stage : {"reserved", "conflict", "metered", "decided", "completed", "failing"},
     key : Keys \cup {None}, payload : Payloads, metered : Months \cup {None},
     request : ReqIds \cup {None}]
DecisionRec == [key : Keys \cup {None}, payload : Payloads, metered : Months \cup {None}]

\* Type invariant of the tables and the request threads.
TypeOK ==
    /\ month \in Months
    /\ reserved \in [Keys -> Row \cup {None}]
    /\ usage \in [Months -> Nat]
    /\ DOMAIN decisions \subseteq ReqIds
    /\ decisions \in [DOMAIN decisions -> DecisionRec]
    /\ answers \subseteq (Keys \cup {None}) \X Payloads \X (ReqIds \cup {None})
    /\ job \in [Threads -> JobRec \cup {Idle}]

\* However many copies of a request arrive, are retried, fail early or die
\* half-way, one Idempotency-Key leads to one decision of authorize_action.
OneDecisionPerKey ==
    \A q, r \in DOMAIN decisions :
        decisions[q].key = decisions[r].key /\ decisions[q].key # None => q = r

\* docs/developer-api.md: reusing a key with the same request returns the first
\* result.  All callers that got a result for a key got the same one, for the
\* payload it was made with.
SameAnswerPerKey ==
    \A x, y \in answers : x[1] = y[1] /\ x[1] # None => x = y

\* docs/billing.md: concurrent requests cannot pass a quota by racing.  No month
\* pays for more decisions than the plan has, as long as no request is metered in
\* one month and released in the next.
QuotaHolds ==
    \A m \in Months :
        Cardinality({r \in DOMAIN decisions : decisions[r].metered = m}) <= Limit

\* Copies of a request that arrive, are retried, fail before the decision or die half-way: one
\* Idempotency-Key leads to one decision, and all callers get its result.  (An exception after the
\* decision frees the key, and the retry is decided again.)
IdempotentUnlessLate == "late" \notin strayed => OneDecisionPerKey /\ SameAnswerPerKey

\* Concurrent requests, also those that fail or die, do not pass the plan's quota of a month.  (A
\* request that is metered in one month and given up in the next frees a unit of the wrong month,
\* one that fails after its decision frees the unit of that decision.)
QuotaWithinMonth == strayed = {} => QuotaHolds
=============================================================================
