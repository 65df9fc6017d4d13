------------------------------ MODULE Webhooks ------------------------------
(***************************************************************************)
(* Signed webhooks (services/webhooks.py): the API process that commits a  *)
(* decision inserts a delivery row, sends it at once and records the       *)
(* outcome; workers (workers/notifications.py) send pending rows again.    *)
(*                                                                         *)
(* A worker reads its batch FOR UPDATE SKIP LOCKED, but each send commits: *)
(* the first commit releases the locks of the whole batch, and the rest is *)
(* sent from copies that may be stale by then.  Processes may crash        *)
(* between any two steps.  Time is reduced to whether next_attempt_at has  *)
(* come.                                                                   *)
(***************************************************************************)
EXTENDS Naturals, FiniteSets, UnitOfWork

CONSTANTS
    Deliveries,
    Sandbox,        \* the deliveries with is_test
    Apis,           \* API processes that serve a decision at a time
    Workers,
    MaxAttempts,    \* notification_max_delivery_attempts
    BatchSize,      \* notification_worker_batch_size
    MaxRetried,     \* bound: a sandbox row that counts more attempts is not sent again
    MaxCrashes      \* bound on crashes

ASSUME SandboxDeliveries == Sandbox \subseteq Deliveries
ASSUME AttemptsAssumption == MaxAttempts \in Nat \ {0} /\ BatchSize \in Nat \ {0}
ASSUME ProcessesAssumption == IsFiniteSet(Apis) /\ IsFiniteSet(Workers)

VARIABLES
    hook,       \* the organization's webhook_endpoints row: "none", "active"
    row,        \* row[d]: the webhook_deliveries row
    decided,    \* decisions committed, whose webhook is due
    sender,     \* sender[p]: what an API process or a worker is doing
    received,   \* deliveries that the receiver has answered with 2xx
    missed,     \* history: decisions made while no endpoint could be used
    crashes

hookVars == <<hook, row, decided, sender, received, missed, crashes>>

Processes == Apis \cup Workers
Row == [status : {"none", "pending", "delivered", "failed"}, count : Nat, due : BOOLEAN]
NoRow == [status |-> "none", count |-> 0, due |-> FALSE]
Free == [stage |-> "idle"]

HookInit ==
    /\ hook = "none"
    /\ row = [d \in Deliveries |-> NoRow]
    /\ decided = {}
    /\ sender = [p \in Processes |-> Free]
    /\ received = {} /\ missed = {}
    /\ crashes = 0

\* One endpoint per organization, once its URL was validated.
configure_webhook ==
    /\ hook = "none"
    /\ hook' = "active"
    /\ UNCHANGED <<row, decided, sender, received, missed, crashes>>

\* next_attempt_at has come.
BecomesDue(d) ==
    /\ row[d].status = "pending" /\ ~row[d].due
    /\ row' = [row EXCEPT ![d].due = TRUE]
    /\ UNCHANGED <<hook, decided, sender, received, missed, crashes>>

(***************************************************************************)
(* A process sends copies, one at a time: todo is what it has still to     *)
(* send, loaded the rows as it read them, edited its copies, locked the    *)
(* rows whose locks it holds.                                              *)
(***************************************************************************)
Sending(todo, copies, locked) ==
    [stage |-> "sending", todo |-> todo, loaded |-> copies, edited |-> copies, locked |-> locked]

\* The decision is committed; its webhook comes next.
DecideRequest(p, d) ==
    /\ p \in Apis /\ sender[p] = Free
    /\ d \notin decided /\ d \notin Sandbox
    /\ decided' = decided \cup {d}
    /\ sender' = [sender EXCEPT ![p] = [stage |-> "decided", delivery |-> d]]
    /\ UNCHANGED <<hook, row, received, missed, crashes>>

Inserted == [status |-> "pending", count |-> 0, due |-> TRUE]

\* Mutant: the event is sent without a row.
deliver_decision_webhookUnsaved(p) ==
    /\ sender[p].stage = "decided" /\ hook = "active"
    /\ sender' = [sender EXCEPT ![p] = Free]
    /\ UNCHANGED <<hook, row, decided, received, missed, crashes>>

\* The endpoint is active, its URL resolves and its secret matches: a row is
\* committed, for any worker to see, and the process goes on to send it.
deliver_decision_webhook(p) ==
    /\ sender[p].stage = "decided" /\ hook = "active"
    /\ LET d == sender[p].delivery IN
          /\ row' = [row EXCEPT ![d] = Inserted]
          /\ sender' = [sender EXCEPT ![p] = Sending({d}, [e \in {d} |-> Inserted], {})]
    /\ UNCHANGED <<hook, decided, received, missed, crashes>>

\* No endpoint, or one that fails validation at this moment: no row.
Undeliverable(p) ==
    /\ sender[p].stage = "decided"
    /\ missed' = missed \cup {sender[p].delivery}
    /\ sender' = [sender EXCEPT ![p] = Free]
    /\ UNCHANGED <<hook, row, decided, received, crashes>>

\* A test event is inserted and sent the same way.
send_test_webhook(p, d) ==
    /\ p \in Apis /\ sender[p] = Free /\ hook = "active"
    /\ d \in Sandbox /\ row[d].status = "none"
    /\ row' = [row EXCEPT ![d] = Inserted]
    /\ sender' = [sender EXCEPT ![p] = Sending({d}, [e \in {d} |-> Inserted], {})]
    /\ UNCHANGED <<hook, decided, received, missed, crashes>>

\* The dashboard sends a sandbox delivery again, whatever its status.
retry_sandbox_webhook(p, d) ==
    /\ p \in Apis /\ sender[p] = Free
    /\ d \in Sandbox /\ row[d].status # "none" /\ row[d].count <= MaxRetried
    /\ sender' = [sender EXCEPT ![p] = Sending({d}, [e \in {d} |-> row[d]], {})]
    /\ UNCHANGED <<hook, row, decided, received, missed, crashes>>

Locked == UNION {sender[w].locked : w \in {v \in Processes : sender[v].stage \in {"sending", "posted"}}}
Eligible == {d \in Deliveries : row[d].status = "pending" /\ row[d].due /\ d \notin Locked}

\* process_webhook_deliveries: a batch of pending rows that are due and unlocked.
Fetch(w) ==
    /\ w \in Workers /\ sender[w] = Free
    /\ \E D \in SUBSET Eligible :
          /\ D # {} /\ Cardinality(D) <= BatchSize
          /\ Cardinality(D) = BatchSize \/ D = Eligible
          /\ sender' = [sender EXCEPT ![w] = Sending(D, [d \in D |-> row[d]], D)]
    /\ UNCHANGED <<hook, row, decided, received, missed, crashes>>

\* Mutant: the attempt is counted only when the receiver answered.
AttemptedUncounted(copy, ok) ==
    IF ok THEN [copy EXCEPT !.status = "delivered", !.count = @ + 1]
    ELSE [copy EXCEPT !.status = "pending", !.due = FALSE]

\* Mutant: the response is not checked for an error status.
AttemptedAlways(copy, ok) == [copy EXCEPT !.status = "delivered", !.count = @ + 1]

\* What one attempt makes of the copy.
Attempted(copy, ok) ==
    IF ok THEN [copy EXCEPT !.status = "delivered", !.count = @ + 1]
    ELSE IF copy.count + 1 >= MaxAttempts
         THEN [copy EXCEPT !.status = "failed", !.count = @ + 1]
         ELSE [copy EXCEPT !.status = "pending", !.due = FALSE, !.count = @ + 1]

\* _send_delivery up to its commit: the receiver answers 2xx or it does not.
Post(p, d, ok) ==
    /\ sender[p].stage = "sending" /\ d \in sender[p].todo
    /\ received' = IF ok THEN received \cup {d} ELSE received
    /\ sender' = [sender EXCEPT ![p].stage = "posted", ![p].todo = @ \ {d},
                                ![p].edited[d] = Attempted(@, ok)]
    /\ UNCHANGED <<hook, row, decided, missed, crashes>>

\* A worker finds the endpoint unusable: the copy is failed, without a commit yet.
Unusable(w, d) ==
    /\ w \in Workers /\ sender[w].stage = "sending" /\ d \in sender[w].todo
    /\ sender' = [sender EXCEPT ![w].todo = @ \ {d}, ![w].edited[d].status = "failed"]
    /\ UNCHANGED <<hook, row, decided, received, missed, crashes>>

\* The commit writes what changed in every copy of the session and releases its
\* locks; the worker goes on with the copies it has (expire_on_commit is off).
CommitSend(p) ==
    /\ sender[p].stage = "posted" \/ (sender[p].stage = "sending" /\ sender[p].todo = {})
    /\ LET copies == sender[p].edited IN
          row' = [d \in Deliveries |->
                    IF d \in DOMAIN copies THEN Flush(row[d], sender[p].loaded[d], copies[d]) ELSE row[d]]
    /\ sender' = [sender EXCEPT ![p] =
                    IF @.todo = {} THEN Free
                    ELSE Sending(@.todo, [d \in @.todo |-> @.edited[d]], {})]
    /\ UNCHANGED <<hook, decided, received, missed, crashes>>

\* A process dies: its transaction rolls back and its copies are gone.
Crash(p) ==
    /\ sender[p] # Free /\ crashes < MaxCrashes
    /\ sender' = [sender EXCEPT ![p] = Free]
    /\ crashes' = crashes + 1
    /\ UNCHANGED <<hook, row, decided, received, missed>>

\* What a process does without a client: send what it has, record it, or fetch.
SendStep(p) ==
    \/ CommitSend(p) \/ Fetch(p)
    \/ \E d \in Deliveries, ok \in BOOLEAN : Post(p, d, ok)

HookNext ==
    \/ configure_webhook
    \/ \E d \in Deliveries : BecomesDue(d)
    \/ \E p \in Apis, d \in Deliveries :
          DecideRequest(p, d) \/ send_test_webhook(p, d) \/ retry_sandbox_webhook(p, d)
    \/ \E p \in Apis : deliver_decision_webhook(p) \/ Undeliverable(p)
    \/ \E w \in Workers, d \in Deliveries : Unusable(w, d)
    \/ \E p \in Processes : SendStep(p) \/ Crash(p)

HookSpec == HookInit /\ [][HookNext]_hookVars

\* A worker loops for ever (main), time passes, and an HTTP call returns within its
\* timeout; nothing makes clients or the receiver do anything.
HookFairness ==
    /\ \A d \in Deliveries : WF_hookVars(BecomesDue(d))
    /\ \A p \in Processes : WF_hookVars(SendStep(p))

(***************************************************************************)
(* Properties.                                                             *)
(***************************************************************************)
\* Rows and copies have their types.
HookTypeOK ==
    /\ hook \in {"none", "active"}
    /\ row \in [Deliveries -> Row]
    /\ decided \subseteq Deliveries /\ received \subseteq Deliveries
    /\ \A p \in Processes : sender[p].stage \in {"idle", "decided", "sending", "posted"}
    /\ \A p \in Processes : sender[p].stage \in {"sending", "posted"} =>
          /\ sender[p].todo \subseteq DOMAIN sender[p].edited
          /\ \A d \in DOMAIN sender[p].edited : sender[p].edited[d] \in Row

\* The commits and crashes of several senders of one delivery may interleave in any
\* way: a production row that is pending still has an attempt left, so it is never
\* stuck, and no production row counts more than MaxAttempts attempts.
AttemptsLeft ==
    \A d \in Deliveries \ Sandbox :
        /\ row[d].count <= MaxAttempts
        /\ row[d].status = "pending" => row[d].count < MaxAttempts

\* A committed decision has its row, unless its process is still at it, found no
\* usable endpoint, or crashed between the two commits (api/authorization_requests.py
\* commits the decision first): a decision is lost by nothing else.
OnlyCrashLoses ==
    \A d \in decided :
        \/ row[d].status # "none" \/ d \in missed \/ crashes > 0
        \/ \E p \in Apis : sender[p].stage = "decided" /\ sender[p].delivery = d

\* A webhook has its attempts: however the commits and crashes of its senders interleave,
\* a pending row has an attempt left, and a decision lacks its row only after a crash.
WebhooksHold == HookTypeOK /\ AttemptsLeft /\ OnlyCrashLoses

\* A production delivery is queued, and it is settled.
Queued(d) == d \notin Sandbox /\ row[d].status = "pending"
Settled(d) == row[d].status \in {"delivered", "failed"}

\* The rows implement the abstract outbox: whatever a sender does with its copies, an
\* outcome changes only when a sender reports, "delivered" is backed by an answer of
\* the receiver, and a production delivery is not queued a second time.
AbstractSenders ==
    [d \in Deliveries |->
       Cardinality({p \in Processes : sender[p].stage \in {"sending", "posted"}
                                      /\ d \in DOMAIN sender[p].edited})]
AbstractOutbox == INSTANCE Outbox WITH
    phase <- [d \in Deliveries |-> row[d].status],
    accepted <- received,
    senders <- AbstractSenders
ImplementsOutbox == AbstractOutbox!OutboxSpec
=============================================================================
