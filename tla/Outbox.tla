------------------------------- MODULE Outbox -------------------------------
(***************************************************************************)
(* What the webhook subsystem promises: at-least-once delivery from a      *)
(* table.  A delivery that was queued is taken by senders, several at a    *)
(* time perhaps; its recorded outcome changes only when a sender that took *)
(* it reports, and "delivered" is recorded only once the receiver accepted *)
(* it.  A production delivery is never queued again after an outcome; one  *)
(* sent from the sandbox may be.                                           *)
(***************************************************************************)
EXTENDS Naturals

CONSTANTS Deliveries, Sandbox

VARIABLES phase, accepted, senders
outboxVars == <<phase, accepted, senders>>

OutboxInit ==
    /\ phase = [d \in Deliveries |-> "none"]
    /\ accepted = {}
    /\ senders = [d \in Deliveries |-> 0]

Enqueue(d) ==
    /\ phase[d] = "none"
    /\ phase' = [phase EXCEPT ![d] = "pending"]
    /\ UNCHANGED accepted
    /\ senders' \in {senders, [senders EXCEPT ![d] = @ + 1]}

\* Several deliveries are taken in one step: a worker reads a batch.
Take(D) ==
    /\ D # {} /\ \A d \in D : phase[d] # "none"
    /\ senders' = [d \in Deliveries |-> senders[d] + (IF d \in D THEN 1 ELSE 0)]
    /\ UNCHANGED <<phase, accepted>>

Accept(d) ==
    /\ senders[d] > 0
    /\ accepted' = accepted \cup {d}
    /\ UNCHANGED <<phase, senders>>

MayBecome(d, p) ==
    /\ p = "delivered" => d \in accepted
    /\ p = "pending" => phase[d] = "pending" \/ d \in Sandbox
    /\ p # "none"

\* Senders report the outcome of the deliveries in D and are done with them.
Report(D) ==
    /\ \A d \in D : senders[d] > 0
    /\ phase' \in [Deliveries -> {"none", "pending", "delivered", "failed"}]
    /\ \A d \in Deliveries :
          phase'[d] # phase[d] => d \in D /\ MayBecome(d, phase'[d])
    /\ senders' = [d \in Deliveries |-> senders[d] - (IF d \in D THEN 1 ELSE 0)]
    /\ UNCHANGED accepted

\* A sender dies: nobody reports.
Abandon(D) ==
    /\ \A d \in D : senders[d] > 0
    /\ senders' = [d \in Deliveries |-> senders[d] - (IF d \in D THEN 1 ELSE 0)]
    /\ UNCHANGED <<phase, accepted>>

OutboxNext ==
    \/ \E d \in Deliveries : Enqueue(d) \/ Accept(d)
    \/ \E D \in SUBSET Deliveries : Take(D) \/ Report(D) \/ Abandon(D)

OutboxSpec == OutboxInit /\ [][OutboxNext]_outboxVars
=============================================================================
