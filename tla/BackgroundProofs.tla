--------------------------- MODULE BackgroundProofs --------------------------
(***************************************************************************)
(* What the background delivers, for any number of senders, rows, requests *)
(* and crashes: webhooks, messages through the ATP gateway, notifications, *)
(* and the control plane of an enterprise gateway with its sidecar.        *)
(*                                                                         *)
(* Webhooks: a webhook has its attempts (WebhooksHold), and the rows       *)
(* implement the outbox (ImplementsOutbox), whatever senders hold stale    *)
(* copies of the same row and wherever processes die.  Both rest on what   *)
(* is known of a copy at its commit, when the row may have moved on        *)
(* (CopyOK): a production copy was loaded while its row was pending and    *)
(* had an attempt left, so the only status its commit can write is an      *)
(* outcome; "delivered" is in a copy only after the receiver answered; and *)
(* the copies still to be sent are as they were loaded.                    *)
(*                                                                         *)
(* AtpPipeline: what a relay still knows of its message at each step of    *)
(* the pipeline, whatever other relays have committed (RoutesOK).          *)
(*                                                                         *)
(* Notifications: what a locked batch knows of its rows (LockOK), what was *)
(* sent and not yet recorded (SentOK), and the registrations of devices    *)
(* that have counted and not yet inserted (CapOK).                         *)
(***************************************************************************)
EXTENDS Background, Sidecar, FiniteSetTheorems, SequenceTheorems,
        WellFoundedInduction, TLAPS

CopyRec ==
    [stage : {"sending", "posted"}, todo : SUBSET Deliveries,
     loaded : UNION {[D -> Row] : D \in SUBSET Deliveries},
     edited : UNION {[D -> Row] : D \in SUBSET Deliveries}, locked : SUBSET Deliveries]
DecidedRec == [stage : {"decided"}, delivery : Deliveries]
SenderRec == {Free} \cup DecidedRec \cup CopyRec

Copying(p) == sender[p].stage \in {"sending", "posted"}
AttemptLeft(r) == r.count <= MaxAttempts /\ (r.status = "pending" => r.count < MaxAttempts)

StateOK ==
    /\ hook \in {"none", "active"}
    /\ row \in [Deliveries -> Row]
    /\ decided \subseteq Deliveries /\ received \subseteq Deliveries
    /\ crashes \in Nat
    /\ sender \in [Processes -> SenderRec]

\* A row is there after its decision only, and delivered after an answer only.
RowOK(d) ==
    /\ row[d].status # "none" => d \in decided \cup Sandbox
    /\ row[d].status = "delivered" => d \in received
    /\ d \notin Sandbox => AttemptLeft(row[d])

\* A decision whose webhook comes next has no row, and one process that is at it.
DecidedOK(p) ==
    sender[p].stage = "decided" =>
        /\ sender[p].delivery \in decided \ Sandbox
        /\ row[sender[p].delivery].status = "none"
        /\ \A q \in Processes :
              sender[q].stage = "decided" /\ sender[q].delivery = sender[p].delivery => q = p

\* One copy, as loaded and as edited, of a row that is there.
CopyOK(d, old, new) ==
    /\ row[d].status # "none" /\ new.status # "none"
    /\ new.status = "delivered" => d \in received
    /\ d \notin Sandbox => old.status = "pending" /\ AttemptLeft(new)

CopiesOK(p) ==
    Copying(p) =>
        /\ DOMAIN sender[p].loaded = DOMAIN sender[p].edited
        /\ sender[p].todo \subseteq DOMAIN sender[p].edited
        /\ \A d \in DOMAIN sender[p].edited :
              CopyOK(d, sender[p].loaded[d], sender[p].edited[d])
        /\ \A d \in sender[p].todo : sender[p].edited[d] = sender[p].loaded[d]

HookInv ==
    /\ StateOK
    /\ \A d \in Deliveries : RowOK(d)
    /\ \A p \in Processes : DecidedOK(p) /\ CopiesOK(p)
    /\ OnlyCrashLoses

-----------------------------------------------------------------------------
\* The shapes a sender may have.
LEMMA Shapes ==
    ASSUME NEW s \in SenderRec
    PROVE  /\ s.stage \in {"idle", "decided", "sending", "posted"}
           /\ s.stage = "idle" <=> s = Free
           /\ s.stage = "decided" => s \in DecidedRec
           /\ s.stage \in {"sending", "posted"} => s \in CopyRec
BY DEF SenderRec, DecidedRec, CopyRec, Free

\* The copies of a sender are rows.
LEMMA CopiesTyped ==
    ASSUME NEW s \in CopyRec
    PROVE  /\ DOMAIN s.edited \subseteq Deliveries /\ s.edited \in [DOMAIN s.edited -> Row]
           /\ DOMAIN s.loaded \subseteq Deliveries /\ s.loaded \in [DOMAIN s.loaded -> Row]
           /\ s.todo \subseteq Deliveries
BY DEF CopyRec

\* Copies that are loaded together make a sender.
LEMMA SendingTyped ==
    ASSUME NEW D \in SUBSET Deliveries, NEW f \in [D -> Row], NEW L \in SUBSET Deliveries
    PROVE  Sending(D, f, L) \in CopyRec
<1>1. f \in UNION {[E -> Row] : E \in SUBSET Deliveries}
  OBVIOUS
<1> QED  BY <1>1 DEF Sending, CopyRec

\* What is known of a process that does not move, while no row disappears.
LEMMA Unmoved ==
    ASSUME NEW q \in Processes, sender'[q] = sender[q], CopiesOK(q), StateOK,
           \A d \in Deliveries : row[d].status # "none" => row'[d].status # "none",
           received \subseteq received'
    PROVE  CopiesOK(q)'
<1> SUFFICES ASSUME Copying(q)'
             PROVE  CopiesOK(q)'
  BY DEF CopiesOK
<1>1. sender[q] \in CopyRec /\ Copying(q)
  BY Shapes DEF StateOK, Copying
<1>2. DOMAIN sender[q].edited \subseteq Deliveries
  BY <1>1, CopiesTyped
<1>3. \A d \in DOMAIN sender[q].edited : CopyOK(d, sender[q].loaded[d], sender[q].edited[d])'
  BY <1>1, <1>2 DEF CopiesOK, CopyOK
<1> QED  BY <1>1, <1>3 DEF CopiesOK

\* The invariant holds before the first decision.
LEMMA HookInitOK == HookInit => HookInv
<1> SUFFICES ASSUME HookInit  PROVE HookInv
  OBVIOUS
<1>1. StateOK
  BY DEF HookInit, StateOK, Row, NoRow, SenderRec
<1>2. \A d \in Deliveries : RowOK(d)
  BY AttemptsAssumption DEF HookInit, RowOK, NoRow, AttemptLeft
<1>3. \A p \in Processes : sender[p].stage = "idle"
  BY DEF HookInit, Free
<1>4. \A p \in Processes : DecidedOK(p) /\ CopiesOK(p)
  BY <1>3 DEF DecidedOK, CopiesOK, Copying
<1>5. OnlyCrashLoses
  BY DEF HookInit, OnlyCrashLoses
<1> QED  BY <1>1, <1>2, <1>4, <1>5 DEF HookInv

\* configure_webhook, and the passing of time: no row gets or loses a status.
LEMMA ConfigureOK == HookInv /\ configure_webhook => HookInv'
<1> SUFFICES ASSUME HookInv, configure_webhook  PROVE HookInv'
  OBVIOUS
<1>1. StateOK' /\ \A d \in Deliveries : RowOK(d)'
  BY DEF HookInv, StateOK, RowOK, configure_webhook
<1>2. \A p \in Processes : DecidedOK(p)' /\ CopiesOK(p)'
  BY DEF HookInv, DecidedOK, CopiesOK, CopyOK, Copying, configure_webhook
<1>3. OnlyCrashLoses'
  BY DEF HookInv, OnlyCrashLoses, configure_webhook
<1> QED  BY <1>1, <1>2, <1>3 DEF HookInv

LEMMA BecomesDueOK ==
    ASSUME HookInv, NEW d \in Deliveries, BecomesDue(d)
    PROVE  HookInv'
<1>1. /\ row' \in [Deliveries -> Row]
      /\ \A e \in Deliveries : row'[e].status = row[e].status /\ row'[e].count = row[e].count
  BY DEF HookInv, StateOK, BecomesDue, Row
<1>2. StateOK' /\ \A e \in Deliveries : RowOK(e)'
  BY <1>1 DEF HookInv, StateOK, RowOK, AttemptLeft, BecomesDue
<1>3. ASSUME NEW p \in Processes  PROVE DecidedOK(p)' /\ CopiesOK(p)'
  <2>1. DecidedOK(p)'
    BY <1>1, Shapes DEF HookInv, StateOK, DecidedOK, BecomesDue
  <2>2. sender'[p] = sender[p] /\ received' = received /\ CopiesOK(p) /\ StateOK
    BY DEF HookInv, BecomesDue
  <2> QED  BY <1>1, <2>1, <2>2, Unmoved
<1>4. OnlyCrashLoses'
  BY <1>1 DEF HookInv, StateOK, OnlyCrashLoses, BecomesDue
<1> QED  BY <1>2, <1>3, <1>4 DEF HookInv

\* The decision of d is committed by a process that was free.
LEMMA DecideRequestOK ==
    ASSUME HookInv, NEW p \in Apis, NEW d \in Deliveries, DecideRequest(p, d)
    PROVE  HookInv'
<1>1. /\ p \in Processes /\ [stage |-> "decided", delivery |-> d] \in SenderRec
      /\ sender'[p] = [stage |-> "decided", delivery |-> d]
      /\ \A q \in Processes \ {p} : sender'[q] = sender[q]
      /\ row' = row /\ received' = received /\ missed' = missed /\ crashes' = crashes
      /\ d \notin decided /\ d \notin Sandbox /\ decided' = decided \cup {d}
  BY DEF HookInv, StateOK, DecideRequest, Processes, SenderRec, DecidedRec
<1>2. StateOK'
  BY <1>1 DEF HookInv, StateOK, DecideRequest
<1>3. \A e \in Deliveries : RowOK(e)'
  BY <1>1 DEF HookInv, RowOK, AttemptLeft
<1>4. row[d].status = "none"
  BY <1>1 DEF HookInv, RowOK
<1>5. \A q \in Processes \ {p} : sender[q].stage = "decided" => sender[q].delivery # d
  BY <1>1 DEF HookInv, DecidedOK
<1>6. ASSUME NEW q \in Processes  PROVE DecidedOK(q)'
  <2>1. CASE q = p
    BY <1>1, <1>4, <1>5, <2>1 DEF DecidedOK
  <2>2. CASE q # p
    BY <1>1, <1>5, <2>2 DEF HookInv, DecidedOK
  <2> QED  BY <2>1, <2>2
<1>7. ASSUME NEW q \in Processes  PROVE CopiesOK(q)'
  <2>1. CASE q = p
    BY <1>1, <2>1 DEF CopiesOK, Copying
  <2>2. CASE q # p
    BY <1>1, <2>2, Unmoved DEF HookInv
  <2> QED  BY <2>1, <2>2
<1>8. OnlyCrashLoses'
  <2> SUFFICES ASSUME NEW e \in decided', row[e].status = "none", e \notin missed, ~(crashes > 0)
               PROVE  \E q \in Apis : sender'[q].stage = "decided" /\ sender'[q].delivery = e
    BY <1>1 DEF OnlyCrashLoses
  <2>1. CASE e = d
    BY <1>1, <2>1
  <2>2. CASE e # d
    <3>1. PICK q \in Apis : sender[q].stage = "decided" /\ sender[q].delivery = e
      BY <1>1, <2>2 DEF HookInv, OnlyCrashLoses
    <3>2. q # p
      BY <3>1 DEF DecideRequest, Free
    <3> QED  BY <1>1, <3>1, <3>2 DEF Processes
  <2> QED  BY <2>1, <2>2
<1> QED  BY <1>2, <1>3, <1>6, <1>7, <1>8 DEF HookInv

\* A row comes into being, pending, and p holds a copy of it: no other process has one.
LEMMA InsertOK ==
    ASSUME HookInv, NEW p \in Processes, NEW d \in Deliveries,
           d \in decided \cup Sandbox, row[d].status = "none",
           \A q \in Processes \ {p} : sender[q].stage = "decided" => sender[q].delivery # d,
           row' = [row EXCEPT ![d] = Inserted],
           sender' = [sender EXCEPT ![p] = Sending({d}, [e \in {d} |-> Inserted], {})],
           UNCHANGED <<hook, decided, received, missed, crashes>>,
           sender[p].stage = "decided" => sender[p].delivery = d
    PROVE  HookInv'
<1>1. Inserted \in Row /\ [e \in {d} |-> Inserted] \in [{d} -> Row]
  BY DEF Inserted, Row
<1>2. Sending({d}, [e \in {d} |-> Inserted], {}) \in SenderRec
  BY <1>1, SendingTyped DEF SenderRec
<1>3. /\ sender'[p] = Sending({d}, [e \in {d} |-> Inserted], {})
      /\ \A q \in Processes \ {p} : sender'[q] = sender[q]
      /\ row'[d] = Inserted /\ \A e \in Deliveries \ {d} : row'[e] = row[e]
  BY DEF HookInv, StateOK
<1>4. StateOK'
  BY <1>1, <1>2 DEF HookInv, StateOK
<1>5. \A e \in Deliveries : RowOK(e)'
  BY <1>3, AttemptsAssumption DEF HookInv, RowOK, Inserted, AttemptLeft
<1>6. ASSUME NEW q \in Processes  PROVE DecidedOK(q)'
  <2>1. CASE q = p
    BY <1>3, <2>1 DEF DecidedOK, Sending
  <2>2. CASE q # p
    <3> SUFFICES ASSUME sender'[q].stage = "decided"  PROVE DecidedOK(q)'
      BY DEF DecidedOK
    <3>1. sender[q].delivery \in Deliveries \ {d} /\ sender'[q] = sender[q]
      BY <1>3, <2>2, Shapes DEF HookInv, StateOK, DecidedRec
    <3>2. \A r \in Processes : sender'[r].stage = "decided" => r # p /\ sender'[r] = sender[r]
      BY <1>3 DEF Sending
    <3>3. DecidedOK(q) /\ row'[sender[q].delivery] = row[sender[q].delivery]
      BY <1>3, <3>1 DEF HookInv
    <3> QED  BY <3>1, <3>2, <3>3 DEF DecidedOK
  <2> QED  BY <2>1, <2>2
<1>7. ASSUME NEW q \in Processes  PROVE CopiesOK(q)'
  <2>1. CASE q = p
    <3>1. row'[d].status # "none" /\ Inserted.status = "pending" /\ AttemptLeft(Inserted)
      BY <1>3, AttemptsAssumption DEF Inserted, AttemptLeft
    <3>2. /\ sender'[p].edited = [e \in {d} |-> Inserted] /\ sender'[p].loaded = [e \in {d} |-> Inserted]
          /\ sender'[p].todo = {d}
      BY <1>3 DEF Sending
    <3>3. \A e \in {d} : CopyOK(e, sender[p].loaded[e], sender[p].edited[e])'
      BY <3>1, <3>2 DEF CopyOK
    <3> QED  BY <2>1, <3>2, <3>3 DEF CopiesOK
  <2>2. CASE q # p
    <3>1. \A e \in Deliveries : row[e].status # "none" => row'[e].status # "none"
      BY <1>3
    <3> QED  BY <1>3, <2>2, <3>1, Unmoved DEF HookInv
  <2> QED  BY <2>1, <2>2
<1>8. OnlyCrashLoses'
  <2> SUFFICES ASSUME NEW e \in decided, row'[e].status = "none", e \notin missed, ~(crashes > 0)
               PROVE  \E q \in Apis : sender'[q].stage = "decided" /\ sender'[q].delivery = e
    BY DEF OnlyCrashLoses
  <2>1. e \in Deliveries \ {d}
    BY <1>3 DEF HookInv, StateOK, Inserted
  <2>2. PICK q \in Apis : sender[q].stage = "decided" /\ sender[q].delivery = e
    BY <1>3, <2>1 DEF HookInv, OnlyCrashLoses
  <2>3. q # p
    BY <2>1, <2>2
  <2> QED  BY <1>3, <2>2, <2>3 DEF Processes
<1> QED  BY <1>4, <1>5, <1>6, <1>7, <1>8 DEF HookInv

LEMMA DeliverOK ==
    ASSUME HookInv, NEW p \in Apis, deliver_decision_webhook(p)
    PROVE  HookInv'
<1>1. p \in Processes /\ sender[p].stage = "decided" /\ DecidedOK(p)
  BY DEF HookInv, deliver_decision_webhook, Processes
<1>2. sender[p].delivery \in Deliveries
  BY <1>1, Shapes DEF HookInv, StateOK, DecidedRec
<1>3. /\ sender[p].delivery \in decided \cup Sandbox /\ row[sender[p].delivery].status = "none"
      /\ \A q \in Processes \ {p} :
            sender[q].stage = "decided" => sender[q].delivery # sender[p].delivery
  BY <1>1 DEF DecidedOK
<1> QED  BY <1>1, <1>2, <1>3, InsertOK DEF deliver_decision_webhook

LEMMA SendTestOK ==
    ASSUME HookInv, NEW p \in Apis, NEW d \in Deliveries, send_test_webhook(p, d)
    PROVE  HookInv'
<1>1. p \in Processes /\ sender[p].stage # "decided"
  BY DEF send_test_webhook, Processes, Free
<1>2. \A q \in Processes \ {p} : sender[q].stage = "decided" => sender[q].delivery # d
  BY DEF HookInv, DecidedOK, send_test_webhook
<1> QED  BY <1>1, <1>2, InsertOK DEF send_test_webhook

\* A process stops what it is at; a decision it leaves is recorded as missed, or a crash is.
LEMMA QuitOK ==
    ASSUME HookInv, NEW p \in Processes,
           sender' = [sender EXCEPT ![p] = Free],
           UNCHANGED <<hook, row, decided, received>>, crashes' \in Nat,
           \/ crashes' > 0
           \/ /\ crashes' = crashes /\ missed \subseteq missed'
              /\ sender[p].stage = "decided" => sender[p].delivery \in missed'
    PROVE  HookInv'
<1>1. /\ sender'[p] = Free /\ Free.stage = "idle" /\ Free \in SenderRec
      /\ \A q \in Processes \ {p} : sender'[q] = sender[q]
  BY DEF HookInv, StateOK, Free, SenderRec
<1>2. StateOK' /\ \A e \in Deliveries : RowOK(e)'
  BY <1>1 DEF HookInv, StateOK, RowOK
<1>3. ASSUME NEW q \in Processes  PROVE DecidedOK(q)' /\ CopiesOK(q)'
  <2>1. CASE q = p
    BY <1>1, <2>1 DEF DecidedOK, CopiesOK, Copying
  <2>2. CASE q # p
    <3>1. DecidedOK(q)'
      BY <1>1, <2>2 DEF HookInv, DecidedOK
    <3> QED  BY <1>1, <2>2, <3>1, Unmoved DEF HookInv
  <2> QED  BY <2>1, <2>2
<1>4. OnlyCrashLoses'
  <2> SUFFICES ASSUME NEW e \in decided, row[e].status = "none", e \notin missed', ~(crashes' > 0)
               PROVE  \E q \in Apis : sender'[q].stage = "decided" /\ sender'[q].delivery = e
    BY DEF OnlyCrashLoses
  <2>1. PICK q \in Apis : sender[q].stage = "decided" /\ sender[q].delivery = e
    BY DEF HookInv, OnlyCrashLoses
  <2>2. q # p
    BY <2>1
  <2> QED  BY <1>1, <2>1, <2>2 DEF Processes
<1> QED  BY <1>2, <1>3, <1>4 DEF HookInv

LEMMA UndeliverableOK ==
    ASSUME HookInv, NEW p \in Apis, Undeliverable(p)
    PROVE  HookInv'
<1>1. p \in Processes /\ crashes' \in Nat
  BY DEF HookInv, StateOK, Undeliverable, Processes
<1> QED  BY <1>1, QuitOK DEF Undeliverable

LEMMA CrashOK ==
    ASSUME HookInv, NEW p \in Processes, Crash(p)
    PROVE  HookInv'
<1>1. crashes' \in Nat /\ crashes' > 0
  BY DEF HookInv, StateOK, Crash
<1> QED  BY <1>1, QuitOK DEF Crash

\* A process that was not at a decision goes on to copies s that are in order: no row changes.
LEMMA CopyStepOK ==
    ASSUME HookInv, NEW p \in Processes, NEW s \in CopyRec,
           sender[p].stage # "decided",
           sender' = [sender EXCEPT ![p] = s],
           UNCHANGED <<hook, row, decided, missed, crashes>>,
           received \subseteq received', received' \subseteq Deliveries,
           CopiesOK(p)'
    PROVE  HookInv'
<1>1. /\ sender'[p] = s /\ s.stage # "decided" /\ s \in SenderRec
      /\ \A q \in Processes \ {p} : sender'[q] = sender[q]
  BY DEF HookInv, StateOK, CopyRec, SenderRec
<1>2. StateOK' /\ \A e \in Deliveries : RowOK(e)'
  BY <1>1 DEF HookInv, StateOK, RowOK
<1>3. ASSUME NEW q \in Processes  PROVE DecidedOK(q)' /\ CopiesOK(q)'
  <2>1. CASE q = p
    BY <1>1, <2>1 DEF DecidedOK
  <2>2. CASE q # p
    <3>1. DecidedOK(q)'
      BY <1>1, <2>2 DEF HookInv, DecidedOK
    <3> QED  BY <1>1, <2>2, <3>1, Unmoved DEF HookInv
  <2> QED  BY <2>1, <2>2
<1>4. OnlyCrashLoses'
  <2> SUFFICES ASSUME NEW e \in decided, row[e].status = "none", e \notin missed, ~(crashes > 0)
               PROVE  \E q \in Apis : sender'[q].stage = "decided" /\ sender'[q].delivery = e
    BY DEF OnlyCrashLoses
  <2>1. PICK q \in Apis : sender[q].stage = "decided" /\ sender[q].delivery = e
    BY DEF HookInv, OnlyCrashLoses
  <2>2. q # p
    BY <2>1
  <2> QED  BY <1>1, <2>1, <2>2 DEF Processes
<1> QED  BY <1>2, <1>3, <1>4 DEF HookInv

\* Rows are loaded; the production ones are pending.
LEMMA LoadOK ==
    ASSUME HookInv, NEW p \in Processes, NEW D \in SUBSET Deliveries, NEW L \in SUBSET Deliveries,
           sender[p].stage # "decided",
           \A d \in D : row[d].status # "none" /\ (d \notin Sandbox => row[d].status = "pending"),
           sender' = [sender EXCEPT ![p] = Sending(D, [d \in D |-> row[d]], L)],
           UNCHANGED <<hook, row, decided, received, missed, crashes>>
    PROVE  HookInv'
<1> DEFINE s == Sending(D, [d \in D |-> row[d]], L)
<1>1. s \in CopyRec
  BY SendingTyped DEF HookInv, StateOK
<1>2. /\ sender'[p] = s /\ s.loaded = [d \in D |-> row[d]] /\ s.edited = [d \in D |-> row[d]] /\ s.todo = D
  BY DEF HookInv, StateOK, Sending
<1>4. CopiesOK(p)'
  <2>1. \A d \in D : CopyOK(d, sender[p].loaded[d], sender[p].edited[d])'
    BY <1>2 DEF HookInv, RowOK, CopyOK
  <2> QED  BY <1>2, <2>1 DEF CopiesOK
<1>5. received \subseteq received' /\ received' \subseteq Deliveries
  BY DEF HookInv, StateOK
<1> QED  BY <1>1, <1>4, <1>5, CopyStepOK

LEMMA RetryOK ==
    ASSUME HookInv, NEW p \in Apis, NEW d \in Deliveries, retry_sandbox_webhook(p, d)
    PROVE  HookInv'
<1>1. p \in Processes /\ sender[p].stage # "decided"
  BY DEF retry_sandbox_webhook, Processes, Free
<1>2. \A e \in {d} : row[e].status # "none" /\ (e \notin Sandbox => row[e].status = "pending")
  BY DEF retry_sandbox_webhook
<1>3. [e \in {d} |-> row[d]] = [e \in {d} |-> row[e]]
  OBVIOUS
<1>4. /\ sender' = [sender EXCEPT ![p] = Sending({d}, [e \in {d} |-> row[e]], {})]
      /\ UNCHANGED <<hook, row, decided, received, missed, crashes>>
  BY <1>3 DEF retry_sandbox_webhook
<1>5. {d} \in SUBSET Deliveries /\ {} \in SUBSET Deliveries
  OBVIOUS
<1> QED  BY <1>1, <1>2, <1>4, <1>5, LoadOK

LEMMA FetchOK ==
    ASSUME HookInv, NEW w \in Processes, Fetch(w)
    PROVE  HookInv'
<1>1. sender[w].stage # "decided"
  BY DEF Fetch, Free
<1>2. PICK D \in SUBSET Eligible : sender' = [sender EXCEPT ![w] = Sending(D, [d \in D |-> row[d]], D)]
  BY DEF Fetch
<1>3. D \subseteq Deliveries /\ \A d \in D : row[d].status = "pending"
  BY DEF Eligible
<1>4. \A d \in D : row[d].status # "none" /\ (d \notin Sandbox => row[d].status = "pending")
  BY <1>3
<1> QED  BY <1>1, <1>2, <1>3, <1>4, LoadOK DEF Fetch

\* What _send_delivery makes of a copy.
LEMMA AttemptedFacts ==
    ASSUME NEW c \in Row, NEW ok \in BOOLEAN
    PROVE  /\ Attempted(c, ok) \in Row
           /\ Attempted(c, ok).status # "none"
           /\ Attempted(c, FALSE).status # "delivered"
           /\ c.count < MaxAttempts => AttemptLeft(Attempted(c, ok))
<1> DEFINE Fact(x) == /\ x \in Row /\ x.status # "none"
                      /\ c.count < MaxAttempts => AttemptLeft(x)
           Answered == [c EXCEPT !.status = "delivered", !.count = @ + 1]
           Last == [c EXCEPT !.status = "failed", !.count = @ + 1]
           Again == [c EXCEPT !.status = "pending", !.due = FALSE, !.count = @ + 1]
<1>1. c.count \in Nat /\ c.status \in {"none", "pending", "delivered", "failed"} /\ c.due \in BOOLEAN
  BY DEF Row
<1>2. c.count + 1 \in Nat /\ MaxAttempts \in Nat
  BY <1>1, AttemptsAssumption
<1>3. /\ Answered \in Row /\ Answered.status = "delivered" /\ Answered.count = c.count + 1
      /\ Last \in Row /\ Last.status = "failed" /\ Last.count = c.count + 1
      /\ Again \in Row /\ Again.status = "pending" /\ Again.count = c.count + 1
  BY <1>2 DEF Row
<1> HIDE DEF Answered, Last, Again
<1>4. Fact(Answered) /\ Fact(Last)
  BY <1>1, <1>2, <1>3 DEF AttemptLeft
<1>5. ~(c.count + 1 >= MaxAttempts) => Fact(Again)
  BY <1>1, <1>2, <1>3 DEF AttemptLeft
<1>6. /\ Attempted(c, TRUE) = Answered
      /\ Attempted(c, FALSE) = IF c.count + 1 >= MaxAttempts THEN Last ELSE Again
  BY DEF Attempted, Answered, Last, Again
<1>7. ok = TRUE \/ ok = FALSE
  OBVIOUS
<1>8. Fact(Attempted(c, TRUE)) /\ Fact(Attempted(c, FALSE)) /\ Attempted(c, FALSE).status # "delivered"
  BY <1>4, <1>5, <1>3, <1>6
<1> QED  BY <1>7, <1>8

\* A sender edits its copy of d to c and has it no longer to send.
LEMMA EditOK ==
    ASSUME HookInv, NEW p \in Processes, NEW d \in Deliveries, NEW c \in Row, NEW st \in {"sending", "posted"},
           sender[p].stage = "sending", d \in sender[p].todo,
           received' = received \/ received' = received \cup {d},
           c.status # "none", c.status = "delivered" => d \in received',
           d \notin Sandbox => AttemptLeft(c),
           sender' = [sender EXCEPT ![p] = [sender[p] EXCEPT !.stage = st, !.todo = @ \ {d},
                                                            !.edited = [@ EXCEPT ![d] = c]]],
           UNCHANGED <<hook, row, decided, missed, crashes>>
    PROVE  HookInv'
<1> DEFINE old == sender[p]
           new == [old EXCEPT !.stage = st, !.todo = @ \ {d}, !.edited = [@ EXCEPT ![d] = c]]
           D == DOMAIN old.edited
<1>1. old \in CopyRec /\ Copying(p) /\ CopiesOK(p)
  BY Shapes DEF HookInv, StateOK, Copying
<1>2. /\ D \subseteq Deliveries /\ old.edited \in [D -> Row] /\ old.todo \subseteq D
      /\ DOMAIN old.loaded = D /\ old.loaded \in [D -> Row] /\ d \in D
  BY <1>1, CopiesTyped DEF CopiesOK
<1>3. [old.edited EXCEPT ![d] = c] \in [D -> Row]
  BY <1>2
<1>4. [old.edited EXCEPT ![d] = c] \in UNION {[E -> Row] : E \in SUBSET Deliveries}
  BY <1>2, <1>3
<1>5. /\ new \in CopyRec /\ new.stage = st /\ new.todo = old.todo \ {d} /\ new.loaded = old.loaded
      /\ new.edited = [old.edited EXCEPT ![d] = c]
  BY <1>1, <1>4 DEF CopyRec
<1>6. sender'[p] = new
  BY DEF HookInv, StateOK
<1>7. CopiesOK(p)'
  <2>1. ASSUME NEW e \in D
        PROVE  /\ row[e].status # "none" /\ new.edited[e].status # "none"
               /\ new.edited[e].status = "delivered" => e \in received'
               /\ e \notin Sandbox => new.loaded[e].status = "pending" /\ AttemptLeft(new.edited[e])
    <3>1. CopyOK(e, old.loaded[e], old.edited[e])
      BY <1>1 DEF CopiesOK
    <3>2. CASE e = d
      BY <1>2, <1>5, <3>1, <3>2 DEF CopyOK
    <3>3. CASE e # d
      BY <1>2, <1>5, <3>1, <3>3 DEF CopyOK
    <3> QED  BY <3>2, <3>3
  <2>2. DOMAIN new.edited = D
    BY <1>2, <1>5
  <2>3. \A e \in new.todo : new.edited[e] = new.loaded[e]
    BY <1>1, <1>2, <1>5 DEF CopiesOK
  <2>4. \A e \in D : CopyOK(e, sender[p].loaded[e], sender[p].edited[e])'
    BY <1>6, <2>1 DEF CopyOK
  <2> QED  BY <1>2, <1>5, <1>6, <2>2, <2>3, <2>4 DEF CopiesOK
<1>8. received \subseteq received' /\ received' \subseteq Deliveries
  BY DEF HookInv, StateOK
<1> QED  BY <1>5, <1>7, <1>8, CopyStepOK

\* A copy that is still to be sent, when it is a production one, has an attempt left.
LEMMA TodoFacts ==
    ASSUME HookInv, NEW p \in Processes, NEW d \in Deliveries, sender[p].stage = "sending", d \in sender[p].todo
    PROVE  /\ sender[p] \in CopyRec /\ sender[p].edited[d] \in Row /\ d \in DOMAIN sender[p].edited
           /\ sender[p].edited[d].status # "none"
           /\ d \notin Sandbox => sender[p].edited[d].status = "pending" /\ AttemptLeft(sender[p].edited[d])
<1>1. sender[p] \in CopyRec /\ Copying(p) /\ CopiesOK(p)
  BY Shapes DEF HookInv, StateOK, Copying
<1>2. d \in DOMAIN sender[p].edited /\ sender[p].edited[d] \in Row
  BY <1>1, CopiesTyped DEF CopiesOK
<1> QED  BY <1>1, <1>2 DEF CopiesOK, CopyOK

LEMMA PostOK ==
    ASSUME HookInv, NEW p \in Processes, NEW d \in Deliveries, NEW ok \in BOOLEAN, Post(p, d, ok)
    PROVE  HookInv'
<1> DEFINE c == Attempted(sender[p].edited[d], ok)
<1>1. sender[p].stage = "sending" /\ d \in sender[p].todo
  BY DEF Post
<1>2. c \in Row /\ c.status # "none" /\ (d \notin Sandbox => AttemptLeft(c))
  <2>1. sender[p].edited[d] \in Row
    BY <1>1, TodoFacts
  <2>2. d \notin Sandbox => sender[p].edited[d].count < MaxAttempts
    BY <1>1, TodoFacts DEF AttemptLeft
  <2> QED  BY <2>1, <2>2, AttemptedFacts
<1>3. /\ received' = received \/ received' = received \cup {d}
      /\ c.status = "delivered" => d \in received'
  <2>1. CASE ok = TRUE
    BY <2>1 DEF Post
  <2>2. CASE ok = FALSE
    BY <1>1, <2>2, TodoFacts, AttemptedFacts DEF Post
  <2>3. ok = TRUE \/ ok = FALSE
    OBVIOUS
  <2> QED  BY <2>1, <2>2, <2>3
<1>4. sender' = [sender EXCEPT ![p] = [sender[p] EXCEPT !.stage = "posted", !.todo = @ \ {d},
                                                       !.edited = [@ EXCEPT ![d] = c]]]
  BY <1>1, TodoFacts DEF Post, HookInv, StateOK, CopyRec
<1>5. UNCHANGED <<hook, row, decided, missed, crashes>>
  BY DEF Post
<1> HIDE DEF c
<1>6. "posted" \in {"sending", "posted"} /\ p \in Processes
  OBVIOUS
<1> QED  BY <1>1, <1>2, <1>3, <1>4, <1>5, <1>6, EditOK

LEMMA UnusableOK ==
    ASSUME HookInv, NEW w \in Workers, NEW d \in Deliveries, Unusable(w, d)
    PROVE  HookInv'
<1> DEFINE c == [sender[w].edited[d] EXCEPT !.status = "failed"]
<1>1. w \in Processes /\ sender[w].stage = "sending" /\ d \in sender[w].todo
  BY DEF Unusable, Processes
<1>2. c \in Row /\ c.status = "failed" /\ (d \notin Sandbox => AttemptLeft(c))
  BY <1>1, TodoFacts DEF Row, AttemptLeft
<1>3. sender' = [sender EXCEPT ![w] = [sender[w] EXCEPT !.stage = "sending", !.todo = @ \ {d},
                                                       !.edited = [@ EXCEPT ![d] = c]]]
  BY <1>1, TodoFacts DEF Unusable, HookInv, StateOK, CopyRec
<1> QED  BY <1>1, <1>2, <1>3, EditOK DEF Unusable

\* What a commit writes to a row: the columns that the session changed.
LEMMA FlushFacts ==
    ASSUME NEW r \in Row, NEW old \in Row, NEW new \in Row
    PROVE  /\ Flush(r, old, new) \in Row
           /\ Flush(r, old, new).status = IF new.status = old.status THEN r.status ELSE new.status
           /\ Flush(r, old, new).count = IF new.count = old.count THEN r.count ELSE new.count
<1>1. DOMAIN r = {"status", "count", "due"}
  BY DEF Row
<1>2. Flush(r, old, new) =
        [status |-> IF new.status = old.status THEN r.status ELSE new.status,
         count  |-> IF new.count = old.count THEN r.count ELSE new.count,
         due    |-> IF new.due = old.due THEN r.due ELSE new.due]
  BY <1>1 DEF Flush
<1> QED  BY <1>2 DEF Row

\* A commit leaves every row there, backed by an answer, with an attempt left while pending.
LEMMA CommitRows ==
    ASSUME HookInv, NEW p \in Processes, CommitSend(p)
    PROVE  /\ sender[p] \in CopyRec /\ CopiesOK(p) /\ Copying(p)
           /\ row' \in [Deliveries -> Row]
           /\ \A d \in Deliveries : d \notin DOMAIN sender[p].edited => row'[d] = row[d]
           /\ \A d \in DOMAIN sender[p].edited :
                 /\ d \in Deliveries
                 /\ sender[p].edited[d] \in Row /\ sender[p].loaded[d] \in Row
                 /\ row'[d] = Flush(row[d], sender[p].loaded[d], sender[p].edited[d])
<1>1. Copying(p) /\ sender[p] \in CopyRec /\ CopiesOK(p)
  BY Shapes DEF HookInv, StateOK, Copying, CommitSend
<1>2. \A d \in DOMAIN sender[p].edited :
          d \in Deliveries /\ sender[p].edited[d] \in Row /\ sender[p].loaded[d] \in Row
  BY <1>1, CopiesTyped DEF CopiesOK
<1>3. \A d \in Deliveries :
          row'[d] = IF d \in DOMAIN sender[p].edited
                    THEN Flush(row[d], sender[p].loaded[d], sender[p].edited[d]) ELSE row[d]
  BY DEF CommitSend
<1>4. row' \in [Deliveries -> Row]
  <2>1. \A d \in Deliveries : row[d] \in Row
    BY DEF HookInv, StateOK
  <2>2. \A d \in Deliveries : row'[d] \in Row
    BY <1>2, <1>3, <2>1, FlushFacts
  <2> QED  BY <2>2 DEF CommitSend
<1> QED  BY <1>1, <1>2, <1>3, <1>4

LEMMA CommitOK ==
    ASSUME HookInv, NEW p \in Processes, CommitSend(p)
    PROVE  HookInv'
<1> DEFINE old == sender[p]
           new == IF old.todo = {} THEN Free ELSE Sending(old.todo, [d \in old.todo |-> old.edited[d]], {})
           D == DOMAIN old.edited
<1>1. /\ old \in CopyRec /\ CopiesOK(p) /\ Copying(p)
      /\ UNCHANGED <<hook, decided, received, missed, crashes>>
  BY CommitRows DEF CommitSend
<1>2. old.todo \in SUBSET Deliveries /\ old.todo \subseteq D /\ old.edited \in [D -> Row] /\ D \subseteq Deliveries
  BY <1>1, CopiesTyped DEF CopiesOK
<1>3. new \in SenderRec /\ new.stage # "decided"
  <2>1. [d \in old.todo |-> old.edited[d]] \in [old.todo -> Row]
    BY <1>2
  <2> QED  BY <1>2, <2>1, SendingTyped DEF SenderRec, Free, Sending
<1>4. sender' = [sender EXCEPT ![p] = new]
  BY DEF CommitSend
<1>5. sender'[p] = new /\ \A q \in Processes \ {p} : sender'[q] = sender[q]
  BY <1>4 DEF HookInv, StateOK
<1>6. StateOK'
  BY <1>1, <1>3, <1>4, CommitRows DEF HookInv, StateOK
<1>7. ASSUME NEW d \in D
      PROVE  /\ row'[d].status = IF old.edited[d].status = old.loaded[d].status
                                 THEN row[d].status ELSE old.edited[d].status
             /\ row'[d].count = IF old.edited[d].count = old.loaded[d].count
                                THEN row[d].count ELSE old.edited[d].count
             /\ CopyOK(d, old.loaded[d], old.edited[d]) /\ RowOK(d)
  <2>1. row[d] \in Row
    BY <1>2 DEF HookInv, StateOK
  <2>2. CopyOK(d, old.loaded[d], old.edited[d]) /\ RowOK(d)
    BY <1>1, <1>2 DEF HookInv, CopiesOK
  <2> QED  BY <2>1, <2>2, CommitRows, FlushFacts
<1>8. \A d \in Deliveries : row[d].status # "none" <=> row'[d].status # "none"
  BY <1>7, CommitRows DEF CopyOK
<1>9. ASSUME NEW d \in Deliveries  PROVE RowOK(d)'
  <2>1. CASE d \notin D
    BY <1>1, <2>1, CommitRows DEF HookInv, RowOK
  <2>2. CASE d \in D
    BY <1>1, <1>7, <2>2 DEF RowOK, CopyOK, AttemptLeft
  <2> QED  BY <2>1, <2>2
<1>10. CopiesOK(p)'
  <2>1. CASE old.todo = {}
    BY <1>5, <2>1 DEF CopiesOK, Copying, Free
  <2>2. CASE old.todo # {}
    <3> DEFINE f == [d \in old.todo |-> old.edited[d]]
    <3>1. sender'[p].todo = old.todo /\ sender'[p].loaded = f /\ sender'[p].edited = f
      BY <1>5, <2>2 DEF Sending
    <3>2. ASSUME NEW d \in old.todo
          PROVE  /\ row'[d].status # "none" /\ old.edited[d].status # "none"
                 /\ old.edited[d].status = "delivered" => d \in received'
                 /\ d \notin Sandbox => old.edited[d].status = "pending" /\ AttemptLeft(old.edited[d])
      BY <1>1, <1>2, <1>7, <1>8 DEF CopiesOK, CopyOK
    <3>3. \A d \in DOMAIN f : CopyOK(d, sender[p].loaded[d], sender[p].edited[d])'
      BY <3>1, <3>2 DEF CopyOK
    <3> QED  BY <3>1, <3>3 DEF CopiesOK
  <2> QED  BY <2>1, <2>2
<1>11. ASSUME NEW q \in Processes  PROVE DecidedOK(q)' /\ CopiesOK(q)'
  <2>1. CASE q = p
    BY <1>3, <1>5, <1>10, <2>1 DEF DecidedOK
  <2>2. CASE q # p
    <3>1. CopiesOK(q)'
      BY <1>1, <1>5, <1>8, <2>2, Unmoved DEF HookInv
    <3>2. DecidedOK(q)'
      <4> SUFFICES ASSUME sender'[q].stage = "decided"  PROVE DecidedOK(q)'
        BY DEF DecidedOK
      <4>1. DecidedOK(q) /\ sender'[q] = sender[q] /\ sender[q].delivery \in Deliveries
        BY <1>5, <2>2, Shapes DEF HookInv, StateOK, DecidedRec
      <4>2. \A r \in Processes : sender'[r].stage = "decided" => sender'[r] = sender[r]
        BY <1>3, <1>5
      <4>3. row'[sender[q].delivery].status = "none"
        BY <1>5, <1>8, <2>2, <4>1 DEF DecidedOK
      <4> QED  BY <1>1, <4>1, <4>2, <4>3 DEF DecidedOK
    <3> QED  BY <3>1, <3>2
  <2> QED  BY <2>1, <2>2
<1>12. OnlyCrashLoses'
  <2> SUFFICES ASSUME NEW e \in decided, row'[e].status = "none", e \notin missed, ~(crashes > 0)
               PROVE  \E q \in Apis : sender'[q].stage = "decided" /\ sender'[q].delivery = e
    BY <1>1 DEF OnlyCrashLoses
  <2>1. e \in Deliveries /\ row[e].status = "none"
    BY <1>8 DEF HookInv, StateOK
  <2>2. PICK q \in Apis : sender[q].stage = "decided" /\ sender[q].delivery = e
    BY <2>1 DEF HookInv, OnlyCrashLoses
  <2>3. q # p
    BY <1>1, <2>2 DEF Copying
  <2> QED  BY <1>5, <2>2, <2>3 DEF Processes
<1> QED  BY <1>6, <1>9, <1>11, <1>12 DEF HookInv

\* Every step keeps the invariant.
LEMMA HookNextOK == HookInv /\ [HookNext]_hookVars => HookInv'
<1> SUFFICES ASSUME HookInv, [HookNext]_hookVars  PROVE HookInv'
  OBVIOUS
<1>1. CASE UNCHANGED hookVars
  <2>1. StateOK' /\ (\A d \in Deliveries : RowOK(d)') /\ OnlyCrashLoses'
    BY <1>1 DEF HookInv, StateOK, RowOK, OnlyCrashLoses, hookVars
  <2>2. \A p \in Processes : DecidedOK(p)' /\ CopiesOK(p)'
    BY <1>1 DEF HookInv, DecidedOK, CopiesOK, CopyOK, Copying, hookVars
  <2> QED  BY <2>1, <2>2 DEF HookInv
<1>2. CASE configure_webhook
  BY <1>2, ConfigureOK
<1>3. ASSUME NEW d \in Deliveries, BecomesDue(d)  PROVE HookInv'
  BY <1>3, BecomesDueOK
<1>4. ASSUME NEW p \in Apis, NEW d \in Deliveries,
             DecideRequest(p, d) \/ send_test_webhook(p, d) \/ retry_sandbox_webhook(p, d)
      PROVE  HookInv'
  BY <1>4, DecideRequestOK, SendTestOK, RetryOK
<1>5. ASSUME NEW p \in Apis, deliver_decision_webhook(p) \/ Undeliverable(p)  PROVE HookInv'
  BY <1>5, DeliverOK, UndeliverableOK
<1>6. ASSUME NEW w \in Workers, NEW d \in Deliveries, Unusable(w, d)  PROVE HookInv'
  BY <1>6, UnusableOK
<1>7. ASSUME NEW p \in Processes, SendStep(p) \/ Crash(p)  PROVE HookInv'
  BY <1>7, CommitOK, FetchOK, PostOK, CrashOK DEF SendStep
<1> QED  BY <1>1, <1>2, <1>3, <1>4, <1>5, <1>6, <1>7 DEF HookNext

\* The invariant: types, rows, and what is known of every copy.
THEOREM HookInvariance == HookSpec => []HookInv
<1>1. HookInit => HookInv
  BY HookInitOK
<1>2. HookInv /\ [HookNext]_hookVars => HookInv'
  BY HookNextOK
<1> QED  BY <1>1, <1>2, PTL DEF HookSpec

\* However the commits and crashes of senders interleave, a pending webhook has an attempt
\* left, and a decision lacks its row only after a crash.
THEOREM WebhooksTheorem == HookSpec => []WebhooksHold
<1>1. HookInv => WebhooksHold
  <2> SUFFICES ASSUME HookInv  PROVE WebhooksHold
    OBVIOUS
  <2>1. AttemptsLeft
    BY DEF HookInv, RowOK, AttemptLeft, AttemptsLeft
  <2>2. HookTypeOK
    <3>1. ASSUME NEW p \in Processes
          PROVE  /\ sender[p].stage \in {"idle", "decided", "sending", "posted"}
                 /\ sender[p].stage \in {"sending", "posted"} =>
                      /\ sender[p].todo \subseteq DOMAIN sender[p].edited
                      /\ \A d \in DOMAIN sender[p].edited : sender[p].edited[d] \in Row
      BY Shapes, CopiesTyped DEF HookInv, StateOK, CopiesOK, Copying
    <3> QED  BY <3>1 DEF HookInv, StateOK, HookTypeOK
  <2> QED  BY <2>1, <2>2 DEF HookInv, WebhooksHold
<1> QED  BY <1>1, HookInvariance, PTL

-----------------------------------------------------------------------------
(***************************************************************************)
(* The rows implement the outbox.                                          *)
(***************************************************************************)
Holders(d) ==
    {p \in Processes : sender[p].stage \in {"sending", "posted"} /\ d \in DOMAIN sender[p].edited}
Phase == [d \in Deliveries |-> row[d].status]

\* There are finitely many processes, so the copies of a delivery can be counted.
LEMMA HoldersFinite ==
    ASSUME NEW d
    PROVE  IsFiniteSet(Holders(d)) /\ IsFiniteSet(Holders(d))'
<1>1. IsFiniteSet(Processes)
  BY ProcessesAssumption, FS_Union DEF Processes
<1>2. Holders(d) \in SUBSET Processes /\ Holders(d)' \in SUBSET Processes
  BY DEF Holders
<1> QED  BY <1>1, <1>2, FS_Subset

\* How the number of senders moves when one process does.
LEMMA SendersMove ==
    ASSUME NEW p \in Processes, NEW d \in Deliveries,
           \A q \in Processes \ {p} : sender'[q] = sender[q]
    PROVE  /\ AbstractSenders[d] \in Nat
           /\ p \in Holders(d) => AbstractSenders[d] > 0
           /\ p \in Holders(d) /\ p \in Holders(d)' => AbstractSenders'[d] = AbstractSenders[d]
           /\ p \notin Holders(d) /\ p \notin Holders(d)' => AbstractSenders'[d] = AbstractSenders[d]
           /\ p \notin Holders(d) /\ p \in Holders(d)' => AbstractSenders'[d] = AbstractSenders[d] + 1
           /\ p \in Holders(d) /\ p \notin Holders(d)' => AbstractSenders'[d] = AbstractSenders[d] - 1
<1>1. AbstractSenders[d] = Cardinality(Holders(d)) /\ AbstractSenders'[d] = Cardinality(Holders(d)')
  BY DEF AbstractSenders, Holders
<1>2. \A q \in Processes \ {p} : q \in Holders(d) <=> q \in Holders(d)'
  BY DEF Holders
<1>3. Holders(d) \subseteq Processes /\ Holders(d)' \subseteq Processes
  BY DEF Holders
<1>4. IsFiniteSet(Holders(d)) /\ IsFiniteSet(Holders(d)')
  BY HoldersFinite
<1>5. AbstractSenders[d] \in Nat /\ (p \in Holders(d) => AbstractSenders[d] > 0)
  BY <1>1, <1>4, FS_CardinalityType, FS_EmptySet
<1>6. CASE (p \in Holders(d) /\ p \in Holders(d)') \/ (p \notin Holders(d) /\ p \notin Holders(d)')
  <2>1. Holders(d)' = Holders(d)
    BY <1>2, <1>3, <1>6
  <2> QED  BY <1>1, <1>5, <1>6, <2>1
<1>7. CASE p \notin Holders(d) /\ p \in Holders(d)'
  <2>1. Holders(d)' = Holders(d) \cup {p}
    BY <1>2, <1>3, <1>7
  <2>2. Cardinality(Holders(d)') = Cardinality(Holders(d)) + 1
    BY <1>4, <1>7, <2>1, FS_AddElement
  <2> QED  BY <1>1, <1>5, <1>7, <2>2
<1>8. CASE p \in Holders(d) /\ p \notin Holders(d)'
  <2>1. Holders(d)' = Holders(d) \ {p}
    BY <1>2, <1>3, <1>8
  <2>2. Cardinality(Holders(d)') = Cardinality(Holders(d)) - 1
    BY <1>4, <1>8, <2>1, FS_RemoveElement
  <2> QED  BY <1>1, <1>5, <1>8, <2>2
<1> QED  BY <1>5, <1>6, <1>7, <1>8

\* Before the first decision the outbox is empty.
LEMMA OutboxInitOK == HookInit => AbstractOutbox!OutboxInit
<1> SUFFICES ASSUME HookInit  PROVE AbstractOutbox!OutboxInit
  OBVIOUS
<1>1. \A d \in Deliveries : Holders(d) = {}
  BY DEF HookInit, Holders, Free
<1>2. \A d \in Deliveries : Cardinality(Holders(d)) = 0
  BY <1>1, FS_EmptySet
<1>3. AbstractSenders = [d \in Deliveries |-> 0]
  BY <1>2 DEF AbstractSenders, Holders
<1>4. [d \in Deliveries |-> row[d].status] = [d \in Deliveries |-> "none"]
  BY DEF HookInit, NoRow
<1>5. received = {}
  BY DEF HookInit
<1> QED  BY <1>3, <1>4, <1>5 DEF AbstractOutbox!OutboxInit

\* A step of p that touches no status, no answer and no set of copies is none of the outbox.
LEMMA OutboxStutter ==
    ASSUME NEW p \in Processes, \A q \in Processes \ {p} : sender'[q] = sender[q],
           \A d \in Deliveries : row'[d].status = row[d].status,
           received' = received,
           \A d \in Deliveries : p \in Holders(d) <=> p \in Holders(d)'
    PROVE  UNCHANGED AbstractOutbox!outboxVars
<1>1. \A d \in Deliveries : AbstractSenders'[d] = AbstractSenders[d]
  BY SendersMove
<1>2. AbstractSenders' = AbstractSenders
  BY <1>1 DEF AbstractSenders
<1>3. Phase' = Phase
  BY DEF Phase
<1> QED  BY <1>2, <1>3 DEF AbstractOutbox!outboxVars, Phase

\* A row that comes into being with a copy at p is queued.
LEMMA InsertRefines ==
    ASSUME StateOK, NEW p \in Processes, NEW d \in Deliveries,
           row[d].status = "none", row' = [row EXCEPT ![d] = Inserted],
           sender' = [sender EXCEPT ![p] = Sending({d}, [e \in {d} |-> Inserted], {})],
           sender[p].stage \notin {"sending", "posted"}, received' = received
    PROVE  AbstractOutbox!Enqueue(d)
<1>1. Phase[d] = "none" /\ Phase' = [Phase EXCEPT ![d] = "pending"]
  BY DEF StateOK, Phase, Inserted
<1>2. \A q \in Processes \ {p} : sender'[q] = sender[q]
  BY DEF StateOK
<1>3. sender'[p].stage = "sending" /\ DOMAIN sender'[p].edited = {d}
  BY DEF StateOK, Sending
<1>4. \A e \in Deliveries : p \notin Holders(e) /\ (p \in Holders(e)' <=> e = d)
  BY <1>3 DEF Holders
<1>5. \A e \in Deliveries : AbstractSenders'[e] = IF e = d THEN AbstractSenders[e] + 1 ELSE AbstractSenders[e]
  BY <1>2, <1>4, SendersMove
<1>6. AbstractSenders' = [AbstractSenders EXCEPT ![d] = @ + 1]
  BY <1>5 DEF AbstractSenders
<1> QED  BY <1>1, <1>6 DEF AbstractOutbox!Enqueue, Phase

\* Rows that are loaded are taken by one more sender.
LEMMA LoadRefines ==
    ASSUME StateOK, NEW p \in Processes, NEW D \in SUBSET Deliveries, NEW L,
           D # {}, \A d \in D : row[d].status # "none",
           sender' = [sender EXCEPT ![p] = Sending(D, [d \in D |-> row[d]], L)],
           sender[p].stage \notin {"sending", "posted"}, UNCHANGED <<row, received>>
    PROVE  AbstractOutbox!Take(D)
<1>1. (\A d \in D : Phase[d] # "none") /\ Phase' = Phase
  BY DEF Phase
<1>2. \A q \in Processes \ {p} : sender'[q] = sender[q]
  BY DEF StateOK
<1>3. sender'[p].stage = "sending" /\ DOMAIN sender'[p].edited = D
  BY DEF StateOK, Sending
<1>4. \A e \in Deliveries : p \notin Holders(e) /\ (p \in Holders(e)' <=> e \in D)
  BY <1>3 DEF Holders
<1>5. \A e \in Deliveries : AbstractSenders'[e] = AbstractSenders[e] + (IF e \in D THEN 1 ELSE 0)
  BY <1>2, <1>4, SendersMove
<1>6. AbstractSenders' = [d \in Deliveries |-> AbstractSenders[d] + (IF d \in D THEN 1 ELSE 0)]
  BY <1>5 DEF AbstractSenders
<1> QED  BY <1>1, <1>6 DEF AbstractOutbox!Take, Phase

\* Of the rows of D, p had copies and has none any more; it had no other copies to give up.
LEMMA GiveUp ==
    ASSUME NEW p \in Processes, NEW D \in SUBSET Deliveries,
           \A q \in Processes \ {p} : sender'[q] = sender[q],
           \A d \in D : p \in Holders(d) /\ p \notin Holders(d)',
           \A d \in Deliveries \ D : p \in Holders(d) <=> p \in Holders(d)'
    PROVE  /\ \A d \in D : AbstractSenders[d] > 0
           /\ AbstractSenders' = [d \in Deliveries |-> AbstractSenders[d] - (IF d \in D THEN 1 ELSE 0)]
<1>1. \A d \in D : AbstractSenders[d] > 0
  BY SendersMove
<1>2. \A d \in Deliveries : AbstractSenders'[d] = AbstractSenders[d] - (IF d \in D THEN 1 ELSE 0)
  BY SendersMove
<1> QED  BY <1>1, <1>2 DEF AbstractSenders

\* An attempt is an answer of the receiver, or none that counts.
LEMMA PostRefines ==
    ASSUME HookInv, NEW p \in Processes, NEW d \in Deliveries, NEW ok \in BOOLEAN, Post(p, d, ok)
    PROVE  AbstractOutbox!Accept(d) \/ UNCHANGED AbstractOutbox!outboxVars
<1>1. /\ sender[p].stage = "sending" /\ d \in sender[p].todo /\ sender[p] \in CopyRec
      /\ d \in DOMAIN sender[p].edited
  BY TodoFacts DEF Post
<1>2. sender'[p].stage = "posted" /\ DOMAIN sender'[p].edited = DOMAIN sender[p].edited
  BY <1>1 DEF HookInv, StateOK, Post, CopyRec
<1>3. \A q \in Processes \ {p} : sender'[q] = sender[q]
  BY DEF HookInv, StateOK, Post
<1>4. \A e \in Deliveries : p \in Holders(e) <=> p \in Holders(e)'
  BY <1>1, <1>2 DEF Holders
<1>5. row' = row
  BY DEF Post
<1>6. CASE ok = FALSE
  <2>1. received' = received
    BY <1>6 DEF Post
  <2> QED  BY <1>3, <1>4, <1>5, <2>1, OutboxStutter
<1>7. CASE ok = TRUE
  <2>1. received' = received \cup {d}
    BY <1>7 DEF Post
  <2>2. \A e \in Deliveries : AbstractSenders'[e] = AbstractSenders[e]
    BY <1>3, <1>4, SendersMove
  <2>3. AbstractSenders' = AbstractSenders
    BY <2>2 DEF AbstractSenders
  <2>4. AbstractSenders[d] > 0
    BY <1>1, <1>3, SendersMove DEF Holders
  <2>5. Phase' = Phase
    BY <1>5 DEF Phase
  <2> QED  BY <2>1, <2>3, <2>4, <2>5 DEF AbstractOutbox!Accept, Phase
<1>8. ok = TRUE \/ ok = FALSE
  OBVIOUS
<1> QED  BY <1>6, <1>7, <1>8

\* A process that is not at copies touches none by going on to a decision or to rest.
LEMMA RestRefines ==
    ASSUME StateOK, NEW p \in Processes, NEW s, sender' = [sender EXCEPT ![p] = s],
           sender[p].stage \notin {"sending", "posted"}, s.stage \notin {"sending", "posted"},
           UNCHANGED <<row, received>>
    PROVE  UNCHANGED AbstractOutbox!outboxVars
<1>1. sender'[p] = s /\ \A q \in Processes \ {p} : sender'[q] = sender[q]
  BY DEF StateOK
<1>2. \A d \in Deliveries : p \notin Holders(d) /\ p \notin Holders(d)'
  BY <1>1 DEF Holders
<1> QED  BY <1>1, <1>2, OutboxStutter

\* A worker that fails a copy reports it only when it commits.
LEMMA UnusableRefines ==
    ASSUME HookInv, NEW w \in Workers, NEW d \in Deliveries, Unusable(w, d)
    PROVE  UNCHANGED AbstractOutbox!outboxVars
<1>1. w \in Processes /\ sender[w].stage = "sending" /\ sender[w] \in CopyRec
  BY TodoFacts DEF Unusable, Processes
<1>2. sender'[w].stage = "sending" /\ DOMAIN sender'[w].edited = DOMAIN sender[w].edited
  BY <1>1 DEF HookInv, StateOK, Unusable, CopyRec
<1>3. /\ \A q \in Processes \ {w} : sender'[q] = sender[q]
      /\ row' = row /\ received' = received
  BY DEF HookInv, StateOK, Unusable
<1>4. \A e \in Deliveries : w \in Holders(e) <=> w \in Holders(e)'
  BY <1>1, <1>2 DEF Holders
<1> QED  BY <1>1, <1>3, <1>4, OutboxStutter

\* A commit reports the copies that are not to be sent any more: only their rows change, and
\* what it writes to a production row is an outcome, because the copy was pending.
LEMMA CommitRefines ==
    ASSUME HookInv, NEW p \in Processes, CommitSend(p)
    PROVE  \E D \in SUBSET Deliveries : AbstractOutbox!Report(D)
<1> DEFINE old == sender[p]
<1>1. old \in CopyRec /\ CopiesOK(p) /\ Copying(p) /\ received' = received
  BY CommitRows DEF CommitSend
<1>2. old.todo \subseteq DOMAIN old.edited /\ DOMAIN old.edited \subseteq Deliveries
  BY <1>1, CopiesTyped DEF CopiesOK
<1> PICK R \in SUBSET Deliveries : R = DOMAIN old.edited \ old.todo
  BY <1>2
<1>3. \A q \in Processes \ {p} : sender'[q] = sender[q]
  BY DEF HookInv, StateOK, CommitSend
<1>4. \A d \in Deliveries : p \in Holders(d)' <=> d \in old.todo
  <2>1. CASE old.todo = {}
    BY <2>1 DEF HookInv, StateOK, CommitSend, Holders, Free
  <2>2. CASE old.todo # {}
    <3>1. sender'[p].stage = "sending" /\ DOMAIN sender'[p].edited = old.todo
      BY <2>2 DEF HookInv, StateOK, CommitSend, Sending
    <3> QED  BY <3>1 DEF Holders
  <2> QED  BY <2>1, <2>2
<1>5. \A d \in Deliveries : p \in Holders(d) <=> d \in DOMAIN old.edited
  BY <1>1 DEF Holders, Copying
<1>6. /\ \A d \in R : AbstractSenders[d] > 0
      /\ AbstractSenders' = [d \in Deliveries |-> AbstractSenders[d] - (IF d \in R THEN 1 ELSE 0)]
  <2>1. \A d \in R : p \in Holders(d) /\ p \notin Holders(d)'
    BY <1>2, <1>4, <1>5
  <2>2. \A d \in Deliveries \ R : p \in Holders(d) <=> p \in Holders(d)'
    BY <1>2, <1>4, <1>5
  <2> QED  BY <1>3, <2>1, <2>2, GiveUp
<1>7. Phase' \in [Deliveries -> {"none", "pending", "delivered", "failed"}]
  BY CommitRows DEF Phase, Row
<1>8. ASSUME NEW d \in Deliveries, Phase'[d] # Phase[d]
      PROVE  /\ d \in R /\ Phase'[d] # "none"
             /\ Phase'[d] = "delivered" => d \in received
             /\ Phase'[d] = "pending" => d \in Sandbox
  <2>1. row'[d].status # row[d].status
    BY <1>8 DEF Phase
  <2>2. d \in DOMAIN old.edited
    BY <2>1, CommitRows
  <2>3. /\ row'[d].status = IF old.edited[d].status = old.loaded[d].status
                            THEN row[d].status ELSE old.edited[d].status
        /\ CopyOK(d, old.loaded[d], old.edited[d])
    <3>1. row[d] \in Row
      BY DEF HookInv, StateOK
    <3>2. CopyOK(d, old.loaded[d], old.edited[d])
      BY <1>1, <2>2 DEF CopiesOK
    <3> QED  BY <2>2, <3>1, <3>2, CommitRows, FlushFacts
  <2>4. row'[d].status = old.edited[d].status /\ old.edited[d].status # old.loaded[d].status
    BY <2>1, <2>3
  <2>5. d \in R
    BY <1>1, <2>2, <2>4 DEF CopiesOK
  <2>6. Phase'[d] = row'[d].status
    BY DEF Phase
  <2> QED  BY <2>3, <2>4, <2>5, <2>6 DEF CopyOK
<1>9. \A d \in Deliveries :
        Phase'[d] # Phase[d] => d \in R /\ AbstractOutbox!MayBecome(d, Phase'[d])
  BY <1>8 DEF AbstractOutbox!MayBecome
<1>10. AbstractOutbox!Report(R)
  BY <1>1, <1>6, <1>7, <1>9 DEF AbstractOutbox!Report, Phase
<1> QED  BY <1>10

\* A process that dies at copies abandons them.
LEMMA CrashRefines ==
    ASSUME HookInv, NEW p \in Processes, Crash(p)
    PROVE  \/ UNCHANGED AbstractOutbox!outboxVars
           \/ \E D \in SUBSET Deliveries : AbstractOutbox!Abandon(D)
<1>1. CASE sender[p].stage \notin {"sending", "posted"}
  BY <1>1, RestRefines DEF Crash, HookInv, Free
<1>2. CASE Copying(p)
  <2>1. PICK D \in SUBSET Deliveries : D = DOMAIN sender[p].edited
    BY <1>2, Shapes, CopiesTyped DEF HookInv, StateOK, Copying
  <2>2. /\ \A q \in Processes \ {p} : sender'[q] = sender[q]
        /\ sender'[p].stage = "idle" /\ row' = row /\ received' = received
    BY DEF HookInv, StateOK, Crash, Free
  <2>3. \A d \in D : p \in Holders(d) /\ p \notin Holders(d)'
    BY <1>2, <2>1, <2>2 DEF Holders, Copying
  <2>4. \A d \in Deliveries \ D : p \in Holders(d) <=> p \in Holders(d)'
    BY <2>1, <2>2 DEF Holders
  <2>5. Phase' = Phase
    BY <2>2 DEF Phase
  <2>6. /\ \A d \in D : AbstractSenders[d] > 0
        /\ AbstractSenders' = [d \in Deliveries |-> AbstractSenders[d] - (IF d \in D THEN 1 ELSE 0)]
    BY <2>1, <2>2, <2>3, <2>4, GiveUp
  <2>7. AbstractOutbox!Abandon(D)
    BY <2>2, <2>5, <2>6 DEF AbstractOutbox!Abandon, Phase
  <2> QED  BY <2>1, <2>7
<1> QED  BY <1>1, <1>2 DEF Copying

\* Every step of the senders is one of the outbox, or none.
LEMMA OutboxStep ==
    HookInv /\ [HookNext]_hookVars => [AbstractOutbox!OutboxNext]_(AbstractOutbox!outboxVars)
<1> SUFFICES ASSUME HookInv, [HookNext]_hookVars
             PROVE  AbstractOutbox!OutboxNext \/ UNCHANGED AbstractOutbox!outboxVars
  OBVIOUS
<1> DEFINE Goal == AbstractOutbox!OutboxNext \/ UNCHANGED AbstractOutbox!outboxVars
<1>1. ASSUME UNCHANGED <<row, sender, received>>  PROVE Goal
  BY <1>1 DEF AbstractOutbox!outboxVars, AbstractSenders
<1>2. ASSUME NEW d \in Deliveries, BecomesDue(d)  PROVE Goal
  <2>1. \A e \in Deliveries : row'[e].status = row[e].status
    BY <1>2 DEF BecomesDue, HookInv, StateOK, Row
  <2>2. Phase' = Phase
    BY <2>1 DEF Phase
  <2> QED  BY <1>2, <2>2 DEF BecomesDue, AbstractOutbox!outboxVars, AbstractSenders, Phase
<1>3. ASSUME NEW p \in Apis, NEW d \in Deliveries,
             DecideRequest(p, d) \/ send_test_webhook(p, d) \/ retry_sandbox_webhook(p, d)
      PROVE  Goal
  <2>1. p \in Processes /\ sender[p].stage = "idle" /\ StateOK
    BY <1>3 DEF DecideRequest, send_test_webhook, retry_sandbox_webhook, Processes, Free, HookInv
  <2>2. CASE DecideRequest(p, d)
    BY <2>1, <2>2, RestRefines DEF DecideRequest
  <2>3. CASE send_test_webhook(p, d)
    <3>1. AbstractOutbox!Enqueue(d)
      BY <2>1, <2>3, InsertRefines DEF send_test_webhook
    <3> QED  BY <3>1 DEF AbstractOutbox!OutboxNext
  <2>4. CASE retry_sandbox_webhook(p, d)
    <3>1. [e \in {d} |-> row[d]] = [e \in {d} |-> row[e]]
      OBVIOUS
    <3>2. /\ sender' = [sender EXCEPT ![p] = Sending({d}, [e \in {d} |-> row[e]], {})]
          /\ row[d].status # "none" /\ row' = row /\ received' = received
      BY <2>4, <3>1 DEF retry_sandbox_webhook
    <3>3. {d} \in SUBSET Deliveries /\ {d} # {} /\ \A e \in {d} : row[e].status # "none"
      BY <3>2
    <3>4. AbstractOutbox!Take({d})
      BY <2>1, <3>2, <3>3, LoadRefines
    <3> QED  BY <3>3, <3>4 DEF AbstractOutbox!OutboxNext
  <2> QED  BY <1>3, <2>2, <2>3, <2>4
<1>4. ASSUME NEW p \in Apis, deliver_decision_webhook(p) \/ Undeliverable(p)  PROVE Goal
  <2>1. p \in Processes /\ sender[p].stage = "decided" /\ StateOK /\ DecidedOK(p)
    BY <1>4 DEF deliver_decision_webhook, Undeliverable, Processes, HookInv
  <2>2. CASE Undeliverable(p)
    BY <2>1, <2>2, RestRefines DEF Undeliverable, Free
  <2>3. CASE deliver_decision_webhook(p)
    <3>1. PICK d \in Deliveries : d = sender[p].delivery /\ row[d].status = "none"
      BY <2>1, Shapes DEF StateOK, DecidedOK, DecidedRec
    <3>2. AbstractOutbox!Enqueue(d)
      BY <2>1, <2>3, <3>1, InsertRefines DEF deliver_decision_webhook
    <3> QED  BY <3>2 DEF AbstractOutbox!OutboxNext
  <2> QED  BY <1>4, <2>2, <2>3
<1>5. ASSUME NEW w \in Workers, NEW d \in Deliveries, Unusable(w, d)  PROVE Goal
  BY <1>5, UnusableRefines
<1>6. ASSUME NEW p \in Processes, Crash(p)  PROVE Goal
  BY <1>6, CrashRefines DEF AbstractOutbox!OutboxNext
<1>7. ASSUME NEW p \in Processes, CommitSend(p)  PROVE Goal
  BY <1>7, CommitRefines DEF AbstractOutbox!OutboxNext
<1>8. ASSUME NEW p \in Processes, NEW d \in Deliveries, NEW ok \in BOOLEAN, Post(p, d, ok)  PROVE Goal
  BY <1>8, PostRefines DEF AbstractOutbox!OutboxNext
<1>9. ASSUME NEW w \in Processes, Fetch(w)  PROVE Goal
  <2>1. PICK D \in SUBSET Eligible :
           D # {} /\ sender' = [sender EXCEPT ![w] = Sending(D, [d \in D |-> row[d]], D)]
    BY <1>9 DEF Fetch
  <2>2. D \in SUBSET Deliveries /\ \A d \in D : row[d].status # "none"
    BY DEF Eligible
  <2>3. sender[w].stage = "idle" /\ StateOK /\ row' = row /\ received' = received
    BY <1>9 DEF Fetch, Free, HookInv
  <2>4. AbstractOutbox!Take(D)
    BY <2>1, <2>2, <2>3, LoadRefines
  <2> QED  BY <2>2, <2>4 DEF AbstractOutbox!OutboxNext
<1>10. ASSUME configure_webhook \/ UNCHANGED hookVars  PROVE Goal
  BY <1>1, <1>10 DEF configure_webhook, hookVars
<1>11. ASSUME NEW p \in Processes, SendStep(p)  PROVE Goal
  BY <1>7, <1>8, <1>9, <1>11 DEF SendStep
<1> HIDE DEF Goal
<1>12. ASSUME HookNext  PROVE Goal
  BY <1>2, <1>3, <1>4, <1>5, <1>6, <1>10, <1>11, <1>12 DEF HookNext
<1>13. Goal
  BY <1>10, <1>12
<1> QED  BY <1>13 DEF Goal

\* The webhook rows implement the abstract outbox: an outcome changes only when a sender
\* reports, "delivered" is backed by an answer, and nothing is queued a second time.
THEOREM OutboxTheorem == HookSpec => ImplementsOutbox
<1>1. HookInit => AbstractOutbox!OutboxInit
  BY OutboxInitOK
<1>2. HookInv /\ [HookNext]_hookVars => [AbstractOutbox!OutboxNext]_(AbstractOutbox!outboxVars)
  BY OutboxStep
<1> QED
  BY <1>1, <1>2, HookInvariance, PTL DEF HookSpec, ImplementsOutbox, AbstractOutbox!OutboxSpec

(***************************************************************************)
(* The ATP gateway pipeline.                                               *)
(***************************************************************************)
RouteStages == {"recorded", "routed", "posting", "unreachable"}
ApTasks ==
    {ApIdle}
    \cup [stage : {"verified", "flushed"}, env : traffic.envelopes, expiry : Nat]
    \cup [stage : {"recorded"}, env : traffic.envelopes]
    \cup [stage : {"routed", "posting", "unreachable"}, id : Ids, attempt : Nat]
    \cup [stage : {"registering"}, known : {0, 1}]
MessageRow == [status : ATPDeliveryStatus, nonce : EnvelopeNonces, at : Nat, till : Nat]

ApTyped ==
    /\ apNow \in Nat /\ traffic \in Traffics
    /\ nonceRow \in [EnvelopeNonces -> Nat]
    /\ message \in [Ids -> {NoMessage} \cup MessageRow]
    /\ delivery \in [Ids -> Seq(AttemptStatus)]
    /\ target \in Seq({"safe", "unsafe"})
    /\ relay \in [Relays -> ApTasks]
    /\ arrivals \in [Ids -> Nat]

\* The message that a session routes, and what it knows of its attempts.
RouteOf(s) == IF relay[s].stage = "recorded" THEN relay[s].env.id ELSE relay[s].id
RouteOK(s) ==
    LET i == RouteOf(s) IN
    /\ message[i] # NoMessage
    /\ relay[s].stage = "recorded" => delivery[i] = <<>> /\ arrivals[i] = 0
    /\ relay[s].stage = "routed" => Len(delivery[i]) = relay[s].attempt /\ relay[s].attempt <= max_retries
    /\ relay[s].stage = "posting" => Len(delivery[i]) = relay[s].attempt /\ arrivals[i] < relay[s].attempt
RoutesOK == \A s \in Relays : relay[s].stage \in RouteStages => RouteOK(s)
OneRoute ==
    \A s, q \in Relays :
        (relay[s].stage \in RouteStages /\ relay[q].stage \in RouteStages /\ RouteOf(s) = RouteOf(q)) => s = q

\* Attempts of a message, sent once and counted before.
CountsOK ==
    \A i \in Ids : /\ arrivals[i] <= Len(delivery[i]) /\ Len(delivery[i]) <= max_retries + 1
                   /\ message[i] = NoMessage => delivery[i] = <<>>

\* What leaves, or is about to, was sent in an envelope that calls for no approval.
Unheld(i) == \E e \in traffic.envelopes : e.id = i /\ ~e.hold
HoldOK ==
    /\ \A i \in Ids : arrivals[i] # 0 => Unheld(i)
    /\ \A s \in Relays : relay[s].stage \in RouteStages => Unheld(RouteOf(s))

RoutingInv == RoutesOK /\ OneRoute /\ CountsOK /\ HoldOK

\* The nonce of a message is in the table until it has expired, and a session that has
\* flushed a nonce is the only one and found it absent.
NonceKept ==
    \A i \in Ids : message[i] # NoMessage =>
        message[i].till <= apNow \/ nonceRow[message[i].nonce] = message[i].till
NonceHeld ==
    \A s \in Relays : relay[s].stage = "flushed" =>
        /\ nonceRow[relay[s].env.nonce] = 0
        /\ \A q \in Relays : (relay[q].stage = "flushed" /\ relay[q].env.nonce = relay[s].env.nonce) => q = s

NonceInv == NonceKept /\ NonceHeld /\ OneMessagePerNonce

\* A registration that found no endpoint, and overlaps no other, adds the first one.
RegistrationOK ==
    /\ OneEndpoint
    /\ "endpoint" \notin apRaced =>
         \A s \in Relays : relay[s].stage = "registering" =>
             /\ relay[s].known = 0 => target = <<>>
             /\ \A q \in Relays : relay[q].stage = "registering" => q = s

ApInv == ApTyped /\ RoutingInv /\ NonceInv /\ RegistrationOK

-----------------------------------------------------------------------------
(* What a session is at.                                                   *)

LEMMA ApTaskFacts ==
    ASSUME ApTyped, NEW s \in Relays, NEW t, t = relay[s]
    PROVE  /\ t \in ApTasks
           /\ t.stage \in {"idle", "verified", "flushed", "recorded", "routed", "posting", "unreachable", "registering"}
           /\ t.stage = "idle" <=> t = ApIdle
           /\ t.stage \in {"verified", "flushed"} =>
                t \in [stage : {"verified", "flushed"}, env : traffic.envelopes, expiry : Nat]
           /\ t.stage = "recorded" => t.env \in traffic.envelopes
           /\ t.stage \in {"routed", "posting", "unreachable"} =>
                t \in [stage : {"routed", "posting", "unreachable"}, id : Ids, attempt : Nat]
           /\ t.stage = "registering" => t.known \in {0, 1}
<1>1. t \in ApTasks
  BY DEF ApTyped
<1>2. CASE t = ApIdle
  BY <1>1, <1>2 DEF ApIdle
<1>3. CASE t \in [stage : {"verified", "flushed"}, env : traffic.envelopes, expiry : Nat]
  BY <1>1, <1>3 DEF ApIdle
<1>4. CASE t \in [stage : {"recorded"}, env : traffic.envelopes]
  BY <1>1, <1>4 DEF ApIdle
<1>5. CASE t \in [stage : {"routed", "posting", "unreachable"}, id : Ids, attempt : Nat]
  BY <1>1, <1>5 DEF ApIdle
<1>6. CASE t \in [stage : {"registering"}, known : {0, 1}]
  BY <1>1, <1>6 DEF ApIdle
<1> QED  BY <1>1, <1>2, <1>3, <1>4, <1>5, <1>6 DEF ApTasks

\* An envelope that is submitted names a message and a nonce.
LEMMA EnvelopeFacts ==
    ASSUME ApTyped, NEW e \in traffic.envelopes
    PROVE  e.id \in Ids /\ e.nonce \in EnvelopeNonces
BY AtpAssumption DEF ApTyped, Ids, EnvelopeNonces

\* A message that was recorded has a row.
LEMMA MessageFacts ==
    ASSUME ApTyped, NEW i \in Ids
    PROVE  /\ message[i] # NoMessage => message[i] \in MessageRow
           /\ message[i] = NoMessage <=> message[i].status = "none"
BY DEF ApTyped, MessageRow, NoMessage, ATPDeliveryStatus

-----------------------------------------------------------------------------
(* What a step leaves alone.                                               *)

\* A session that begins or ends no routing leaves the messages to those that route them.
LEMMA RoutingKept ==
    ASSUME ApTyped, RoutingInv, NEW s \in Relays, NEW t, relay' = [relay EXCEPT ![s] = t],
           t.stage \notin RouteStages,
           UNCHANGED <<message, delivery, arrivals, traffic>>
    PROVE  RoutingInv'
<1>1. \A q \in Relays : relay'[q] = IF q = s THEN t ELSE relay[q]
  BY DEF ApTyped
<1>2. RoutesOK'
  BY <1>1 DEF RoutingInv, RoutesOK, RouteOK, RouteOf
<1>3. OneRoute'
  BY <1>1 DEF RoutingInv, OneRoute, RouteOf
<1>4. CountsOK'
  BY DEF RoutingInv, CountsOK
<1>5. HoldOK'
  BY <1>1 DEF RoutingInv, HoldOK, Unheld, RouteOf
<1> QED  BY <1>2, <1>3, <1>4, <1>5 DEF RoutingInv

\* A session that does not flush a nonce leaves those that are flushed; a message keeps
\* the times of its record.
LEMMA NoncesKept ==
    ASSUME ApTyped, NonceInv, NEW s \in Relays, NEW t, relay' = [relay EXCEPT ![s] = t], t.stage # "flushed",
           UNCHANGED <<apNow, nonceRow>>,
           \A i \in Ids : \/ message'[i] = message[i]
                          \/ /\ message[i] # NoMessage /\ message'[i].nonce = message[i].nonce
                             /\ message'[i].at = message[i].at /\ message'[i].till = message[i].till
    PROVE  NonceInv'
<1>1. \A q \in Relays : relay'[q] = IF q = s THEN t ELSE relay[q]
  BY DEF ApTyped
<1>2. NonceKept'
  <2> SUFFICES ASSUME NEW i \in Ids, message'[i] # NoMessage
               PROVE  message'[i].till <= apNow' \/ nonceRow'[message'[i].nonce] = message'[i].till
    BY DEF NonceKept
  <2> QED  BY DEF NonceInv, NonceKept
<1>3. NonceHeld'
  BY <1>1 DEF NonceInv, NonceHeld
<1>4. OneMessagePerNonce'
  <2> SUFFICES ASSUME NEW i \in Ids, NEW j \in Ids, i # j, message'[i] # NoMessage, message'[j] # NoMessage,
                      message'[i].nonce = message'[j].nonce
               PROVE  message'[j].at >= message'[i].till \/ message'[i].at >= message'[j].till
    BY DEF OneMessagePerNonce
  <2>1. /\ message[i] # NoMessage /\ message'[i].nonce = message[i].nonce
        /\ message'[i].at = message[i].at /\ message'[i].till = message[i].till
    OBVIOUS
  <2>2. /\ message[j] # NoMessage /\ message'[j].nonce = message[j].nonce
        /\ message'[j].at = message[j].at /\ message'[j].till = message[j].till
    OBVIOUS
  <2> QED  BY <2>1, <2>2 DEF NonceInv, OneMessagePerNonce
<1> QED  BY <1>2, <1>3, <1>4 DEF NonceInv

\* A session that begins no registration leaves the endpoints to those that do.
LEMMA RegistrationKept ==
    ASSUME ApTyped, RegistrationOK, NEW s \in Relays, NEW t, relay' = [relay EXCEPT ![s] = t],
           t.stage # "registering", UNCHANGED <<target, apRaced>>
    PROVE  RegistrationOK'
<1>1. \A q \in Relays : relay'[q] = IF q = s THEN t ELSE relay[q]
  BY DEF ApTyped
<1>2. OneEndpoint'
  BY DEF RegistrationOK, OneEndpoint
<1> QED  BY <1>1, <1>2 DEF RegistrationOK

\* The types after a step of one session.
LEMMA ApTypedStep ==
    ASSUME ApTyped, NEW s \in Relays, NEW t \in ApTasks, relay' = [relay EXCEPT ![s] = t],
           UNCHANGED <<apNow, traffic, target>>,
           nonceRow' \in [EnvelopeNonces -> Nat], message' \in [Ids -> {NoMessage} \cup MessageRow],
           delivery' \in [Ids -> Seq(AttemptStatus)], arrivals' \in [Ids -> Nat]
    PROVE  ApTyped'
<1>1. ApTasks' = ApTasks
  BY DEF ApTasks
<1>2. relay' \in [Relays -> ApTasks]
  BY DEF ApTyped
<1> QED  BY <1>1, <1>2 DEF ApTyped

\* A step of a session that admits, records or routes nothing.
LEMMA ApQuietStep ==
    ASSUME ApInv, NEW s \in Relays, NEW t \in ApTasks, relay' = [relay EXCEPT ![s] = t],
           t.stage \notin RouteStages \cup {"flushed", "registering"},
           UNCHANGED <<apNow, origin, nonceRow, message, delivery, target, arrivals, apRaced, traffic>>
    PROVE  ApInv'
<1>1. ApTyped'
  BY ApTypedStep DEF ApInv, ApTyped
<1>2. RoutingInv'
  BY RoutingKept DEF ApInv
<1>3. NonceInv'
  BY NoncesKept DEF ApInv
<1>4. RegistrationOK'
  BY RegistrationKept DEF ApInv
<1> QED  BY <1>1, <1>2, <1>3, <1>4 DEF ApInv

-----------------------------------------------------------------------------
(* Admission.                                                              *)

LEMMA ApIdleFacts == ApIdle \in ApTasks /\ ApIdle.stage = "idle"
BY DEF ApIdle, ApTasks

LEMMA SubmitOK ==
    ASSUME ApInv, NEW s \in Relays, NEW e \in traffic.envelopes, Submit(s, e)
    PROVE  ApInv'
<1>1. PICK t : t = [stage |-> "verified", env |-> e, expiry |-> apNow + Skew]
  OBVIOUS
<1>2. t \in ApTasks /\ t.stage = "verified"
  <2>1. apNow + Skew \in Nat
    BY AtpAssumption DEF ApInv, ApTyped
  <2> QED  BY <1>1, <2>1 DEF ApTasks
<1> QED  BY <1>1, <1>2, ApQuietStep DEF Submit, RouteStages

LEMMA ApRestOK ==
    ASSUME ApInv, NEW s \in Relays, Rest(s),
           UNCHANGED <<apNow, origin, nonceRow, message, delivery, target, arrivals, apRaced, traffic>>
    PROVE  ApInv'
BY ApIdleFacts, ApQuietStep DEF Rest, RouteStages

LEMMA FlushNonceOK ==
    ASSUME ApInv, NEW s \in Relays, FlushNonce(s)
    PROVE  ApInv'
<1> DEFINE n == relay[s].env.nonce
<1>1. /\ relay[s].stage = "verified" /\ \A q \in Relays : ~HoldsNonce(q, n)
      /\ UNCHANGED <<apNow, origin, nonceRow, message, delivery, target, arrivals, apCrashes, apRaced, traffic>>
  BY DEF FlushNonce
<1>2. CASE Rest(s)
  BY <1>1, <1>2, ApRestOK
<1>3. CASE nonceRow[n] = 0 /\ relay' = [relay EXCEPT ![s].stage = "flushed"]
  <2>1. PICK t : t = [relay[s] EXCEPT !.stage = "flushed"]
    OBVIOUS
  <2>2. relay[s] \in [stage : {"verified", "flushed"}, env : traffic.envelopes, expiry : Nat]
    BY <1>1, ApTaskFacts DEF ApInv
  <2>3. t \in [stage : {"verified", "flushed"}, env : traffic.envelopes, expiry : Nat]
    BY <2>1, <2>2
  <2>4. t \in ApTasks /\ t.stage = "flushed" /\ t.env = relay[s].env
    BY <2>1, <2>2, <2>3 DEF ApTasks
  <2>5. relay' = [relay EXCEPT ![s] = t]
    BY <1>3, <2>1
  <2>6. \A q \in Relays : relay'[q] = IF q = s THEN t ELSE relay[q]
    BY <2>5 DEF ApInv, ApTyped
  <2>7. ApTyped'
    BY <1>1, <2>4, <2>5, ApTypedStep DEF ApInv, ApTyped
  <2>8. RoutingInv'
    BY <1>1, <2>4, <2>5, RoutingKept DEF ApInv, RouteStages
  <2>9. RegistrationOK'
    BY <1>1, <2>4, <2>5, RegistrationKept DEF ApInv
  <2>10. NonceInv'
    <3>1. NonceKept' /\ OneMessagePerNonce'
      BY <1>1 DEF ApInv, NonceInv, NonceKept, OneMessagePerNonce
    <3>2. NonceHeld'
      BY <1>1, <1>3, <2>4, <2>6 DEF ApInv, NonceInv, NonceHeld, HoldsNonce
    <3> QED  BY <3>1, <3>2 DEF NonceInv
  <2> QED  BY <2>7, <2>8, <2>9, <2>10 DEF ApInv
<1> QED  BY <1>2, <1>3 DEF FlushNonce

\* The nonce that a session flushed expires the messages recorded under it before, and
\* is its own to write.
LEMMA ConsumeFacts ==
    ASSUME ApInv, NEW s \in Relays, relay[s].stage = "flushed", nonceRow' = ConsumeNonce(s)
    PROVE  /\ relay[s].env \in traffic.envelopes /\ relay[s].expiry \in Nat
           /\ relay[s].env.nonce \in EnvelopeNonces
           /\ nonceRow' \in [EnvelopeNonces -> Nat]
           /\ nonceRow'[relay[s].env.nonce] = relay[s].expiry
           /\ \A n \in EnvelopeNonces : n # relay[s].env.nonce => nonceRow'[n] = nonceRow[n]
           /\ \A i \in Ids : (message[i] # NoMessage /\ message[i].nonce = relay[s].env.nonce)
                                => message[i].till <= apNow
           /\ \A q \in Relays : (relay[q].stage = "flushed" /\ q # s) => relay[q].env.nonce # relay[s].env.nonce
<1>1. relay[s] \in [stage : {"verified", "flushed"}, env : traffic.envelopes, expiry : Nat]
  BY ApTaskFacts DEF ApInv
<1>2. relay[s].env.nonce \in EnvelopeNonces
  BY <1>1, EnvelopeFacts DEF ApInv
<1>3. nonceRow[relay[s].env.nonce] = 0 /\ nonceRow \in [EnvelopeNonces -> Nat] /\ apNow \in Nat
  BY DEF ApInv, ApTyped, NonceInv, NonceHeld
<1>4. ASSUME NEW i \in Ids, message[i] # NoMessage, message[i].nonce = relay[s].env.nonce
      PROVE  message[i].till <= apNow
  BY <1>3, <1>4 DEF ApInv, NonceInv, NonceKept
<1> QED  BY <1>1, <1>2, <1>3, <1>4 DEF ConsumeNonce, ApInv, NonceInv, NonceHeld

LEMMA RefuseCredentialOK ==
    ASSUME ApInv, NEW s \in Relays, RefuseCredential(s)
    PROVE  ApInv'
<1>1. /\ relay[s].stage = "flushed" /\ nonceRow' = ConsumeNonce(s) /\ relay' = [relay EXCEPT ![s] = ApIdle]
      /\ UNCHANGED <<apNow, origin, message, delivery, target, arrivals, apCrashes, apRaced, traffic>>
  BY DEF RefuseCredential, Rest
<1>2. ApTyped'
  BY <1>1, ApIdleFacts, ConsumeFacts, ApTypedStep DEF ApInv, ApTyped
<1>3. RoutingInv' /\ RegistrationOK'
  BY <1>1, ApIdleFacts, RoutingKept, RegistrationKept DEF ApInv, RouteStages
<1>4. NonceInv'
  <2>1. NonceKept'
    <3> SUFFICES ASSUME NEW i \in Ids, message[i] # NoMessage
                 PROVE  message[i].till <= apNow \/ nonceRow'[message[i].nonce] = message[i].till
      BY <1>1 DEF NonceKept
    <3>1. message[i].nonce \in EnvelopeNonces
      BY MessageFacts DEF ApInv, MessageRow
    <3> QED  BY <1>1, <3>1, ConsumeFacts DEF ApInv, NonceInv, NonceKept
  <2>2. \A q \in Relays : relay'[q] = IF q = s THEN ApIdle ELSE relay[q]
    BY <1>1 DEF ApInv, ApTyped
  <2>3. NonceHeld'
    <3> SUFFICES ASSUME NEW p \in Relays, p # s, relay[p].stage = "flushed"
                 PROVE  /\ nonceRow'[relay[p].env.nonce] = 0
                        /\ \A q \in Relays : (relay'[q].stage = "flushed" /\ relay'[q].env.nonce = relay[p].env.nonce)
                                                => q = p
      BY <2>2, ApIdleFacts DEF NonceHeld
    <3>1. relay[p].env.nonce # relay[s].env.nonce /\ relay[p].env.nonce \in EnvelopeNonces
      <4>1. relay[p].env \in traffic.envelopes
        BY ApTaskFacts DEF ApInv
      <4> QED  BY <1>1, <4>1, ConsumeFacts, EnvelopeFacts DEF ApInv
    <3>2. nonceRow'[relay[p].env.nonce] = 0
      BY <1>1, <3>1, ConsumeFacts DEF ApInv, NonceInv, NonceHeld
    <3> QED  BY <2>2, <3>2, ApIdleFacts DEF ApInv, NonceInv, NonceHeld
  <2>4. OneMessagePerNonce'
    BY <1>1 DEF ApInv, NonceInv, OneMessagePerNonce
  <2> QED  BY <2>1, <2>3, <2>4 DEF NonceInv
<1> QED  BY <1>2, <1>3, <1>4 DEF ApInv

LEMMA RecordMessageOK ==
    ASSUME ApInv, NEW s \in Relays, RecordMessage(s)
    PROVE  ApInv'
<1> DEFINE e == relay[s].env
<1>1. /\ relay[s].stage = "flushed"
      /\ UNCHANGED <<apNow, origin, delivery, target, arrivals, apCrashes, apRaced, traffic>>
  BY DEF RecordMessage
<1>2. CASE Rest(s) /\ UNCHANGED <<message, nonceRow>>
  BY <1>1, <1>2, ApRestOK
<1>3. CASE ~DuplicateId(e.id)
  <2>1. PICK mrow : mrow = [status |-> AdmittedStatus(e), nonce |-> e.nonce, at |-> apNow, till |-> relay[s].expiry]
    OBVIOUS
  <2>2. PICK t : /\ e.hold => t = ApIdle
                 /\ ~e.hold => t = [stage |-> "recorded", env |-> e]
                 /\ relay' = [relay EXCEPT ![s] = t]
    BY <1>3 DEF RecordMessage, Rest, AdmittedStatus
  <2>3. message' = [message EXCEPT ![e.id] = mrow] /\ nonceRow' = ConsumeNonce(s) /\ message[e.id] = NoMessage
    BY <1>3, <2>1 DEF RecordMessage, DuplicateId
  <2>4. /\ e \in traffic.envelopes /\ e.id \in Ids /\ e.nonce \in EnvelopeNonces /\ relay[s].expiry \in Nat
    <3>1. e \in traffic.envelopes /\ relay[s].expiry \in Nat
      BY <1>1, ApTaskFacts DEF ApInv
    <3> QED  BY <3>1, EnvelopeFacts DEF ApInv
  <2>5. /\ mrow \in MessageRow /\ mrow # NoMessage /\ mrow.nonce = e.nonce /\ mrow.at = apNow
        /\ mrow.till = relay[s].expiry
    <3>1. AdmittedStatus(e) \in ATPDeliveryStatus
      BY DEF AdmittedStatus, ATPDeliveryStatus
    <3>2. mrow \in MessageRow
      BY <2>1, <2>4, <3>1 DEF ApInv, ApTyped, MessageRow
    <3>3. mrow # NoMessage
      BY <3>2 DEF MessageRow, NoMessage, ATPDeliveryStatus
    <3> QED  BY <2>1, <3>2, <3>3
  <2>6. t \in ApTasks /\ t.stage \in {"idle", "recorded"}
    BY <2>2, <2>4, ApIdleFacts DEF ApTasks
  <2>7. /\ \A i \in Ids : message'[i] = IF i = e.id THEN mrow ELSE message[i]
        /\ message' \in [Ids -> {NoMessage} \cup MessageRow]
        /\ \A q \in Relays : relay'[q] = IF q = s THEN t ELSE relay[q]
    BY <2>2, <2>3, <2>4, <2>5 DEF ApInv, ApTyped
  <2> HIDE DEF e
  <2>8. ApTyped'
    BY <1>1, <2>2, <2>3, <2>6, <2>7, ConsumeFacts, ApTypedStep DEF ApInv, ApTyped
  <2>9. RegistrationOK'
    BY <1>1, <2>2, <2>6, RegistrationKept DEF ApInv
  <2>10. RoutingInv'
    <3>1. delivery[e.id] = <<>> /\ arrivals[e.id] = 0
      BY <2>3, <2>4 DEF ApInv, ApTyped, RoutingInv, CountsOK
    <3>2. \A q \in Relays : relay[q].stage \in RouteStages => RouteOf(q) # e.id /\ RouteOf(q) \in Ids
      <4> SUFFICES ASSUME NEW q \in Relays, relay[q].stage \in RouteStages  PROVE RouteOf(q) # e.id /\ RouteOf(q) \in Ids
        OBVIOUS
      <4>1. RouteOf(q) # e.id
        BY <2>3 DEF ApInv, RoutingInv, RoutesOK, RouteOK
      <4>2. relay[q].stage = "recorded" => relay[q].env.id \in Ids
        BY ApTaskFacts, EnvelopeFacts DEF ApInv
      <4>3. relay[q].stage \in {"routed", "posting", "unreachable"} => relay[q].id \in Ids
        BY ApTaskFacts DEF ApInv
      <4> QED  BY <4>1, <4>2, <4>3 DEF RouteOf, RouteStages
    <3>3. t.stage = "recorded" => t.env = e /\ ~e.hold
      BY <2>2, ApIdleFacts
    <3>4. RoutesOK'
      <4> SUFFICES ASSUME NEW q \in Relays, relay'[q].stage \in RouteStages  PROVE RouteOK(q)'
        BY DEF RoutesOK
      <4>1. CASE q = s
        BY <1>1, <2>5, <2>6, <2>7, <2>4, <3>1, <3>3, <4>1 DEF RouteOK, RouteOf, RouteStages
      <4>2. CASE q # s
        BY <1>1, <2>7, <3>2, <4>2 DEF ApInv, RoutingInv, RoutesOK, RouteOK, RouteOf
      <4> QED  BY <4>1, <4>2
    <3>5. OneRoute'
      BY <2>6, <2>7, <3>2, <3>3 DEF ApInv, RoutingInv, OneRoute, RouteOf, RouteStages
    <3>6. CountsOK'
      BY <1>1, <2>5, <2>7 DEF ApInv, RoutingInv, CountsOK
    <3>7. HoldOK'
      <4>1. \A i : Unheld(i)' <=> Unheld(i)
        BY <1>1 DEF Unheld
      <4>2. t.stage \in RouteStages => Unheld(e.id)
        BY <2>4, <2>6, <3>3 DEF Unheld, RouteStages
      <4> QED  BY <1>1, <2>6, <2>7, <3>3, <4>1, <4>2 DEF ApInv, RoutingInv, HoldOK, RouteOf, RouteStages
    <3> QED  BY <3>4, <3>5, <3>6, <3>7 DEF RoutingInv
  <2>11. NonceInv'
    <3>1. /\ \A n \in EnvelopeNonces : n # e.nonce => nonceRow'[n] = nonceRow[n]
          /\ nonceRow'[e.nonce] = relay[s].expiry
          /\ \A i \in Ids : (message[i] # NoMessage /\ message[i].nonce = e.nonce) => message[i].till <= apNow
          /\ \A q \in Relays : (relay[q].stage = "flushed" /\ q # s) => relay[q].env.nonce # e.nonce
      BY <1>1, <2>3, ConsumeFacts DEF e
    <3>2. NonceKept'
      <4> SUFFICES ASSUME NEW i \in Ids, message'[i] # NoMessage
                   PROVE  message'[i].till <= apNow \/ nonceRow'[message'[i].nonce] = message'[i].till
        BY <1>1 DEF NonceKept
      <4>1. CASE i = e.id
        BY <2>5, <2>7, <3>1, <4>1
      <4>2. CASE i # e.id
        <5>1. message'[i] = message[i] /\ message[i] # NoMessage
          BY <2>7, <4>2
        <5>2. message[i].nonce \in EnvelopeNonces
          BY <5>1, MessageFacts DEF ApInv, MessageRow
        <5> QED  BY <3>1, <5>1, <5>2 DEF ApInv, NonceInv, NonceKept
      <4> QED  BY <4>1, <4>2
    <3>3. NonceHeld'
      <4> SUFFICES ASSUME NEW p \in Relays, p # s, relay[p].stage = "flushed"
                   PROVE  /\ nonceRow'[relay[p].env.nonce] = 0
                          /\ \A q \in Relays : (relay'[q].stage = "flushed" /\ relay'[q].env.nonce = relay[p].env.nonce)
                                                  => q = p
        BY <2>6, <2>7 DEF NonceHeld
      <4>1. relay[p].env.nonce # e.nonce /\ relay[p].env.nonce \in EnvelopeNonces
        <5>1. relay[p].env \in traffic.envelopes
          BY ApTaskFacts DEF ApInv
        <5> QED  BY <3>1, <5>1, EnvelopeFacts DEF ApInv
      <4>2. nonceRow'[relay[p].env.nonce] = 0
        BY <3>1, <4>1 DEF ApInv, NonceInv, NonceHeld
      <4> QED  BY <2>6, <2>7, <4>2 DEF ApInv, NonceInv, NonceHeld
    <3>4. OneMessagePerNonce'
      <4> SUFFICES ASSUME NEW i \in Ids, NEW j \in Ids, i # j, message'[i] # NoMessage, message'[j] # NoMessage,
                          message'[i].nonce = message'[j].nonce
                   PROVE  message'[j].at >= message'[i].till \/ message'[i].at >= message'[j].till
        BY DEF OneMessagePerNonce
      <4>1. CASE i # e.id /\ j # e.id
        BY <2>7, <4>1 DEF ApInv, NonceInv, OneMessagePerNonce
      <4>2. ASSUME NEW k \in Ids, k # e.id, message'[k] # NoMessage, message'[k].nonce = e.nonce
            PROVE  apNow >= message'[k].till
        <5>1. message[k] # NoMessage /\ message'[k] = message[k]
          BY <2>7, <4>2
        <5>2. message[k].till \in Nat /\ apNow \in Nat
          BY <5>1, MessageFacts DEF ApInv, ApTyped, MessageRow
        <5> QED  BY <3>1, <4>2, <5>1, <5>2
      <4>3. CASE i = e.id
        BY <2>5, <2>7, <4>2, <4>3
      <4>4. CASE j = e.id
        BY <2>5, <2>7, <4>2, <4>4
      <4> QED  BY <4>1, <4>3, <4>4
    <3> QED  BY <3>2, <3>3, <3>4 DEF NonceInv
  <2> QED  BY <2>8, <2>9, <2>10, <2>11 DEF ApInv
<1> QED  BY <1>2, <1>3 DEF RecordMessage

-----------------------------------------------------------------------------
(* Routing.                                                                *)

\* A step of the session that routes message i.
LEMMA RouteStep ==
    ASSUME ApInv, NEW s \in Relays, relay[s].stage \in RouteStages, NEW i \in Ids, RouteOf(s) = i,
           NEW t \in ApTasks, relay' = [relay EXCEPT ![s] = t],
           t.stage \in {"idle", "routed", "posting", "unreachable"}, t.stage # "idle" => t.id = i,
           UNCHANGED <<apNow, origin, nonceRow, target, apRaced, traffic>>,
           NEW st \in ATPDeliveryStatus, message' = message \/ message' = [message EXCEPT ![i].status = st],
           NEW ds \in Seq(AttemptStatus), delivery' = [delivery EXCEPT ![i] = ds],
           NEW n \in Nat, arrivals' = [arrivals EXCEPT ![i] = n],
           n <= Len(ds), Len(ds) <= max_retries + 1,
           t.stage = "routed" => Len(ds) = t.attempt /\ t.attempt <= max_retries,
           t.stage = "posting" => Len(ds) = t.attempt /\ n < t.attempt
    PROVE  ApInv'
<1>1. RouteOK(s) /\ message[i] # NoMessage /\ Unheld(i)
  BY DEF ApInv, RoutingInv, RoutesOK, RouteOK, HoldOK
<1>2. PICK mrow : /\ message' = [message EXCEPT ![i] = mrow] /\ mrow \in MessageRow
                  /\ mrow.nonce = message[i].nonce /\ mrow.at = message[i].at /\ mrow.till = message[i].till
  <2>1. message[i] \in MessageRow /\ message \in [Ids -> {NoMessage} \cup MessageRow]
    BY <1>1, MessageFacts DEF ApInv, ApTyped
  <2>2. CASE message' = message
    <3>1. message' = [message EXCEPT ![i] = message[i]]
      BY <2>1, <2>2
    <3> QED  BY <2>1, <3>1
  <2>3. CASE message' = [message EXCEPT ![i].status = st]
    <3>1. PICK r : r = [message[i] EXCEPT !.status = st]
      OBVIOUS
    <3>2. r \in MessageRow /\ r.nonce = message[i].nonce /\ r.at = message[i].at /\ r.till = message[i].till
      BY <2>1, <3>1 DEF MessageRow
    <3> QED  BY <2>3, <3>1, <3>2
  <2> QED  BY <2>2, <2>3
<1>3. mrow # NoMessage
  BY <1>2 DEF MessageRow, NoMessage, ATPDeliveryStatus
<1>4. /\ \A j \in Ids : message'[j] = IF j = i THEN mrow ELSE message[j]
      /\ message' \in [Ids -> {NoMessage} \cup MessageRow]
      /\ \A j \in Ids : delivery'[j] = IF j = i THEN ds ELSE delivery[j]
      /\ delivery' \in [Ids -> Seq(AttemptStatus)]
      /\ \A j \in Ids : arrivals'[j] = IF j = i THEN n ELSE arrivals[j]
      /\ arrivals' \in [Ids -> Nat]
      /\ \A q \in Relays : relay'[q] = IF q = s THEN t ELSE relay[q]
  BY <1>2 DEF ApInv, ApTyped
<1>5. ApTyped'
  BY <1>4, ApTypedStep DEF ApInv, ApTyped
<1>6. NonceInv'
  <2>1. \A j \in Ids : \/ message'[j] = message[j]
                       \/ /\ message[j] # NoMessage /\ message'[j].nonce = message[j].nonce
                          /\ message'[j].at = message[j].at /\ message'[j].till = message[j].till
    BY <1>1, <1>2, <1>4
  <2> QED  BY <2>1, NoncesKept DEF ApInv
<1>7. RegistrationOK'
  BY RegistrationKept DEF ApInv
<1>8. RoutingInv'
  <2>1. \A q \in Relays : (q # s /\ relay[q].stage \in RouteStages) => RouteOf(q) # i /\ RouteOf(q) \in Ids
    <3> SUFFICES ASSUME NEW q \in Relays, q # s, relay[q].stage \in RouteStages
                 PROVE  RouteOf(q) # i /\ RouteOf(q) \in Ids
      OBVIOUS
    <3>1. RouteOf(q) # i
      BY DEF ApInv, RoutingInv, OneRoute
    <3>2. relay[q].stage = "recorded" => relay[q].env.id \in Ids
      BY ApTaskFacts, EnvelopeFacts DEF ApInv
    <3>3. relay[q].stage \in {"routed", "posting", "unreachable"} => relay[q].id \in Ids
      BY ApTaskFacts DEF ApInv
    <3> QED  BY <3>1, <3>2, <3>3 DEF RouteOf, RouteStages
  <2>2. RoutesOK'
    <3> SUFFICES ASSUME NEW q \in Relays, relay'[q].stage \in RouteStages  PROVE RouteOK(q)'
      BY DEF RoutesOK
    <3>1. CASE q = s
      BY <1>3, <1>4, <3>1 DEF RouteOK, RouteOf, RouteStages
    <3>2. CASE q # s
      BY <1>4, <2>1, <3>2 DEF ApInv, RoutingInv, RoutesOK, RouteOK, RouteOf
    <3> QED  BY <3>1, <3>2
  <2>3. OneRoute'
    BY <1>4, <2>1 DEF ApInv, RoutingInv, OneRoute, RouteOf, RouteStages
  <2>4. CountsOK'
    BY <1>3, <1>4 DEF ApInv, RoutingInv, CountsOK
  <2>5. HoldOK'
    <3>1. \A j : Unheld(j)' <=> Unheld(j)
      BY DEF Unheld
    <3> QED  BY <1>1, <1>4, <3>1 DEF ApInv, RoutingInv, HoldOK, RouteOf, RouteStages
  <2> QED  BY <2>2, <2>3, <2>4, <2>5 DEF RoutingInv
<1> QED  BY <1>5, <1>6, <1>7, <1>8 DEF ApInv

LEMMA RoutingFacts ==
    ASSUME ApInv, NEW s \in Relays, relay[s].stage \in RouteStages
    PROVE  /\ RouteOf(s) \in Ids /\ RouteOK(s)
           /\ delivery[RouteOf(s)] \in Seq(AttemptStatus) /\ arrivals[RouteOf(s)] \in Nat
           /\ arrivals[RouteOf(s)] <= Len(delivery[RouteOf(s)])
           /\ Len(delivery[RouteOf(s)]) <= max_retries + 1
<1>1. relay[s].stage = "recorded" => relay[s].env.id \in Ids
  BY ApTaskFacts, EnvelopeFacts DEF ApInv
<1>2. relay[s].stage \in {"routed", "posting", "unreachable"} => relay[s].id \in Ids
  BY ApTaskFacts DEF ApInv
<1>3. RouteOf(s) \in Ids
  BY <1>1, <1>2 DEF RouteOf, RouteStages
<1> QED  BY <1>3 DEF ApInv, ApTyped, RoutingInv, RoutesOK, CountsOK

LEMMA FindRouteOK ==
    ASSUME ApInv, NEW s \in Relays, FindRoute(s)
    PROVE  ApInv'
<1> DEFINE i == relay[s].env.id
<1>1. /\ relay[s].stage = "recorded"
      /\ UNCHANGED <<apNow, origin, nonceRow, target, apCrashes, apRaced, traffic>>
  BY DEF FindRoute
<1>2. /\ i \in Ids /\ RouteOf(s) = i /\ delivery[i] = <<>> /\ arrivals[i] = 0
      /\ relay[s].stage \in RouteStages
  BY <1>1, RoutingFacts DEF RouteOf, RouteStages, RouteOK
<1>3. delivery \in [Ids -> Seq(AttemptStatus)] /\ arrivals \in [Ids -> Nat] /\ message \in [Ids -> {NoMessage} \cup MessageRow]
  BY DEF ApInv, ApTyped
<1> HIDE DEF i
<1>4. CASE /\ message' = [message EXCEPT ![i].status = "DELIVERED"] /\ delivery' = [delivery EXCEPT ![i] = Append(@, "DELIVERED")]
           /\ arrivals' = [arrivals EXCEPT ![i] = @ + 1] /\ relay' = [relay EXCEPT ![s] = ApIdle]
  <2>1. PICK ds : ds = Append(<<>>, "DELIVERED") /\ ds \in Seq(AttemptStatus) /\ Len(ds) = 1
    <3>1. "DELIVERED" \in AttemptStatus
      BY DEF AttemptStatus
    <3>2. <<>> \in Seq(AttemptStatus) /\ Len(<<>>) = 0
      BY EmptySeq
    <3>3. Append(<<>>, "DELIVERED") \in Seq(AttemptStatus) /\ Len(Append(<<>>, "DELIVERED")) = 1
      BY <3>1, <3>2, AppendProperties
    <3> QED  BY <3>3
  <2>2. delivery' = [delivery EXCEPT ![i] = ds] /\ arrivals' = [arrivals EXCEPT ![i] = 1]
    BY <1>2, <1>3, <1>4, <2>1
  <2>3. 1 <= Len(ds) /\ Len(ds) <= max_retries + 1 /\ "DELIVERED" \in ATPDeliveryStatus /\ 1 \in Nat
    BY <2>1, AtpAssumption DEF ATPDeliveryStatus
  <2> QED  BY <1>1, <1>2, <1>4, <2>1, <2>2, <2>3, ApIdleFacts, RouteStep
<1>5. CASE /\ message' = message \/ message' = [message EXCEPT ![i].status = "FAILED"]
           /\ UNCHANGED <<delivery, arrivals>> /\ relay' = [relay EXCEPT ![s] = ApIdle]
  <2>1. /\ delivery' = [delivery EXCEPT ![i] = delivery[i]] /\ arrivals' = [arrivals EXCEPT ![i] = arrivals[i]]
        /\ delivery[i] \in Seq(AttemptStatus) /\ arrivals[i] \in Nat
        /\ arrivals[i] <= Len(delivery[i]) /\ Len(delivery[i]) <= max_retries + 1
        /\ "FAILED" \in ATPDeliveryStatus
    BY <1>2, <1>3, <1>5, RoutingFacts DEF ATPDeliveryStatus
  <2>2. CASE message' = message
    BY <1>1, <1>2, <1>5, <2>1, <2>2, ApIdleFacts, RouteStep
  <2>3. CASE message' = [message EXCEPT ![i].status = "FAILED"]
    BY <1>1, <1>2, <1>5, <2>1, <2>3, ApIdleFacts, RouteStep
  <2> QED  BY <1>5, <2>2, <2>3
<1>6. CASE relay' = [relay EXCEPT ![s] = [stage |-> "routed", id |-> i, attempt |-> 0]] /\ UNCHANGED <<message, delivery, arrivals>>
  <2>1. /\ delivery' = [delivery EXCEPT ![i] = delivery[i]] /\ arrivals' = [arrivals EXCEPT ![i] = arrivals[i]]
        /\ delivery[i] \in Seq(AttemptStatus) /\ arrivals[i] \in Nat
        /\ arrivals[i] <= Len(delivery[i]) /\ Len(delivery[i]) <= max_retries + 1
        /\ "FAILED" \in ATPDeliveryStatus /\ Len(delivery[i]) = 0 /\ 0 <= max_retries
    BY <1>2, <1>3, <1>6, RoutingFacts, AtpAssumption DEF ATPDeliveryStatus
  <2>2. PICK t : t = [stage |-> "routed", id |-> i, attempt |-> 0]
    OBVIOUS
  <2>3. t \in ApTasks /\ t.stage = "routed" /\ t.id = i /\ t.attempt = 0
    BY <1>2, <2>2 DEF ApTasks
  <2>4. relay' = [relay EXCEPT ![s] = t] /\ message' = message
    BY <1>6, <2>2
  <2> QED  BY <1>1, <1>2, <2>1, <2>3, <2>4, RouteStep
<1> QED  BY <1>4, <1>5, <1>6 DEF FindRoute, Rest, MessageStatus, i

LEMMA BeginAttemptOK ==
    ASSUME ApInv, NEW s \in Relays, BeginAttempt(s)
    PROVE  ApInv'
<1> DEFINE i == relay[s].id
<1>1. /\ relay[s].stage = "routed"
      /\ UNCHANGED <<apNow, origin, nonceRow, message, target, arrivals, apCrashes, apRaced, traffic>>
  BY DEF BeginAttempt
<1>2. relay[s] \in [stage : {"routed", "posting", "unreachable"}, id : Ids, attempt : Nat]
  BY <1>1, ApTaskFacts DEF ApInv
<1>3. /\ i \in Ids /\ RouteOf(s) = i /\ relay[s].stage \in RouteStages
      /\ Len(delivery[i]) = relay[s].attempt /\ relay[s].attempt <= max_retries
      /\ delivery[i] \in Seq(AttemptStatus) /\ arrivals[i] \in Nat /\ arrivals[i] <= Len(delivery[i])
  BY <1>1, <1>2, RoutingFacts DEF RouteOf, RouteStages, RouteOK
<1>4. PICK t : t = [relay[s] EXCEPT !.stage = "posting", !.attempt = relay[s].attempt + 1]
  OBVIOUS
<1>5. t \in ApTasks /\ t.stage = "posting" /\ t.id = i /\ t.attempt = relay[s].attempt + 1
  <2>1. t \in [stage : {"routed", "posting", "unreachable"}, id : Ids, attempt : Nat]
    <3>1. relay[s].attempt + 1 \in Nat
      BY <1>2
    <3> QED  BY <1>2, <1>4, <3>1
  <2>2. t \in ApTasks
    BY <2>1 DEF ApTasks
  <2> QED  BY <1>2, <1>4, <2>2
<1>6. PICK ds : ds = Append(delivery[i], "DELIVERING")
  OBVIOUS
<1>7. ds \in Seq(AttemptStatus) /\ Len(ds) = Len(delivery[i]) + 1
  <2>1. "DELIVERING" \in AttemptStatus
    BY DEF AttemptStatus
  <2> QED  BY <1>3, <1>6, <2>1
<1>8. relay' = [relay EXCEPT ![s] = t] /\ delivery' = [delivery EXCEPT ![i] = ds]
  BY <1>4, <1>6 DEF BeginAttempt, ApInv, ApTyped
<1>9. arrivals' = [arrivals EXCEPT ![i] = arrivals[i]] /\ message' = message
  BY <1>1 DEF ApInv, ApTyped
<1>10. /\ arrivals[i] <= Len(ds) /\ Len(ds) <= max_retries + 1 /\ Len(ds) = t.attempt
       /\ arrivals[i] < t.attempt
  BY <1>2, <1>3, <1>5, <1>7, AtpAssumption
<1>11. "FAILED" \in ATPDeliveryStatus
  BY DEF ATPDeliveryStatus
<1> HIDE DEF i
<1> QED  BY <1>1, <1>3, <1>5, <1>7, <1>8, <1>9, <1>10, <1>11, RouteStep

LEMMA AttemptEndsOK ==
    ASSUME ApInv, NEW s \in Relays, NEW answer \in Answers, NEW arrived \in BOOLEAN, AttemptEnds(s, answer, arrived)
    PROVE  ApInv'
<1> DEFINE i == relay[s].id  ds0 == delivery[i]
<1>1. /\ relay[s].stage = "posting"
      /\ UNCHANGED <<apNow, origin, nonceRow, target, apCrashes, apRaced, traffic>>
  BY DEF AttemptEnds
<1>2. relay[s] \in [stage : {"routed", "posting", "unreachable"}, id : Ids, attempt : Nat]
  BY <1>1, ApTaskFacts DEF ApInv
<1>3. /\ i \in Ids /\ RouteOf(s) = i /\ relay[s].stage \in RouteStages
      /\ Len(ds0) = relay[s].attempt /\ arrivals[i] < relay[s].attempt
      /\ ds0 \in Seq(AttemptStatus) /\ arrivals[i] \in Nat
      /\ Len(ds0) <= max_retries + 1
  BY <1>1, <1>2, RoutingFacts DEF RouteOf, RouteStages, RouteOK
<1>4. PICK outcome : /\ outcome \in {"DELIVERED", "RETRYING", "FAILED"}
                     /\ delivery' = [delivery EXCEPT ![i][Len(delivery[i])] = outcome]
                     /\ \/ MayRetry(relay[s].attempt) /\ relay' = [relay EXCEPT ![s].stage = "routed"] /\ message' = message
                        \/ relay' = [relay EXCEPT ![s].stage = "unreachable"] /\ message' = message
                        \/ /\ outcome # "RETRYING" /\ relay' = [relay EXCEPT ![s] = ApIdle]
                           /\ message' = [message EXCEPT ![i].status = outcome]
  <2> DEFINE retry == answer \in {"transient", "network"} /\ MayRetry(relay[s].attempt)
             outcome == CASE answer = "ok" -> "DELIVERED" [] retry -> "RETRYING" [] OTHER -> "FAILED"
  <2>1. /\ delivery' = [delivery EXCEPT ![i][Len(delivery[i])] = outcome]
        /\ CASE retry -> relay' = [relay EXCEPT ![s].stage = "routed"] /\ UNCHANGED message
             [] ~retry /\ answer = "network" -> relay' = [relay EXCEPT ![s].stage = "unreachable"] /\ UNCHANGED message
             [] OTHER -> Rest(s) /\ MessageStatus(i, outcome)
    BY DEF AttemptEnds
  <2>2. /\ answer = "ok" => outcome = "DELIVERED"
        /\ retry => outcome = "RETRYING"
        /\ answer # "ok" /\ ~retry => outcome = "FAILED"
    OBVIOUS
  <2>3. outcome \in {"DELIVERED", "RETRYING", "FAILED"} /\ (~retry => outcome # "RETRYING")
    BY <2>2
  <2> HIDE DEF outcome
  <2>4. CASE retry
    BY <2>1, <2>3, <2>4
  <2>5. CASE ~retry /\ answer = "network"
    BY <2>1, <2>3, <2>5
  <2>6. CASE ~retry /\ answer # "network"
    <3>1. Rest(s) /\ MessageStatus(i, outcome)
      BY <2>1, <2>6
    <3> QED  BY <2>1, <2>3, <2>6, <3>1 DEF Rest, MessageStatus
  <2> QED  BY <2>4, <2>5, <2>6
<1>5. PICK ds : ds = [ds0 EXCEPT ![Len(ds0)] = outcome]
  OBVIOUS
<1>6. ds \in Seq(AttemptStatus) /\ Len(ds) = Len(ds0)
  <2>1. Len(ds0) \in 1 .. Len(ds0) /\ outcome \in AttemptStatus
    BY <1>2, <1>3, <1>4 DEF AttemptStatus
  <2> QED  BY <1>3, <1>5, <2>1, ExceptSeq
<1>7. delivery' = [delivery EXCEPT ![i] = ds]
  BY <1>3, <1>4, <1>5 DEF ApInv, ApTyped
<1>8. PICK n \in Nat : n <= relay[s].attempt /\ arrivals' = [arrivals EXCEPT ![i] = n]
  <2>1. arrivals' = [arrivals EXCEPT ![i] = IF arrived THEN @ + 1 ELSE @]
    BY DEF AttemptEnds
  <2>2. CASE arrived
    <3>1. arrivals[i] + 1 \in Nat /\ arrivals[i] + 1 <= relay[s].attempt
      BY <1>2, <1>3
    <3> QED  BY <2>1, <2>2, <3>1
  <2>3. CASE ~arrived
    <3>1. arrivals[i] <= relay[s].attempt
      BY <1>2, <1>3
    <3> QED  BY <1>3, <2>1, <2>3, <3>1
  <2> QED  BY <2>2, <2>3
<1>9. n <= Len(ds) /\ Len(ds) <= max_retries + 1
  BY <1>3, <1>6, <1>8
<1> HIDE DEF ds0
<1>10. ASSUME NEW to \in {"routed", "unreachable"}, to = "routed" => MayRetry(relay[s].attempt),
             relay' = [relay EXCEPT ![s].stage = to], message' = message
      PROVE  ApInv'
  <2>1. PICK t : t = [relay[s] EXCEPT !.stage = to]
    OBVIOUS
  <2>2. t \in ApTasks /\ t.stage = to /\ t.id = i /\ t.attempt = relay[s].attempt
    <3>1. t \in [stage : {"routed", "posting", "unreachable"}, id : Ids, attempt : Nat]
      BY <1>2, <2>1
    <3>2. t \in ApTasks
      BY <3>1 DEF ApTasks
    <3> QED  BY <1>2, <2>1, <3>2
  <2>3. relay' = [relay EXCEPT ![s] = t] /\ "FAILED" \in ATPDeliveryStatus
    BY <1>10, <2>1 DEF ATPDeliveryStatus
  <2>4. t.stage = "routed" => Len(ds) = t.attempt /\ t.attempt <= max_retries
    BY <1>3, <1>6, <1>10, <2>2 DEF MayRetry, ds0
  <2> HIDE DEF i
  <2> QED  BY <1>1, <1>3, <1>6, <1>7, <1>8, <1>9, <1>10, <2>2, <2>3, <2>4, RouteStep
<1>11. CASE outcome # "RETRYING" /\ relay' = [relay EXCEPT ![s] = ApIdle] /\ message' = [message EXCEPT ![i].status = outcome]
  <2>1. outcome \in ATPDeliveryStatus
    BY <1>4, <1>11 DEF ATPDeliveryStatus
  <2> HIDE DEF i
  <2> QED  BY <1>1, <1>3, <1>6, <1>7, <1>8, <1>9, <1>11, <2>1, ApIdleFacts, RouteStep
<1> QED  BY <1>4, <1>10, <1>11

LEMMA RecordUnreachableOK ==
    ASSUME ApInv, NEW s \in Relays, RecordUnreachable(s)
    PROVE  ApInv'
<1> DEFINE i == relay[s].id
<1>1. /\ relay[s].stage = "unreachable" /\ relay' = [relay EXCEPT ![s] = ApIdle]
      /\ message' = [message EXCEPT ![i].status = "FAILED"]
      /\ UNCHANGED <<apNow, origin, nonceRow, delivery, target, arrivals, apCrashes, apRaced, traffic>>
  BY DEF RecordUnreachable, Rest, MessageStatus
<1>2. /\ i \in Ids /\ RouteOf(s) = i /\ relay[s].stage \in RouteStages
      /\ delivery[i] \in Seq(AttemptStatus) /\ arrivals[i] \in Nat
      /\ arrivals[i] <= Len(delivery[i]) /\ Len(delivery[i]) <= max_retries + 1
  BY <1>1, RoutingFacts DEF RouteOf, RouteStages
<1>3. /\ delivery' = [delivery EXCEPT ![i] = delivery[i]] /\ arrivals' = [arrivals EXCEPT ![i] = arrivals[i]]
      /\ "FAILED" \in ATPDeliveryStatus
  BY <1>1 DEF ApInv, ApTyped, ATPDeliveryStatus
<1> HIDE DEF i
<1> QED  BY <1>1, <1>2, <1>3, ApIdleFacts, RouteStep

-----------------------------------------------------------------------------
(* Time, nonces and endpoints.                                             *)

\* A step of no session leaves the routing alone.
LEMMA RoutingUntouched ==
    ASSUME RoutingInv, UNCHANGED <<message, delivery, arrivals, traffic, relay>>
    PROVE  RoutingInv'
<1>1. RoutesOK' /\ OneRoute'
  BY DEF RoutingInv, RoutesOK, RouteOK, RouteOf, OneRoute
<1>2. CountsOK' /\ HoldOK'
  BY DEF RoutingInv, CountsOK, HoldOK, Unheld, RouteOf
<1> QED  BY <1>1, <1>2 DEF RoutingInv

LEMMA ApTickOK ==
    ASSUME ApInv, ApTick
    PROVE  ApInv'
<1>1. apNow \in Nat /\ apNow' = apNow + 1
      /\ UNCHANGED <<origin, nonceRow, message, delivery, target, relay, arrivals, apCrashes, apRaced, traffic>>
  BY DEF ApInv, ApTyped, ApTick
<1>2. ApTyped' /\ RegistrationOK'
  BY <1>1 DEF ApInv, ApTyped, ApTasks, RegistrationOK, OneEndpoint
<1>3. NonceInv'
  <2>1. NonceKept'
    <3> SUFFICES ASSUME NEW i \in Ids, message[i] # NoMessage
                 PROVE  message[i].till <= apNow' \/ nonceRow[message[i].nonce] = message[i].till
      BY <1>1 DEF NonceKept
    <3>1. message[i].till \in Nat
      BY MessageFacts DEF ApInv, MessageRow
    <3> QED  BY <1>1, <3>1 DEF ApInv, NonceInv, NonceKept
  <2> QED  BY <1>1, <2>1 DEF ApInv, NonceInv, NonceHeld, OneMessagePerNonce
<1> QED  BY <1>1, <1>2, <1>3, RoutingUntouched DEF ApInv

LEMMA WithdrawOK ==
    ASSUME ApInv, UNCHANGED <<apNow, nonceRow, message, delivery, target, relay, arrivals, apRaced, traffic>>
    PROVE  ApInv'
<1>1. ApTyped' /\ RegistrationOK'
  BY DEF ApInv, ApTyped, ApTasks, RegistrationOK, OneEndpoint
<1>2. NonceInv'
  BY DEF ApInv, NonceInv, NonceKept, NonceHeld, OneMessagePerNonce
<1> QED  BY <1>1, <1>2, RoutingUntouched DEF ApInv

LEMMA PurgeNoncesOK ==
    ASSUME ApInv, PurgeNonces
    PROVE  ApInv'
<1>1. /\ nonceRow \in [EnvelopeNonces -> Nat] /\ apNow \in Nat
      /\ nonceRow' \in [EnvelopeNonces -> Nat]
      /\ \A n \in EnvelopeNonces : nonceRow'[n] = IF nonceRow[n] <= apNow THEN 0 ELSE nonceRow[n]
      /\ UNCHANGED <<apNow, origin, message, delivery, target, relay, arrivals, apCrashes, apRaced, traffic>>
  BY DEF ApInv, ApTyped, PurgeNonces
<1>2. ApTyped' /\ RegistrationOK'
  BY <1>1 DEF ApInv, ApTyped, ApTasks, RegistrationOK, OneEndpoint
<1>3. NonceInv'
  <2>1. NonceKept'
    <3> SUFFICES ASSUME NEW i \in Ids, message[i] # NoMessage
                 PROVE  message[i].till <= apNow \/ nonceRow'[message[i].nonce] = message[i].till
      BY <1>1 DEF NonceKept
    <3>1. message[i].nonce \in EnvelopeNonces
      BY MessageFacts DEF ApInv, MessageRow
    <3> QED  BY <1>1, <3>1 DEF ApInv, NonceInv, NonceKept
  <2>2. NonceHeld'
    <3> SUFFICES ASSUME NEW s \in Relays, relay[s].stage = "flushed"
                 PROVE  nonceRow'[relay[s].env.nonce] = 0
      BY <1>1 DEF ApInv, NonceInv, NonceHeld
    <3>1. relay[s].env.nonce \in EnvelopeNonces
      <4>1. relay[s].env \in traffic.envelopes
        BY ApTaskFacts DEF ApInv
      <4> QED  BY <4>1, EnvelopeFacts DEF ApInv
    <3> QED  BY <1>1, <3>1 DEF ApInv, NonceInv, NonceHeld
  <2> QED  BY <1>1, <2>1, <2>2 DEF ApInv, NonceInv, OneMessagePerNonce
<1> QED  BY <1>1, <1>2, <1>3, RoutingUntouched DEF ApInv

LEMMA LookupEndpointOK ==
    ASSUME ApInv, NEW s \in Relays, LookupEndpoint(s)
    PROVE  ApInv'
<1>1. PICK t : t = [stage |-> "registering", known |-> Len(target)] /\ relay' = [relay EXCEPT ![s] = t]
  BY DEF LookupEndpoint
<1>2. /\ UNCHANGED <<apNow, origin, nonceRow, message, delivery, target, arrivals, apCrashes, traffic>>
      /\ Len(target) <= 1 /\ target \in Seq({"safe", "unsafe"})
  BY DEF LookupEndpoint, ApInv, ApTyped
<1>3. t \in ApTasks /\ t.stage = "registering" /\ t.known = Len(target)
  <2>1. Len(target) \in {0, 1}
    <3>1. Len(target) \in Nat
      BY <1>2, LenProperties
    <3>2. \A n \in Nat : n <= 1 => n \in {0, 1}
      OBVIOUS
    <3> QED  BY <1>2, <3>1, <3>2, Zenon
  <2> QED  BY <1>1, <2>1 DEF ApTasks
<1>4. /\ \A q \in Relays : relay'[q] = IF q = s THEN t ELSE relay[q]
      /\ "endpoint" \notin apRaced' =>
            "endpoint" \notin apRaced /\ \A q \in Relays : relay[q].stage # "registering"
  BY <1>1 DEF LookupEndpoint, ApInv, ApTyped
<1>5. ApTyped'
  BY <1>1, <1>2, <1>3, ApTypedStep DEF ApInv, ApTyped
<1>6. RoutingInv' /\ NonceInv'
  BY <1>1, <1>2, <1>3, RoutingKept, NoncesKept DEF ApInv, RouteStages
<1>7. RegistrationOK'
  <2>1. OneEndpoint'
    BY <1>2 DEF OneEndpoint
  <2>2. Len(target) = 0 => target = <<>>
    BY <1>2, EmptySeq
  <2> QED  BY <1>2, <1>3, <1>4, <2>1, <2>2 DEF RegistrationOK
<1> QED  BY <1>5, <1>6, <1>7 DEF ApInv

LEMMA RegisterOK ==
    ASSUME ApInv, NEW s \in Relays, register_agent_endpoint(s)
    PROVE  ApInv'
<1>1. /\ relay[s].stage = "registering" /\ target' = Registered(target, relay[s].known)
      /\ relay' = [relay EXCEPT ![s] = ApIdle]
      /\ UNCHANGED <<apNow, origin, nonceRow, message, delivery, arrivals, apCrashes, apRaced, traffic>>
  BY DEF register_agent_endpoint, Rest
<1>2. target \in Seq({"safe", "unsafe"}) /\ relay[s].known \in {0, 1}
  BY <1>1, ApTaskFacts DEF ApInv, ApTyped
<1>3. /\ target' \in Seq({"safe", "unsafe"})
      /\ relay[s].known = 0 => Len(target') = Len(target) + 1
      /\ relay[s].known # 0 => Len(target') = Len(target)
  <2>1. CASE relay[s].known = 0
    <3>1. target' = Append(target, "safe")
      BY <1>1, <2>1 DEF Registered
    <3> QED  BY <1>2, <2>1, <3>1, AppendProperties
  <2>2. CASE relay[s].known # 0 /\ target = <<>>
    BY <1>1, <1>2, <2>2 DEF Registered
  <2>3. CASE relay[s].known # 0 /\ target # <<>>
    <3>1. target' = [target EXCEPT ![1] = "safe"]
      BY <1>1, <2>3 DEF Registered
    <3>2. 1 \in 1 .. Len(target)
      BY <1>2, <2>3, EmptySeq
    <3> QED  BY <1>2, <2>3, <3>1, <3>2, ExceptSeq
  <2> QED  BY <2>1, <2>2, <2>3
<1>4. \A q \in Relays : relay'[q] = IF q = s THEN ApIdle ELSE relay[q]
  BY <1>1 DEF ApInv, ApTyped
<1>5. ApTyped'
  <2>1. relay' \in [Relays -> ApTasks]
    BY <1>1, ApIdleFacts DEF ApInv, ApTyped
  <2>2. ApTasks' = ApTasks
    BY <1>1 DEF ApTasks
  <2> QED  BY <1>1, <1>3, <2>1, <2>2 DEF ApInv, ApTyped
<1>6. RoutingInv' /\ NonceInv'
  BY <1>1, ApIdleFacts, RoutingKept, NoncesKept DEF ApInv, RouteStages
<1>7. RegistrationOK'
  <2> SUFFICES ASSUME "endpoint" \notin apRaced
               PROVE  Len(target') <= 1 /\ \A q \in Relays : relay'[q].stage # "registering"
    BY <1>1 DEF RegistrationOK, OneEndpoint
  <2>1. Len(target) <= 1 /\ (relay[s].known = 0 => Len(target) = 0)
    BY <1>1 DEF ApInv, RegistrationOK, OneEndpoint
  <2>2. \A q \in Relays : relay[q].stage = "registering" => q = s
    BY <1>1 DEF ApInv, RegistrationOK
  <2> QED  BY <1>2, <1>3, <1>4, <2>1, <2>2, ApIdleFacts
<1> QED  BY <1>5, <1>6, <1>7 DEF ApInv

\* An endpoint that goes bad or is deleted makes no second one.
LEMMA EndpointGoesOK ==
    ASSUME ApInv, Rebind \/ delete_agent_endpoint
    PROVE  ApInv'
<1>1. /\ target # <<>> /\ target \in Seq({"safe", "unsafe"})
      /\ UNCHANGED <<apNow, origin, nonceRow, message, delivery, relay, arrivals, apCrashes, apRaced, traffic>>
  BY DEF Rebind, delete_agent_endpoint, ApInv, ApTyped
<1>2. target' \in Seq({"safe", "unsafe"}) /\ Len(target') <= Len(target)
  <2>1. CASE Rebind
    BY <2>1 DEF Rebind
  <2>2. CASE delete_agent_endpoint
    BY <1>1, <2>2, HeadTailProperties, LenProperties DEF delete_agent_endpoint
  <2> QED  BY <2>1, <2>2
<1>3. ApTyped'
  BY <1>1, <1>2 DEF ApInv, ApTyped, ApTasks
<1>4. NonceInv'
  BY <1>1 DEF ApInv, NonceInv, NonceKept, NonceHeld, OneMessagePerNonce
<1>5. RegistrationOK'
  <2> SUFFICES ASSUME "endpoint" \notin apRaced
               PROVE  /\ Len(target') <= 1
                      /\ \A s \in Relays : relay[s].stage = "registering" =>
                            /\ relay[s].known # 0
                            /\ \A q \in Relays : relay[q].stage = "registering" => q = s
    BY <1>1 DEF RegistrationOK, OneEndpoint
  <2>1. Len(target') \in Nat /\ Len(target) \in Nat /\ Len(target) <= 1
    BY <1>1, <1>2, LenProperties DEF ApInv, RegistrationOK, OneEndpoint
  <2> QED  BY <1>1, <1>2, <2>1 DEF ApInv, RegistrationOK
<1> QED  BY <1>1, <1>3, <1>4, <1>5, RoutingUntouched DEF ApInv

LEMMA ApInitOK == ApInit => ApInv
<1> SUFFICES ASSUME ApInit  PROVE ApInv
  OBVIOUS
<1>1. /\ apNow = 0 /\ nonceRow = [n \in EnvelopeNonces |-> 0] /\ message = [i \in Ids |-> NoMessage]
      /\ delivery = [i \in Ids |-> <<>>] /\ traffic \in Traffics /\ target = traffic.target
      /\ relay = [s \in Relays |-> ApIdle] /\ arrivals = [i \in Ids |-> 0]
  BY DEF ApInit
<1>2. ApTyped
  BY <1>1, ApIdleFacts, AtpAssumption DEF ApTyped
<1>3. RoutingInv
  <2>1. Len(<<>>) = 0
    OBVIOUS
  <2>2. RoutesOK /\ OneRoute /\ HoldOK
    BY <1>1, ApIdleFacts DEF RoutesOK, OneRoute, HoldOK, RouteStages
  <2>3. CountsOK
    BY <1>1, <2>1, AtpAssumption DEF CountsOK
  <2> QED  BY <2>2, <2>3 DEF RoutingInv
<1>4. NonceInv
  BY <1>1, ApIdleFacts DEF NonceInv, NonceKept, NonceHeld, OneMessagePerNonce
<1>5. RegistrationOK
  BY <1>1, ApIdleFacts, AtpAssumption DEF RegistrationOK, OneEndpoint
<1> QED  BY <1>2, <1>3, <1>4, <1>5 DEF ApInv

LEMMA ApNextOK == ApInv /\ [ApNext]_apVars => ApInv'
<1> SUFFICES ASSUME ApInv, [ApNext]_apVars  PROVE ApInv'
  OBVIOUS
<1>1. CASE UNCHANGED apVars
  BY <1>1, WithdrawOK DEF apVars
<1>2. CASE ApTick \/ PurgeNonces \/ Rebind \/ delete_agent_endpoint
  BY <1>2, ApTickOK, PurgeNoncesOK, EndpointGoesOK
<1>3. CASE \E what \in {"active", "trusted"} : Withdraw(what)
  BY <1>3, WithdrawOK DEF Withdraw
<1>4. CASE \E s \in Relays, e \in traffic.envelopes : Submit(s, e)
  BY <1>4, SubmitOK
<1>5. CASE \E s \in Relays : process_atp_message(s)
  <2> SUFFICES ASSUME NEW s \in Relays, process_atp_message(s)  PROVE ApInv'
    BY <1>5
  <2>1. CASE RefuseTrust(s)
    BY <2>1, ApRestOK DEF RefuseTrust
  <2>2. CASE FlushNonce(s) \/ RefuseCredential(s) \/ RecordMessage(s)
    BY <2>2, FlushNonceOK, RefuseCredentialOK, RecordMessageOK
  <2>3. CASE FindRoute(s) \/ BeginAttempt(s) \/ RecordUnreachable(s)
    BY <2>3, FindRouteOK, BeginAttemptOK, RecordUnreachableOK
  <2>4. CASE \E answer \in Answers, arrived \in BOOLEAN : AttemptEnds(s, answer, arrived)
    BY <2>4, AttemptEndsOK
  <2> QED  BY <2>1, <2>2, <2>3, <2>4 DEF process_atp_message
<1>6. CASE \E s \in Relays : CrashRelay(s)
  BY <1>6, ApRestOK DEF CrashRelay
<1>7. CASE \E s \in Relays : LookupEndpoint(s) \/ register_agent_endpoint(s)
  BY <1>7, LookupEndpointOK, RegisterOK
<1> QED  BY <1>1, <1>2, <1>3, <1>4, <1>5, <1>6, <1>7 DEF ApNext

-----------------------------------------------------------------------------
(* The theorems about messages.                                            *)

\* However often envelopes are submitted and whichever relays crash
\* (services/gateway_pipeline.py, services/atp_router.py), the invariant holds.
THEOREM ApInvariance == ApSpec => []ApInv
<1> QED  BY ApInitOK, ApNextOK, PTL DEF ApSpec

\* For any envelopes, relays, retries and clock skew: a message is routed by one session, and
\* received max_retries + 1 times at most; a held message never leaves; a nonce admits one
\* message in its lifetime; and a target has one endpoint unless registrations overlapped.
THEOREM AtpTheorem == ApSpec => []AtpHolds
<1>1. ApInv => AtpHolds
  <2> SUFFICES ASSUME ApInv  PROVE AtpHolds
    OBVIOUS
  <2>1. ApTypeOK
    <3>1. \A i \in Ids : message[i] # NoMessage =>
             message[i].status \in ATPDeliveryStatus /\ message[i].nonce \in EnvelopeNonces
      BY MessageFacts DEF ApInv, MessageRow
    <3>2. \A i \in Ids : \A k \in DOMAIN delivery[i] : delivery[i][k] \in AttemptStatus
      BY DEF ApInv, ApTyped
    <3> QED  BY <3>1, <3>2 DEF ApInv, ApTyped, ApTypeOK
  <2>2. BoundedReceipts
    <3> SUFFICES ASSUME NEW i \in Ids  PROVE Cardinality(Routing(i)) <= 1
      BY DEF BoundedReceipts, ApInv, RoutingInv, CountsOK
    <3>1. \A s \in Routing(i) : s \in Relays /\ relay[s].stage \in RouteStages /\ RouteOf(s) = i
      BY DEF Routing, RouteStages, RouteOf
    <3>2. CASE Routing(i) = {}
      BY <3>2, FS_EmptySet
    <3>3. CASE Routing(i) # {}
      <4>1. PICK s \in Routing(i) : TRUE
        BY <3>3
      <4>2. Routing(i) = {s}
        BY <3>1, <4>1 DEF ApInv, RoutingInv, OneRoute
      <4>3. Cardinality({s}) = 1
        BY FS_Singleton
      <4> QED  BY <4>2, <4>3
    <3> QED  BY <3>2, <3>3
  <2>3. HeldNeverLeaves
    <3> SUFFICES ASSUME NEW e \in traffic.envelopes, \A f \in traffic.envelopes : f.id = e.id => f.hold
                 PROVE  arrivals[e.id] = 0
      BY DEF HeldNeverLeaves
    <3>1. e.id \in Ids
      BY EnvelopeFacts DEF ApInv
    <3> QED  BY <3>1 DEF ApInv, RoutingInv, HoldOK, Unheld
  <2> QED  BY <2>1, <2>2, <2>3 DEF ApInv, NonceInv, RegistrationOK, AtpHolds
<1> QED  BY <1>1, ApInvariance, PTL

\* A message that nobody routes any more, PENDING or FAILED, stays as it is: no later
\* submission takes it up (route_atp_message is called only after the INSERT).
THEOREM StrandedTheorem == ApSpec => StrandedForGood
<1> DEFINE Stays == \A i \in Ids : (message[i].status \in {"PENDING", "FAILED"} /\ Routing(i) = {})
                                      => message'[i] = message[i] /\ Routing(i)' = {}
<1>1. ASSUME ApInv, ApNext  PROVE Stays
  <2> SUFFICES ASSUME NEW i \in Ids, message[i].status \in {"PENDING", "FAILED"}, Routing(i) = {}
               PROVE  message'[i] = message[i] /\ Routing(i)' = {}
    OBVIOUS
  <2>1. /\ message[i] # NoMessage /\ relay \in [Relays -> ApTasks]
        /\ message \in [Ids -> {NoMessage} \cup MessageRow]
    BY <1>1, MessageFacts DEF ApInv, ApTyped
  <2>2. \A s \in Relays : relay[s].stage \in RouteStages => RouteOf(s) # i
    BY DEF Routing, RouteStages, RouteOf
  <2>3. (\A s \in Relays : /\ relay'[s].stage = "recorded" => relay'[s].env.id # i
                           /\ relay'[s].stage \in {"routed", "posting", "unreachable"} => relay'[s].id # i)
           => Routing(i)' = {}
    BY DEF Routing
  <2>4. ASSUME NEW s \in Relays, NEW t, relay' = [relay EXCEPT ![s] = t], message'[i] = message[i],
               t.stage = "recorded" => t.env.id # i,
               t.stage \in {"routed", "posting", "unreachable"} => t.id # i
        PROVE  message'[i] = message[i] /\ Routing(i)' = {}
    BY <2>1, <2>2, <2>3, <2>4 DEF RouteStages, RouteOf
  <2>5. CASE UNCHANGED <<message, relay>>
    BY <2>2, <2>3, <2>5 DEF RouteStages, RouteOf
  <2>6. ASSUME NEW s \in Relays, Rest(s), message'[i] = message[i]
        PROVE  message'[i] = message[i] /\ Routing(i)' = {}
    BY <2>4, <2>6, ApIdleFacts DEF Rest
  <2>7. ASSUME NEW s \in Relays, FlushNonce(s)
        PROVE  message'[i] = message[i] /\ Routing(i)' = {}
    <3>1. CASE Rest(s)
      BY <2>6, <2>7, <3>1 DEF FlushNonce
    <3>2. CASE relay' = [relay EXCEPT ![s].stage = "flushed"]
      <4>1. PICK t : t = [relay[s] EXCEPT !.stage = "flushed"]
        OBVIOUS
      <4>2. relay[s] \in [stage : {"verified", "flushed"}, env : traffic.envelopes, expiry : Nat]
        BY <1>1, <2>7, ApTaskFacts DEF ApInv, FlushNonce
      <4>3. t.stage = "flushed" /\ relay' = [relay EXCEPT ![s] = t]
        BY <3>2, <4>1, <4>2
      <4> QED  BY <2>4, <2>7, <4>3 DEF FlushNonce
    <3> QED  BY <2>7, <3>1, <3>2 DEF FlushNonce
  <2>8. ASSUME NEW s \in Relays, RecordMessage(s)
        PROVE  message'[i] = message[i] /\ Routing(i)' = {}
    <3>1. CASE Rest(s) /\ UNCHANGED <<message, nonceRow>>
      BY <2>6, <3>1
    <3>2. CASE ~DuplicateId(relay[s].env.id)
      <4>1. relay[s].env.id # i
        BY <2>1, <3>2 DEF DuplicateId
      <4>2. message'[i] = message[i]
        BY <2>1, <2>8, <3>2, <4>1 DEF RecordMessage
      <4>3. CASE Rest(s)
        BY <2>6, <4>2, <4>3
      <4>4. CASE relay' = [relay EXCEPT ![s] = [stage |-> "recorded", env |-> relay[s].env]]
        BY <2>4, <4>1, <4>2, <4>4
      <4> QED  BY <2>8, <3>2, <4>3, <4>4 DEF RecordMessage
    <3> QED  BY <2>8, <3>1, <3>2 DEF RecordMessage
  <2>9. ASSUME NEW s \in Relays, relay[s].stage \in {"routed", "posting", "unreachable"}
        PROVE  relay[s].id # i
    BY <2>2, <2>9 DEF RouteStages, RouteOf
  <2>10. ASSUME NEW s \in Relays, FindRoute(s)
         PROVE  message'[i] = message[i] /\ Routing(i)' = {}
    <3>1. relay[s].env.id # i
      BY <2>2, <2>10 DEF FindRoute, RouteStages, RouteOf
    <3>2. message'[i] = message[i]
      BY <2>1, <2>10, <3>1 DEF FindRoute, MessageStatus
    <3>3. CASE Rest(s)
      BY <2>6, <3>2, <3>3
    <3>4. CASE relay' = [relay EXCEPT ![s] = [stage |-> "routed", id |-> relay[s].env.id, attempt |-> 0]]
      BY <2>4, <3>1, <3>2, <3>4
    <3> QED  BY <2>10, <3>3, <3>4 DEF FindRoute
  <2>11. ASSUME NEW s \in Relays, BeginAttempt(s)
         PROVE  message'[i] = message[i] /\ Routing(i)' = {}
    <3>1. PICK t : t = [relay[s] EXCEPT !.stage = "posting", !.attempt = relay[s].attempt + 1]
      OBVIOUS
    <3>2. relay[s] \in [stage : {"routed", "posting", "unreachable"}, id : Ids, attempt : Nat] /\ relay[s].id # i
      BY <1>1, <2>9, <2>11, ApTaskFacts DEF ApInv, BeginAttempt
    <3>3. t.stage = "posting" /\ t.id = relay[s].id /\ relay' = [relay EXCEPT ![s] = t]
      BY <2>1, <2>11, <3>1, <3>2 DEF BeginAttempt
    <3> QED  BY <2>4, <2>11, <3>2, <3>3 DEF BeginAttempt
  <2>12. ASSUME NEW s \in Relays, NEW answer \in Answers, NEW arrived \in BOOLEAN, AttemptEnds(s, answer, arrived)
         PROVE  message'[i] = message[i] /\ Routing(i)' = {}
    <3>1. relay[s] \in [stage : {"routed", "posting", "unreachable"}, id : Ids, attempt : Nat] /\ relay[s].id # i
      BY <1>1, <2>9, <2>12, ApTaskFacts DEF ApInv, AttemptEnds
    <3>2. \/ relay' = [relay EXCEPT ![s].stage = "routed"] /\ message' = message
          \/ relay' = [relay EXCEPT ![s].stage = "unreachable"] /\ message' = message
          \/ Rest(s) /\ \E to : MessageStatus(relay[s].id, to)
      BY <2>12 DEF AttemptEnds
    <3>3. CASE Rest(s) /\ \E to : MessageStatus(relay[s].id, to)
      BY <2>1, <2>6, <3>1, <3>3 DEF MessageStatus
    <3>4. ASSUME NEW to \in {"routed", "unreachable"}, relay' = [relay EXCEPT ![s].stage = to], message' = message
          PROVE  message'[i] = message[i] /\ Routing(i)' = {}
      <4>1. PICK t : t = [relay[s] EXCEPT !.stage = to]
        OBVIOUS
      <4>2. t.stage = to /\ t.id = relay[s].id /\ relay' = [relay EXCEPT ![s] = t]
        BY <3>1, <3>4, <4>1
      <4> QED  BY <2>4, <3>1, <3>4, <4>2
    <3> QED  BY <3>2, <3>3, <3>4
  <2>13. ASSUME NEW s \in Relays, RecordUnreachable(s)
         PROVE  message'[i] = message[i] /\ Routing(i)' = {}
    <3>1. relay[s].id # i
      BY <2>9, <2>13 DEF RecordUnreachable
    <3> QED  BY <2>1, <2>6, <2>13, <3>1 DEF RecordUnreachable, MessageStatus
  <2>14. ASSUME NEW s \in Relays, LookupEndpoint(s)
         PROVE  message'[i] = message[i] /\ Routing(i)' = {}
    BY <2>4, <2>14 DEF LookupEndpoint
  <2>15. ASSUME NEW s \in Relays, NEW e, Submit(s, e)
         PROVE  message'[i] = message[i] /\ Routing(i)' = {}
    BY <2>4, <2>15 DEF Submit
  <2>16. CASE \E s \in Relays : process_atp_message(s)
    <3>1. CASE \E s \in Relays : RefuseCredential(s) \/ RefuseTrust(s)
      BY <2>6, <3>1 DEF RefuseCredential, RefuseTrust
    <3> QED  BY <2>7, <2>8, <2>10, <2>11, <2>12, <2>13, <2>16, <3>1 DEF process_atp_message
  <2>17. CASE \E s \in Relays : CrashRelay(s) \/ register_agent_endpoint(s)
    BY <2>6, <2>17 DEF CrashRelay, register_agent_endpoint
  <2>18. CASE ApTick \/ PurgeNonces \/ Rebind \/ delete_agent_endpoint \/ \E what \in {"active", "trusted"} : Withdraw(what)
    BY <2>5, <2>18 DEF ApTick, PurgeNonces, Rebind, delete_agent_endpoint, Withdraw
  <2> QED  BY <1>1, <2>14, <2>15, <2>16, <2>17, <2>18 DEF ApNext
<1>2. ApInv /\ [ApNext]_apVars => [Stays]_apVars
  BY <1>1
<1>3. [][Stays]_apVars => StrandedForGood
  BY DEF StrandedForGood
<1> QED  BY <1>2, <1>3, ApInvariance, PTL DEF ApSpec

(***************************************************************************)
(* Notifications.                                                          *)
(***************************************************************************)
Mails == Keys \X External
NtRequests == {NoRequest} \cup [stage : {"new"}, key : Events] \cup [stage : {"device"}, token : Tokens]
NtBatches ==
    {b \in [stage : {"sending"}, todo : SUBSET Mails, copies : UNION {[D -> Delivery] : D \in SUBSET Mails}] :
        b.todo \subseteq DOMAIN b.copies}

NtTyped ==
    /\ NtTypeOK /\ world \in Worlds
    /\ request \in [Requesters -> NtRequests]
    /\ worker \in [Jobs -> {NoBatch} \cup NtBatches]
    /\ sent \in [Keys -> [External -> Nat]]
    /\ deaths \in Nat

\* A batch holds its rows alone; a copy is as loaded, or one attempt further on.
Locks(w, k, c) == worker[w].stage = "sending" /\ <<k, c>> \in DOMAIN worker[w].copies
LockOK(w, k, c) ==
    /\ mail[k][c].status = "pending"
    /\ <<k, c>> \in worker[w].todo => worker[w].copies[<<k, c>>] = mail[k][c]
    /\ <<k, c>> \notin worker[w].todo => worker[w].copies[<<k, c>>].count = mail[k][c].count + 1
    /\ \A v \in Jobs : Locks(v, k, c) => v = w
LocksOK == \A w \in Jobs, k \in Keys, c \in External : Locks(w, k, c) => LockOK(w, k, c)

\* A delivery belongs to a notification that exists.
NotedOK == \A k \in Keys, c \in External : k \notin note => mail[k][c] = NoDelivery

\* What was sent is recorded, or lost by a crash, or in a batch that is not committed.
SentOK ==
    \A k \in Keys, c \in External :
        \/ sent[k][c] <= mail[k][c].count + deaths
        \/ /\ sent[k][c] <= mail[k][c].count + deaths + 1
           /\ \E w \in Jobs : Locks(w, k, c) /\ <<k, c>> \notin worker[w].todo

\* The row says "announced" only when the notice is there.
SilenceOK == (perm.announced => "expired" \in note) /\ OnlyReadsSilence

\* Devices that never were revived, and registrations that have counted.
Counting == {p \in Requesters : request[p].stage = "device"}
CapOK ==
    Cardinality(ActiveDevices \ revived) + Cardinality(Counting)
        <= MaxDevices + Cardinality(Requesters) - 1

MailInv == LocksOK /\ NotedOK /\ SentOK
NtInv == NtTyped /\ MailInv /\ SilenceOK /\ CapOK

-----------------------------------------------------------------------------
(* Batches and mails.                                                      *)

LEMMA MailFacts ==
    /\ \A x \in Mails : x[1] \in Keys /\ x[2] \in External /\ x = <<x[1], x[2]>>
    /\ \A k \in Keys, c \in External : <<k, c>> \in Mails /\ <<k, c>>[1] = k /\ <<k, c>>[2] = c
BY DEF Mails

LEMMA NtBatchFacts ==
    ASSUME NtTyped, NEW w \in Jobs
    PROVE  /\ worker[w].stage # "sending" <=> worker[w] = NoBatch
           /\ worker[w].stage # "sending" <=> worker[w].stage = "idle"
           /\ worker[w].stage = "sending" =>
                /\ worker[w] \in NtBatches /\ worker[w].todo \subseteq Mails
                /\ DOMAIN worker[w].copies \subseteq Mails
                /\ worker[w].todo \subseteq DOMAIN worker[w].copies
                /\ worker[w].copies \in [DOMAIN worker[w].copies -> Delivery]
<1>1. worker[w] \in {NoBatch} \cup NtBatches
  BY DEF NtTyped
<1>2. CASE worker[w] = NoBatch
  BY <1>2 DEF NoBatch
<1>3. CASE worker[w] \in NtBatches
  BY <1>3 DEF NtBatches, NoBatch
<1> QED  BY <1>1, <1>2, <1>3

LEMMA MailTyped ==
    ASSUME NtTyped, NEW k \in Keys, NEW c \in External
    PROVE  /\ mail[k][c] \in Delivery /\ mail[k][c].count \in Nat /\ sent[k][c] \in Nat
           /\ NoDelivery \in Delivery
BY DEF NtTyped, NtTypeOK, Delivery, NoDelivery

\* A step that neither sends nor records leaves the batches as they are.
LEMMA MailKept ==
    ASSUME MailInv, UNCHANGED <<mail, worker, sent, deaths>>, note \subseteq note'
    PROVE  MailInv'
<1>1. LocksOK'
  BY DEF MailInv, LocksOK, Locks, LockOK
<1>2. NotedOK'
  BY DEF MailInv, NotedOK
<1>3. SentOK'
  BY DEF MailInv, SentOK, Locks
<1> QED  BY <1>1, <1>2, <1>3 DEF MailInv

\* The first deliveries of a notification are no batch's.
LEMMA CreatedOK ==
    ASSUME NtInv, NEW K \in SUBSET Keys, K \cap note = {}, Created(K), UNCHANGED <<worker, sent, deaths>>
    PROVE  /\ MailInv' /\ note' \subseteq Keys /\ note' = note \cup K
           /\ mail' \in [Keys -> [External -> Delivery]]
           /\ \A k \in Keys, c \in External : mail'[k][c].count = mail[k][c].count
<1>1. [status |-> "pending", count |-> 0] \in Delivery /\ NoDelivery \in Delivery
  BY DEF Delivery, NoDelivery
<1>2. ASSUME NEW k \in Keys, NEW c \in External
      PROVE  /\ k \notin K => mail'[k] = mail[k]
             /\ k \in K => mail'[k][c] \in {[status |-> "pending", count |-> 0], NoDelivery}
  BY DEF Created
<1>3. mail' \in [Keys -> [External -> Delivery]]
  <2>1. mail \in [Keys -> [External -> Delivery]]
    BY DEF NtInv, NtTyped, NtTypeOK
  <2>2. \A k \in K : [c \in External |-> IF c \in _channels(k) THEN [status |-> "pending", count |-> 0] ELSE NoDelivery]
                        \in [External -> Delivery]
    BY <1>1
  <2> QED  BY <2>1, <2>2 DEF Created
<1>4. note' = note \cup K /\ note' \subseteq Keys
  BY DEF Created, NtInv, NtTyped, NtTypeOK
<1>5. \A k \in Keys, c \in External : mail'[k][c].count = mail[k][c].count
  <2> SUFFICES ASSUME NEW k \in Keys, NEW c \in External, k \in K  PROVE mail'[k][c].count = mail[k][c].count
    BY <1>2
  <2>1. mail[k][c] = NoDelivery
    BY DEF NtInv, MailInv, NotedOK
  <2> QED  BY <1>2, <2>1 DEF NoDelivery
<1>6. LocksOK'
  <2> SUFFICES ASSUME NEW w \in Jobs, NEW k \in Keys, NEW c \in External, Locks(w, k, c)
               PROVE  LockOK(w, k, c)'
    BY DEF LocksOK, Locks
  <2>1. LockOK(w, k, c)
    BY DEF NtInv, MailInv, LocksOK
  <2>2. k \notin K
    BY <2>1 DEF NtInv, MailInv, NotedOK, LockOK, NoDelivery
  <2>3. mail'[k] = mail[k]
    BY <1>2, <2>2
  <2> QED  BY <2>1, <2>3 DEF LockOK, Locks
<1>7. NotedOK'
  BY <1>2, <1>4 DEF NtInv, MailInv, NotedOK
<1>8. SentOK'
  BY <1>5 DEF NtInv, MailInv, SentOK, Locks
<1> QED  BY <1>3, <1>4, <1>5, <1>6, <1>7, <1>8 DEF MailInv

\* A step of one worker on its batch.
LEMMA LockBatchOK ==
    ASSUME NtInv, NEW w \in Jobs, LockBatch(w)
    PROVE  NtInv'
<1> DEFINE batch == {x \in Mails : Pending(x[1], x[2])}
<1>1. PICK b : b = [stage |-> "sending", todo |-> batch, copies |-> [x \in batch |-> mail[x[1]][x[2]]]]
  OBVIOUS
<1>2. /\ worker[w] = NoBatch /\ worker' = [worker EXCEPT ![w] = b]
      /\ UNCHANGED <<world, pref, note, mail, request, sent, device, perm, key, hour, quiet, revived, deaths>>
  BY <1>1 DEF LockBatch, Mails
<1>3. b \in NtBatches
  <2>1. [x \in batch |-> mail[x[1]][x[2]]] \in [batch -> Delivery]
    BY MailFacts, MailTyped DEF NtInv
  <2>2. batch \in SUBSET Mails
    OBVIOUS
  <2> HIDE DEF batch
  <2> QED  BY <1>1, <2>1, <2>2 DEF NtBatches
<1>4. /\ \A v \in Jobs : worker'[v] = IF v = w THEN b ELSE worker[v]
      /\ worker' \in [Jobs -> {NoBatch} \cup NtBatches]
  BY <1>2, <1>3 DEF NtInv, NtTyped
<1>5. NtTyped'
  BY <1>2, <1>4 DEF NtInv, NtTyped, NtTypeOK
<1>6. ASSUME NEW k \in Keys, NEW c \in External
      PROVE  /\ ~Locks(w, k, c)
             /\ Locks(w, k, c)' <=> Pending(k, c)
             /\ Pending(k, c) => <<k, c>> \in b.todo /\ b.copies[<<k, c>>] = mail[k][c]
             /\ \A v \in Jobs : v # w => (Locks(v, k, c)' <=> Locks(v, k, c))
             /\ Pending(k, c) => mail[k][c].status = "pending" /\ \A v \in Jobs : ~Locks(v, k, c)
  <2>1. <<k, c>> \in batch <=> Pending(k, c)
    BY MailFacts
  <2>2. b.stage = "sending" /\ b.todo = batch /\ DOMAIN b.copies = batch
    BY <1>1
  <2>3. <<k, c>> \in batch => b.copies[<<k, c>>] = mail[k][c]
    BY <1>1, MailFacts
  <2>4. Pending(k, c) => mail[k][c].status = "pending" /\ \A v \in Jobs : ~Locks(v, k, c)
    BY NtBatchFacts DEF Pending, Locks, NtInv
  <2> HIDE DEF batch
  <2> QED  BY <1>2, <1>4, <2>1, <2>2, <2>3, <2>4 DEF Locks, NoBatch
<1>7. LocksOK'
  <2> SUFFICES ASSUME NEW v \in Jobs, NEW k \in Keys, NEW c \in External, Locks(v, k, c)'
               PROVE  LockOK(v, k, c)'
    BY DEF LocksOK
  <2>1. CASE v = w
    BY <1>2, <1>4, <1>6, <2>1 DEF LockOK
  <2>2. CASE v # w
    <3>1. Locks(v, k, c) /\ LockOK(v, k, c)
      BY <1>6, <2>2 DEF NtInv, MailInv, LocksOK
    <3>2. ~Pending(k, c)
      BY <1>6, <3>1
    <3> QED  BY <1>2, <1>4, <1>6, <2>2, <3>1, <3>2 DEF LockOK
  <2> QED  BY <2>1, <2>2
<1>8. NotedOK'
  BY <1>2 DEF NtInv, MailInv, NotedOK
<1>9. SentOK'
  <2> SUFFICES ASSUME NEW k \in Keys, NEW c \in External, NEW v \in Jobs,
                      Locks(v, k, c), <<k, c>> \notin worker[v].todo
               PROVE  Locks(v, k, c)' /\ <<k, c>> \notin worker'[v].todo
    BY <1>2 DEF NtInv, MailInv, SentOK
  <2> QED  BY <1>4, <1>6
<1>10. SilenceOK' /\ CapOK'
  BY <1>2 DEF NtInv, SilenceOK, OnlyReadsSilence, CapOK, ActiveDevices, Counting
<1> QED  BY <1>5, <1>7, <1>8, <1>9, <1>10 DEF NtInv, MailInv

\* What a worker makes of a copy.
LEMMA OutcomeFacts ==
    ASSUME NEW d \in Delivery, NEW ok \in BOOLEAN, NEW e,
           e = IF ok THEN [status |-> "sent", count |-> d.count + 1] ELSE _mark_failure(d)
    PROVE  e \in Delivery /\ e.count = d.count + 1
<1>1. d.count + 1 \in Nat
  BY DEF Delivery
<1>2. CASE ok
  BY <1>1, <1>2 DEF Delivery
<1>3. CASE ~ok
  <2>1. PICK st : st \in {"failed", "pending"} /\ e = [status |-> st, count |-> d.count + 1]
    BY <1>3 DEF _mark_failure
  <2> QED  BY <1>1, <2>1 DEF Delivery
<1> QED  BY <1>2, <1>3

LEMMA SendOneOK ==
    ASSUME NtInv, NEW w \in Jobs, NEW x \in Mails, NEW ok \in BOOLEAN, SendOne(w, x, ok)
    PROVE  NtInv'
<1> DEFINE copies == worker[w].copies
<1>1. PICK e : e = Outcome(copies[x], ok)
  OBVIOUS
<1>2. PICK b : b = [stage |-> "sending", todo |-> worker[w].todo \ {x},
                    copies |-> [y \in DOMAIN copies |-> IF y = x THEN e ELSE copies[y]]]
  OBVIOUS
<1>3. /\ worker[w].stage = "sending" /\ x \in worker[w].todo
      /\ worker' = [worker EXCEPT ![w] = b]
      /\ sent' = IF ok THEN [sent EXCEPT ![x[1]][x[2]] = sent[x[1]][x[2]] + 1] ELSE sent
      /\ UNCHANGED <<world, pref, note, mail, request, device, perm, key, hour, quiet, revived, deaths>>
  BY <1>1, <1>2 DEF SendOne
<1>4. /\ copies \in [DOMAIN copies -> Delivery] /\ DOMAIN copies \subseteq Mails
      /\ worker[w].todo \subseteq DOMAIN copies /\ x \in DOMAIN copies /\ copies[x] \in Delivery
  BY <1>3, NtBatchFacts DEF NtInv
<1>5. e \in Delivery /\ e.count = copies[x].count + 1
  BY <1>1, <1>4, OutcomeFacts DEF Outcome
<1>6. /\ b.stage = "sending" /\ b.todo = worker[w].todo \ {x} /\ DOMAIN b.copies = DOMAIN copies
      /\ \A y \in DOMAIN copies : b.copies[y] = IF y = x THEN e ELSE copies[y]
  BY <1>2
<1>7. b \in NtBatches
  <2>1. [y \in DOMAIN copies |-> IF y = x THEN e ELSE copies[y]] \in [DOMAIN copies -> Delivery]
    BY <1>4, <1>5
  <2>2. worker[w].todo \ {x} \in SUBSET Mails
    BY <1>4
  <2> HIDE DEF copies
  <2> QED  BY <1>2, <1>4, <2>1, <2>2 DEF NtBatches
<1>8. /\ \A v \in Jobs : worker'[v] = IF v = w THEN b ELSE worker[v]
      /\ worker' \in [Jobs -> {NoBatch} \cup NtBatches]
  BY <1>3, <1>7 DEF NtInv, NtTyped
<1>9. PICK kx \in Keys, cx \in External : x = <<kx, cx>> /\ x[1] = kx /\ x[2] = cx
  BY MailFacts
<1>10. ASSUME NEW k \in Keys, NEW c \in External
       PROVE  /\ <<k, c>> # x => sent'[k][c] = sent[k][c]
              /\ <<k, c>> = x => sent'[k][c] <= sent[k][c] + 1
              /\ sent'[k][c] \in Nat
  <2>1. sent \in [Keys -> [External -> Nat]] /\ sent[k][c] \in Nat /\ sent[k][c] + 1 \in Nat
    BY DEF NtInv, NtTyped
  <2>2. CASE ~ok
    BY <1>3, <2>1, <2>2
  <2>3. CASE ok
    <3>1. sent' = [sent EXCEPT ![kx][cx] = sent[kx][cx] + 1]
      BY <1>3, <1>9, <2>3
    <3>2. <<k, c>> = x <=> k = kx /\ c = cx
      BY <1>9
    <3> QED  BY <2>1, <3>1, <3>2
  <2> QED  BY <2>2, <2>3
<1>11. sent' \in [Keys -> [External -> Nat]]
  <2>1. sent \in [Keys -> [External -> Nat]] /\ sent[kx][cx] + 1 \in Nat
    BY DEF NtInv, NtTyped
  <2> QED  BY <1>3, <1>9, <2>1
<1>12. NtTyped'
  BY <1>3, <1>8, <1>11 DEF NtInv, NtTyped, NtTypeOK
<1>13. ASSUME NEW k \in Keys, NEW c \in External, NEW v \in Jobs
       PROVE  Locks(v, k, c)' <=> Locks(v, k, c)
  BY <1>3, <1>6, <1>8 DEF Locks
<1>14. LocksOK'
  <2> SUFFICES ASSUME NEW v \in Jobs, NEW k \in Keys, NEW c \in External, Locks(v, k, c)'
               PROVE  LockOK(v, k, c)'
    BY DEF LocksOK
  <2>1. Locks(v, k, c) /\ LockOK(v, k, c)
    BY <1>13 DEF NtInv, MailInv, LocksOK
  <2>2. mail'[k][c] = mail[k][c] /\ \A u \in Jobs : Locks(u, k, c)' => u = v
    BY <1>3, <1>13, <2>1 DEF LockOK
  <2>3. CASE v = w
    <3>1. <<k, c>> \in DOMAIN copies /\ worker'[v] = b
      BY <1>8, <2>1, <2>3 DEF Locks
    <3>2. CASE <<k, c>> = x
      <4>1. <<k, c>> \notin b.todo /\ b.copies[<<k, c>>] = e /\ copies[x] = mail[k][c]
        BY <1>3, <1>6, <2>1, <2>3, <3>1, <3>2 DEF LockOK
      <4> QED  BY <1>5, <2>1, <2>2, <3>1, <4>1 DEF LockOK
    <3>3. CASE <<k, c>> # x
      <4>1. (<<k, c>> \in b.todo <=> <<k, c>> \in worker[w].todo) /\ b.copies[<<k, c>>] = copies[<<k, c>>]
        BY <1>6, <3>1, <3>3
      <4> QED  BY <2>1, <2>2, <2>3, <3>1, <4>1 DEF LockOK
    <3> QED  BY <3>2, <3>3
  <2>4. CASE v # w
    BY <1>8, <2>1, <2>2, <2>4 DEF LockOK
  <2> QED  BY <2>3, <2>4
<1>15. NotedOK'
  BY <1>3 DEF NtInv, MailInv, NotedOK
<1>16. SentOK'
  <2> SUFFICES ASSUME NEW k \in Keys, NEW c \in External
               PROVE  \/ sent'[k][c] <= mail[k][c].count + deaths
                      \/ /\ sent'[k][c] <= mail[k][c].count + deaths + 1
                         /\ \E v \in Jobs : Locks(v, k, c) /\ <<k, c>> \notin worker'[v].todo
    BY <1>3, <1>13 DEF SentOK
  <2>1. /\ mail[k][c].count \in Nat /\ sent[k][c] \in Nat /\ deaths \in Nat /\ sent'[k][c] \in Nat
    BY MailTyped, <1>10 DEF NtInv, NtTyped
  <2>2. CASE <<k, c>> = x
    <3>1. Locks(w, k, c) /\ <<k, c>> \in worker[w].todo /\ <<k, c>> \notin worker'[w].todo
      BY <1>3, <1>4, <1>6, <1>8, <2>2 DEF Locks
    <3>2. \A v \in Jobs : Locks(v, k, c) => v = w
      BY <3>1 DEF NtInv, MailInv, LocksOK, LockOK
    <3>3. sent[k][c] <= mail[k][c].count + deaths
      BY <3>1, <3>2 DEF NtInv, MailInv, SentOK
    <3>4. sent'[k][c] <= sent[k][c] + 1
      BY <1>10, <2>2
    <3>5. sent'[k][c] <= mail[k][c].count + deaths + 1
      BY <2>1, <3>3, <3>4
    <3> QED  BY <3>1, <3>5
  <2>3. CASE <<k, c>> # x
    <3>1. sent'[k][c] = sent[k][c]
      BY <1>10, <2>3
    <3>2. \A v \in Jobs : <<k, c>> \notin worker[v].todo => <<k, c>> \notin worker'[v].todo
      BY <1>6, <1>8
    <3> QED  BY <3>1, <3>2 DEF NtInv, MailInv, SentOK
  <2> QED  BY <2>2, <2>3
<1>17. SilenceOK' /\ CapOK'
  BY <1>3 DEF NtInv, SilenceOK, OnlyReadsSilence, CapOK, ActiveDevices, Counting
<1> QED  BY <1>12, <1>14, <1>15, <1>16, <1>17 DEF NtInv, MailInv

\* One commit records the batch: nothing is in flight any more.
LEMMA CommitBatchOK ==
    ASSUME NtInv, NEW w \in Jobs, CommitBatch(w)
    PROVE  NtInv' /\ \A k \in Keys, c \in External : mail'[k][c].count >= mail[k][c].count
<1> DEFINE copies == worker[w].copies
<1>1. /\ worker[w].stage = "sending" /\ worker[w].todo = {}
      /\ mail' = [k \in Keys |-> [c \in External |->
                    IF <<k, c>> \in DOMAIN copies THEN copies[<<k, c>>] ELSE mail[k][c]]]
      /\ worker' = [worker EXCEPT ![w] = NoBatch]
      /\ UNCHANGED <<world, pref, note, request, sent, device, perm, key, hour, quiet, revived, deaths>>
  BY DEF CommitBatch
<1>2. copies \in [DOMAIN copies -> Delivery]
  BY <1>1, NtBatchFacts DEF NtInv
<1>3. NoBatch.stage # "sending"
  BY DEF NoBatch
<1>4. /\ \A v \in Jobs : worker'[v] = IF v = w THEN NoBatch ELSE worker[v]
      /\ worker' \in [Jobs -> {NoBatch} \cup NtBatches]
  BY <1>1 DEF NtInv, NtTyped
<1>5. ASSUME NEW k \in Keys, NEW c \in External
      PROVE  /\ Locks(w, k, c) => /\ mail[k][c].status = "pending" /\ mail'[k][c] = copies[<<k, c>>]
                                 /\ mail'[k][c].count = mail[k][c].count + 1 /\ <<k, c>> \notin worker[w].todo
                                 /\ \A v \in Jobs : Locks(v, k, c) => v = w
             /\ ~Locks(w, k, c) => mail'[k][c] = mail[k][c]
             /\ mail'[k][c] \in Delivery
             /\ \A v \in Jobs : Locks(v, k, c)' <=> v # w /\ Locks(v, k, c)
             /\ mail[k][c].count \in Nat
  <2>1. mail[k][c] \in Delivery /\ mail[k][c].count \in Nat
    BY MailTyped DEF NtInv
  <2>2. mail'[k][c] = IF <<k, c>> \in DOMAIN copies THEN copies[<<k, c>>] ELSE mail[k][c]
    BY <1>1
  <2>3. Locks(w, k, c) <=> <<k, c>> \in DOMAIN copies
    BY <1>1 DEF Locks
  <2>4. Locks(w, k, c) => LockOK(w, k, c)
    BY DEF NtInv, MailInv, LocksOK
  <2>5. \A v \in Jobs : Locks(v, k, c)' <=> v # w /\ Locks(v, k, c)
    BY <1>3, <1>4 DEF Locks
  <2> QED  BY <1>1, <1>2, <2>1, <2>2, <2>3, <2>4, <2>5 DEF LockOK
<1>6. mail' \in [Keys -> [External -> Delivery]]
  BY <1>1, <1>5
<1>7. NtTyped'
  BY <1>1, <1>4, <1>6 DEF NtInv, NtTyped, NtTypeOK
<1>8. LocksOK'
  <2> SUFFICES ASSUME NEW v \in Jobs, NEW k \in Keys, NEW c \in External, Locks(v, k, c)'
               PROVE  LockOK(v, k, c)'
    BY DEF LocksOK
  <2>1. v # w /\ Locks(v, k, c) /\ LockOK(v, k, c) /\ worker'[v] = worker[v]
    BY <1>4, <1>5 DEF NtInv, MailInv, LocksOK
  <2>2. mail'[k][c] = mail[k][c] /\ \A u \in Jobs : Locks(u, k, c)' => u = v
    BY <1>5, <2>1 DEF LockOK
  <2> QED  BY <2>1, <2>2 DEF LockOK
<1>9. NotedOK'
  <2> SUFFICES ASSUME NEW k \in Keys, NEW c \in External, k \notin note  PROVE mail'[k][c] = NoDelivery
    BY <1>1 DEF NotedOK
  <2>1. mail[k][c] = NoDelivery /\ mail[k][c].status = "none"
    BY DEF NtInv, MailInv, NotedOK, NoDelivery
  <2>2. ~Locks(w, k, c)
    BY <1>5, <2>1
  <2> QED  BY <1>5, <2>1, <2>2
<1>10. SentOK'
  <2> SUFFICES ASSUME NEW k \in Keys, NEW c \in External
               PROVE  \/ sent[k][c] <= mail'[k][c].count + deaths
                      \/ /\ sent[k][c] <= mail'[k][c].count + deaths + 1
                         /\ \E v \in Jobs : Locks(v, k, c)' /\ <<k, c>> \notin worker'[v].todo
    BY <1>1 DEF SentOK
  <2>1. /\ mail[k][c].count \in Nat /\ sent[k][c] \in Nat /\ deaths \in Nat
    BY MailTyped DEF NtInv, NtTyped
  <2>2. \/ sent[k][c] <= mail[k][c].count + deaths
        \/ /\ sent[k][c] <= mail[k][c].count + deaths + 1
           /\ \E v \in Jobs : Locks(v, k, c) /\ <<k, c>> \notin worker[v].todo
    BY DEF NtInv, MailInv, SentOK
  <2>3. CASE Locks(w, k, c)
    <3>1. mail'[k][c].count = mail[k][c].count + 1
      BY <1>5, <2>3
    <3> QED  BY <2>1, <2>2, <3>1
  <2>4. CASE ~Locks(w, k, c)
    <3>1. mail'[k][c] = mail[k][c]
      BY <1>5, <2>4
    <3>2. \A v \in Jobs : Locks(v, k, c) => Locks(v, k, c)' /\ worker'[v] = worker[v]
      BY <1>4, <1>5, <2>4
    <3> QED  BY <2>2, <3>1, <3>2
  <2> QED  BY <2>3, <2>4
<1>11. SilenceOK' /\ CapOK'
  BY <1>1 DEF NtInv, SilenceOK, OnlyReadsSilence, CapOK, ActiveDevices, Counting
<1>12. ASSUME NEW k \in Keys, NEW c \in External  PROVE mail'[k][c].count >= mail[k][c].count
  <2>1. mail'[k][c].count \in {mail[k][c].count, mail[k][c].count + 1} /\ mail[k][c].count \in Nat
    BY <1>5
  <2> QED  BY <2>1
<1> QED  BY <1>7, <1>8, <1>9, <1>10, <1>11, <1>12 DEF NtInv, MailInv

\* What a dead worker sent is one more unrecorded message for each row of its batch.
LEMMA WorkerDiesOK ==
    ASSUME NtInv, NEW w \in Jobs, WorkerDies(w)
    PROVE  NtInv'
<1>1. /\ worker' = [worker EXCEPT ![w] = NoBatch] /\ deaths' = deaths + 1
      /\ UNCHANGED <<world, pref, note, mail, request, sent, device, perm, key, hour, quiet, revived>>
  BY DEF WorkerDies
<1>2. /\ \A v \in Jobs : worker'[v] = IF v = w THEN NoBatch ELSE worker[v]
      /\ worker' \in [Jobs -> {NoBatch} \cup NtBatches]
  BY <1>1 DEF NtInv, NtTyped
<1>3. deaths \in Nat /\ deaths' \in Nat
  BY <1>1 DEF NtInv, NtTyped
<1>4. NtTyped'
  BY <1>1, <1>2, <1>3 DEF NtInv, NtTyped, NtTypeOK
<1>5. \A k \in Keys, c \in External, v \in Jobs :
          Locks(v, k, c)' => v # w /\ Locks(v, k, c) /\ worker'[v] = worker[v]
  BY <1>2 DEF Locks, NoBatch
<1>6. LocksOK'
  BY <1>1, <1>5 DEF NtInv, MailInv, LocksOK, LockOK
<1>7. NotedOK'
  BY <1>1 DEF NtInv, MailInv, NotedOK
<1>8. SentOK'
  <2> SUFFICES ASSUME NEW k \in Keys, NEW c \in External
               PROVE  sent[k][c] <= mail[k][c].count + deaths'
    BY <1>1 DEF SentOK
  <2>1. mail[k][c].count \in Nat /\ sent[k][c] \in Nat
    BY MailTyped DEF NtInv
  <2>2. sent[k][c] <= mail[k][c].count + deaths + 1 \/ sent[k][c] <= mail[k][c].count + deaths
    BY DEF NtInv, MailInv, SentOK
  <2> QED  BY <1>1, <1>3, <2>1, <2>2
<1>9. SilenceOK' /\ CapOK'
  BY <1>1 DEF NtInv, SilenceOK, OnlyReadsSilence, CapOK, ActiveDevices, Counting
<1> QED  BY <1>4, <1>6, <1>7, <1>8, <1>9 DEF NtInv, MailInv

-----------------------------------------------------------------------------
(* The permission and its notice.                                          *)

\* A step that leaves requests and devices alone keeps the cap.
LEMMA CapKept ==
    ASSUME CapOK, UNCHANGED <<device, revived, request>>
    PROVE  CapOK'
BY DEF CapOK, ActiveDevices, Counting

LEMMA PermFacts ==
    ASSUME NtTyped
    PROVE  /\ perm \in [status : {"none", "active", "expired", "revoked"}, warned : BOOLEAN, announced : BOOLEAN]
           /\ \A k \in JobKeys : k \in Keys
BY DEF NtTyped, NtTypeOK, Keys

LEMMA ExpirePermissionOK ==
    ASSUME NtInv, ExpirePermission
    PROVE  NtInv' /\ \A k \in Keys, c \in External : mail'[k][c].count = mail[k][c].count
<1>1. PICK p : p = [perm EXCEPT !.status = "expired", !.announced = perm.announced \/ "expiry" \in pref]
  OBVIOUS
<1>2. PICK K : K = IF ~perm.announced /\ "expiry" \in pref /\ "expired" \notin note THEN {"expired"} ELSE {}
  OBVIOUS
<1>3. /\ perm' = p /\ (IF K # {} THEN Created(K) ELSE UNCHANGED <<note, mail>>)
      /\ quiet' = IF "expiry" \in pref THEN quiet ELSE "preference"
      /\ UNCHANGED <<world, pref, request, worker, sent, device, key, hour, revived, deaths>>
  BY <1>1, <1>2 DEF ExpirePermission
<1>4. K \in SUBSET Keys /\ K \cap note = {} /\ K \subseteq {"expired"}
  BY <1>2 DEF Keys, JobKeys
<1>5. /\ p \in [status : {"none", "active", "expired", "revoked"}, warned : BOOLEAN, announced : BOOLEAN]
      /\ p.status = "expired" /\ (p.announced <=> (perm.announced \/ "expiry" \in pref))
  BY <1>1, PermFacts DEF NtInv
<1>6. /\ MailInv' /\ note' \subseteq Keys /\ note' = note \cup K
      /\ mail' \in [Keys -> [External -> Delivery]]
      /\ \A k \in Keys, c \in External : mail'[k][c].count = mail[k][c].count
  <2>1. CASE K # {}
    BY <1>3, <1>4, <2>1, CreatedOK
  <2>2. CASE K = {}
    BY <1>3, <2>2, MailKept DEF NtInv, NtTyped, NtTypeOK
  <2> QED  BY <2>1, <2>2
<1>7. NtTyped'
  BY <1>3, <1>5, <1>6 DEF NtInv, NtTyped, NtTypeOK
<1>8. "expiry" \in pref => "expired" \in note'
  BY <1>2, <1>6 DEF NtInv, SilenceOK
<1>9. SilenceOK'
  BY <1>3, <1>5, <1>6, <1>8 DEF NtInv, SilenceOK, OnlyReadsSilence
<1>10. CapOK'
  BY <1>3, CapKept DEF NtInv
<1> QED  BY <1>6, <1>7, <1>9, <1>10 DEF NtInv

\* The other notices say nothing of an expired permission.
LEMMA NoticeOK ==
    ASSUME NtInv, NEW k \in Keys, k \notin note => Created({k}), k \in note => UNCHANGED <<note, mail>>,
           UNCHANGED <<world, pref, worker, sent, device, quiet, revived, deaths>>,
           perm' \in [status : {"none", "active", "expired", "revoked"}, warned : BOOLEAN, announced : BOOLEAN],
           perm'.status = perm.status, perm'.announced <=> perm.announced,
           request' \in [Requesters -> NtRequests], CapOK'
    PROVE  NtInv' /\ \A l \in Keys, c \in External : mail'[l][c].count = mail[l][c].count
<1>1. /\ MailInv' /\ note' \subseteq Keys /\ note \subseteq note'
      /\ mail' \in [Keys -> [External -> Delivery]]
      /\ \A l \in Keys, c \in External : mail'[l][c].count = mail[l][c].count
  <2>1. CASE k \notin note
    BY <2>1, CreatedOK
  <2>2. CASE k \in note
    BY <2>2, MailKept DEF NtInv, NtTyped, NtTypeOK
  <2> QED  BY <2>1, <2>2
<1>2. NtTyped'
  BY <1>1 DEF NtInv, NtTyped, NtTypeOK
<1>3. SilenceOK'
  BY <1>1 DEF NtInv, SilenceOK, OnlyReadsSilence
<1> QED  BY <1>1, <1>2, <1>3 DEF NtInv

LEMMA WarnPermissionOK ==
    ASSUME NtInv, WarnPermission
    PROVE  NtInv' /\ \A k \in Keys, c \in External : mail'[k][c].count = mail[k][c].count
<1>1. /\ "expiring" \in Keys /\ CapOK' /\ request' \in [Requesters -> NtRequests]
  BY PermFacts, CapKept DEF WarnPermission, NtInv, NtTyped, JobKeys
<1>2. /\ perm' \in [status : {"none", "active", "expired", "revoked"}, warned : BOOLEAN, announced : BOOLEAN]
      /\ perm'.status = perm.status /\ perm'.announced = perm.announced
  BY PermFacts DEF WarnPermission, NtInv
<1> QED  BY <1>1, <1>2, NoticeOK DEF WarnPermission

LEMMA ExpireKeyOK ==
    ASSUME NtInv, ExpireKey
    PROVE  NtInv' /\ \A k \in Keys, c \in External : mail'[k][c].count = mail[k][c].count
<1>1. /\ "key-expiring" \in Keys /\ CapOK' /\ request' \in [Requesters -> NtRequests]
  BY PermFacts, CapKept DEF ExpireKey, NtInv, NtTyped, JobKeys
<1>2. CASE UNCHANGED <<note, mail>>
  <2>1. NtTyped' /\ MailInv' /\ SilenceOK'
    BY <1>2, MailKept DEF ExpireKey, NtInv, NtTyped, NtTypeOK, SilenceOK, OnlyReadsSilence
  <2> QED  BY <1>1, <1>2, <2>1 DEF NtInv
<1>3. CASE "key-expiring" \notin note /\ Created({"key-expiring"})
  BY <1>1, <1>3, NoticeOK, PermFacts DEF ExpireKey, NtInv
<1> QED  BY <1>2, <1>3 DEF ExpireKey

-----------------------------------------------------------------------------
(* Requests and devices.                                                   *)

LEMMA CapFinite ==
    ASSUME NtTyped
    PROVE  /\ IsFiniteSet(ActiveDevices) /\ IsFiniteSet(ActiveDevices \ revived) /\ IsFiniteSet(Counting)
           /\ Cardinality(ActiveDevices) \in Nat /\ Cardinality(ActiveDevices \ revived) \in Nat
           /\ Cardinality(Counting) \in Nat /\ Cardinality(Counting) <= Cardinality(Requesters)
           /\ Cardinality(ActiveDevices \ revived) <= Cardinality(ActiveDevices)
           /\ Cardinality(Requesters) \in Nat /\ MaxDevices \in Nat
<1>1. IsFiniteSet(Requesters) /\ IsFiniteSet(Tokens) /\ MaxDevices \in Nat
  BY NotificationsAssumption, LimitsAssumption
<1>2. ActiveDevices \subseteq Tokens /\ Counting \subseteq Requesters /\ ActiveDevices \ revived \subseteq ActiveDevices
  BY DEF ActiveDevices, Counting
<1>3. /\ IsFiniteSet(ActiveDevices) /\ IsFiniteSet(Counting)
      /\ Cardinality(Counting) <= Cardinality(Requesters)
  BY <1>1, <1>2, FS_Subset
<1>4. IsFiniteSet(ActiveDevices \ revived) /\ Cardinality(ActiveDevices \ revived) <= Cardinality(ActiveDevices)
  BY <1>2, <1>3, FS_Subset
<1> QED  BY <1>1, <1>3, <1>4, FS_CardinalityType

\* Fewer devices and fewer registrations keep the cap.
LEMMA CapLess ==
    ASSUME NtInv, UNCHANGED world, ActiveDevices' \ revived' \subseteq ActiveDevices \ revived, Counting' \subseteq Counting
    PROVE  CapOK'
<1>1. /\ IsFiniteSet(ActiveDevices \ revived) /\ IsFiniteSet(Counting)
      /\ Cardinality(ActiveDevices \ revived) \in Nat /\ Cardinality(Counting) \in Nat
      /\ Cardinality(Requesters) \in Nat /\ MaxDevices \in Nat
  BY CapFinite DEF NtInv
<1>2. /\ Cardinality(ActiveDevices' \ revived') <= Cardinality(ActiveDevices \ revived)
      /\ Cardinality(Counting') <= Cardinality(Counting)
      /\ IsFiniteSet(ActiveDevices' \ revived') /\ IsFiniteSet(Counting')
  BY <1>1, FS_Subset
<1>3. Cardinality(ActiveDevices' \ revived') \in Nat /\ Cardinality(Counting') \in Nat
  BY <1>2, FS_CardinalityType
<1>4. Cardinality(ActiveDevices \ revived) + Cardinality(Counting) <= MaxDevices + Cardinality(Requesters) - 1
  BY DEF NtInv, CapOK
<1>5. Cardinality(ActiveDevices' \ revived') + Cardinality(Counting') <= MaxDevices + Cardinality(Requesters) - 1
  BY <1>1, <1>2, <1>3, <1>4
<1> QED  BY <1>5 DEF CapOK

LEMMA NtRequestFacts ==
    ASSUME NtTyped, NEW p \in Requesters
    PROVE  /\ request[p].stage = "new" => request[p].key \in Events /\ p \notin Counting
           /\ request[p].stage = "device" => request[p].token \in Tokens /\ p \in Counting
           /\ request[p] = NoRequest => request[p].stage = "idle" /\ p \notin Counting
           /\ NoRequest.stage = "idle"
<1>1. request[p] \in NtRequests
  BY DEF NtTyped
<1>2. CASE request[p] = NoRequest
  BY <1>2 DEF NoRequest, Counting
<1>3. CASE request[p] \in [stage : {"new"}, key : Events]
  BY <1>3 DEF NoRequest, Counting
<1>4. CASE request[p] \in [stage : {"device"}, token : Tokens]
  BY <1>4 DEF NoRequest, Counting
<1> QED  BY <1>1, <1>2, <1>3, <1>4 DEF NtRequests

LEMMA FindDuplicateOK ==
    ASSUME NtInv, NEW p \in Requesters, NEW k \in Events, FindDuplicate(p, k)
    PROVE  NtInv' /\ UNCHANGED mail
<1>1. PICK r : r = [stage |-> "new", key |-> k]
  OBVIOUS
<1>2. /\ request[p] = NoRequest /\ request' = [request EXCEPT ![p] = r]
      /\ UNCHANGED <<world, pref, note, mail, worker, sent, device, perm, key, hour, quiet, revived, deaths>>
  BY <1>1 DEF FindDuplicate
<1>3. r \in NtRequests /\ r.stage = "new"
  BY <1>1 DEF NtRequests
<1>4. NtTyped'
  BY <1>2, <1>3 DEF NtInv, NtTyped, NtTypeOK
<1>5. CapOK'
  <2>1. Counting' \subseteq Counting
    BY <1>2, <1>3 DEF Counting, NtInv, NtTyped
  <2>2. ActiveDevices' \ revived' \subseteq ActiveDevices \ revived
    BY <1>2 DEF ActiveDevices
  <2> QED  BY <1>2, <2>1, <2>2, CapLess
<1>6. MailInv' /\ SilenceOK'
  BY <1>2, MailKept DEF NtInv, SilenceOK, OnlyReadsSilence
<1> QED  BY <1>2, <1>4, <1>5, <1>6 DEF NtInv

LEMMA CreateNotificationOK ==
    ASSUME NtInv, NEW p \in Requesters, create_notification(p)
    PROVE  NtInv' /\ \A k \in Keys, c \in External : mail'[k][c].count = mail[k][c].count
<1>1. PICK k : k = request[p].key
  OBVIOUS
<1>2. k \in Keys /\ p \notin Counting /\ NoRequest.stage = "idle"
  BY <1>1, NtRequestFacts DEF create_notification, NtInv, Keys
<1>3. /\ IF k \notin note THEN Created({k}) ELSE UNCHANGED <<note, mail>>
      /\ request' = [request EXCEPT ![p] = NoRequest]
      /\ UNCHANGED <<world, pref, worker, sent, device, perm, key, hour, quiet, revived, deaths>>
  BY <1>1 DEF create_notification
<1>4. request' \in [Requesters -> NtRequests]
  BY <1>3 DEF NtInv, NtTyped, NtRequests
<1>5. Counting' \subseteq Counting
  BY <1>2, <1>3 DEF Counting, NtInv, NtTyped
<1>6. ActiveDevices' \ revived' \subseteq ActiveDevices \ revived
  BY <1>3 DEF ActiveDevices
<1>7. CapOK'
  BY <1>3, <1>5, <1>6, CapLess
<1>8. perm' \in [status : {"none", "active", "expired", "revoked"}, warned : BOOLEAN, announced : BOOLEAN]
  BY <1>3, PermFacts DEF NtInv
<1> QED  BY <1>2, <1>3, <1>4, <1>7, <1>8, NoticeOK

\* A registration counts before it inserts: as many as overlap may pass the count.
LEMMA CountDevicesOK ==
    ASSUME NtInv, NEW p \in Requesters, NEW t \in Tokens, CountDevices(p, t)
    PROVE  NtInv' /\ UNCHANGED mail
<1>1. PICK r : r = [stage |-> "device", token |-> t]
  OBVIOUS
<1>2. /\ request' = [request EXCEPT ![p] = r] /\ Cardinality(ActiveDevices) < MaxDevices
      /\ UNCHANGED <<world, pref, note, mail, worker, sent, device, perm, key, hour, quiet, revived, deaths>>
  BY <1>1 DEF CountDevices
<1>3. r \in NtRequests
  BY <1>1 DEF NtRequests
<1>4. NtTyped'
  BY <1>2, <1>3 DEF NtInv, NtTyped, NtTypeOK
<1>5. CapOK'
  <2>1. /\ Cardinality(ActiveDevices) \in Nat /\ Cardinality(ActiveDevices \ revived) \in Nat
        /\ Cardinality(ActiveDevices \ revived) <= Cardinality(ActiveDevices)
        /\ Cardinality(Requesters) \in Nat /\ MaxDevices \in Nat /\ IsFiniteSet(Requesters)
    BY CapFinite, NotificationsAssumption DEF NtInv
  <2>2. Counting' \subseteq Requesters
    BY DEF Counting
  <2>3. /\ Cardinality(Counting') <= Cardinality(Requesters) /\ IsFiniteSet(Counting')
    BY <2>1, <2>2, FS_Subset
  <2>4. Cardinality(Counting') \in Nat
    BY <2>3, FS_CardinalityType
  <2>5. Cardinality(ActiveDevices \ revived) + Cardinality(Counting') <= MaxDevices + Cardinality(Requesters) - 1
    BY <1>2, <2>1, <2>3, <2>4
  <2>6. ActiveDevices' \ revived' = ActiveDevices \ revived
    BY <1>2 DEF ActiveDevices
  <2> QED  BY <2>5, <2>6 DEF CapOK
<1>6. MailInv' /\ SilenceOK'
  BY <1>2, MailKept DEF NtInv, SilenceOK, OnlyReadsSilence
<1> QED  BY <1>2, <1>4, <1>5, <1>6 DEF NtInv

LEMMA RegisterDeviceOK ==
    ASSUME NtInv, NEW p \in Requesters, register_device(p)
    PROVE  NtInv' /\ UNCHANGED mail
<1>1. PICK t : t = request[p].token
  OBVIOUS
<1>2. t \in Tokens /\ p \in Counting /\ NoRequest.stage = "idle"
  BY <1>1, NtRequestFacts DEF register_device, NtInv
<1>3. /\ device' = [device EXCEPT ![t] = IF device[t] = "none" THEN "active" ELSE device[t]]
      /\ request' = [request EXCEPT ![p] = NoRequest]
      /\ UNCHANGED <<world, pref, note, mail, worker, sent, perm, key, hour, quiet, revived, deaths>>
  BY <1>1 DEF register_device
<1>4. device \in [Tokens -> {"none", "active", "revoked"}]
  BY DEF NtInv, NtTyped, NtTypeOK
<1>5. NtTyped'
  <2>1. request' \in [Requesters -> NtRequests]
    BY <1>3 DEF NtInv, NtTyped, NtRequests
  <2>2. device' \in [Tokens -> {"none", "active", "revoked"}]
    BY <1>3, <1>4
  <2> QED  BY <1>3, <2>1, <2>2 DEF NtInv, NtTyped, NtTypeOK
<1>6. Counting' = Counting \ {p}
  BY <1>2, <1>3 DEF Counting, NtInv, NtTyped
<1>7. ActiveDevices' \ revived' \subseteq (ActiveDevices \ revived) \cup {t}
  BY <1>3, <1>4 DEF ActiveDevices
<1>8. CapOK'
  <2>1. /\ IsFiniteSet(ActiveDevices \ revived) /\ IsFiniteSet(Counting)
        /\ Cardinality(ActiveDevices \ revived) \in Nat /\ Cardinality(Counting) \in Nat
        /\ Cardinality(Requesters) \in Nat /\ MaxDevices \in Nat
    BY CapFinite DEF NtInv
  <2>2. /\ IsFiniteSet((ActiveDevices \ revived) \cup {t})
        /\ Cardinality((ActiveDevices \ revived) \cup {t}) <= Cardinality(ActiveDevices \ revived) + 1
        /\ Cardinality((ActiveDevices \ revived) \cup {t}) \in Nat
    <3>1. /\ IsFiniteSet((ActiveDevices \ revived) \cup {t})
          /\ \/ Cardinality((ActiveDevices \ revived) \cup {t}) = Cardinality(ActiveDevices \ revived)
             \/ Cardinality((ActiveDevices \ revived) \cup {t}) = Cardinality(ActiveDevices \ revived) + 1
      BY <2>1, FS_AddElement
    <3> QED  BY <2>1, <3>1
  <2>3. Cardinality(Counting') = Cardinality(Counting) - 1 /\ IsFiniteSet(Counting')
    BY <1>2, <1>6, <2>1, FS_RemoveElement
  <2>4. /\ Cardinality(ActiveDevices' \ revived') <= Cardinality((ActiveDevices \ revived) \cup {t})
        /\ IsFiniteSet(ActiveDevices' \ revived')
    BY <1>7, <2>2, FS_Subset
  <2>5. Cardinality(ActiveDevices' \ revived') \in Nat
    BY <2>4, FS_CardinalityType
  <2>6. Cardinality(ActiveDevices \ revived) + Cardinality(Counting) <= MaxDevices + Cardinality(Requesters) - 1
    BY DEF NtInv, CapOK
  <2>7. Cardinality(ActiveDevices' \ revived') + Cardinality(Counting') <= MaxDevices + Cardinality(Requesters) - 1
    BY <2>1, <2>2, <2>3, <2>4, <2>5, <2>6
  <2> QED  BY <2>7 DEF CapOK
<1>9. MailInv' /\ SilenceOK'
  BY <1>3, MailKept DEF NtInv, SilenceOK, OnlyReadsSilence
<1> QED  BY <1>3, <1>5, <1>8, <1>9 DEF NtInv

LEMMA DeviceStatusOK ==
    ASSUME NtInv, NEW t \in Tokens, ReviveDevice(t) \/ revoke_device(t)
    PROVE  NtInv' /\ UNCHANGED mail
<1>1. device \in [Tokens -> {"none", "active", "revoked"}]
  BY DEF NtInv, NtTyped, NtTypeOK
<1>2. /\ NtTyped' /\ UNCHANGED <<world, mail>> /\ MailInv' /\ SilenceOK'
  BY <1>1, MailKept DEF ReviveDevice, revoke_device, NtInv, NtTyped, NtTypeOK, SilenceOK, OnlyReadsSilence
<1>3. ActiveDevices' \ revived' \subseteq ActiveDevices \ revived /\ Counting' \subseteq Counting
  BY <1>1 DEF ReviveDevice, revoke_device, ActiveDevices, Counting
<1> QED  BY <1>2, <1>3, CapLess DEF NtInv

\* A step that is about the hour, the preferences or the permission alone.
LEMMA QuietStepOK ==
    ASSUME NtInv, UNCHANGED <<world, note, mail, request, worker, sent, device, revived, deaths>>,
           pref' \subseteq Switches, SilenceOK',
           perm' \in [status : {"none", "active", "expired", "revoked"}, warned : BOOLEAN, announced : BOOLEAN]
    PROVE  NtInv'
<1>1. MailInv' /\ CapOK'
  BY MailKept, CapKept DEF NtInv
<1>2. NtTyped'
  BY DEF NtInv, NtTyped, NtTypeOK
<1> QED  BY <1>1, <1>2 DEF NtInv

LEMMA PermissionStepOK ==
    ASSUME NtInv, get_owned_permission \/ revoke_owned_permission
    PROVE  NtInv' /\ UNCHANGED mail
<1>1. /\ UNCHANGED <<world, pref, note, mail, request, worker, sent, device, revived, deaths>>
      /\ perm' \in [status : {"none", "active", "expired", "revoked"}, warned : BOOLEAN, announced : BOOLEAN]
      /\ perm'.announced = perm.announced
  BY PermFacts DEF get_owned_permission, revoke_owned_permission, NtInv
<1>2. pref' \subseteq Switches
  BY <1>1 DEF NtInv, NtTyped, NtTypeOK
<1>3. perm'.status = "expired" => quiet' = "read"
  BY PermFacts DEF get_owned_permission, revoke_owned_permission, NtInv
<1>4. SilenceOK'
  BY <1>1, <1>3 DEF NtInv, SilenceOK, OnlyReadsSilence
<1> QED  BY <1>1, <1>2, <1>4, QuietStepOK

-----------------------------------------------------------------------------
(* The invariant and the theorems.                                         *)

LEMMA NtInitOK == NtInit => NtInv
<1> SUFFICES ASSUME NtInit  PROVE NtInv
  OBVIOUS
<1>1. world \in Worlds /\ world.pref \subseteq Switches /\ world.perm \in {"none", "active"}
  BY WorldsAssumption DEF NtInit
<1>2. NoDelivery \in Delivery /\ NoDelivery.count = 0 /\ NoBatch.stage = "idle" /\ NoRequest.stage = "idle"
  BY DEF NoDelivery, Delivery, NoBatch, NoRequest
<1>3. NtTyped
  BY <1>1, <1>2 DEF NtInit, NtTyped, NtTypeOK, NtRequests
<1>4. MailInv
  BY <1>2 DEF NtInit, MailInv, LocksOK, Locks, NotedOK, SentOK
<1>5. SilenceOK
  BY <1>1 DEF NtInit, SilenceOK, OnlyReadsSilence
<1>6. CapOK
  <2>1. ActiveDevices \ revived = {} /\ Counting = {}
    BY <1>2 DEF NtInit, ActiveDevices, Counting
  <2>2. Cardinality(ActiveDevices \ revived) = 0 /\ Cardinality(Counting) = 0
    BY <2>1, FS_EmptySet
  <2>3. Cardinality(Requesters) \in Nat /\ MaxDevices \in Nat \ {0}
    BY NotificationsAssumption, LimitsAssumption, FS_CardinalityType
  <2> QED  BY <2>2, <2>3 DEF CapOK
<1> QED  BY <1>3, <1>4, <1>5, <1>6 DEF NtInv

LEMMA NtStepOK ==
    ASSUME NtInv, [NtNext]_ntVars
    PROVE  NtInv' /\ \A k \in Keys, c \in External : mail'[k][c].count >= mail[k][c].count
<1> DEFINE Effects == NtInv' /\ \A k \in Keys, c \in External : mail'[k][c].count >= mail[k][c].count
<1> SUFFICES Effects
  OBVIOUS
<1>1. ASSUME NtInv', \A k \in Keys, c \in External : mail'[k][c].count = mail[k][c].count  PROVE Effects
  <2> SUFFICES ASSUME NEW k \in Keys, NEW c \in External  PROVE mail'[k][c].count >= mail[k][c].count
    BY <1>1
  <2>1. mail[k][c].count \in Nat /\ mail'[k][c].count = mail[k][c].count
    BY <1>1, MailTyped DEF NtInv
  <2> QED  BY <2>1
<1>2. ASSUME NtInv', UNCHANGED mail  PROVE Effects
  BY <1>1, <1>2
<1>3. CASE UNCHANGED ntVars
  <2>1. NtTyped' /\ MailInv' /\ SilenceOK' /\ CapOK'
    BY <1>3, MailKept, CapKept DEF ntVars, NtInv, NtTyped, NtTypeOK, SilenceOK, OnlyReadsSilence
  <2> QED  BY <1>2, <1>3, <2>1 DEF ntVars, NtInv
<1>4. CASE HourPasses
  BY <1>2, <1>4, QuietStepOK, PermFacts DEF HourPasses, NtInv, NtTyped, NtTypeOK, SilenceOK, OnlyReadsSilence
<1>5. ASSUME NEW s \in Preferences, update_preferences(s)  PROVE Effects
  BY <1>2, <1>5, QuietStepOK, PermFacts, PreferencesAssumption
     DEF update_preferences, NtInv, SilenceOK, OnlyReadsSilence
<1>6. CASE get_owned_permission \/ revoke_owned_permission
  BY <1>2, <1>6, PermissionStepOK
<1>7. CASE ExpirePermission
  BY <1>1, <1>7, ExpirePermissionOK
<1>8. CASE WarnPermission
  BY <1>1, <1>8, WarnPermissionOK
<1>9. CASE ExpireKey
  BY <1>1, <1>9, ExpireKeyOK
<1>10. ASSUME NEW t \in Tokens, ReviveDevice(t) \/ revoke_device(t)  PROVE Effects
  BY <1>2, <1>10, DeviceStatusOK
<1>11. ASSUME NEW p \in Requesters, NEW k \in Events, FindDuplicate(p, k)  PROVE Effects
  BY <1>2, <1>11, FindDuplicateOK
<1>12. ASSUME NEW p \in Requesters, NEW t \in Tokens, CountDevices(p, t)  PROVE Effects
  BY <1>2, <1>12, CountDevicesOK
<1>13. ASSUME NEW p \in Requesters, create_notification(p)  PROVE Effects
  BY <1>1, <1>13, CreateNotificationOK
<1>14. ASSUME NEW p \in Requesters, register_device(p)  PROVE Effects
  BY <1>2, <1>14, RegisterDeviceOK
<1>15. ASSUME NEW w \in Jobs, LockBatch(w)  PROVE Effects
  BY <1>2, <1>15, LockBatchOK DEF LockBatch
<1>16. ASSUME NEW w \in Jobs, CommitBatch(w)  PROVE Effects
  BY <1>16, CommitBatchOK
<1>17. ASSUME NEW w \in Jobs, NEW x \in Keys \X External, NEW ok \in BOOLEAN, SendOne(w, x, ok)  PROVE Effects
  BY <1>2, <1>17, SendOneOK DEF SendOne, Mails
<1>18. ASSUME NEW w \in Jobs, WorkerDies(w)  PROVE Effects
  BY <1>2, <1>18, WorkerDiesOK DEF WorkerDies
<1> HIDE DEF Effects
<1>19. CASE \E p \in Requesters :
          \/ \E k \in Events : FindDuplicate(p, k)
          \/ \E t \in Tokens : CountDevices(p, t)
          \/ create_notification(p) \/ register_device(p)
  BY <1>11, <1>12, <1>13, <1>14, <1>19
<1>20. CASE \E w \in Jobs : process_notification_deliveries(w) \/ WorkerDies(w)
  BY <1>15, <1>16, <1>17, <1>18, <1>20 DEF process_notification_deliveries
<1>21. CASE NtNext
  BY <1>4, <1>5, <1>6, <1>7, <1>8, <1>9, <1>10, <1>19, <1>20, <1>21 DEF NtNext
<1> QED  BY <1>3, <1>21

\* The invariant is kept by every action of the notifications.
THEOREM NtInvariance == NtSpec => []NtInv
<1>1. NtInit => NtInv
  BY NtInitOK
<1>2. NtInv /\ [NtNext]_ntVars => NtInv'
  BY NtStepOK
<1> QED  BY <1>1, <1>2, PTL DEF NtSpec

LEMMA NtInvRepeats ==
    ASSUME NtInv
    PROVE  RepeatsOnlyByCrash
<1> SUFFICES ASSUME NEW k \in Keys, NEW c \in External
             PROVE  sent[k][c] <= mail[k][c].count + deaths + InFlight(k, c) /\ InFlight(k, c) <= 1
  BY DEF RepeatsOnlyByCrash
<1>1. /\ mail[k][c].count \in Nat /\ sent[k][c] \in Nat /\ deaths \in Nat
  BY MailTyped DEF NtInv, NtTyped
<1>2. /\ \/ sent[k][c] <= mail[k][c].count + deaths
         \/ sent[k][c] <= mail[k][c].count + deaths + 1 /\ \E w \in Jobs : Locks(w, k, c)
      /\ \A v, w \in Jobs : Locks(v, k, c) /\ Locks(w, k, c) => v = w
  BY DEF NtInv, MailInv, SentOK, LocksOK, LockOK
<1>3. PICK L : L = {w \in Jobs : Locks(w, k, c)}
  OBVIOUS
<1>4. InFlight(k, c) = Cardinality(L)
  BY <1>3 DEF InFlight, Locks
<1>5. CASE L = {}
  <2>1. Cardinality(L) = 0
    BY <1>5, FS_EmptySet
  <2>2. sent[k][c] <= mail[k][c].count + deaths
    BY <1>2, <1>3, <1>5
  <2> QED  BY <1>1, <1>4, <2>1, <2>2
<1>6. CASE L # {}
  <2>1. PICK w : L = {w}
    BY <1>2, <1>3, <1>6
  <2>2. Cardinality({w}) = 1
    BY FS_Singleton
  <2>3. Cardinality(L) = 1
    BY <2>1, <2>2
  <2> QED  BY <1>1, <1>2, <1>4, <2>3
<1> QED  BY <1>5, <1>6

LEMMA NtInvCap ==
    ASSUME NtInv
    PROVE  DeviceCap
<1>1. /\ IsFiniteSet(ActiveDevices \ revived) /\ Cardinality(ActiveDevices \ revived) \in Nat
      /\ Cardinality(ActiveDevices) \in Nat /\ Cardinality(Counting) \in Nat
      /\ Cardinality(Requesters) \in Nat /\ MaxDevices \in Nat
  BY CapFinite DEF NtInv
<1>2. IsFiniteSet(revived) /\ Cardinality(revived) \in Nat
  <2>1. revived \subseteq Tokens
    BY DEF NtInv, NtTyped, NtTypeOK
  <2>2. IsFiniteSet(revived)
    BY <2>1, NotificationsAssumption, FS_Subset
  <2> QED  BY <2>2, FS_CardinalityType
<1>3. PICK U : U = (ActiveDevices \ revived) \cup revived
  OBVIOUS
<1>4. IsFiniteSet(U) /\ Cardinality(U) \in Nat /\ Cardinality(U) <= Cardinality(ActiveDevices \ revived) + Cardinality(revived)
  <2>1. (ActiveDevices \ revived) \cap revived = {}
    OBVIOUS
  <2>2. Cardinality((ActiveDevices \ revived) \cap revived) = 0
    BY <2>1, FS_EmptySet
  <2>3. /\ IsFiniteSet(U)
        /\ Cardinality(U) = Cardinality(ActiveDevices \ revived) + Cardinality(revived)
                              - Cardinality((ActiveDevices \ revived) \cap revived)
    BY <1>1, <1>2, <1>3, FS_Union
  <2>4. Cardinality(U) \in Nat
    BY <2>3, FS_CardinalityType
  <2> QED  BY <1>1, <1>2, <2>2, <2>3, <2>4
<1>5. Cardinality(ActiveDevices) <= Cardinality(U)
  <2>1. ActiveDevices \subseteq U
    BY <1>3
  <2> QED  BY <1>4, <2>1, FS_Subset
<1>6. Cardinality(ActiveDevices \ revived) + Cardinality(Counting) <= MaxDevices + Cardinality(Requesters) - 1
  BY DEF NtInv, CapOK
<1> QED  BY <1>1, <1>2, <1>4, <1>5, <1>6 DEF DeviceCap

\* Whatever the number of workers, requests and devices: a message is repeated only by a
\* crash, an expiry is silent only after a read, and the cap is passed only by overlaps.
THEOREM NotificationsTheorem == NtSpec => []NotificationsHold
<1>1. NtInv => NotificationsHold
  BY NtInvRepeats, NtInvCap DEF NtInv, NtTyped, SilenceOK, NotificationsHold
<1> QED  BY <1>1, NtInvariance, PTL

\* No step of a request or a worker queues a recorded delivery afresh.
THEOREM NeverRequeuedTheorem == NtSpec => NeverRequeued
<1> DEFINE Kept == \A k \in Keys, c \in External : mail'[k][c].count >= mail[k][c].count
<1>1. NtInv /\ [NtNext]_ntVars => [Kept]_ntVars
  BY NtStepOK
<1>2. [][Kept]_ntVars => NeverRequeued
  BY DEF NeverRequeued
<1> HIDE DEF Kept
<1> QED  BY <1>1, <1>2, NtInvariance, PTL DEF NtSpec

-----------------------------------------------------------------------------
(***************************************************************************)
(* The control plane of an enterprise gateway and its sidecar, for any     *)
(* number of managers, threads, keys, bundles, agents and nonces.          *)
(*                                                                         *)
(* What a handler loaded is out of date when it commits, so the invariant  *)
(* says what of it still holds (GwCopyOK, DraftOK): a draft of a bundle    *)
(* continues the published ones, an enrolment that nothing overlapped has  *)
(* loaded the key and the token the row still has.  A sidecar approves     *)
(* under a bundle other than the one whose expiry it asked; it is enough   *)
(* that a later bundle never expires earlier (Ordered).                    *)
(***************************************************************************)

\* The control plane's invariant.
RowWriters == {"enroll", "heartbeat", "stop"}
GwJob ==
    {GwIdle} \cup [op : RowWriters, loaded : GatewayRow, edited : GatewayRow]
             \cup [op : {"publish"}, version : 1 .. MaxVersion, row : BundleRow]

GwTyped ==
    /\ GwTypeOK
    /\ use \in Deployments
    /\ bundle \in [1 .. MaxVersion -> BundleRow \cup {NoBundle}]
    /\ job \in [Managers -> GwJob]

\* A token is spent by binding a key, and a row that does not exist has no key.
TokenOK == (gw.token \/ gw.status = "none") => gw.key = Unenrolled

\* What a copy of the gateway's row still says of it.
GwCopyOK(m) ==
    LET loaded == job[m].loaded  edited == job[m].edited IN
    /\ gw.status # "none" /\ loaded.status # "none" /\ edited.status # "none"
    /\ edited.token => loaded.token
    /\ job[m].op # "enroll" => edited.key \in {loaded.key, Unenrolled}
    /\ job[m].op = "heartbeat" => edited.status = loaded.status /\ edited.token = loaded.token
    /\ job[m].op = "stop" => Stopped(edited)
    /\ job[m].op = "enroll" => loaded.token /\ ~edited.token
    /\ (job[m].op = "enroll" /\ "enroll" \notin gwRaced) =>
         /\ ~Stopped(gw) /\ gw.token
         /\ \A q \in Managers \ {m} : job[q].op \notin {"enroll", "stop"}

\* The agents that a computed list leaves out were struck no earlier than it was computed.
GwFresh(rec) ==
    ~rec.given => \A a \in Subjects \ rec.revocations : struckAt[a] + BundleTTL >= rec.expires
GwRowOK(rec) == rec.expires <= gwNow + BundleTTL /\ GwFresh(rec)

\* Every number below v is published, and those bundles expire no later than e.
Continues(v, e) == \A w \in 1 .. v - 1 : bundle[w] # NoBundle /\ bundle[w].expires <= e

Ordered ==
    \A v \in 1 .. MaxVersion :
        bundle[v] # NoBundle => GwRowOK(bundle[v]) /\ Continues(v, bundle[v].expires)
DraftOK(m) == GwRowOK(job[m].row) /\ Continues(job[m].version, job[m].row.expires)

StrikesOK == \A a \in Subjects : struckAt[a] <= gwNow \/ struckAt[a] = Standing
GwCopiesOK == \A m \in Managers : job[m].op \in RowWriters => GwCopyOK(m)
DraftsOK == \A m \in Managers : job[m].op = "publish" => DraftOK(m)

GatewayInv == GwTyped /\ TokenOK /\ Ordered /\ StrikesOK /\ GwCopiesOK /\ DraftsOK

(***************************************************************************)
(* The sidecar's invariant.                                                *)
(***************************************************************************)
Expiries == [Nonces -> 0 .. MaxGwTime + NonceTTL]
NonceStages == {"pruning", "pruned", "unseen"}
ScTask ==
    {ScIdle} \cup [stage : {"health"}]
    \cup [stage : {"fetched"}, got : 1 .. MaxVersion]
    \cup [stage : {"checked", "updated"}, got : 1 .. MaxVersion, over : 0 .. MaxVersion]
    \cup [stage : NonceStages, agent : Subjects, nonce : Nonces, for : Asked,
          offline : BOOLEAN, dict : Expiries]
    \cup [stage : {"current?"}, agent : Subjects, nonce : Nonces \cup {NoNonce}, for : Asked,
          offline : BOOLEAN, dict : Expiries]
    \cup [stage : {"current"}, agent : Subjects, for : Asked, offline : BOOLEAN, asked : 0 .. MaxGwTime]
    \cup [stage : {"answered"}, agent : Subjects, asked : 0 .. MaxGwTime, decision : Decisions,
          under : BundleRow]

ScTyped ==
    /\ ScTypeOK
    /\ seen \in Expiries /\ let \in Expiries
    /\ task \in [Threads -> ScTask]
    /\ cache > 0 => bundle[cache] # NoBundle

\* A synchronization holds a published version, newer than the one it was compared with.
SyncOK(t) ==
    /\ task[t].stage \in {"fetched", "checked", "updated"} => bundle[task[t].got] # NoBundle
    /\ task[t].stage = "checked" => task[t].got > task[t].over \/ task[t].over = 0

\* The bundle in force expires no earlier than an evaluation that is under way has asked.
CurrentOK(t) ==
    /\ task[t].stage \in {"current", "answered"} => task[t].asked <= gwNow
    /\ task[t].stage = "current" =>
         applied > 0 /\ ("config" \notin scRaced => task[t].asked <= bundle[applied].expires)

\* A nonce that passed is remembered, in the dictionary in force and in the one being pruned.
RememberedIn(dict) == \A n \in Nonces : let[n] > gwNow => dict[n] = let[n]
NoncesOK ==
    /\ RememberedIn(seen)
    /\ \A t \in Threads : task[t].stage = "pruning" => RememberedIn(task[t].dict)
    /\ \A t \in Threads : task[t].stage = "unseen" => seen[task[t].nonce] = 0
    /\ \A t, q \in Threads : task[t].stage \in NonceStages /\ task[q].stage \in NonceStages => t = q

\* An approval follows what was struck up to a bundle's lifetime before it.
AnswerOK(t) ==
    (task[t].stage = "answered" /\ task[t].decision = "LOCAL_APPROVED"
       /\ ~task[t].under.given /\ "config" \notin scRaced)
      => struckAt[task[t].agent] + BundleTTL >= task[t].asked

SidecarInv ==
    /\ ScTyped
    /\ \A t \in Threads : SyncOK(t) /\ CurrentOK(t) /\ AnswerOK(t)
    /\ "nonce" \notin scRaced => NoncesOK

-----------------------------------------------------------------------------
(* The operators. *)

LEMMA Constants ==
    /\ TokenTTL \in Nat /\ BundleTTL \in Nat /\ MaxVersion \in Nat /\ MaxGwTime \in Nat
    /\ NonceTTL \in Nat /\ Standing \in Nat
BY GatewayAssumption, SidecarAssumption DEF Standing

\* A set of version numbers has a greatest one.
LEMMA GreatestVersion ==
    ASSUME NEW S \in SUBSET (1 .. MaxVersion), S # {}
    PROVE  Max(S) \in S /\ \A v \in S : v <= Max(S)
<1> DEFINE D == {MaxVersion - v : v \in S}
<1>1. MaxVersion \in Nat
  BY Constants
<1>2. D \subseteq Nat /\ D # {}
  <2>1. PICK x : x \in S
    OBVIOUS
  <2>2. MaxVersion - x \in D
    BY <2>1
  <2> QED
    BY <1>1, <2>2
<1>3. PICK d \in D : \A e \in D : ~(<<e, d>> \in OpToRel(<, Nat))
  <2> HIDE DEF D
  <2> QED
    BY <1>2, WFMin, NatLessThanWellFounded, Zenon
<1>4. \A e \in D : ~(e < d)
  <2> SUFFICES ASSUME NEW e \in D, e < d
               PROVE  FALSE
    OBVIOUS
  <2>1. <<e, d>> \in OpToRel(<, Nat)
    <3> HIDE DEF D
    <3> QED
      BY <1>2, <1>3, Zenon DEF OpToRel
  <2> QED
    BY <1>3, <2>1
<1>5. PICK x \in S : d = MaxVersion - x
  BY <1>3
<1>6. \A v \in S : x >= v
  <2> TAKE v \in S
  <2>1. MaxVersion - v \in D /\ MaxVersion - v \in Nat /\ d \in Nat
    BY <1>2, <1>3
  <2>2. ~(MaxVersion - v < d)
    BY <1>4, <2>1
  <2> QED
    BY <1>1, <1>5, <2>1, <2>2
<1> QED
  BY <1>6 DEF Max

\* The number a draft gets continues the published ones, whatever environment they are of.
LEMMA LatestFacts ==
    ASSUME MaxVersion \in Nat, NEW env
    PROVE  /\ latest_bundle(env) \in 0 .. MaxVersion
           /\ latest_bundle(env) > 0 => bundle[latest_bundle(env)] # NoBundle
<1>1. CASE Published(env) = {}
  BY <1>1 DEF latest_bundle
<1>2. CASE Published(env) # {}
  <2>1. Published(env) \subseteq 1 .. MaxVersion
    BY DEF Published
  <2>2. Max(Published(env)) \in Published(env)
    BY <1>2, <2>1, GreatestVersion
  <2> QED
    BY <1>2, <2>1, <2>2 DEF latest_bundle, Published
<1> QED
  BY <1>1, <1>2

\* A commit writes a column exactly where the copy was changed.
LEMMA GwFlushFacts ==
    ASSUME NEW rec \in GatewayRow, NEW loaded \in GatewayRow, NEW edited \in GatewayRow,
           NEW new, new = Flush(rec, loaded, edited)
    PROVE  /\ new \in GatewayRow
           /\ new.status = IF edited.status = loaded.status THEN rec.status ELSE edited.status
           /\ new.key = IF edited.key = loaded.key THEN rec.key ELSE edited.key
           /\ new.token = IF edited.token = loaded.token THEN rec.token ELSE edited.token
<1> DEFINE F == {"status", "key", "token", "tokenExpires", "reported", "env"}
<1>1. DOMAIN rec = F
  BY DEF GatewayRow
<1>2. /\ DOMAIN new = F
      /\ \A f \in F : new[f] = IF edited[f] = loaded[f] THEN rec[f] ELSE edited[f]
  BY <1>1 DEF Flush
<1>3. new = [status |-> new.status, key |-> new.key, token |-> new.token,
             tokenExpires |-> new.tokenExpires, reported |-> new.reported, env |-> new.env]
  BY <1>1, <1>2 DEF Flush
<1>4. /\ new.status \in GatewayStatus /\ new.key \in GwKeys \cup {Unenrolled}
      /\ new.token \in BOOLEAN /\ new.tokenExpires \in Nat
      /\ new.reported \in 0 .. MaxVersion /\ new.env \in GwEnvironments
  BY <1>1, <1>2 DEF GatewayRow
<1>5. new \in GatewayRow
  BY <1>3, <1>4 DEF GatewayRow
<1> QED
  BY <1>2, <1>5

-----------------------------------------------------------------------------
(* The records. *)

\* What a session may hold.
LEMMA JobFacts ==
    ASSUME GwTyped, NEW m \in Managers
    PROVE  /\ job[m].op \in RowWriters => job[m].loaded \in GatewayRow /\ job[m].edited \in GatewayRow
           /\ job[m].op = "publish" => job[m].version \in 1 .. MaxVersion /\ job[m].row \in BundleRow
           /\ job[m].op \in RowWriters \cup {"publish", "idle"}
           /\ job[m].op = "idle" <=> job[m] = GwIdle
BY DEF GwTyped, GwJob, GwIdle, RowWriters

LEMMA JobTypes ==
    /\ GwIdle \in GwJob /\ GwIdle.op = "idle"
    /\ \A op \in RowWriters, loaded, edited \in GatewayRow :
         [op |-> op, loaded |-> loaded, edited |-> edited] \in GwJob
    /\ \A v \in 1 .. MaxVersion, rec \in BundleRow :
         [op |-> "publish", version |-> v, row |-> rec] \in GwJob
BY DEF GwJob, GwIdle

LEMMA RowFacts ==
    ASSUME NEW rec \in GatewayRow
    PROVE  /\ rec.status \in GatewayStatus /\ rec.key \in GwKeys \cup {Unenrolled}
           /\ rec.token \in BOOLEAN /\ rec.tokenExpires \in Nat
           /\ rec.reported \in 0 .. MaxVersion /\ rec.env \in GwEnvironments
           /\ DOMAIN rec = {"status", "key", "token", "tokenExpires", "reported", "env"}
BY DEF GatewayRow

\* What each handler makes of its copy.
LEMMA EditFacts ==
    ASSUME NEW rec \in GatewayRow
    PROVE  /\ \A k \in GwKeys : LET e == Enrolled(rec, k) IN
                 e \in GatewayRow /\ e.status = "ACTIVE" /\ e.key = k /\ e.token = FALSE
           /\ \A v \in 0 .. MaxVersion : LET e == Heard(rec, v) IN
                 /\ e \in GatewayRow /\ e.status = rec.status /\ e.key = rec.key
                 /\ e.token = rec.token
           /\ LET e == suspend_enterprise_gateway(rec) IN
                 e \in GatewayRow /\ Stopped(e) /\ e.key = rec.key /\ e.token = rec.token
           /\ LET e == revoke_enterprise_gateway(rec) IN
                 e \in GatewayRow /\ Stopped(e) /\ e.key = Unenrolled /\ e.token = FALSE
<1> USE RowFacts
<1>1. ASSUME NEW k \in GwKeys, NEW e, e = Enrolled(rec, k)
      PROVE  e \in GatewayRow /\ e.status = "ACTIVE" /\ e.key = k /\ e.token = FALSE
  BY <1>1 DEF Enrolled, GatewayRow, GatewayStatus
<1>2. ASSUME NEW v \in 0 .. MaxVersion, NEW e, e = Heard(rec, v)
      PROVE  /\ e \in GatewayRow /\ e.status = rec.status /\ e.key = rec.key
             /\ e.token = rec.token
  <2>1. e = [rec EXCEPT !.reported = v, !.status = rec.status]
    BY <1>2 DEF Heard, GatewayStatus
  <2> QED
    BY <2>1 DEF GatewayRow, GatewayStatus
<1>3. ASSUME NEW e, e = suspend_enterprise_gateway(rec)
      PROVE  e \in GatewayRow /\ Stopped(e) /\ e.key = rec.key /\ e.token = rec.token
  BY <1>3 DEF suspend_enterprise_gateway, Stopped, GatewayRow, GatewayStatus
<1>4. ASSUME NEW e, e = revoke_enterprise_gateway(rec)
      PROVE  e \in GatewayRow /\ Stopped(e) /\ e.key = Unenrolled /\ e.token = FALSE
  BY <1>4 DEF revoke_enterprise_gateway, Stopped, GatewayRow, GatewayStatus
<1> QED
  BY <1>1, <1>2, <1>3, <1>4

LEMMA BundleFacts ==
    ASSUME NEW rec \in BundleRow
    PROVE  /\ rec.env \in GwEnvironments /\ rec.revocations \in SUBSET Subjects
           /\ rec.given \in BOOLEAN /\ rec.expires \in Nat /\ rec # NoBundle
BY DEF BundleRow, NoBundle

-----------------------------------------------------------------------------
(* The steps of the control plane. *)

LEMMA GwInitInv ==
    ASSUME GwInit
    PROVE  GatewayInv
<1> USE Constants
<1>1. use \in Deployments /\ \A d \in Deployments : d.envs \subseteq GwEnvironments
  BY GatewayAssumption DEF GwInit
<1>2. /\ gw \in GatewayRow /\ TokenOK
  <2>1. /\ gw.status \in {"ACTIVE", "none"} /\ gw.token \in BOOLEAN /\ ~gw.token
        /\ gw.key \in {FirstKey, Unenrolled} /\ (gw.status = "none" => gw.key = Unenrolled)
        /\ gw.tokenExpires = 0 /\ gw.reported = 0 /\ gw.env \in use.envs
    <3>1. CASE use.enrolled
      BY <3>1 DEF GwInit
    <3>2. CASE ~use.enrolled
      BY <3>2 DEF GwInit
    <3> QED
      BY <3>1, <3>2
  <2>2. gw.env \in GwEnvironments
    BY <1>1, <2>1
  <2>3. /\ gw.status \in GatewayStatus /\ gw.key \in GwKeys \cup {Unenrolled}
        /\ gw.token \in BOOLEAN /\ gw.tokenExpires \in Nat /\ gw.reported \in 0 .. MaxVersion
    BY <2>1, GatewayAssumption DEF GatewayStatus
  <2>4. gw = [status |-> gw.status, key |-> gw.key, token |-> gw.token,
              tokenExpires |-> gw.tokenExpires, reported |-> gw.reported, env |-> gw.env]
    BY DEF GwInit
  <2>5. gw \in GatewayRow
    BY <2>2, <2>3, <2>4 DEF GatewayRow
  <2> QED
    BY <2>1, <2>5 DEF TokenOK
<1>3. /\ gwNow \in 0 .. MaxGwTime /\ struckAt \in [Subjects -> 0 .. Standing]
      /\ \A v \in 1 .. MaxVersion : bundle[v] = NoBundle
      /\ bundle \in [1 .. MaxVersion -> BundleRow \cup {NoBundle}]
      /\ \A m \in Managers : job[m].op = "idle"
      /\ job \in [Managers -> GwJob]
  BY JobTypes DEF GwInit
<1>4. GwTyped
  BY <1>1, <1>2, <1>3 DEF GwTyped, GwTypeOK
<1>5. Ordered /\ GwCopiesOK /\ DraftsOK
  BY <1>3 DEF Ordered, GwCopiesOK, DraftsOK, RowWriters
<1>6. StrikesOK
  BY DEF GwInit, StrikesOK
<1> QED
  BY <1>2, <1>4, <1>5, <1>6 DEF GatewayInv

\* Time passes: a bundle only grows older.
LEMMA TickStep ==
    ASSUME GatewayInv, GwTick
    PROVE  GatewayInv'
<1> USE Constants DEF GatewayInv
<1>1. /\ gwNow \in 0 .. MaxGwTime /\ gwNow' = gwNow + 1 /\ gwNow' \in 0 .. MaxGwTime
      /\ UNCHANGED <<gw, bundle, struckAt, job, use, gwRaced>>
  BY GatewayAssumption DEF GwTick, GwTyped, GwTypeOK
<1>2. GwTyped' /\ TokenOK'
  BY <1>1 DEF GwTyped, GwTypeOK, TokenOK, Stopped
<1>3. StrikesOK'
  BY <1>1 DEF StrikesOK, GwTyped, GwTypeOK
<1>4. ASSUME NEW rec \in BundleRow, GwRowOK(rec)
      PROVE  GwRowOK(rec)'
  BY <1>1, <1>4, BundleFacts DEF GwRowOK, GwFresh
<1>5. Ordered'
  <2>1. \A v \in 1 .. MaxVersion : bundle[v] # NoBundle => bundle[v] \in BundleRow
    BY DEF GwTyped
  <2> QED
    BY <1>1, <1>4, <2>1 DEF Ordered, Continues
<1>6. GwCopiesOK'
  BY <1>1 DEF GwCopiesOK, GwCopyOK, Stopped
<1>7. DraftsOK'
  BY <1>1, <1>4, JobFacts DEF DraftsOK, DraftOK, Continues
<1> QED
  BY <1>2, <1>3, <1>5, <1>6, <1>7

\* An agent or a credential is struck or restored.
LEMMA StrikeStep ==
    ASSUME GatewayInv, NEW a \in Subjects, Strike(a) \/ Restore(a)
    PROVE  GatewayInv'
<1> USE Constants DEF GatewayInv
<1>1. /\ gwNow \in 0 .. MaxGwTime
      /\ UNCHANGED <<gwNow, gw, bundle, job, use, gwRaced>>
      /\ struckAt \in [Subjects -> 0 .. Standing]
      /\ struckAt' = [struckAt EXCEPT ![a] = gwNow] \/ struckAt' = [struckAt EXCEPT ![a] = Standing]
  BY DEF Strike, Restore, GwTyped, GwTypeOK
<1>2. /\ struckAt' \in [Subjects -> 0 .. Standing]
      /\ \A b \in Subjects : struckAt'[b] = struckAt[b] \/ struckAt'[b] = gwNow \/ struckAt'[b] = Standing
  BY <1>1 DEF Standing
<1>3. GwTyped' /\ TokenOK'
  BY <1>1, <1>2 DEF GwTyped, GwTypeOK, TokenOK
<1>4. StrikesOK'
  BY <1>1, <1>2 DEF StrikesOK
<1>5. ASSUME NEW rec \in BundleRow, GwRowOK(rec)
      PROVE  GwRowOK(rec)'
  <2>1. Standing >= gwNow
    BY <1>1 DEF Standing
  <2>2. rec.expires \in Nat /\ rec.expires <= gwNow + BundleTTL
    BY <1>5, BundleFacts DEF GwRowOK
  <2>3. ASSUME NEW b \in Subjects, struckAt[b] + BundleTTL >= rec.expires
        PROVE  struckAt'[b] + BundleTTL >= rec.expires
    BY <1>1, <1>2, <2>1, <2>2, <2>3
  <2> QED
    BY <1>1, <1>5, <2>2, <2>3 DEF GwRowOK, GwFresh
<1>6. Ordered'
  <2>1. \A v \in 1 .. MaxVersion : bundle[v] # NoBundle => bundle[v] \in BundleRow
    BY DEF GwTyped
  <2> QED
    BY <1>1, <1>5, <2>1 DEF Ordered, Continues
<1>7. GwCopiesOK'
  BY <1>1 DEF GwCopiesOK, GwCopyOK, Stopped
<1>8. DraftsOK'
  BY <1>1, <1>5, JobFacts DEF DraftsOK, DraftOK, Continues
<1> QED
  BY <1>3, <1>4, <1>6, <1>7, <1>8

\* Registration: nothing is under way on a row that does not exist.
LEMMA RegisterStep ==
    ASSUME GatewayInv, register_enterprise_gateway
    PROVE  GatewayInv'
<1> USE Constants DEF GatewayInv
<1>1. /\ gw \in GatewayRow /\ gw.status = "none" /\ gwNow \in Nat
      /\ UNCHANGED <<gwNow, bundle, struckAt, job, use, gwRaced>>
      /\ gw' = [gw EXCEPT !.status = "ENROLLING", !.token = TRUE, !.tokenExpires = gwNow + TokenTTL]
  BY DEF register_enterprise_gateway, GwTyped, GwTypeOK
<1>2. gw' \in GatewayRow /\ gw'.key = gw.key
  <2>1. gwNow + TokenTTL \in Nat
    BY <1>1
  <2> QED
    BY <1>1, <2>1, RowFacts DEF GatewayRow, GatewayStatus
<1>3. GwTyped' /\ TokenOK'
  BY <1>1, <1>2 DEF GwTyped, GwTypeOK, TokenOK
<1>4. \A m \in Managers : job[m].op \notin RowWriters
  BY <1>1 DEF GwCopiesOK, GwCopyOK
<1>5. GwCopiesOK'
  BY <1>1, <1>4 DEF GwCopiesOK
<1>6. StrikesOK' /\ Ordered' /\ DraftsOK'
  BY <1>1 DEF StrikesOK, Ordered, DraftsOK, DraftOK, Continues, GwRowOK, GwFresh
<1> QED
  BY <1>3, <1>5, <1>6

\* A handler loads the row: what it makes of it is what the row allows.
LEMMA StartStep ==
    ASSUME GatewayInv, NEW m \in Managers, NEW op \in RowWriters, NEW rec \in GatewayRow,
           Start(m, op, rec),
           rec.status # "none", rec.token => gw.token,
           op # "enroll" => rec.key \in {gw.key, Unenrolled},
           op = "heartbeat" => rec.status = gw.status /\ rec.token = gw.token,
           op = "stop" => Stopped(rec),
           op = "enroll" => gw.token /\ ~rec.token /\ ~Stopped(gw)
    PROVE  GatewayInv'
<1> USE Constants DEF GatewayInv
<1>1. PICK j : j = [op |-> op, loaded |-> gw, edited |-> rec]
  OBVIOUS
<1>2. /\ gw \in GatewayRow /\ gw.status # "none"
      /\ j \in GwJob /\ j.op = op /\ j.loaded = gw /\ j.edited = rec
  BY <1>1, JobTypes DEF Start, GwTyped, GwTypeOK
<1>3. /\ UNCHANGED <<gwNow, gw, bundle, struckAt, use>>
      /\ job' = [job EXCEPT ![m] = j]
      /\ job \in [Managers -> GwJob]
      /\ gwRaced \subseteq gwRaced'
      /\ \A q \in Managers : job[q].op \in {"enroll", "stop"} /\ "enroll" \in {op, job[q].op}
            => "enroll" \in gwRaced'
  BY <1>1 DEF Start, GwTyped
<1>4. /\ job' \in [Managers -> GwJob] /\ job'[m] = j
      /\ \A q \in Managers \ {m} : job'[q] = job[q]
  BY <1>2, <1>3
<1>5. GwTyped'
  <2>1. \A q \in Managers : job'[q].op \in {"idle", "enroll", "heartbeat", "stop", "publish"}
    BY <1>2, <1>4, JobFacts DEF RowWriters
  <2> QED
    BY <1>3, <1>4, <2>1 DEF GwTyped, GwTypeOK
<1>6. TokenOK' /\ Ordered' /\ StrikesOK'
  BY <1>3 DEF TokenOK, Ordered, StrikesOK, Continues, GwRowOK, GwFresh
<1>7. DraftsOK'
  <2>1. \A q \in Managers : job'[q].op = "publish" => job'[q] = job[q]
    BY <1>2, <1>4 DEF RowWriters
  <2> QED
    BY <1>3, <2>1 DEF DraftsOK, DraftOK, Continues, GwRowOK, GwFresh
<1>8. GwCopyOK(m)'
  BY <1>2, <1>3, <1>4 DEF GwCopyOK, Stopped
<1>9. ASSUME NEW q \in Managers \ {m}, job[q].op \in RowWriters
      PROVE  GwCopyOK(q)'
  <2>1. GwCopyOK(q)
    BY <1>9 DEF GwCopiesOK
  <2>2. ASSUME job[q].op = "enroll", "enroll" \notin gwRaced'
        PROVE  \A r \in Managers \ {q} : job'[r].op \notin {"enroll", "stop"}
    <3>1. op \notin {"enroll", "stop"}
      BY <1>3, <1>9, <2>2 DEF RowWriters
    <3> QED
      BY <1>2, <1>3, <1>4, <2>1, <2>2, <3>1 DEF GwCopyOK
  <2> QED
    BY <1>3, <1>4, <2>1, <2>2 DEF GwCopyOK, Stopped
<1>10. GwCopiesOK'
  BY <1>4, <1>8, <1>9 DEF GwCopiesOK
<1> QED
  BY <1>5, <1>6, <1>7, <1>10

LEMMA HandlerSteps ==
    ASSUME GatewayInv, NEW m \in Managers,
           \/ \E k \in GwKeys : enroll_enterprise_gateway(m, k)
           \/ \E v \in 0 .. MaxVersion : \E k : verify_gateway_heartbeat(m, v, k)
           \/ StopGateway(m)
    PROVE  GatewayInv'
<1> USE DEF GatewayInv
<1>1. gw \in GatewayRow /\ (gw.token \/ gw.status = "none" => gw.key = Unenrolled)
  BY DEF GwTyped, GwTypeOK, TokenOK
<1>2. ASSUME NEW k \in GwKeys, enroll_enterprise_gateway(m, k)
      PROVE  GatewayInv'
  <2>1. PICK e : e = Enrolled(gw, k)
    OBVIOUS
  <2>2. e \in GatewayRow /\ e.status = "ACTIVE" /\ e.key = k /\ e.token = FALSE
    BY <1>1, <2>1, EditFacts
  <2>3. Start(m, "enroll", e) /\ MayEnroll(gw)
    BY <1>2, <2>1 DEF enroll_enterprise_gateway
  <2>4. gw.token /\ ~Stopped(gw)
    BY <2>3 DEF MayEnroll
  <2> QED
    BY <2>2, <2>3, <2>4, StartStep DEF RowWriters
<1>3. ASSUME NEW v \in 0 .. MaxVersion, NEW k, verify_gateway_heartbeat(m, v, k)
      PROVE  GatewayInv'
  <2>1. PICK e : e = Heard(gw, v)
    OBVIOUS
  <2>2. /\ e \in GatewayRow /\ e.status = gw.status /\ e.key = gw.key /\ e.token = gw.token
    BY <1>1, <2>1, EditFacts
  <2>3. Start(m, "heartbeat", e) /\ gw.status # "none"
    BY <1>3, <2>1 DEF verify_gateway_heartbeat, Start
  <2> QED
    BY <2>2, <2>3, StartStep DEF RowWriters
<1>4. ASSUME StopGateway(m)
      PROVE  GatewayInv'
  <2>1. PICK e \in {suspend_enterprise_gateway(gw), revoke_enterprise_gateway(gw)} : Start(m, "stop", e)
    BY <1>4 DEF StopGateway
  <2>2. /\ e \in GatewayRow /\ Stopped(e) /\ e.key \in {gw.key, Unenrolled}
        /\ e.token => gw.token
    <3>1. CASE e = suspend_enterprise_gateway(gw)
      BY <1>1, <3>1, EditFacts
    <3>2. CASE e = revoke_enterprise_gateway(gw)
      BY <1>1, <3>2, EditFacts
    <3> QED
      BY <2>1, <3>1, <3>2
  <2>3. e.status # "none"
    BY <2>2 DEF Stopped
  <2> QED
    BY <2>1, <2>2, <2>3, StartStep DEF RowWriters
<1> QED
  BY <1>2, <1>3, <1>4

\* What a commit makes of the row.
LEMMA CommitFacts ==
    ASSUME GatewayInv, NEW m \in Managers, CommitGateway(m)
    PROVE  /\ gw' \in GatewayRow /\ gw'.status # "none"
           /\ Stopped(gw) => Stopped(gw') \/ (job[m].op = "enroll" /\ "enroll" \in gwRaced)
           /\ job[m].op = "heartbeat" => gw'.status = gw.status /\ (gw.token => gw'.token)
           /\ gw.key \in GwKeys =>
                gw'.key \in {gw.key, Unenrolled} \/ (job[m].op = "enroll" /\ "enroll" \in gwRaced)
           /\ TokenOK'
<1> USE DEF GatewayInv
<1>1. PICK l, e, g : l = job[m].loaded /\ e = job[m].edited /\ g = gw'
  OBVIOUS
<1>2. job[m].op \in RowWriters /\ GwCopyOK(m)
  BY DEF CommitGateway, GwCopiesOK, RowWriters
<1>3. l \in GatewayRow /\ e \in GatewayRow /\ gw \in GatewayRow /\ g = Flush(gw, l, e)
  BY <1>1, <1>2, JobFacts DEF CommitGateway, GwTyped, GwTypeOK
<1>4. /\ g \in GatewayRow
      /\ g.status = IF e.status = l.status THEN gw.status ELSE e.status
      /\ g.key = IF e.key = l.key THEN gw.key ELSE e.key
      /\ g.token = IF e.token = l.token THEN gw.token ELSE e.token
  BY <1>3, GwFlushFacts
<1>5. /\ gw.status # "none" /\ e.status # "none"
      /\ e.token => l.token
      /\ job[m].op # "enroll" => e.key \in {l.key, Unenrolled}
      /\ job[m].op = "heartbeat" => e.status = l.status /\ e.token = l.token
      /\ job[m].op = "stop" => Stopped(e)
      /\ job[m].op = "enroll" => l.token /\ ~e.token
      /\ (job[m].op = "enroll" /\ "enroll" \notin gwRaced) => ~Stopped(gw) /\ gw.token
  BY <1>1, <1>2 DEF GwCopyOK
<1>6. /\ l.token \in BOOLEAN /\ e.token \in BOOLEAN /\ gw.token \in BOOLEAN
      /\ gw.token \/ gw.status = "none" => gw.key = Unenrolled
      /\ Unenrolled \notin GwKeys
  BY <1>3, RowFacts, GatewayAssumption DEF TokenOK
<1>7. g.status # "none"
  BY <1>4, <1>5
<1>8. Stopped(gw) => Stopped(g) \/ (job[m].op = "enroll" /\ "enroll" \in gwRaced)
  BY <1>2, <1>4, <1>5 DEF Stopped, RowWriters
<1>9. /\ g.token => gw.token
      /\ job[m].op = "enroll" => ~g.token
  BY <1>4, <1>5, <1>6
<1>10. job[m].op # "enroll" => g.key \in {gw.key, Unenrolled}
  BY <1>4, <1>5
<1>11. g.token => g.key = Unenrolled
  BY <1>6, <1>9, <1>10
<1>12. gw.key \in GwKeys => g.key \in {gw.key, Unenrolled} \/ (job[m].op = "enroll" /\ "enroll" \in gwRaced)
  BY <1>5, <1>6, <1>10
<1>13. job[m].op = "heartbeat" => g.status = gw.status /\ (gw.token => g.token)
  BY <1>4, <1>5
<1>14. TokenOK'
  BY <1>1, <1>7, <1>11 DEF TokenOK
<1> QED
  BY <1>1, <1>4, <1>6, <1>7, <1>8, <1>9, <1>11, <1>12, <1>13, <1>14

LEMMA CommitStep ==
    ASSUME GatewayInv, NEW m \in Managers, CommitGateway(m)
    PROVE  GatewayInv'
<1> USE DEF GatewayInv
<1>1. /\ UNCHANGED <<gwNow, bundle, struckAt, use, gwRaced>>
      /\ job' = [job EXCEPT ![m] = GwIdle] /\ job \in [Managers -> GwJob]
      /\ job[m].op \in RowWriters
  BY DEF CommitGateway, GwTyped, RowWriters
<1>2. /\ job' \in [Managers -> GwJob] /\ job'[m] = GwIdle /\ job'[m].op = "idle"
      /\ \A q \in Managers \ {m} : job'[q] = job[q]
  BY <1>1, JobTypes
<1>3. GwTyped'
  <2>1. \A q \in Managers : job'[q].op \in {"idle", "enroll", "heartbeat", "stop", "publish"}
    BY <1>2, JobFacts DEF RowWriters
  <2> QED
    BY <1>1, <1>2, <2>1, CommitFacts DEF GwTyped, GwTypeOK
<1>4. Ordered' /\ StrikesOK'
  BY <1>1 DEF Ordered, StrikesOK, Continues, GwRowOK, GwFresh
<1>5. DraftsOK'
  BY <1>1, <1>2 DEF DraftsOK, DraftOK, Continues, GwRowOK, GwFresh
<1>6. ASSUME NEW q \in Managers, job'[q].op \in RowWriters
      PROVE  GwCopyOK(q)'
  <2>1. q # m /\ job'[q] = job[q] /\ GwCopyOK(q)
    BY <1>2, <1>6 DEF RowWriters, GwCopiesOK
  <2>2. ASSUME job[q].op = "enroll", "enroll" \notin gwRaced
        PROVE  /\ ~Stopped(gw') /\ gw'.token
               /\ \A r \in Managers \ {q} : job'[r].op \notin {"enroll", "stop"}
    <3>1. /\ ~Stopped(gw) /\ gw.token
          /\ \A r \in Managers \ {q} : job[r].op \notin {"enroll", "stop"}
      BY <2>1, <2>2 DEF GwCopyOK
    <3>2. job[m].op = "heartbeat"
      BY <1>1, <2>1, <3>1 DEF RowWriters
    <3>3. gw'.status = gw.status /\ gw'.token
      BY <3>1, <3>2, CommitFacts
    <3> QED
      BY <1>2, <3>1, <3>3 DEF Stopped
  <2>3. gw'.status # "none"
    BY CommitFacts
  <2> QED
    BY <1>1, <2>1, <2>2, <2>3 DEF GwCopyOK, Stopped
<1>7. GwCopiesOK'
  BY <1>6 DEF GwCopiesOK
<1> QED
  BY <1>3, <1>4, <1>5, <1>7, CommitFacts

\* A draft is numbered next to the latest bundle of its environment.
LEMMA PublishStep ==
    ASSUME GatewayInv, NEW m \in Managers, NEW env \in GwEnvironments,
           NEW given \in SUBSET Subjects, Publish(m, env, given)
    PROVE  GatewayInv'
<1> USE Constants DEF GatewayInv
<1>1. PICK v, rec : /\ v = latest_bundle(env) + 1
                    /\ rec = [env |-> env, revocations |-> Revocations(given), given |-> given # {},
                              expires |-> gwNow + BundleTTL]
  OBVIOUS
<1>2. PICK j : j = [op |-> "publish", version |-> v, row |-> rec]
  OBVIOUS
<1>3. /\ UNCHANGED <<gwNow, gw, bundle, struckAt, use, gwRaced>>
      /\ job' = [job EXCEPT ![m] = j] /\ job[m] = GwIdle
      /\ v <= use.versions
  BY <1>1, <1>2 DEF Publish
<1>4. gwNow \in 0 .. MaxGwTime /\ struckAt \in [Subjects -> 0 .. Standing] /\ job \in [Managers -> GwJob]
  BY DEF GwTyped, GwTypeOK
<1>5. v \in 1 .. MaxVersion /\ (v > 1 => bundle[v - 1] # NoBundle)
  <2>1. use.versions \in 0 .. MaxVersion
    BY GatewayAssumption DEF GwTyped
  <2>2. latest_bundle(env) \in 0 .. MaxVersion
    BY LatestFacts
  <2>3. v - 1 = latest_bundle(env)
    BY <1>1, <2>2
  <2>4. v > 1 => bundle[v - 1] # NoBundle
    BY <1>1, <2>2, <2>3, LatestFacts
  <2> QED
    BY <1>1, <1>3, <2>1, <2>2, <2>4
<1>6. rec \in BundleRow
  <2>1. Revocations(given) \in SUBSET Subjects
    BY DEF Revocations, Struck
  <2>2. (given # {}) \in BOOLEAN /\ gwNow + BundleTTL \in Nat
    BY <1>4
  <2> QED
    BY <1>1, <2>1, <2>2 DEF BundleRow
<1>7. GwRowOK(rec)
  <2>1. rec.expires = gwNow + BundleTTL /\ gwNow \in Nat
    BY <1>1, <1>4
  <2>2. ASSUME ~rec.given, NEW a \in Subjects \ rec.revocations
        PROVE  struckAt[a] + BundleTTL >= rec.expires
    <3>1. rec.revocations = Struck
      BY <1>1, <2>2 DEF Revocations
    <3>2. ~(struckAt[a] <= gwNow) /\ struckAt[a] \in Nat
      BY <1>4, <2>2, <3>1 DEF Struck
    <3> QED
      BY <2>1, <3>2
  <2> QED
    BY <2>1, <2>2 DEF GwRowOK, GwFresh
<1>8. Continues(v, rec.expires)
  <2> SUFFICES ASSUME NEW w \in 1 .. v - 1
               PROVE  bundle[w] # NoBundle /\ bundle[w].expires <= rec.expires
    BY DEF Continues
  <2>1. v - 1 \in 1 .. MaxVersion /\ w \in 1 .. MaxVersion /\ bundle[v - 1] # NoBundle
    BY <1>5
  <2>2. bundle[w] # NoBundle
    <3>1. Continues(v - 1, bundle[v - 1].expires)
      BY <2>1 DEF Ordered
    <3>2. w = v - 1 \/ w \in 1 .. (v - 1) - 1
      BY <1>5
    <3> QED
      BY <2>1, <3>1, <3>2 DEF Continues
  <2>3. bundle[w].expires <= gwNow + BundleTTL
    BY <2>1, <2>2 DEF Ordered, GwRowOK
  <2> QED
    BY <1>1, <2>2, <2>3
<1>9. j \in GwJob /\ j.op = "publish" /\ j.version = v /\ j.row = rec
  BY <1>2, <1>5, <1>6, JobTypes
<1>10. /\ job' \in [Managers -> GwJob] /\ job'[m] = j
       /\ \A q \in Managers \ {m} : job'[q] = job[q]
  BY <1>3, <1>4, <1>9
<1>11. GwTyped'
  <2>1. \A q \in Managers : job'[q].op \in {"idle", "enroll", "heartbeat", "stop", "publish"}
    BY <1>9, <1>10, JobFacts DEF RowWriters
  <2> QED
    BY <1>3, <1>10, <2>1 DEF GwTyped, GwTypeOK
<1>12. TokenOK' /\ Ordered' /\ StrikesOK'
  BY <1>3 DEF TokenOK, Ordered, StrikesOK, Continues, GwRowOK, GwFresh
<1>13. DraftOK(m)'
  BY <1>3, <1>7, <1>8, <1>9, <1>10 DEF DraftOK, Continues, GwRowOK, GwFresh
<1>14. DraftsOK'
  BY <1>3, <1>10, <1>13 DEF DraftsOK, DraftOK, Continues, GwRowOK, GwFresh
<1>15. GwCopiesOK'
  <2>1. \A q \in Managers : job'[q].op \in RowWriters => q # m
    BY <1>9, <1>10 DEF RowWriters
  <2> QED
    BY <1>3, <1>9, <1>10, <2>1 DEF GwCopiesOK, GwCopyOK, Stopped
<1> QED
  BY <1>11, <1>12, <1>14, <1>15

\* A draft is inserted where its number is free, and then every lower number is taken.
LEMMA InsertStep ==
    ASSUME GatewayInv, NEW m \in Managers, CommitBundle(m)
    PROVE  /\ GatewayInv'
           /\ \A v \in 1 .. MaxVersion : bundle[v] # NoBundle => bundle'[v] = bundle[v]
<1> USE Constants DEF GatewayInv
<1>1. /\ UNCHANGED <<gwNow, gw, struckAt, use, gwRaced>>
      /\ job' = [job EXCEPT ![m] = GwIdle] /\ job \in [Managers -> GwJob]
      /\ job[m].op = "publish"
      /\ bundle \in [1 .. MaxVersion -> BundleRow \cup {NoBundle}]
  BY DEF CommitBundle, GwTyped
<1>2. PICK v, rec : v = job[m].version /\ rec = job[m].row
  OBVIOUS
<1>3. v \in 1 .. MaxVersion /\ rec \in BundleRow /\ rec # NoBundle
  BY <1>1, <1>2, JobFacts, BundleFacts
<1>4. GwRowOK(rec) /\ Continues(v, rec.expires)
  BY <1>1, <1>2 DEF DraftsOK, DraftOK
<1>5. \/ bundle' = bundle
      \/ bundle[v] = NoBundle /\ bundle' = [bundle EXCEPT ![v] = rec]
  BY <1>2 DEF CommitBundle, InsertConflicts
<1>6. /\ bundle' \in [1 .. MaxVersion -> BundleRow \cup {NoBundle}]
      /\ \A w \in 1 .. MaxVersion : bundle[w] # NoBundle => bundle'[w] = bundle[w]
      /\ \A w \in 1 .. MaxVersion : bundle'[w] # NoBundle =>
            bundle[w] # NoBundle \/ (w = v /\ bundle'[w] = rec)
  BY <1>1, <1>3, <1>5
<1>7. /\ job' \in [Managers -> GwJob] /\ job'[m].op = "idle"
      /\ \A q \in Managers \ {m} : job'[q] = job[q]
  BY <1>1, JobTypes
<1>8. GwTyped'
  <2>1. \A q \in Managers : job'[q].op \in {"idle", "enroll", "heartbeat", "stop", "publish"}
    BY <1>7, JobFacts DEF RowWriters
  <2>2. \A w \in 1 .. MaxVersion : bundle'[w] \in BundleRow \cup {NoBundle}
    BY <1>6
  <2> QED
    BY <1>1, <1>6, <1>7, <2>1, <2>2 DEF GwTyped, GwTypeOK
<1>9. ASSUME NEW w \in 1 .. MaxVersion, NEW e, Continues(w, e)
      PROVE  Continues(w, e)'
  <2> SUFFICES ASSUME NEW x \in 1 .. w - 1
               PROVE  bundle'[x] # NoBundle /\ bundle'[x].expires <= e
    BY DEF Continues
  <2>1. x \in 1 .. MaxVersion
    OBVIOUS
  <2>2. bundle[x] # NoBundle /\ bundle[x].expires <= e
    BY <1>9 DEF Continues
  <2> QED
    BY <1>6, <2>1, <2>2
<1>10. Ordered'
  <2> SUFFICES ASSUME NEW w \in 1 .. MaxVersion, bundle'[w] # NoBundle
               PROVE  GwRowOK(bundle[w])' /\ Continues(w, bundle[w].expires)'
    BY DEF Ordered
  <2>1. PICK r : r = bundle'[w]
    OBVIOUS
  <2>2. GwRowOK(r) /\ Continues(w, r.expires)
    <3>1. CASE bundle[w] # NoBundle
      BY <1>6, <2>1, <3>1 DEF Ordered
    <3>2. CASE w = v /\ bundle'[w] = rec
      BY <1>4, <2>1, <3>2
    <3> QED
      BY <1>6, <3>1, <3>2
  <2>3. GwRowOK(r)' /\ Continues(w, r.expires)'
    BY <1>1, <1>9, <2>2 DEF GwRowOK, GwFresh
  <2> QED
    BY <2>1, <2>3 DEF GwRowOK, GwFresh, Continues
<1>11. DraftsOK'
  <2> SUFFICES ASSUME NEW q \in Managers, job'[q].op = "publish"
               PROVE  DraftOK(q)'
    BY DEF DraftsOK
  <2>1. PICK w, r : w = job[q].version /\ r = job[q].row
    OBVIOUS
  <2>2. job'[q] = job[q] /\ w \in 1 .. MaxVersion /\ GwRowOK(r) /\ Continues(w, r.expires)
    BY <1>7, <2>1, JobFacts DEF DraftsOK, DraftOK
  <2>3. GwRowOK(r)' /\ Continues(w, r.expires)'
    BY <1>1, <1>9, <2>2 DEF GwRowOK, GwFresh
  <2> QED
    BY <2>1, <2>2, <2>3 DEF DraftOK, GwRowOK, GwFresh, Continues
<1>12. TokenOK' /\ StrikesOK'
  BY <1>1 DEF TokenOK, StrikesOK
<1>13. GwCopiesOK'
  <2>1. \A q \in Managers : job'[q].op \in RowWriters => q # m
    BY <1>7 DEF RowWriters
  <2> QED
    BY <1>1, <1>7, <2>1 DEF GwCopiesOK, GwCopyOK, Stopped
<1> QED
  BY <1>6, <1>8, <1>10, <1>11, <1>12, <1>13

\* Every step of the control plane keeps its invariant.
LEMMA GwNextInv ==
    ASSUME GatewayInv, GwNext
    PROVE  GatewayInv'
<1>1. /\ use.managers \subseteq Managers /\ use.keys \subseteq GwKeys
      /\ use.envs \subseteq GwEnvironments /\ gw \in GatewayRow
  BY GatewayAssumption DEF GatewayInv, GwTyped, GwTypeOK
<1>2. ASSUME NEW m \in use.managers, FirstBundle(m)
      PROVE  GatewayInv'
  BY <1>1, <1>2, PublishStep, RowFacts DEF FirstBundle
<1>3. ASSUME NEW m \in use.managers, NEW env \in use.envs, NEW given \in SUBSET Subjects,
             build_and_publish_config(m, env, given)
      PROVE  GatewayInv'
  BY <1>1, <1>3, PublishStep DEF build_and_publish_config
<1>4. ASSUME NEW m \in use.managers, NEW v \in 1 .. MaxVersion, rollback_gateway_config(m, v)
      PROVE  GatewayInv'
  <2>1. PICK b : b = bundle[v]
    OBVIOUS
  <2>2. b \in BundleRow /\ Publish(m, b.env, b.revocations)
    BY <1>4, <2>1 DEF rollback_gateway_config, GatewayInv, GwTyped
  <2> QED
    BY <1>1, <2>2, PublishStep, BundleFacts
<1>5. ASSUME NEW m \in use.managers, NEW k \in use.keys, enroll_enterprise_gateway(m, k)
      PROVE  GatewayInv'
  BY <1>1, <1>5, HandlerSteps
<1>6. ASSUME NEW m \in use.managers, StopGateway(m) \/ CommitGateway(m) \/ CommitBundle(m)
      PROVE  GatewayInv'
  BY <1>1, <1>6, HandlerSteps, CommitStep, InsertStep
<1>7. ASSUME NEW a \in Subjects, Strike(a) \/ Restore(a)
      PROVE  GatewayInv'
  BY <1>7, StrikeStep
<1> QED
  BY <1>2, <1>3, <1>4, <1>5, <1>6, <1>7, TickStep, RegisterStep DEF GwNext

\* What a step of the control plane does to what the sidecar and its users rely on.
LEMMA GwEffects ==
    ASSUME GatewayInv,
           \/ GwNext
           \/ \E m \in Managers, v \in 0 .. MaxVersion : \E k : verify_gateway_heartbeat(m, v, k)
    PROVE  /\ GatewayInv'
           /\ (Stopped(gw) /\ "enroll" \notin gwRaced) => Stopped(gw')
           /\ (gw.key \in GwKeys /\ "enroll" \notin gwRaced) => gw'.key \in {gw.key, Unenrolled}
           /\ \A v \in 1 .. MaxVersion : bundle[v] # NoBundle => bundle'[v] = bundle[v]
           /\ gwNow' >= gwNow
           /\ \A a \in Subjects : struckAt'[a] \in {struckAt[a], gwNow, Standing}
<1>1. /\ use.managers \subseteq Managers /\ gw \in GatewayRow /\ gwNow \in Nat
      /\ struckAt \in [Subjects -> 0 .. Standing]
  BY Constants, GatewayAssumption DEF GatewayInv, GwTyped, GwTypeOK
<1>2. GatewayInv'
  BY GwNextInv, HandlerSteps
<1> DEFINE Effects ==
      /\ (Stopped(gw) /\ "enroll" \notin gwRaced) => Stopped(gw')
      /\ (gw.key \in GwKeys /\ "enroll" \notin gwRaced) => gw'.key \in {gw.key, Unenrolled}
      /\ \A v \in 1 .. MaxVersion : bundle[v] # NoBundle => bundle'[v] = bundle[v]
      /\ gwNow' >= gwNow
      /\ \A a \in Subjects : struckAt'[a] \in {struckAt[a], gwNow, Standing}
<1>3. ASSUME UNCHANGED <<gwNow, gw, bundle, struckAt>>
      PROVE  Effects
  BY <1>1, <1>3 DEF Stopped
<1>4. ASSUME NEW m \in Managers, CommitGateway(m)
      PROVE  Effects
  <2>1. UNCHANGED <<gwNow, bundle, struckAt>>
    BY <1>4 DEF CommitGateway
  <2> QED
    BY <1>1, <1>4, <2>1, CommitFacts
<1>5. ASSUME NEW m \in Managers, CommitBundle(m)
      PROVE  Effects
  <2>1. UNCHANGED <<gwNow, gw, struckAt>>
    BY <1>5 DEF CommitBundle
  <2> QED
    BY <1>1, <1>5, <2>1, InsertStep DEF Stopped
<1>6. ASSUME NEW a \in Subjects, Strike(a) \/ Restore(a)
      PROVE  Effects
  <2>1. /\ UNCHANGED <<gwNow, gw, bundle>>
        /\ struckAt' = [struckAt EXCEPT ![a] = gwNow] \/ struckAt' = [struckAt EXCEPT ![a] = Standing]
    BY <1>6 DEF Strike, Restore
  <2> QED
    BY <1>1, <2>1 DEF Stopped
<1>7. ASSUME GwTick
      PROVE  Effects
  <2>1. gwNow' = gwNow + 1 /\ UNCHANGED <<gw, bundle, struckAt>>
    BY <1>7 DEF GwTick
  <2> QED
    BY <1>1, <2>1 DEF Stopped
<1>8. ASSUME register_enterprise_gateway
      PROVE  Effects
  <2>1. /\ UNCHANGED <<gwNow, bundle, struckAt>> /\ ~Stopped(gw)
        /\ gw.key = Unenrolled
    BY <1>8 DEF register_enterprise_gateway, Stopped, GatewayInv, TokenOK
  <2> QED
    BY <1>1, <2>1, GatewayAssumption
<1>9. ASSUME NEW m \in Managers,
             \/ StopGateway(m) \/ FirstBundle(m)
             \/ \E k : enroll_enterprise_gateway(m, k)
             \/ \E v, k : verify_gateway_heartbeat(m, v, k)
             \/ \E env, given : build_and_publish_config(m, env, given)
             \/ \E v : rollback_gateway_config(m, v)
      PROVE  Effects
  <2>1. UNCHANGED <<gwNow, gw, bundle, struckAt>>
    BY <1>9 DEF StopGateway, FirstBundle, enroll_enterprise_gateway, verify_gateway_heartbeat, Start,
                build_and_publish_config, rollback_gateway_config, Publish
  <2> QED
    BY <1>3, <2>1
<1>10. Effects
  <2> HIDE DEF Effects
  <2>1. ASSUME NEW m \in use.managers,
               \/ StopGateway(m) \/ CommitGateway(m) \/ FirstBundle(m) \/ CommitBundle(m)
               \/ \E k \in use.keys : enroll_enterprise_gateway(m, k)
               \/ \E env \in use.envs, given \in SUBSET Subjects : build_and_publish_config(m, env, given)
               \/ \E v \in 1 .. MaxVersion : rollback_gateway_config(m, v)
        PROVE  Effects
    <3>1. m \in Managers
      BY <1>1
    <3> QED
      BY <1>4, <1>5, <1>9, <2>1, <3>1
  <2>2. CASE GwNext
    BY <1>6, <1>7, <1>8, <2>1, <2>2 DEF GwNext
  <2>3. CASE \E m \in Managers, v \in 0 .. MaxVersion : \E k : verify_gateway_heartbeat(m, v, k)
    BY <1>9, <2>3
  <2> QED
    BY <2>2, <2>3
<1> QED
  BY <1>2, <1>10

-----------------------------------------------------------------------------
(* The threads of the sidecar. *)

LEMMA TaskFacts ==
    ASSUME ScTyped, NEW t \in Threads, NEW j, j = task[t]
    PROVE  /\ j \in ScTask /\ (j.stage = "idle" <=> j = ScIdle)
           /\ j.stage \in {"fetched", "checked", "updated"} => j.got \in 1 .. MaxVersion
           /\ j.stage \in {"checked", "updated"} =>
                /\ j.over \in 0 .. MaxVersion
                /\ j = [stage |-> j.stage, got |-> j.got, over |-> j.over]
           /\ j.stage \in NonceStages \cup {"current?"} =>
                /\ j.agent \in Subjects /\ j.for \in Asked /\ j.offline \in BOOLEAN /\ j.dict \in Expiries
                /\ j.nonce \in Nonces \cup {NoNonce}
                /\ j = [stage |-> j.stage, agent |-> j.agent, nonce |-> j.nonce, for |-> j.for,
                        offline |-> j.offline, dict |-> j.dict]
           /\ j.stage \in NonceStages => j.nonce \in Nonces
           /\ j.stage = "current" =>
                j.agent \in Subjects /\ j.for \in Asked /\ j.offline \in BOOLEAN /\ j.asked \in 0 .. MaxGwTime
           /\ j.stage = "answered" =>
                /\ j.agent \in Subjects /\ j.asked \in 0 .. MaxGwTime
                /\ j.decision \in Decisions /\ j.under \in BundleRow
<1>1. j \in ScTask
  BY DEF ScTyped
<1>2. CASE j = ScIdle
  BY <1>1, <1>2 DEF ScIdle, NonceStages
<1>3. CASE j \in [stage : {"health"}]
  BY <1>1, <1>3 DEF ScIdle, NonceStages
<1>4. CASE j \in [stage : {"fetched"}, got : 1 .. MaxVersion]
  BY <1>1, <1>4 DEF ScIdle, NonceStages
<1>5. CASE j \in [stage : {"checked", "updated"}, got : 1 .. MaxVersion, over : 0 .. MaxVersion]
  BY <1>1, <1>5 DEF ScIdle, NonceStages
<1>6. CASE j \in [stage : NonceStages, agent : Subjects, nonce : Nonces, for : Asked,
                  offline : BOOLEAN, dict : Expiries]
  BY <1>1, <1>6 DEF ScIdle, NonceStages
<1>7. CASE j \in [stage : {"current?"}, agent : Subjects, nonce : Nonces \cup {NoNonce}, for : Asked,
                  offline : BOOLEAN, dict : Expiries]
  BY <1>1, <1>7 DEF ScIdle, NonceStages
<1>8. CASE j \in [stage : {"current"}, agent : Subjects, for : Asked, offline : BOOLEAN,
                  asked : 0 .. MaxGwTime]
  BY <1>1, <1>8 DEF ScIdle, NonceStages
<1>9. CASE j \in [stage : {"answered"}, agent : Subjects, asked : 0 .. MaxGwTime,
                  decision : Decisions, under : BundleRow]
  BY <1>1, <1>9 DEF ScIdle, NonceStages
<1> QED
  BY <1>1, <1>2, <1>3, <1>4, <1>5, <1>6, <1>7, <1>8, <1>9 DEF ScTask

LEMMA TaskTypes ==
    /\ ScIdle \in ScTask /\ ScIdle.stage = "idle"
    /\ [stage |-> "health"] \in ScTask
    /\ \A g \in 1 .. MaxVersion : [stage |-> "fetched", got |-> g] \in ScTask
    /\ \A s \in {"checked", "updated"}, g \in 1 .. MaxVersion, o \in 0 .. MaxVersion :
         [stage |-> s, got |-> g, over |-> o] \in ScTask
    /\ \A a \in Subjects, k \in Asked, o \in BOOLEAN, d \in Expiries :
         /\ \A s \in NonceStages, n \in Nonces :
              [stage |-> s, agent |-> a, nonce |-> n, for |-> k, offline |-> o, dict |-> d] \in ScTask
         /\ \A n \in Nonces \cup {NoNonce} :
              [stage |-> "current?", agent |-> a, nonce |-> n, for |-> k, offline |-> o,
               dict |-> d] \in ScTask
    /\ \A a \in Subjects, k \in Asked, o \in BOOLEAN, now \in 0 .. MaxGwTime :
         [stage |-> "current", agent |-> a, for |-> k, offline |-> o, asked |-> now] \in ScTask
    /\ \A a \in Subjects, now \in 0 .. MaxGwTime, d \in Decisions, u \in BundleRow :
         [stage |-> "answered", agent |-> a, asked |-> now, decision |-> d, under |-> u] \in ScTask
BY DEF ScTask, ScIdle

\* Nothing of the control plane's invariant is about the sidecar.
LEMMA GatewayFrame ==
    ASSUME GatewayInv, UNCHANGED gwVars
    PROVE  GatewayInv'
<1>1. UNCHANGED <<gwNow, gw, bundle, struckAt, job, use, gwRaced>>
  BY DEF gwVars
<1>2. GwTyped' /\ TokenOK' /\ StrikesOK'
  BY <1>1 DEF GatewayInv, GwTyped, GwTypeOK, TokenOK, StrikesOK
<1>3. Ordered' /\ DraftsOK'
  BY <1>1 DEF GatewayInv, Ordered, DraftsOK, DraftOK, GwRowOK, GwFresh, Continues
<1>4. GwCopiesOK'
  BY <1>1 DEF GatewayInv, GwCopiesOK, GwCopyOK, Stopped
<1> QED
  BY <1>2, <1>3, <1>4 DEF GatewayInv

-----------------------------------------------------------------------------
(* The steps of the sidecar. *)

LEMMA ScInitInv ==
    ASSUME GwInit, ScInit
    PROVE  SidecarInv
<1> USE Constants
<1>1. /\ Forgotten \in Expiries /\ \A n \in Nonces : Forgotten[n] = 0
  BY DEF Forgotten, Expiries
<1>2. /\ task \in [Threads -> ScTask] /\ \A t \in Threads : task[t].stage = "idle"
  BY TaskTypes DEF ScInit
<1>3. ScTyped
  BY <1>1, <1>2 DEF ScInit, ScTyped, ScTypeOK, Expiries
<1>4. NoncesOK
  <2>1. gwNow = 0
    BY DEF GwInit
  <2> QED
    BY <1>1, <1>2, <2>1 DEF ScInit, NoncesOK, NonceStages, RememberedIn
<1> QED
  BY <1>2, <1>3, <1>4 DEF SidecarInv, SyncOK, CurrentOK, AnswerOK

\* Whatever the control plane does meanwhile, a thread goes on.
LEMMA MeanwhileStep ==
    ASSUME GatewayInv, SidecarInv, GatewayInv',
           \A v \in 1 .. MaxVersion : bundle[v] # NoBundle => bundle'[v] = bundle[v],
           gwNow' >= gwNow,
           \A a \in Subjects : struckAt'[a] \in {struckAt[a], gwNow, Standing},
           reachable' \in BOOLEAN,
           UNCHANGED <<applied, seen, cache, lock, task, let, scRaced>>
    PROVE  SidecarInv'
<1> USE Constants
<1>1. /\ gwNow \in 0 .. MaxGwTime /\ gwNow' \in 0 .. MaxGwTime
      /\ struckAt \in [Subjects -> 0 .. Standing]
  BY DEF GatewayInv, GwTyped, GwTypeOK
<1>2. applied \in 0 .. MaxVersion /\ cache \in 0 .. MaxVersion
  BY DEF SidecarInv, ScTyped, ScTypeOK
<1>3. ScTyped'
  BY <1>2 DEF SidecarInv, ScTyped, ScTypeOK
<1>4. ASSUME NEW t \in Threads
      PROVE  SyncOK(t)' /\ CurrentOK(t)' /\ AnswerOK(t)'
  <2>1. PICK j : j = task[t] /\ j = task'[t]
    OBVIOUS
  <2>2. SyncOK(t) /\ CurrentOK(t) /\ AnswerOK(t)
    BY DEF SidecarInv
  <2>3. SyncOK(t)'
    BY <2>1, <2>2, TaskFacts DEF SyncOK, SidecarInv
  <2>4. applied > 0 => bundle'[applied] = bundle[applied]
    BY <1>2 DEF SidecarInv, ScTyped, ScTypeOK
  <2>5. CurrentOK(t)'
    <3>1. j.stage \in {"current", "answered"} => j.asked <= gwNow'
      BY <1>1, <2>1, <2>2, TaskFacts DEF CurrentOK, SidecarInv
    <3> QED
      BY <2>1, <2>2, <2>4, <3>1 DEF CurrentOK
  <2>6. AnswerOK(t)'
    <3>1. ASSUME j.stage = "answered", struckAt[j.agent] + BundleTTL >= j.asked
          PROVE  struckAt'[j.agent] + BundleTTL >= j.asked
      <4>1. j.agent \in Subjects /\ j.asked \in 0 .. MaxGwTime /\ j.asked <= gwNow
        BY <2>1, <2>2, <3>1, TaskFacts DEF CurrentOK, SidecarInv
      <4>2. Standing >= gwNow /\ struckAt[j.agent] \in 0 .. Standing
        BY <1>1, <4>1 DEF Standing
      <4> QED
        BY <1>1, <3>1, <4>1, <4>2
    <3> QED
      BY <2>1, <2>2, <3>1 DEF AnswerOK
  <2> QED
    BY <2>3, <2>5, <2>6
<1>5. ASSUME "nonce" \notin scRaced
      PROVE  NoncesOK'
  <2>1. let \in Expiries
    BY DEF SidecarInv, ScTyped
  <2>2. \A n \in Nonces : let[n] > gwNow' => let[n] > gwNow
    BY <1>1, <2>1 DEF Expiries
  <2>3. NoncesOK
    BY <1>5 DEF SidecarInv
  <2> QED
    BY <2>2, <2>3 DEF NoncesOK, RememberedIn
<1> QED
  BY <1>3, <1>4, <1>5 DEF SidecarInv

\* A thread takes a step that only it notices: then its new state is what must be right.
LEMMA TaskStep ==
    ASSUME GatewayInv, SidecarInv, UNCHANGED gwVars, NEW t \in Threads, NEW j \in ScTask,
           task' = [task EXCEPT ![t] = j],
           UNCHANGED <<applied, seen, cache, let>>,
           reachable' \in BOOLEAN, lock' \in Threads \cup {"free"}, scRaced \subseteq scRaced',
           SyncOK(t)', CurrentOK(t)', AnswerOK(t)',
           ("nonce" \notin scRaced' /\ j.stage \in NonceStages) =>
              /\ j.stage = "pruning" => RememberedIn(j.dict)
              /\ j.stage = "unseen" => seen[j.nonce] = 0
              /\ task[t].stage \in NonceStages \/ \A q \in Threads : task[q].stage \notin NonceStages
    PROVE  SidecarInv'
<1>1. UNCHANGED <<gwNow, bundle, struckAt>>
  BY DEF gwVars
<1>2. /\ task \in [Threads -> ScTask] /\ task' \in [Threads -> ScTask] /\ task'[t] = j
      /\ \A q \in Threads \ {t} : task'[q] = task[q]
  BY DEF SidecarInv, ScTyped
<1>3. \A q \in Threads : task'[q].stage = "answered" => task'[q].decision \in Decisions
  <2> SUFFICES ASSUME NEW k \in ScTask, k.stage = "answered"
               PROVE  k.decision \in Decisions
    BY <1>2
  <2> QED
    BY DEF ScTask, ScIdle, NonceStages
<1>4. ScTyped'
  BY <1>1, <1>2, <1>3 DEF SidecarInv, ScTyped, ScTypeOK
<1>5. ASSUME NEW q \in Threads \ {t}
      PROVE  SyncOK(q)' /\ CurrentOK(q)' /\ AnswerOK(q)'
  BY <1>1, <1>2 DEF SidecarInv, SyncOK, CurrentOK, AnswerOK
<1>6. ASSUME "nonce" \notin scRaced'
      PROVE  NoncesOK'
  <2>1. NoncesOK
    BY <1>6 DEF SidecarInv
  <2>2. RememberedIn(seen)'
    BY <1>1, <2>1 DEF NoncesOK, RememberedIn
  <2>3. ASSUME NEW q \in Threads
        PROVE  /\ task'[q].stage = "pruning" => RememberedIn(task[q].dict)'
               /\ task'[q].stage = "unseen" => seen'[task'[q].nonce] = 0
    <3>1. CASE q = t
      BY <1>1, <1>2, <1>6, <3>1 DEF RememberedIn, NonceStages
    <3>2. CASE q # t
      BY <1>1, <1>2, <2>1, <3>2 DEF NoncesOK, RememberedIn
    <3> QED
      BY <3>1, <3>2
  <2>4. ASSUME NEW q \in Threads, NEW r \in Threads, task'[q].stage \in NonceStages,
               task'[r].stage \in NonceStages
        PROVE  q = r
    BY <1>2, <1>6, <2>1, <2>4 DEF NoncesOK
  <2> QED
    BY <2>2, <2>3, <2>4 DEF NoncesOK
<1> QED
  BY <1>2, <1>4, <1>5, <1>6 DEF SidecarInv

\* A synchronization asks for the configuration and compares the answer.
LEMMA FetchStep ==
    ASSUME GatewayInv, SidecarInv, NEW t \in Threads,
           SyncFetch(t) \/ SyncUnreachable(t)
    PROVE  SidecarInv'
<1> USE Constants
<1>1. /\ UNCHANGED gwVars /\ UNCHANGED <<gwNow, bundle, struckAt, applied, seen, cache, lock, let, scRaced>>
      /\ reachable' \in BOOLEAN
  BY DEF SyncFetch, SyncUnreachable, gwVars
<1>2. CASE task' = task
  <2>1. GatewayInv' /\ gwNow \in Nat
    BY <1>1, GatewayFrame DEF GatewayInv, GwTyped, GwTypeOK
  <2> QED
    BY <1>1, <1>2, <2>1, MeanwhileStep
<1>3. CASE task' # task
  <2>1. PICK j : j = [stage |-> "fetched", got |-> latest_bundle(gw.env)]
    OBVIOUS
  <2>2. /\ task' = [task EXCEPT ![t] = j] /\ get_signed_config_bundle(applied) # "304"
        /\ get_signed_config_bundle(applied) # "403"
    BY <1>3, <2>1 DEF SyncFetch, SyncUnreachable
  <2>3. ~(applied >= latest_bundle(gw.env))
    BY <2>2 DEF get_signed_config_bundle
  <2>4. /\ latest_bundle(gw.env) \in 1 .. MaxVersion
        /\ bundle[latest_bundle(gw.env)] # NoBundle
    BY <2>3, LatestFacts DEF SidecarInv, ScTyped, ScTypeOK
  <2>5. j \in ScTask /\ j.stage = "fetched" /\ j.got = latest_bundle(gw.env)
    BY <2>1, <2>4, TaskTypes
  <2>6. task'[t] = j
    BY <2>2 DEF SidecarInv, ScTyped
  <2>7. SyncOK(t)' /\ CurrentOK(t)' /\ AnswerOK(t)'
    BY <1>1, <2>4, <2>5, <2>6 DEF SyncOK, CurrentOK, AnswerOK
  <2>8. lock' \in Threads \cup {"free"}
    BY <1>1 DEF SidecarInv, ScTyped, ScTypeOK
  <2> QED
    BY <1>1, <2>2, <2>5, <2>7, <2>8, TaskStep DEF NonceStages
<1> QED
  BY <1>2, <1>3

LEMMA CheckStep ==
    ASSUME GatewayInv, SidecarInv, NEW t \in Threads, SyncCheck(t)
    PROVE  SidecarInv'
<1> USE Constants
<1>1. PICK i : i = task[t]
  OBVIOUS
<1>2. PICK j : j = IF Newer(i.got) THEN [stage |-> "checked", got |-> i.got, over |-> applied] ELSE ScIdle
  OBVIOUS
<1>3. /\ UNCHANGED gwVars /\ UNCHANGED <<bundle, applied, reachable, seen, cache, lock, let, scRaced>>
      /\ task' = [task EXCEPT ![t] = j] /\ i.stage = "fetched"
  BY <1>1, <1>2 DEF SyncCheck, gwVars
<1>4. i.got \in 1 .. MaxVersion /\ bundle[i.got] # NoBundle
  BY <1>1, <1>3, TaskFacts DEF SidecarInv, SyncOK
<1>5. applied \in 0 .. MaxVersion /\ reachable \in BOOLEAN /\ lock \in Threads \cup {"free"}
  BY DEF SidecarInv, ScTyped, ScTypeOK
<1>6. \/ j = ScIdle
      \/ /\ j \in ScTask /\ j.stage = "checked" /\ j.got = i.got /\ j.over = applied
         /\ i.got > applied \/ applied = 0
  BY <1>2, <1>4, <1>5, TaskTypes DEF Newer
<1>7. task'[t] = j
  BY <1>3 DEF SidecarInv, ScTyped
<1>8. SyncOK(t)' /\ CurrentOK(t)' /\ AnswerOK(t)'
  BY <1>3, <1>4, <1>6, <1>7, TaskTypes DEF SyncOK, CurrentOK, AnswerOK
<1>9. j \in ScTask /\ j.stage \notin NonceStages
  BY <1>6, TaskTypes DEF NonceStages
<1> QED
  BY <1>3, <1>5, <1>8, <1>9, TaskStep

\* The configuration moves on, to a bundle that expires no earlier unless another
\* synchronization came in between.
LEMMA UpdateStep ==
    ASSUME GatewayInv, SidecarInv, NEW t \in Threads, update_config(t)
    PROVE  SidecarInv' /\ (applied' < applied => "config" \in scRaced')
<1> USE Constants
<1>1. PICK i : i = task[t]
  OBVIOUS
<1>2. PICK j : j = [i EXCEPT !.stage = "updated"]
  OBVIOUS
<1>3. /\ UNCHANGED <<gwNow, bundle, struckAt>> /\ UNCHANGED <<reachable, seen, cache, lock, let>>
      /\ task' = [task EXCEPT ![t] = j] /\ i.stage = "checked" /\ applied' = i.got
      /\ scRaced' = IF i.over = applied THEN scRaced ELSE scRaced \cup {"config"}
      /\ task \in [Threads -> ScTask] /\ applied \in 0 .. MaxVersion
  BY <1>1, <1>2 DEF update_config, Goto, gwVars, SidecarInv, ScTyped, ScTypeOK
<1>4. /\ i.got \in 1 .. MaxVersion /\ i.over \in 0 .. MaxVersion /\ bundle[i.got] # NoBundle
      /\ i.got > i.over \/ i.over = 0
      /\ i = [stage |-> i.stage, got |-> i.got, over |-> i.over]
  BY <1>1, <1>3, TaskFacts DEF SidecarInv, SyncOK
<1>5. /\ j = [stage |-> "updated", got |-> i.got, over |-> i.over]
      /\ j \in ScTask /\ j.stage = "updated" /\ j.got = i.got
  BY <1>2, <1>4, TaskTypes
<1>6. "config" \notin scRaced' => i.over = applied /\ "config" \notin scRaced
  BY <1>3
<1>7. applied' < applied => "config" \in scRaced'
  BY <1>3, <1>4, <1>6
<1>8. ASSUME "config" \notin scRaced', applied > 0
      PROVE  bundle[applied].expires <= bundle[i.got].expires
  <2>1. applied \in 1 .. i.got - 1
    BY <1>3, <1>4, <1>6, <1>8
  <2>2. Continues(i.got, bundle[i.got].expires)
    BY <1>4 DEF GatewayInv, Ordered
  <2> QED
    BY <2>1, <2>2 DEF Continues
<1>9. /\ task' \in [Threads -> ScTask] /\ task'[t] = j
      /\ \A q \in Threads \ {t} : task'[q] = task[q]
  BY <1>3, <1>5
<1>10. ScTyped'
  <2>1. \A q \in Threads : task'[q].stage = "answered" => task'[q].decision \in Decisions
    BY <1>5, <1>9, TaskFacts DEF SidecarInv
  <2> QED
    BY <1>3, <1>4, <1>9, <2>1 DEF SidecarInv, ScTyped, ScTypeOK
<1>11. ASSUME NEW q \in Threads
       PROVE  SyncOK(q)' /\ CurrentOK(q)' /\ AnswerOK(q)'
  <2>1. CASE q = t
    BY <1>3, <1>4, <1>5, <1>9, <2>1 DEF SyncOK, CurrentOK, AnswerOK
  <2>2. CASE q # t
    <3>1. PICK k : k = task[q] /\ k = task'[q]
      BY <1>9, <2>2
    <3>2. SyncOK(q) /\ CurrentOK(q) /\ AnswerOK(q)
      BY DEF SidecarInv
    <3>3. SyncOK(q)' /\ AnswerOK(q)'
      BY <1>3, <1>6, <3>1, <3>2 DEF SyncOK, AnswerOK
    <3>4. ASSUME k.stage = "current"
          PROVE  i.got > 0 /\ ("config" \notin scRaced' => k.asked <= bundle[i.got].expires)
      <4>0. k.asked \in 0 .. MaxGwTime
        BY <3>1, <3>4, TaskFacts DEF SidecarInv
      <4>1. k.asked \in Nat /\ applied > 0 /\ ("config" \notin scRaced => k.asked <= bundle[applied].expires)
        BY <3>1, <3>2, <3>4, <4>0 DEF CurrentOK
      <4>2. bundle[applied].expires \in Nat /\ bundle[i.got].expires \in Nat
        <5>1. bundle[applied] \in BundleRow /\ bundle[i.got] \in BundleRow
          BY <1>3, <1>4, <4>1 DEF SidecarInv, ScTyped, ScTypeOK, GatewayInv, GwTyped
        <5> QED
          BY <5>1, BundleFacts
      <4> QED
        BY <1>4, <1>6, <1>8, <4>1, <4>2
    <3>5. CurrentOK(q)'
      BY <1>3, <3>1, <3>2, <3>4 DEF CurrentOK
    <3> QED
      BY <3>3, <3>5
  <2> QED
    BY <2>1, <2>2
<1>12. ASSUME "nonce" \notin scRaced'
       PROVE  NoncesOK'
  BY <1>3, <1>5, <1>9, <1>12 DEF SidecarInv, NoncesOK, RememberedIn, NonceStages
<1> QED
  BY <1>7, <1>10, <1>11, <1>12 DEF SidecarInv

LEMMA SaveStep ==
    ASSUME GatewayInv, SidecarInv, NEW t \in Threads, save_config_cache(t)
    PROVE  SidecarInv'
<1> USE Constants
<1>1. PICK i : i = task[t]
  OBVIOUS
<1>2. /\ UNCHANGED <<gwNow, bundle, struckAt>> /\ UNCHANGED <<applied, reachable, seen, lock, let, scRaced>>
      /\ task' = [task EXCEPT ![t] = ScIdle] /\ i.stage = "updated" /\ cache' = i.got
      /\ task \in [Threads -> ScTask]
  BY <1>1 DEF save_config_cache, Done, gwVars, SidecarInv, ScTyped
<1>3. i.got \in 1 .. MaxVersion /\ bundle[i.got] # NoBundle
  BY <1>1, <1>2, TaskFacts DEF SidecarInv, SyncOK
<1>4. /\ task' \in [Threads -> ScTask] /\ task'[t] = ScIdle
      /\ \A q \in Threads \ {t} : task'[q] = task[q]
  BY <1>2, TaskTypes
<1>5. ScTyped'
  <2>1. \A q \in Threads : task'[q].stage = "answered" => task'[q].decision \in Decisions
    BY <1>4, TaskFacts, TaskTypes DEF SidecarInv
  <2> QED
    BY <1>2, <1>3, <1>4, <2>1 DEF SidecarInv, ScTyped, ScTypeOK
<1>6. \A q \in Threads : SyncOK(q)' /\ CurrentOK(q)' /\ AnswerOK(q)'
  BY <1>2, <1>4, TaskTypes DEF SidecarInv, SyncOK, CurrentOK, AnswerOK
<1>7. "nonce" \notin scRaced' => NoncesOK'
  BY <1>2, <1>4, TaskTypes DEF SidecarInv, NoncesOK, RememberedIn, NonceStages
<1> QED
  BY <1>5, <1>6, <1>7 DEF SidecarInv

\* A nonce is looked up and remembered; the pruned dictionary replaces the one in force.
LEMMA ReplaceStep ==
    ASSUME GatewayInv, SidecarInv, NEW t \in Threads, ReplacePruned(t)
    PROVE  SidecarInv'
<1> USE Constants
<1>1. PICK i : i = task[t]
  OBVIOUS
<1>2. PICK j : j = [i EXCEPT !.stage = "pruned"]
  OBVIOUS
<1>3. /\ UNCHANGED <<gwNow, bundle, struckAt>>
      /\ UNCHANGED <<applied, reachable, cache, lock, let, scRaced>>
      /\ task' = [task EXCEPT ![t] = j] /\ i.stage = "pruning" /\ seen' = i.dict
      /\ task \in [Threads -> ScTask]
  BY <1>1, <1>2 DEF ReplacePruned, Goto, gwVars, SidecarInv, ScTyped
<1>4. /\ i.dict \in Expiries /\ i.nonce \in Nonces
      /\ j = [stage |-> "pruned", agent |-> i.agent, nonce |-> i.nonce, for |-> i.for,
              offline |-> i.offline, dict |-> i.dict]
      /\ j \in ScTask /\ j.stage = "pruned"
  <2>1. /\ i.agent \in Subjects /\ i.for \in Asked /\ i.offline \in BOOLEAN /\ i.dict \in Expiries
        /\ i.nonce \in Nonces
        /\ i = [stage |-> i.stage, agent |-> i.agent, nonce |-> i.nonce, for |-> i.for,
                offline |-> i.offline, dict |-> i.dict]
    BY <1>1, <1>3, TaskFacts DEF SidecarInv, NonceStages
  <2>2. j = [stage |-> "pruned", agent |-> i.agent, nonce |-> i.nonce, for |-> i.for,
             offline |-> i.offline, dict |-> i.dict]
    BY <1>2, <2>1
  <2> QED
    BY <2>1, <2>2, TaskTypes DEF NonceStages
<1>5. /\ task' \in [Threads -> ScTask] /\ task'[t] = j
      /\ \A q \in Threads \ {t} : task'[q] = task[q]
  BY <1>3, <1>4
<1>6. ScTyped'
  <2>1. \A q \in Threads : task'[q].stage = "answered" => task'[q].decision \in Decisions
    BY <1>4, <1>5, TaskFacts DEF SidecarInv
  <2> QED
    BY <1>3, <1>4, <1>5, <2>1 DEF SidecarInv, ScTyped, ScTypeOK, Expiries
<1>7. \A q \in Threads : SyncOK(q)' /\ CurrentOK(q)' /\ AnswerOK(q)'
  BY <1>3, <1>4, <1>5 DEF SidecarInv, SyncOK, CurrentOK, AnswerOK
<1>8. ASSUME "nonce" \notin scRaced
      PROVE  NoncesOK'
  <2>1. NoncesOK
    BY <1>8 DEF SidecarInv
  <2>2. \A q \in Threads \ {t} : task[q].stage \notin NonceStages
    BY <1>1, <1>3, <2>1 DEF NoncesOK, NonceStages
  <2>3. RememberedIn(i.dict)
    BY <1>1, <1>3, <2>1 DEF NoncesOK
  <2> QED
    BY <1>3, <1>4, <1>5, <2>2, <2>3 DEF NoncesOK, RememberedIn, NonceStages
<1> QED
  BY <1>3, <1>6, <1>7, <1>8 DEF SidecarInv

\* The nonce passes, and what was let pass of it before has expired unless another
\* evaluation came in between.
LEMMA InsertNonceStep ==
    ASSUME GatewayInv, SidecarInv, NEW t \in Threads, InsertNonce(t)
    PROVE  /\ SidecarInv'
           /\ \A n \in Nonces : let'[n] # let[n] => let[n] <= gwNow \/ "nonce" \in scRaced
<1> USE Constants
<1>1. PICK i : i = task[t]
  OBVIOUS
<1>2. PICK j : j = [i EXCEPT !.stage = "current?"]
  OBVIOUS
<1>3. /\ UNCHANGED <<gwNow, bundle, struckAt>>
      /\ UNCHANGED <<applied, reachable, cache, lock, scRaced>>
      /\ task' = [task EXCEPT ![t] = j] /\ i.stage = "unseen"
      /\ seen' = [seen EXCEPT ![i.nonce] = gwNow + NonceTTL]
      /\ let' = [let EXCEPT ![i.nonce] = gwNow + NonceTTL]
      /\ task \in [Threads -> ScTask] /\ seen \in Expiries /\ let \in Expiries
      /\ gwNow \in 0 .. MaxGwTime
  BY <1>1, <1>2 DEF InsertNonce, Goto, gwVars, SidecarInv, ScTyped, GatewayInv, GwTyped, GwTypeOK
<1>4. /\ i.nonce \in Nonces /\ j \in ScTask /\ j.stage = "current?"
  <2>1. /\ i.agent \in Subjects /\ i.for \in Asked /\ i.offline \in BOOLEAN /\ i.dict \in Expiries
        /\ i.nonce \in Nonces
        /\ i = [stage |-> i.stage, agent |-> i.agent, nonce |-> i.nonce, for |-> i.for,
                offline |-> i.offline, dict |-> i.dict]
    BY <1>1, <1>3, TaskFacts DEF SidecarInv, NonceStages
  <2>2. j = [stage |-> "current?", agent |-> i.agent, nonce |-> i.nonce, for |-> i.for,
             offline |-> i.offline, dict |-> i.dict]
    BY <1>2, <2>1
  <2> QED
    BY <2>1, <2>2, TaskTypes
<1>5. /\ task' \in [Threads -> ScTask] /\ task'[t] = j
      /\ \A q \in Threads \ {t} : task'[q] = task[q]
      /\ seen' \in Expiries /\ let' \in Expiries
      /\ seen'[i.nonce] = gwNow + NonceTTL /\ let'[i.nonce] = gwNow + NonceTTL
      /\ \A n \in Nonces \ {i.nonce} : seen'[n] = seen[n] /\ let'[n] = let[n]
  BY <1>3, <1>4 DEF Expiries
<1>6. ScTyped'
  <2>1. \A q \in Threads : task'[q].stage = "answered" => task'[q].decision \in Decisions
    BY <1>4, <1>5, TaskFacts DEF SidecarInv
  <2> QED
    BY <1>3, <1>5, <2>1 DEF SidecarInv, ScTyped, ScTypeOK, Expiries
<1>7. \A q \in Threads : SyncOK(q)' /\ CurrentOK(q)' /\ AnswerOK(q)'
  BY <1>3, <1>4, <1>5 DEF SidecarInv, SyncOK, CurrentOK, AnswerOK
<1>8. ASSUME "nonce" \notin scRaced
      PROVE  NoncesOK' /\ let[i.nonce] <= gwNow
  <2>1. NoncesOK
    BY <1>8 DEF SidecarInv
  <2>2. \A q \in Threads \ {t} : task[q].stage \notin NonceStages
    BY <1>1, <1>3, <2>1 DEF NoncesOK, NonceStages
  <2>3. let[i.nonce] <= gwNow
    <3>1. seen[i.nonce] = 0
      BY <1>1, <1>3, <2>1 DEF NoncesOK
    <3>2. let[i.nonce] \in Nat
      BY <1>3, <1>4 DEF Expiries
    <3>3. let[i.nonce] > gwNow => seen[i.nonce] = let[i.nonce]
      BY <1>4, <2>1 DEF NoncesOK, RememberedIn
    <3> QED
      BY <1>3, <3>1, <3>2, <3>3
  <2>4. RememberedIn(seen)'
    BY <1>3, <1>5, <2>1 DEF NoncesOK, RememberedIn
  <2>5. NoncesOK'
    BY <1>4, <1>5, <2>2, <2>4 DEF NoncesOK, NonceStages
  <2> QED
    BY <2>3, <2>5
<1> QED
  BY <1>3, <1>4, <1>5, <1>6, <1>7, <1>8 DEF SidecarInv

LEMMA LookupStep ==
    ASSUME GatewayInv, SidecarInv, NEW t \in Threads, LookupNonce(t)
    PROVE  SidecarInv'
<1>1. PICK i : i = task[t]
  OBVIOUS
<1>2. PICK j : j = IF seen[i.nonce] # 0 THEN ScIdle ELSE [i EXCEPT !.stage = "unseen"]
  OBVIOUS
<1>3. /\ UNCHANGED gwVars /\ UNCHANGED <<applied, reachable, seen, cache, lock, let, scRaced>>
      /\ task' = [task EXCEPT ![t] = j] /\ i.stage = "pruned"
      /\ reachable \in BOOLEAN /\ lock \in Threads \cup {"free"}
  BY <1>1, <1>2 DEF LookupNonce, Goto, Done, SidecarInv, ScTyped, ScTypeOK
<1>4. \/ j = ScIdle
      \/ j \in ScTask /\ j.stage = "unseen" /\ seen[j.nonce] = 0
  <2>1. /\ i.agent \in Subjects /\ i.for \in Asked /\ i.offline \in BOOLEAN /\ i.dict \in Expiries
        /\ i.nonce \in Nonces
        /\ i = [stage |-> i.stage, agent |-> i.agent, nonce |-> i.nonce, for |-> i.for,
                offline |-> i.offline, dict |-> i.dict]
    BY <1>1, <1>3, TaskFacts DEF SidecarInv, NonceStages
  <2>2. CASE seen[i.nonce] = 0
    <3>1. j = [stage |-> "unseen", agent |-> i.agent, nonce |-> i.nonce, for |-> i.for,
               offline |-> i.offline, dict |-> i.dict]
      BY <1>2, <2>1, <2>2
    <3> QED
      BY <2>1, <2>2, <3>1, TaskTypes DEF NonceStages
  <2> QED
    BY <1>2, <2>2
<1>5. task'[t] = j
  BY <1>3 DEF SidecarInv, ScTyped
<1>6. SyncOK(t)' /\ CurrentOK(t)' /\ AnswerOK(t)'
  BY <1>4, <1>5, TaskTypes DEF SyncOK, CurrentOK, AnswerOK
<1> QED
  BY <1>1, <1>3, <1>4, <1>6, TaskTypes, TaskStep DEF NonceStages

\* An evaluation goes on only under a bundle that has not expired.
LEMMA AskStep ==
    ASSUME GatewayInv, SidecarInv, NEW t \in Threads, AskExpired(t)
    PROVE  SidecarInv'
<1> USE Constants
<1>1. PICK i : i = task[t]
  OBVIOUS
<1>2. PICK j : j = IF i.stage = "health" \/ is_config_expired(applied) THEN ScIdle
                   ELSE [stage |-> "current", agent |-> i.agent, for |-> i.for,
                         offline |-> i.offline, asked |-> gwNow]
  OBVIOUS
<1>3. /\ UNCHANGED gwVars /\ UNCHANGED <<gwNow, bundle, struckAt>>
      /\ UNCHANGED <<applied, reachable, seen, cache, lock, let, scRaced>>
      /\ task' = [task EXCEPT ![t] = j] /\ i.stage \in {"current?", "health"}
      /\ reachable \in BOOLEAN /\ lock \in Threads \cup {"free"} /\ applied \in 0 .. MaxVersion
      /\ gwNow \in 0 .. MaxGwTime
  BY <1>1, <1>2 DEF AskExpired, gwVars, SidecarInv, ScTyped, ScTypeOK, GatewayInv, GwTyped, GwTypeOK
<1>4. \/ j = ScIdle
      \/ /\ j \in ScTask /\ j.stage = "current" /\ j.asked = gwNow
         /\ applied > 0 /\ gwNow <= bundle[applied].expires
  <2>1. CASE i.stage = "current?" /\ ~is_config_expired(applied)
    <3>1. i.agent \in Subjects /\ i.for \in Asked /\ i.offline \in BOOLEAN
      BY <1>1, <2>1, TaskFacts DEF SidecarInv
    <3>2. j = [stage |-> "current", agent |-> i.agent, for |-> i.for, offline |-> i.offline, asked |-> gwNow]
      BY <1>2, <2>1
    <3>3. applied > 0 /\ gwNow <= bundle[applied].expires
      <4>1. applied > 0 /\ ~(gwNow > bundle[applied].expires)
        BY <1>3, <2>1 DEF is_config_expired
      <4>2. bundle[applied] \in BundleRow
        BY <1>3, <4>1 DEF SidecarInv, ScTyped, ScTypeOK, GatewayInv, GwTyped
      <4> QED
        BY <1>3, <4>1, <4>2, BundleFacts
    <3> QED
      BY <1>3, <3>1, <3>2, <3>3, TaskTypes
  <2> QED
    BY <1>2, <1>3, <2>1
<1>5. task'[t] = j
  BY <1>3 DEF SidecarInv, ScTyped
<1>6. SyncOK(t)' /\ CurrentOK(t)' /\ AnswerOK(t)'
  BY <1>3, <1>4, <1>5, TaskTypes DEF SyncOK, CurrentOK, AnswerOK
<1>7. j \in ScTask /\ j.stage \notin NonceStages
  BY <1>4, TaskTypes DEF NonceStages
<1> QED
  BY <1>3, <1>6, <1>7, TaskStep

\* Approved is only what the bundle in force does not revoke, and that bundle was computed
\* no longer than its lifetime before the evaluation asked.
LEMMA JudgeStep ==
    ASSUME GatewayInv, SidecarInv, NEW t \in Threads, Judge(t)
    PROVE  SidecarInv'
<1> USE Constants
<1>1. PICK i, b : i = task[t] /\ b = bundle[applied]
  OBVIOUS
<1>2. PICK d : d = Decision(i)
  OBVIOUS
<1>3. PICK j : j = [stage |-> "answered", agent |-> i.agent, asked |-> i.asked, decision |-> d, under |-> b]
  OBVIOUS
<1>4. /\ UNCHANGED gwVars /\ UNCHANGED <<gwNow, bundle, struckAt>>
      /\ UNCHANGED <<applied, reachable, seen, cache, lock, let, scRaced>>
      /\ task' = [task EXCEPT ![t] = j] /\ i.stage = "current"
      /\ reachable \in BOOLEAN /\ lock \in Threads \cup {"free"} /\ applied \in 0 .. MaxVersion
      /\ struckAt \in [Subjects -> 0 .. Standing]
  BY <1>1, <1>2, <1>3
     DEF Judge, gwVars, SidecarInv, ScTyped, ScTypeOK, GatewayInv, GwTyped, GwTypeOK
<1>5. /\ i.agent \in Subjects /\ i.asked \in 0 .. MaxGwTime /\ i.asked <= gwNow
      /\ applied > 0 /\ ("config" \notin scRaced => i.asked <= b.expires)
  <2>1. i.agent \in Subjects /\ i.asked \in 0 .. MaxGwTime
    BY <1>1, <1>4, TaskFacts DEF SidecarInv
  <2> QED
    BY <1>1, <1>4, <2>1 DEF SidecarInv, CurrentOK
<1>6. b \in BundleRow /\ GwRowOK(b)
  BY <1>1, <1>4, <1>5 DEF SidecarInv, ScTyped, ScTypeOK, GatewayInv, GwTyped, Ordered
<1>7. d \in Decisions /\ (d = "LOCAL_APPROVED" => i.agent \notin b.revocations)
  BY <1>1, <1>2 DEF Decision, Decisions
<1>8. /\ j \in ScTask /\ j.stage = "answered" /\ j.agent = i.agent /\ j.asked = i.asked
      /\ j.decision = d /\ j.under = b
  BY <1>3, <1>5, <1>6, <1>7, TaskTypes
<1>9. task'[t] = j
  BY <1>4 DEF SidecarInv, ScTyped
<1>10. ASSUME d = "LOCAL_APPROVED", ~b.given, "config" \notin scRaced
       PROVE  struckAt[i.agent] + BundleTTL >= i.asked
  <2>1. struckAt[i.agent] + BundleTTL >= b.expires
    BY <1>5, <1>6, <1>7, <1>10 DEF GwRowOK, GwFresh
  <2>2. b.expires \in Nat /\ struckAt[i.agent] \in 0 .. Standing
    BY <1>4, <1>5, <1>6, BundleFacts
  <2> QED
    BY <1>5, <1>10, <2>1, <2>2
<1>11. SyncOK(t)' /\ CurrentOK(t)' /\ AnswerOK(t)'
  BY <1>4, <1>5, <1>8, <1>9, <1>10 DEF SyncOK, CurrentOK, AnswerOK
<1> QED
  BY <1>4, <1>8, <1>11, TaskStep DEF NonceStages

LEMMA IdleStep ==
    ASSUME GatewayInv, SidecarInv, NEW t \in Threads, Respond(t) \/ get_health_summary(t)
    PROVE  SidecarInv'
<1>1. PICK j \in {ScIdle, [stage |-> "health"]} : task' = [task EXCEPT ![t] = j]
  BY DEF Respond, get_health_summary, Done
<1>2. /\ UNCHANGED gwVars /\ UNCHANGED <<applied, reachable, seen, cache, let, scRaced>>
      /\ reachable \in BOOLEAN /\ lock' \in Threads \cup {"free"}
  BY DEF Respond, get_health_summary, SidecarInv, ScTyped, ScTypeOK
<1>3. j \in ScTask /\ j.stage \in {"idle", "health"} /\ task'[t] = j
  BY <1>1, TaskTypes DEF SidecarInv, ScTyped
<1>4. SyncOK(t)' /\ CurrentOK(t)' /\ AnswerOK(t)'
  BY <1>3 DEF SyncOK, CurrentOK, AnswerOK
<1> QED
  BY <1>1, <1>2, <1>3, <1>4, TaskStep DEF NonceStages

\* What is pruned has expired.
LEMMA EvaluateStep ==
    ASSUME GatewayInv, SidecarInv, NEW t \in Threads, NEW a \in Subjects,
           NEW n \in Nonces \cup {NoNonce}, NEW k \in Asked, evaluate_local_request(t, a, n, k)
    PROVE  SidecarInv'
<1> USE Constants
<1>1. PICK d : d = Pruned(seen)
  OBVIOUS
<1>2. PICK j : j = [stage |-> IF n = NoNonce THEN "current?" ELSE "pruning", agent |-> a, nonce |-> n,
                    for |-> k, offline |-> ~reachable, dict |-> d]
  OBVIOUS
<1>3. /\ UNCHANGED gwVars /\ UNCHANGED <<applied, reachable, seen, cache, lock, let>>
      /\ task' = [task EXCEPT ![t] = j] /\ scRaced \subseteq scRaced'
      /\ (n # NoNonce /\ \E q \in Threads : task[q].stage \in NonceStages) => "nonce" \in scRaced'
      /\ reachable \in BOOLEAN /\ lock \in Threads \cup {"free"}
      /\ gwNow \in 0 .. MaxGwTime /\ seen \in Expiries /\ let \in Expiries
  BY <1>1, <1>2 DEF evaluate_local_request, SidecarInv, ScTyped, ScTypeOK, GatewayInv, GwTyped, GwTypeOK,
     NonceStages
<1>4. d \in Expiries /\ \A x \in Nonces : d[x] = IF seen[x] > gwNow THEN seen[x] ELSE 0
  BY <1>1, <1>3 DEF Pruned, Expiries
<1>5. /\ j \in ScTask /\ j.dict = d /\ j.stage \in {"current?", "pruning"}
      /\ j.stage = "pruning" => n # NoNonce
  <2>1. (~reachable) \in BOOLEAN
    OBVIOUS
  <2> QED
    BY <1>2, <1>4, <2>1, TaskTypes DEF NonceStages
<1>6. task'[t] = j
  BY <1>3 DEF SidecarInv, ScTyped
<1>7. SyncOK(t)' /\ CurrentOK(t)' /\ AnswerOK(t)'
  BY <1>5, <1>6 DEF SyncOK, CurrentOK, AnswerOK
<1>8. ASSUME "nonce" \notin scRaced'
      PROVE  RememberedIn(d)
  <2>1. RememberedIn(seen)
    BY <1>3, <1>8 DEF SidecarInv, NoncesOK
  <2> QED
    BY <1>3, <1>4, <2>1 DEF RememberedIn, Expiries
<1> QED
  BY <1>3, <1>5, <1>7, <1>8, TaskStep DEF NonceStages

\* A restart forgets what was under way, and with it what had raced for a nonce.
LEMMA RestartStep ==
    ASSUME GatewayInv, SidecarInv, load_config_cache
    PROVE  SidecarInv'
<1> USE Constants
<1>1. /\ UNCHANGED <<gwNow, bundle, struckAt>> /\ cache' = cache
      /\ applied' = cache /\ reachable' = TRUE /\ seen' = Forgotten /\ let' = Forgotten /\ lock' = "free"
      /\ task' = [t \in Threads |-> ScIdle]
      /\ gwNow \in 0 .. MaxGwTime
  BY DEF load_config_cache, gwVars, GatewayInv, GwTyped, GwTypeOK
<1>2. Forgotten \in Expiries /\ \A n \in Nonces : Forgotten[n] = 0
  BY DEF Forgotten, Expiries
<1>3. task' \in [Threads -> ScTask] /\ \A t \in Threads : task'[t].stage = "idle"
  BY <1>1, TaskTypes
<1>4. ScTyped'
  BY <1>1, <1>2, <1>3 DEF SidecarInv, ScTyped, ScTypeOK, Expiries
<1>5. \A t \in Threads : SyncOK(t)' /\ CurrentOK(t)' /\ AnswerOK(t)'
  BY <1>3 DEF SyncOK, CurrentOK, AnswerOK
<1>6. NoncesOK'
  BY <1>1, <1>2, <1>3 DEF NoncesOK, RememberedIn, NonceStages
<1> QED
  BY <1>4, <1>5, <1>6 DEF SidecarInv

-----------------------------------------------------------------------------
(* The sidecar and the control plane together. *)

FaultsOK == faults \in Nat

\* What a step does to a published bundle, the row, the configuration and the nonces.
GoodStep ==
    /\ (Stopped(gw) /\ "enroll" \notin gwRaced) => Stopped(gw')
    /\ (gw.key \in GwKeys /\ "enroll" \notin gwRaced) => gw'.key \in {gw.key, Unenrolled}
    /\ \A v \in 1 .. MaxVersion : bundle[v] # NoBundle => bundle'[v] = bundle[v]
    /\ (applied' < applied /\ faults' = faults) => "config" \in scRaced'
    /\ \A n \in Nonces : (let'[n] # let[n] /\ let'[n] # 0) => (let[n] <= gwNow \/ "nonce" \in scRaced)

LEMMA ControlStep ==
    ASSUME GatewayInv, SidecarInv, FaultsOK,
           \/ GwNext /\ UNCHANGED scVars
           \/ \E m \in use.managers : send_heartbeat_sync(m)
    PROVE  GatewayInv' /\ SidecarInv' /\ FaultsOK' /\ GoodStep
<1>1. /\ UNCHANGED <<applied, seen, cache, lock, task, offline_policy, faults, let, scRaced>>
      /\ reachable' \in BOOLEAN
      /\ applied \in 0 .. MaxVersion
  BY DEF scVars, send_heartbeat_sync, SidecarInv, ScTyped, ScTypeOK
<1>2. use.managers \subseteq Managers
  BY GatewayAssumption DEF GatewayInv, GwTyped
<1>3. \/ GwNext
      \/ \E m \in Managers, v \in 0 .. MaxVersion : \E k : verify_gateway_heartbeat(m, v, k)
  BY <1>1, <1>2 DEF send_heartbeat_sync
<1>4. /\ GatewayInv'
      /\ (Stopped(gw) /\ "enroll" \notin gwRaced) => Stopped(gw')
      /\ (gw.key \in GwKeys /\ "enroll" \notin gwRaced) => gw'.key \in {gw.key, Unenrolled}
      /\ \A v \in 1 .. MaxVersion : bundle[v] # NoBundle => bundle'[v] = bundle[v]
      /\ gwNow' >= gwNow
      /\ \A a \in Subjects : struckAt'[a] \in {struckAt[a], gwNow, Standing}
  <2> HIDE DEF Stopped
  <2> QED
    BY <1>3, GwEffects
<1>5. SidecarInv'
  BY <1>1, <1>4, MeanwhileStep
<1>6. applied' = applied /\ ~(applied < applied) /\ let' = let
  BY <1>1, Constants
<1> QED
  BY <1>1, <1>4, <1>5, <1>6 DEF FaultsOK, GoodStep

LEMMA ThreadStep ==
    ASSUME GatewayInv, SidecarInv, FaultsOK, NEW t \in Threads,
           \/ Sync(t) \/ SyncUnreachable(t) \/ Serve(t) \/ get_health_summary(t)
           \/ \E a \in Subjects, n \in Nonces \cup {NoNonce}, asked \in Asked :
                evaluate_local_request(t, a, n, asked)
    PROVE  UNCHANGED gwVars /\ SidecarInv' /\ FaultsOK' /\ GoodStep
<1> USE Constants
<1>1. /\ applied \in 0 .. MaxVersion /\ ~(applied < applied)
  BY DEF SidecarInv, ScTyped, ScTypeOK
<1>2. ASSUME UNCHANGED <<gwNow, gw, bundle>>, UNCHANGED <<applied, let>>
      PROVE  GoodStep
  BY <1>1, <1>2 DEF GoodStep, Stopped
<1>3. UNCHANGED gwVars /\ UNCHANGED <<gwNow, gw, bundle>>
  BY DEF Sync, SyncFetch, SyncCheck, update_config, save_config_cache, SyncUnreachable, Serve,
     ReplacePruned, LookupNonce, InsertNonce, AskExpired, Judge, Respond, get_health_summary,
     evaluate_local_request, gwVars
<1>4. faults' \in {faults, faults + 1}
  BY DEF Sync, SyncFetch, SyncCheck, update_config, save_config_cache, SyncUnreachable, Serve,
     ReplacePruned, LookupNonce, InsertNonce, AskExpired, Judge, Respond, get_health_summary,
     evaluate_local_request
<1>5. FaultsOK'
  BY <1>4 DEF FaultsOK
<1>6. CASE update_config(t)
  <2>1. SidecarInv' /\ (applied' < applied => "config" \in scRaced') /\ let' = let
    BY <1>6, UpdateStep DEF update_config
  <2>2. GoodStep
    BY <1>3, <2>1 DEF GoodStep, Stopped
  <2> QED
    BY <1>3, <1>5, <2>1, <2>2
<1>7. CASE InsertNonce(t)
  <2>1. /\ SidecarInv' /\ applied' = applied
        /\ \A n \in Nonces : let'[n] # let[n] => let[n] <= gwNow \/ "nonce" \in scRaced
    BY <1>7, InsertNonceStep DEF InsertNonce
  <2>2. GoodStep
    BY <1>1, <1>3, <2>1 DEF GoodStep, Stopped
  <2> QED
    BY <1>3, <1>5, <2>1, <2>2
<1>8. CASE ~update_config(t) /\ ~InsertNonce(t)
  <2>1. UNCHANGED <<applied, let>>
    BY <1>8 DEF Sync, SyncFetch, SyncCheck, save_config_cache, SyncUnreachable, Serve,
       ReplacePruned, LookupNonce, AskExpired, Judge, Respond, get_health_summary,
       evaluate_local_request
  <2>2. SidecarInv'
    BY <1>8, FetchStep, CheckStep, SaveStep, ReplaceStep, LookupStep, AskStep, JudgeStep, IdleStep,
       EvaluateStep DEF Sync, Serve
  <2> QED
    BY <1>2, <1>3, <1>5, <2>1, <2>2
<1> QED
  BY <1>6, <1>7, <1>8

LEMMA ScNextInv ==
    ASSUME GatewayInv, SidecarInv, FaultsOK, [ScNext]_<<gwVars, scVars>>
    PROVE  GatewayInv' /\ SidecarInv' /\ FaultsOK' /\ GoodStep
<1>1. use.threads \subseteq Threads /\ use.nonces \subseteq Nonces \cup {NoNonce}
  BY SidecarAssumption DEF GatewayInv, GwTyped
<1>2. ASSUME NEW t \in Threads,
             \/ Sync(t) \/ SyncUnreachable(t) \/ Serve(t) \/ get_health_summary(t)
             \/ \E a \in Subjects, n \in Nonces \cup {NoNonce}, asked \in Asked :
                  evaluate_local_request(t, a, n, asked)
      PROVE  GatewayInv' /\ SidecarInv' /\ FaultsOK' /\ GoodStep
  <2>1. UNCHANGED gwVars /\ SidecarInv' /\ FaultsOK' /\ GoodStep
    BY <1>2, ThreadStep
  <2> QED
    BY <2>1, GatewayFrame
<1>3. CASE load_config_cache
  <2>1. /\ UNCHANGED gwVars /\ UNCHANGED <<gwNow, gw, bundle>> /\ faults' = faults + 1
        /\ let' = Forgotten
    BY <1>3 DEF load_config_cache, gwVars
  <2>2. faults' # faults /\ FaultsOK'
    BY <2>1 DEF FaultsOK
  <2>3. \A n \in Nonces : let'[n] = 0
    BY <2>1 DEF Forgotten
  <2>4. GoodStep
    BY <2>1, <2>2, <2>3 DEF GoodStep, Stopped
  <2> QED
    BY <1>3, <2>1, <2>2, <2>4, RestartStep, GatewayFrame
<1>4. CASE UNCHANGED <<gwVars, scVars>>
  <2>1. /\ UNCHANGED gwVars /\ UNCHANGED scVars
    BY <1>4
  <2>2. /\ UNCHANGED <<gwNow, gw, bundle, struckAt>>
        /\ UNCHANGED <<applied, reachable, seen, cache, lock, task, faults, let, scRaced>>
        /\ applied \in 0 .. MaxVersion /\ reachable \in BOOLEAN /\ gwNow \in Nat
    BY <2>1, Constants DEF gwVars, scVars, SidecarInv, ScTyped, ScTypeOK, GatewayInv, GwTyped, GwTypeOK
  <2>3. GoodStep /\ FaultsOK'
    BY <2>2, Constants DEF GoodStep, Stopped, FaultsOK
  <2> QED
    BY <2>1, <2>2, <2>3, GatewayFrame, MeanwhileStep
<1>5. CASE (GwNext /\ UNCHANGED scVars) \/ \E m \in use.managers : send_heartbeat_sync(m)
  BY <1>5, ControlStep
<1> QED
  BY <1>1, <1>2, <1>3, <1>4, <1>5 DEF ScNext

-----------------------------------------------------------------------------
(* The theorems. *)

Inv == GatewayInv /\ SidecarInv /\ FaultsOK

\* The invariants of the control plane and of its sidecar hold throughout.
THEOREM GatewayInvariance == ScSpec => []Inv
<1>1. GwInit /\ ScInit => Inv
  BY GwInitInv, ScInitInv DEF Inv, FaultsOK, ScInit
<1>2. Inv /\ [ScNext]_<<gwVars, scVars>> => Inv'
  BY ScNextInv DEF Inv
<1> QED
  BY <1>1, <1>2, PTL DEF ScSpec

\* Whatever a sidecar misses, it approves an agent that was suspended or revoked no longer
\* than a bundle's lifetime after that.
THEOREM GatewayTheorem == ScSpec => []GatewayHolds
<1>1. Inv => GatewayHolds
  BY DEF Inv, GatewayInv, GwTyped, SidecarInv, ScTyped, AnswerOK, GatewayHolds, StalenessBounded
<1> QED
  BY <1>1, GatewayInvariance, PTL

\* A suspended or revoked gateway stays out of service and a token binds one key, unless
\* something overlapped an enrolment; a published number is neither rewritten nor skipped.
THEOREM GatewayStepsTheorem == ScSpec => GatewaySteps
<1>1. Inv /\ [ScNext]_<<gwVars, scVars>> => GoodStep /\ GatewayInv'
  BY ScNextInv DEF Inv
<1>2. GatewayInv' => \A v \in 2 .. MaxVersion : bundle'[v] # NoBundle => bundle'[v - 1] # NoBundle
  <2> SUFFICES ASSUME GatewayInv', NEW v \in 2 .. MaxVersion, bundle'[v] # NoBundle
               PROVE  bundle'[v - 1] # NoBundle
    OBVIOUS
  <2>1. v \in 1 .. MaxVersion /\ v - 1 \in 1 .. v - 1
    BY Constants
  <2>2. \A w \in 1 .. v - 1 : bundle'[w] # NoBundle
    BY <2>1 DEF GatewayInv, Ordered, Continues
  <2> QED
    BY <2>1, <2>2
<1>3. Inv /\ [ScNext]_<<gwVars, scVars>> =>
        /\ [(Stopped(gw) /\ "enroll" \notin gwRaced) => Stopped(gw')]_gwVars
        /\ [(gw.key \in GwKeys /\ "enroll" \notin gwRaced) => gw'.key \in {gw.key, Unenrolled}]_gwVars
        /\ [/\ \A v \in 1 .. MaxVersion : bundle[v] # NoBundle => bundle'[v] = bundle[v]
            /\ \A v \in 2 .. MaxVersion : bundle'[v] # NoBundle => bundle'[v - 1] # NoBundle]_gwVars
  BY <1>1, <1>2 DEF GoodStep
<1> QED
  BY <1>3, GatewayInvariance, PTL DEF ScSpec, GatewaySteps, StoppedStays, OneKeyPerToken, PublishedForGood

\* A running sidecar never goes back to an older bundle unless two synchronizations
\* overlapped, and lets a nonce pass once in its lifetime unless two evaluations did.
THEOREM SidecarStepsTheorem == ScSpec => SidecarSteps
<1>1. Inv /\ [ScNext]_<<gwVars, scVars>> =>
        /\ [(applied' < applied /\ faults' = faults) => "config" \in scRaced']_<<gwVars, scVars>>
        /\ [\A n \in Nonces : (let'[n] # let[n] /\ let'[n] # 0)
              => (let[n] <= gwNow \/ "nonce" \in scRaced)]_<<gwVars, scVars>>
  BY ScNextInv DEF Inv, GoodStep
<1> QED
  BY <1>1, GatewayInvariance, PTL DEF ScSpec, SidecarSteps, NoDowngrade, NoncePassesOnce

-----------------------------------------------------------------------------
\* However batches, relays and crashes interleave: no notification is queued afresh, and no message
\* that was left PENDING is taken up again.
THEOREM NeverTakenUpTheorem == BackgroundSpec => NeverTakenUpAgain
BY NeverRequeuedTheorem, StrandedTheorem, PTL DEF BackgroundSpec, NeverTakenUpAgain
=============================================================================
