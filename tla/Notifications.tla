---------------------------- MODULE Notifications ----------------------------
(***************************************************************************)
(* The notifications of one user: their creation with a deduplication key  *)
(* and the user's preferences (services/notification_service.py), the      *)
(* worker's jobs that expire permissions and signing keys and send pushes  *)
(* and e-mails (services/notification_delivery.py), and the devices.       *)
(*                                                                         *)
(* The worker sends a whole batch under row locks and records it with one  *)
(* commit: a crash in between repeats every message of the batch.          *)
(***************************************************************************)
EXTENDS Naturals, FiniteSets

CONSTANTS
    Events,         \* what API requests notify of, by deduplication key
    Kind,           \* Kind[k]: "approval", "security" or "activity"
    Tokens,         \* push tokens
    Requesters,     \* API requests in progress at a time
    Jobs,           \* worker processes
    Preferences,    \* the preferences that the user may choose
    Worlds,         \* what the user has: preferences, permission, key, events, tokens
    MaxDevices,     \* 10 in register_device
    MaxSends,       \* notification_max_delivery_attempts
    MaxDeaths       \* bound on crashes

ASSUME NotificationsAssumption == IsFiniteSet(Requesters) /\ IsFiniteSet(Tokens)

\* The worker's own keys: permission-expiring, permission-expired and
\* agent-signing-key-expiring; device-registered stands for all devices.
JobKeys == {"expiring", "expired", "key-expiring"}
Keys == Events \cup JobKeys
ASSUME KindAssumption == Kind \in [Keys -> {"approval", "security", "activity"}]
ASSUME LimitsAssumption == MaxDevices \in Nat \ {0} /\ MaxSends \in Nat \ {0}

VARIABLES
    world,      \* the member of Worlds that this behaviour is about
    pref,       \* the notification_preferences row: a set of what is enabled
    note,       \* keys of the notifications that exist (read and archived ones too)
    mail,       \* mail[k]: its deliveries, by channel
    request,    \* request[p]: the API transaction that p is in
    worker,     \* worker[w]: the batch that w has locked, with its copies
    sent,       \* sent[k]: messages handed to a provider, by channel
    device,     \* device[t]: status of the devices row
    perm,       \* a permission: status, and which notices its row records
    key,        \* a signing key: "active" or "expired"
    hour,       \* "early", "near" (within the warning period) or "past" its expiry
    quiet,      \* history: the permission expired without the job announcing it, and why
    revived,    \* history: tokens whose revoked device was registered again
    deaths

ntVars == <<world, pref, note, mail, request, worker, sent, device, perm, key, hour, quiet, revived, deaths>>

External == {"push", "email"}
Switches == {"push", "email", "in_app", "security_email", "approval_push", "approval_email", "expiry"}
ASSUME PreferencesAssumption == Preferences \subseteq SUBSET Switches
ASSUME WorldsAssumption ==
    Worlds \subseteq [pref : SUBSET Switches, perm : {"none", "active"}, key : {"none", "active"},
                      events : SUBSET Events, tokens : SUBSET Tokens]
Delivery == [status : {"none", "pending", "sent", "failed"}, count : Nat]
NoDelivery == [status |-> "none", count |-> 0]
NoBatch == [stage |-> "idle"]
NoRequest == [stage |-> "idle"]

NtInit ==
    /\ world \in Worlds /\ pref = world.pref
    /\ note = {}
    /\ mail = [k \in Keys |-> [c \in External |-> NoDelivery]]
    /\ request = [p \in Requesters |-> NoRequest]
    /\ worker = [w \in Jobs |-> NoBatch]
    /\ sent = [k \in Keys |-> [c \in External |-> 0]]
    /\ device = [t \in Tokens |-> "none"]
    /\ perm = [status |-> world.perm, warned |-> FALSE, announced |-> FALSE]
    /\ key = world.key /\ hour = "early"
    /\ quiet = "no" /\ revived = {} /\ deaths = 0

\* The hour is that of the permission or key that will expire.
HourPasses ==
    /\ hour # "past" /\ "active" \in {world.perm, world.key}
    /\ hour' = IF hour = "early" THEN "near" ELSE "past"
    /\ UNCHANGED <<world, pref, note, mail, request, worker, sent, device, perm, key, quiet, revived, deaths>>

update_preferences(s) ==
    /\ pref' = s
    /\ UNCHANGED <<world, note, mail, request, worker, sent, device, perm, key, hour, quiet, revived, deaths>>

(***************************************************************************)
(* Creation.                                                               *)
(***************************************************************************)
_channels(k) ==
    {c \in External :
        \/ c = "push" /\ "push" \in pref /\ (Kind[k] = "approval" => "approval_push" \in pref)
        \/ /\ c = "email" /\ "email" \in pref
           /\ \/ Kind[k] = "approval" /\ "approval_email" \in pref
              \/ Kind[k] = "security" /\ "security_email" \in pref}

\* Rows that create_notification writes for the keys K, none of which exists.
Created(K) ==
    /\ note' = note \cup K
    /\ mail' = [k \in Keys |->
                  IF k \in K
                  THEN [c \in External |-> IF c \in _channels(k) THEN [status |-> "pending", count |-> 0]
                                           ELSE NoDelivery]
                  ELSE mail[k]]

\* An API transaction looks for the key; if it exists, nothing is written.
FindDuplicate(p, k) ==
    /\ request[p] = NoRequest /\ k \in world.events
    /\ k \notin note
    /\ request' = [request EXCEPT ![p] = [stage |-> "new", key |-> k]]
    /\ UNCHANGED <<world, pref, note, mail, worker, sent, device, perm, key, hour, quiet, revived, deaths>>

\* It inserts; when another transaction has committed the key since, the unique
\* index fails the insert and with it the whole transaction.
create_notification(p) ==
    /\ request[p].stage = "new"
    /\ IF request[p].key \notin note THEN Created({request[p].key}) ELSE UNCHANGED <<note, mail>>
    /\ request' = [request EXCEPT ![p] = NoRequest]
    /\ UNCHANGED <<world, pref, worker, sent, device, perm, key, hour, quiet, revived, deaths>>

(***************************************************************************)
(* Devices.  A token that was revoked is activated again without counting. *)
(***************************************************************************)
ActiveDevices == {t \in Tokens : device[t] = "active"}

CountDevices(p, t) ==
    /\ request[p] = NoRequest /\ t \in world.tokens
    /\ device[t] = "none" /\ Cardinality(ActiveDevices) < MaxDevices
    /\ request' = [request EXCEPT ![p] = [stage |-> "device", token |-> t]]
    /\ UNCHANGED <<world, pref, note, mail, worker, sent, device, perm, key, hour, quiet, revived, deaths>>

register_device(p) ==
    /\ request[p].stage = "device"
    /\ device' = [device EXCEPT ![request[p].token] = IF @ = "none" THEN "active" ELSE @]
    /\ request' = [request EXCEPT ![p] = NoRequest]
    /\ UNCHANGED <<world, pref, note, mail, worker, sent, perm, key, hour, quiet, revived, deaths>>

ReviveDevice(t) ==
    /\ device[t] = "revoked"
    /\ device' = [device EXCEPT ![t] = "active"]
    /\ revived' = revived \cup {t}
    /\ UNCHANGED <<world, pref, note, mail, request, worker, sent, perm, key, hour, quiet, deaths>>

revoke_device(t) ==
    /\ device[t] = "active"
    /\ device' = [device EXCEPT ![t] = "revoked"]
    /\ UNCHANGED <<world, pref, note, mail, request, worker, sent, perm, key, hour, quiet, revived, deaths>>

(***************************************************************************)
(* The permission and the signing key expire.                              *)
(***************************************************************************)
\* A read of the permission finds it past its expiry and marks it.
get_owned_permission ==
    /\ perm.status = "active" /\ hour = "past"
    /\ perm' = [perm EXCEPT !.status = "expired"]
    /\ quiet' = "read"
    /\ UNCHANGED <<world, pref, note, mail, request, worker, sent, device, key, hour, revived, deaths>>

revoke_owned_permission ==
    /\ perm.status = "active" /\ hour # "past"
    /\ perm' = [perm EXCEPT !.status = "revoked"]
    /\ UNCHANGED <<world, pref, note, mail, request, worker, sent, device, key, hour, quiet, revived, deaths>>

\* The job, on an ACTIVE permission that it has locked.
ExpirePermission ==
    /\ perm.status = "active" /\ hour = "past"
    /\ perm' = [perm EXCEPT !.status = "expired", !.announced = @ \/ "expiry" \in pref]
    /\ IF ~perm.announced /\ "expiry" \in pref /\ "expired" \notin note
       THEN Created({"expired"}) ELSE UNCHANGED <<note, mail>>
    /\ quiet' = IF "expiry" \in pref THEN quiet ELSE "preference"
    /\ UNCHANGED <<world, pref, request, worker, sent, device, key, hour, revived, deaths>>

WarnPermission ==
    /\ perm.status = "active" /\ hour = "near"
    /\ ~perm.warned /\ "expiry" \in pref
    /\ perm' = [perm EXCEPT !.warned = TRUE]
    /\ IF "expiring" \notin note THEN Created({"expiring"}) ELSE UNCHANGED <<note, mail>>
    /\ UNCHANGED <<world, pref, request, worker, sent, device, key, hour, quiet, revived, deaths>>

ExpireKey ==
    /\ key = "active" /\ hour # "early"
    /\ \/ /\ hour = "past" /\ key' = "expired" /\ UNCHANGED <<note, mail>>
       \/ /\ hour = "near" /\ "key-expiring" \notin note
          /\ Created({"key-expiring"}) /\ UNCHANGED key
    /\ UNCHANGED <<world, pref, request, worker, sent, device, perm, hour, quiet, revived, deaths>>

(***************************************************************************)
(* Delivery: a batch is locked, sent and recorded by one commit.           *)
(***************************************************************************)
\* Mutant: SKIP LOCKED without the lock.
PendingUnlocked(k, c) == mail[k][c].status = "pending"

Pending(k, c) ==
    /\ mail[k][c].status = "pending"
    /\ \A w \in Jobs : worker[w].stage = "idle" \/ <<k, c>> \notin DOMAIN worker[w].copies

LockBatch(w) ==
    LET batch == {x \in Keys \X External : Pending(x[1], x[2])} IN
    /\ worker[w] = NoBatch /\ batch # {}
    /\ worker' = [worker EXCEPT ![w] = [stage |-> "sending", todo |-> batch,
                                        copies |-> [x \in batch |-> mail[x[1]][x[2]]]]]
    /\ UNCHANGED <<world, pref, note, mail, request, sent, device, perm, key, hour, quiet, revived, deaths>>

_mark_failure(copy) ==
    [status |-> IF copy.count + 1 >= MaxSends THEN "failed" ELSE "pending", count |-> copy.count + 1]

Outcome(copy, ok) == IF ok THEN [status |-> "sent", count |-> copy.count + 1] ELSE _mark_failure(copy)

\* A provider that fails may have sent the message all the same (a timeout); a push
\* needs an active device, and counts as sent when one device took it.
SendOne(w, x, ok) ==
    /\ worker[w].stage = "sending" /\ x \in worker[w].todo
    /\ (ok /\ x[2] = "push") => ActiveDevices # {}
    /\ sent' = IF ok THEN [sent EXCEPT ![x[1]][x[2]] = @ + 1] ELSE sent
    /\ worker' = [worker EXCEPT ![w] =
          [stage |-> "sending", todo |-> worker[w].todo \ {x},
           copies |-> [y \in DOMAIN worker[w].copies |->
                         IF y = x THEN Outcome(worker[w].copies[x], ok) ELSE worker[w].copies[y]]]]
    /\ UNCHANGED <<world, pref, note, mail, request, device, perm, key, hour, quiet, revived, deaths>>

CommitBatch(w) ==
    /\ worker[w].stage = "sending" /\ worker[w].todo = {}
    /\ mail' = [k \in Keys |-> [c \in External |->
                  IF <<k, c>> \in DOMAIN worker[w].copies THEN worker[w].copies[<<k, c>>] ELSE mail[k][c]]]
    /\ worker' = [worker EXCEPT ![w] = NoBatch]
    /\ UNCHANGED <<world, pref, note, request, sent, device, perm, key, hour, quiet, revived, deaths>>

WorkerDies(w) ==
    /\ worker[w] # NoBatch /\ deaths < MaxDeaths
    /\ worker' = [worker EXCEPT ![w] = NoBatch]
    /\ deaths' = deaths + 1
    /\ UNCHANGED <<world, pref, note, mail, request, sent, device, perm, key, hour, quiet, revived>>

process_notification_deliveries(w) ==
    \/ LockBatch(w) \/ CommitBatch(w)
    \/ \E x \in Keys \X External, ok \in BOOLEAN : SendOne(w, x, ok)

NtNext ==
    \/ HourPasses
    \/ get_owned_permission \/ revoke_owned_permission
    \/ ExpirePermission \/ WarnPermission \/ ExpireKey
    \/ \E s \in Preferences : update_preferences(s)
    \/ \E t \in Tokens : ReviveDevice(t) \/ revoke_device(t)
    \/ \E p \in Requesters :
          \/ \E k \in Events : FindDuplicate(p, k)
          \/ \E t \in Tokens : CountDevices(p, t)
          \/ create_notification(p) \/ register_device(p)
    \/ \E w \in Jobs : process_notification_deliveries(w) \/ WorkerDies(w)

NtSpec == NtInit /\ [][NtNext]_ntVars

\* The worker's loop runs the expiry job again and again.
NtFairness == WF_ntVars(ExpirePermission)

(***************************************************************************)
(* Properties.                                                             *)
(***************************************************************************)
\* Every row has its type.
NtTypeOK ==
    /\ pref \subseteq Switches
    /\ note \subseteq Keys
    /\ mail \in [Keys -> [External -> Delivery]]
    /\ perm \in [status : {"none", "active", "expired", "revoked"}, warned : BOOLEAN, announced : BOOLEAN]
    /\ device \in [Tokens -> {"none", "active", "revoked"}]
    /\ revived \subseteq Tokens

\* The row locks of a batch are held until its commit, so the messages sent for a
\* delivery exceed the attempts its row records only by the batches that died between
\* sending and commit, and by the one batch in progress.
InFlight(k, c) ==
    Cardinality({w \in Jobs : worker[w].stage = "sending" /\ <<k, c>> \in DOMAIN worker[w].copies})
RepeatsOnlyByCrash ==
    \A k \in Keys, c \in External :
        sent[k][c] <= mail[k][c].count + deaths + InFlight(k, c) /\ InFlight(k, c) <= 1

\* A permission expires without its notice only when a read marked it first (the job
\* looks at ACTIVE permissions only) or the user had switched the notice off.
OnlyReadsSilence ==
    (perm.status = "expired" /\ "expired" \notin note) => quiet \in {"read", "preference"}

\* The cap on devices is exceeded only by requests that counted at the same time and
\* by tokens that came back from revocation.
DeviceCap ==
    Cardinality(ActiveDevices) <=
        MaxDevices + (Cardinality(Requesters) - 1) + Cardinality(revived)

\* A notification is sent again only after a crash, an expiry is passed over in silence only
\* because a read came first, and devices exceed their cap only by overlaps and revivals.
NotificationsHold == NtTypeOK /\ RepeatsOnlyByCrash /\ OnlyReadsSilence /\ DeviceCap

\* A notification is created once: its deliveries are never queued afresh once a
\* worker has recorded an attempt, although transactions that create it overlap.
NeverRequeued ==
    [][\A k \in Keys, c \in External : mail'[k][c].count >= mail[k][c].count]_ntVars

\* The expiry of the permission has passed, and it has been acted upon.
PastExpiry == hour = "past"
ExpiryActedUpon == perm.status # "active"
=============================================================================
