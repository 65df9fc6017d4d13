----------------------------- MODULE Membership -----------------------------
(***************************************************************************)
(* One organization: its members and invitations                           *)
(* (services/organizations.py), the API keys its members create            *)
(* (services/api_keys.py), the limits of its plan                          *)
(* (services/plan_limits.py) and the subscription that the events of the   *)
(* billing provider drive (services/billing.py).                           *)
(*                                                                         *)
(* A handler resolves the role of its user first and keeps it.  Only       *)
(* create_invitation, create_api_key, cancel and process_webhook lock the  *)
(* subscription row, until they commit; every SELECT sees what is          *)
(* committed when it runs.  An e-mail address is named after its user.     *)
(***************************************************************************)
EXTENDS Integers, FiniteSets, Sequences

CONSTANTS
    Users, Owner,
    Invitations, APIKeys,   \* rows there may be
    Hands,                  \* sessions, numbered like the rows
    MaxMembers, MaxKeys,    \* limits by plan; a plan is one of their DOMAIN, "free" among them
    InviteTTL, Grace,       \* invitation_expire_days, billing_grace_period_days
    Orgs                    \* what a behaviour is about: plan, members, actors, hands, ops, bind (invitation_bind_email),
                            \* roles given, expiries of keys, number of events, horizon

ASSUME MembershipAssumption ==
    /\ Owner \in Users /\ IsFiniteSet(Users) /\ IsFiniteSet(Invitations) /\ IsFiniteSet(APIKeys)
    /\ DOMAIN MaxKeys = DOMAIN MaxMembers /\ "free" \in DOMAIN MaxMembers
    /\ \A p \in DOMAIN MaxMembers : MaxMembers[p] \in Nat /\ MaxKeys[p] \in Nat
    /\ 0 \notin Hands /\ InviteTTL \in Nat /\ Grace \in Nat

VARIABLES
    msNow,
    member,     \* member[u]: the organization_members row, or NoMember
    invitation, \* invitation[i]: the organization_invitations row, or NoInvitation
    apiKey,     \* apiKey[k]: the api_keys row, or NoAPIKey
    sub,        \* the organization_subscriptions row
    subLock,    \* the session that holds its lock, or Nobody
    billed,     \* billing_events: the events recorded, by number
    checkout,   \* checkout[p]: status of the billing_checkouts row for plan p
    provider,   \* the subscription as the billing provider has it
    emitted,    \* the events the provider has sent
    hand,       \* hand[h]: the handler in session h
    plansHad,   \* history: plans the organization has had
    slipped,    \* history: acceptances that a count of seats missed
    unguarded,  \* history: keys created after the lock was lost
    orphaned,   \* history: keys created for a member who was no longer one
    crossed,    \* history: users whose acceptance crossed another invitation of theirs, or its acceptance
    applied,    \* history: applied[e]: how often event e changed the subscription
    inOrder,    \* history: were the events applied in the order they were sent
    org         \* \in Orgs

msVars == <<msNow, member, invitation, apiKey, sub, subLock, billed, checkout, provider, emitted,
            hand, plansHad, slipped, unguarded, orphaned, crossed, applied, inOrder, org>>
memberVars == <<member, invitation, slipped, crossed>>
keyVars == <<apiKey, unguarded, orphaned>>
billVars == <<sub, billed, checkout, provider, emitted, plansHad, applied, inOrder>>
fixed == <<msNow, org>>

OrganizationRole == {"OWNER", "ADMIN", "DEVELOPER", "VIEWER"}
MemberStatus == {"ACTIVE", "REMOVED"}
InvitationStatus == {"PENDING", "ACCEPTED", "EXPIRED", "REVOKED"}
APIKeyStatus == {"ACTIVE", "REVOKED", "EXPIRED"}
SubscriptionStatus == {"ACTIVE", "PAST_DUE", "CANCELED"}
NoMember == [status |-> "none"]
NoInvitation == [status |-> "none"]
NoAPIKey == [status |-> "none"]
Nobody == 0
HandIdle == [stage |-> "idle"]
Member(role) == [role |-> role, status |-> "ACTIVE"]
FreeSubscription == [plan |-> "free", status |-> "ACTIVE", grace |-> 0, cancelling |-> FALSE]

\* An organization starts within its plan.
ASSUME OrgsAssumption == \A o \in Orgs :
    /\ o.plan \in DOMAIN MaxMembers /\ o.hands \subseteq Hands /\ o.actors \subseteq Users
    /\ o.roles \subseteq OrganizationRole \ {"OWNER"} /\ o.expiries \subseteq Nat
    /\ \A u \in Users : o.members[u] \in {NoMember} \cup [role : OrganizationRole \ {"OWNER"}, status : MemberStatus]
    /\ Cardinality({u \in Users \ {Owner} : o.members[u].status = "ACTIVE"}) <= MaxMembers[o.plan]

\* create_organization makes the first member, its OWNER, and attaches the free plan; an
\* organization may have bought another one since.
MsInit ==
    /\ org \in Orgs /\ msNow = 0
    /\ member = [u \in Users |-> IF u = Owner THEN Member("OWNER") ELSE org.members[u]]
    /\ invitation = [i \in Invitations |-> NoInvitation]
    /\ apiKey = [k \in APIKeys |-> NoAPIKey]
    /\ sub = [FreeSubscription EXCEPT !.plan = org.plan] /\ subLock = Nobody
    /\ billed = {} /\ emitted = <<>> /\ applied = <<>> /\ inOrder = TRUE
    /\ checkout = [p \in DOMAIN MaxMembers |-> "none"]
    /\ provider = [plan |-> org.plan, told |-> FALSE]
    /\ hand = [h \in Hands |-> HandIdle]
    /\ plansHad = {org.plan} /\ slipped = 0 /\ unguarded = 0 /\ orphaned = {} /\ crossed = {}

MsTick ==
    /\ msNow < org.horizon /\ msNow' = msNow + 1
    /\ UNCHANGED <<memberVars, keyVars, billVars, subLock, hand, org>>

\* The next row of a table.
New(table, empty) == {i \in DOMAIN table : table[i] = empty /\ \A j \in DOMAIN table : j < i => table[j] # empty}

\* resolve_workspace: the role of a user, and what it allows (ROLE_CAPABILITIES).
RoleOf(u) ==
    IF member[u].status = "ACTIVE" THEN member[u].role ELSE IF u = Owner THEN "OWNER" ELSE "none"

Capable(op) ==
    CASE op \in {"invite", "revoke_invitation", "role", "remove", "checkout"} -> {"OWNER", "ADMIN"}
      [] op = "cancel" -> {"OWNER"}
      [] op \in {"key", "list", "revoke_key"} -> {"OWNER", "ADMIN", "DEVELOPER"}
      [] OTHER -> {}

\* Sessions are alike: a request goes to the first one that is free.
Free(h) == hand[h] = HandIdle /\ \A q \in Hands : q < h => hand[q] # HandIdle

Enter(h, u, op) ==
    /\ Free(h) /\ op \in org.ops /\ RoleOf(u) \in Capable(op)
    /\ hand' = [hand EXCEPT ![h] = [stage |-> "entered", op |-> op, by |-> u, role |-> RoleOf(u)]]
    /\ UNCHANGED <<fixed, memberVars, keyVars, billVars, subLock>>

At(h, stage, op) == hand[h].stage = stage /\ hand[h].op = op
Done(h) == hand' = [hand EXCEPT ![h] = HandIdle]

Release(h) == subLock' = IF subLock = h THEN Nobody ELSE subLock

\* The process dies, or the client goes away: nothing is committed.
CrashHand(h) ==
    /\ "crash" \in org.ops /\ hand[h] # HandIdle
    /\ Done(h) /\ Release(h)
    /\ UNCHANGED <<fixed, memberVars, keyVars, billVars>>

(***************************************************************************)
(* Plan limits.                                                            *)
(***************************************************************************)
_check_subscription_access == sub.status = "PAST_DUE" => msNow <= sub.grace

Pending(i) == invitation[i].status = "PENDING" /\ invitation[i].till > msNow
PendingCount == Cardinality({i \in Invitations : Pending(i)})
MemberCount == Cardinality({u \in Users : member[u].status = "ACTIVE" /\ member[u].role # "OWNER"})
KeyCount == Cardinality({k \in APIKeys : apiKey[k].status = "ACTIVE"})

MayAdd(count, limit) == count < limit

\* enforce_resource_limit for team members counts members first, then invitations.
LockSeats(h) ==
    /\ At(h, "entered", "invite") /\ subLock = Nobody
    /\ IF _check_subscription_access
       THEN /\ subLock' = h
            /\ hand' = [hand EXCEPT ![h] =
                  [stage |-> "seated", op |-> "invite", by |-> hand[h].by, seats |-> MemberCount]]
       ELSE Done(h) /\ UNCHANGED subLock
    /\ UNCHANGED <<fixed, memberVars, keyVars, billVars>>

\* Mutant: only members are counted.
SeatsTakenByMembers(members) == members

SeatsTaken(members) == members + PendingCount

CountPending(h) ==
    /\ At(h, "seated", "invite")
    /\ IF MayAdd(SeatsTaken(hand[h].seats), MaxMembers[sub.plan])
       THEN hand' = [hand EXCEPT ![h].stage = "counted"] /\ UNCHANGED subLock
       ELSE Done(h) /\ Release(h)
    /\ UNCHANGED <<fixed, memberVars, keyVars, billVars>>

(***************************************************************************)
(* Invitations and members.                                                *)
(***************************************************************************)

IsMember(email) == member[email].status = "ACTIVE"

CheckMember(h, email, role) ==
    /\ At(h, "counted", "invite")
    /\ IF IsMember(email) THEN Done(h) /\ Release(h)
       ELSE /\ hand' = [hand EXCEPT ![h] =
                  [stage |-> "cleared", op |-> "invite", by |-> hand[h].by, email |-> email, role |-> role]]
            /\ UNCHANGED subLock
    /\ UNCHANGED <<fixed, memberVars, keyVars, billVars>>

InvitedAlready(email) == \E i \in Invitations : Pending(i) /\ invitation[i].email = email

create_invitation(h, i) ==
    LET d == hand[h] IN
    /\ At(h, "cleared", "invite") /\ i \in New(invitation, NoInvitation)
    /\ invitation' = IF InvitedAlready(d.email) THEN invitation
                     ELSE [invitation EXCEPT ![i] = [email |-> d.email, role |-> d.role,
                               status |-> "PENDING", till |-> msNow + InviteTTL]]
    /\ Done(h) /\ Release(h)
    /\ UNCHANGED <<fixed, member, slipped, crossed, keyVars, billVars>>

\* The moment that decides about expiry is taken before the row is locked.
BeginAccept(h, u, i) ==
    /\ Free(h) /\ "accept" \in org.ops /\ invitation[i] # NoInvitation
    /\ hand' = [hand EXCEPT ![h] =
          [stage |-> "entered", op |-> "accept", by |-> u, invitation |-> i, at |-> msNow]]
    /\ UNCHANGED <<fixed, memberVars, keyVars, billVars, subLock>>

ExpiredWhen(i, at) == invitation[i].status = "EXPIRED" \/ invitation[i].till <= at

\* invitation_bind_email
MayAccept(u, i) == org.bind => invitation[i].email = u

accept_invitation(h) ==
    LET d == hand[h]  i == d.invitation  row == invitation[i] IN
    /\ At(h, "entered", "accept")
    /\ IF row.status \in {"REVOKED", "ACCEPTED"} THEN UNCHANGED memberVars
       ELSE IF ExpiredWhen(i, d.at)
       THEN invitation' = [invitation EXCEPT ![i].status = "EXPIRED"] /\ UNCHANGED <<member, slipped, crossed>>
       ELSE IF ~MayAccept(d.by, i) THEN UNCHANGED memberVars
       ELSE /\ invitation' = [invitation EXCEPT ![i].status = "ACCEPTED"]
            /\ member' = [member EXCEPT ![d.by] = Member(row.role)]
            /\ slipped' = IF row.till <= msNow \/ \E q \in Hands : hand[q].stage = "seated"
                          THEN slipped + 1 ELSE slipped
            /\ crossed' = IF \/ \E q \in Hands : hand[q].stage = "cleared" /\ hand[q].email = d.by
                             \/ \E j \in Invitations \ {i} : Pending(j) /\ invitation[j].email = d.by
                             \/ \E q \in Hands : /\ At(q, "entered", "accept") /\ hand[q].by = d.by
                                                /\ hand[q].invitation # i
                          THEN crossed \cup {d.by} ELSE crossed
    /\ Done(h)
    /\ UNCHANGED <<fixed, keyVars, billVars, subLock>>

revoke_invitation(h, i) ==
    /\ At(h, "entered", "revoke_invitation") /\ invitation[i].status = "PENDING"
    /\ invitation' = [invitation EXCEPT ![i].status = "REVOKED"]
    /\ Done(h)
    /\ UNCHANGED <<fixed, member, slipped, crossed, keyVars, billVars, subLock>>

MayChange(h, u) == member[u].role # "OWNER" /\ u # hand[h].by

\* The keys of a user, as far as they are committed.
KeysOf(u) == {k \in APIKeys : apiKey[k].status = "ACTIVE" /\ apiKey[k].by = u}

RevokeKeys(ks) ==
    apiKey' = [k \in APIKeys |-> IF k \in ks THEN [apiKey[k] EXCEPT !.status = "REVOKED"] ELSE apiKey[k]]

change_member_role(h, u, role) ==
    /\ At(h, "entered", "role") /\ member[u].status = "ACTIVE"
    /\ IF MayChange(h, u)
       THEN /\ member' = [member EXCEPT ![u].role = role]
            /\ RevokeKeys(IF role = "VIEWER" THEN KeysOf(u) ELSE {})
       ELSE UNCHANGED <<member, apiKey>>
    /\ Done(h)
    /\ UNCHANGED <<fixed, invitation, slipped, crossed, unguarded, orphaned, billVars, subLock>>

remove_member(h, u) ==
    /\ At(h, "entered", "remove") /\ member[u].status = "ACTIVE"
    /\ IF MayChange(h, u)
       THEN member' = [member EXCEPT ![u].status = "REMOVED"] /\ RevokeKeys(KeysOf(u))
       ELSE UNCHANGED <<member, apiKey>>
    /\ Done(h)
    /\ UNCHANGED <<fixed, invitation, slipped, crossed, unguarded, orphaned, billVars, subLock>>

(***************************************************************************)
(* API keys.                                                               *)
(***************************************************************************)
LockKeys(h) ==
    /\ At(h, "entered", "key") /\ subLock = Nobody
    /\ IF _check_subscription_access /\ MayAdd(KeyCount, MaxKeys[sub.plan])
       THEN subLock' = h /\ hand' = [hand EXCEPT ![h].stage = "keyed"]
       ELSE Done(h) /\ UNCHANGED subLock
    /\ UNCHANGED <<fixed, memberVars, keyVars, billVars>>

\* The prefix is taken: the rollback gives up the lock, and the next attempt does not count.
Collide(h) ==
    /\ "collide" \in org.ops /\ At(h, "keyed", "key")
    /\ hand' = [hand EXCEPT ![h].stage = "retrying"] /\ Release(h)
    /\ UNCHANGED <<fixed, memberVars, keyVars, billVars>>

create_api_key(h, k, till) ==
    /\ At(h, "keyed", "key") \/ At(h, "retrying", "key")
    /\ k \in New(apiKey, NoAPIKey)
    /\ apiKey' = [apiKey EXCEPT ![k] = [by |-> hand[h].by, status |-> "ACTIVE", till |-> till]]
    /\ unguarded' = IF hand[h].stage = "retrying" THEN unguarded + 1 ELSE unguarded
    /\ orphaned' = IF RoleOf(hand[h].by) \in Capable("key") THEN orphaned ELSE orphaned \cup {k}
    /\ Done(h) /\ Release(h)
    /\ UNCHANGED <<fixed, memberVars, billVars>>

\* A DEVELOPER sees and revokes only keys of their own.
Visible(h, k) == apiKey[k] # NoAPIKey /\ (hand[h].role = "DEVELOPER" => apiKey[k].by = hand[h].by)

LoadKeys(h) ==
    /\ At(h, "entered", "list")
    /\ hand' = [hand EXCEPT ![h] = [stage |-> "listed", op |-> "list", by |-> hand[h].by,
          keys |-> {k \in APIKeys : Visible(h, k) /\ apiKey[k].status = "ACTIVE" /\ apiKey[k].till <= msNow}]]
    /\ UNCHANGED <<fixed, memberVars, keyVars, billVars, subLock>>

list_api_keys(h) ==
    /\ At(h, "listed", "list")
    /\ apiKey' = [k \in APIKeys |->
          IF k \in hand[h].keys THEN [apiKey[k] EXCEPT !.status = "EXPIRED"] ELSE apiKey[k]]
    /\ Done(h)
    /\ UNCHANGED <<fixed, memberVars, unguarded, orphaned, billVars, subLock>>

revoke_api_key(h, k) ==
    /\ At(h, "entered", "revoke_key") /\ Visible(h, k)
    /\ RevokeKeys({k} \cap KeysOf(apiKey[k].by))
    /\ Done(h)
    /\ UNCHANGED <<fixed, memberVars, unguarded, orphaned, billVars, subLock>>

LoadKey(h, k) ==
    /\ Free(h) /\ "authenticate" \in org.ops /\ apiKey[k].status = "ACTIVE"
    /\ hand' = [hand EXCEPT ![h] =
          [stage |-> "loaded", op |-> "authenticate", by |-> apiKey[k].by, key |-> k, at |-> msNow,
           row |-> apiKey[k]]]
    /\ UNCHANGED <<fixed, memberVars, keyVars, billVars, subLock>>

\* Mutant: every column of the row is written back.
TouchedWhole(k, loaded) == loaded

\* last_used_at is the only column written.
Touched(k, loaded) == apiKey[k]

AfterUse(d) ==
    IF d.row.till <= d.at THEN [apiKey[d.key] EXCEPT !.status = "EXPIRED"]
    ELSE IF RoleOf(d.by) \in Capable("key") THEN Touched(d.key, d.row) ELSE apiKey[d.key]

authenticate_api_key(h) ==
    /\ At(h, "loaded", "authenticate")
    /\ apiKey' = [apiKey EXCEPT ![hand[h].key] = AfterUse(hand[h])]
    /\ Done(h)
    /\ UNCHANGED <<fixed, memberVars, unguarded, orphaned, billVars, subLock>>

(***************************************************************************)
(* Billing.                                                                *)
(***************************************************************************)
create_checkout(h, p) ==
    /\ At(h, "entered", "checkout") /\ p # "free"
    /\ checkout' = [checkout EXCEPT ![p] = "pending"]
    /\ Done(h)
    /\ UNCHANGED <<fixed, memberVars, keyVars, sub, billed, provider, emitted, plansHad, applied, inOrder, subLock>>

\* The provider's side: what becomes of its subscription, and the event it sends.
Emit(type, p) ==
    /\ Len(emitted) < org.events
    /\ CASE type \in {"completed", "failed"} -> checkout[p] = "pending"
         [] OTHER -> provider.plan # "free" /\ (type # "updated" => p = provider.plan)
    /\ emitted' = Append(emitted, [type |-> type, plan |-> p])
    /\ provider' = CASE type \in {"completed", "updated"} -> [provider EXCEPT !.plan = p]
                     [] type = "canceled" -> [plan |-> "free", told |-> FALSE]
                     [] OTHER -> provider
    /\ applied' = Append(applied, 0)
    /\ UNCHANGED <<fixed, memberVars, keyVars, sub, billed, checkout, plansHad, inOrder, subLock, hand>>

\* An event arrives: any time after it was sent, and any number of times.
LookupEvent(h, e) ==
    /\ Free(h) /\ e \notin billed
    /\ hand' = [hand EXCEPT ![h] = [stage |-> "looked", op |-> "webhook", by |-> Nobody, event |-> e]]
    /\ UNCHANGED <<fixed, memberVars, keyVars, billVars, subLock>>

\* Mutant: the event is not recorded when it is flushed.
RecordedNever(e) == FALSE

\* The unique provider_event_id refuses the later of two.
Recorded(e) == e \in billed

Applied(row, e) ==
    CASE e.type \in {"completed", "updated"} ->
            [plan |-> e.plan, status |-> "ACTIVE", grace |-> 0, cancelling |-> FALSE]
      [] e.type \in {"past_due", "failed"} -> [row EXCEPT !.status = "PAST_DUE", !.grace = msNow + Grace]
      [] e.type = "canceled" -> [row EXCEPT !.plan = "free", !.status = "CANCELED", !.cancelling = FALSE]

process_webhook(h) ==
    LET e == hand[h].event IN
    /\ At(h, "looked", "webhook")
    /\ IF Recorded(e) THEN UNCHANGED billVars
       ELSE /\ subLock = Nobody
            /\ sub' = Applied(sub, emitted[e])
            /\ billed' = billed \cup {e}
            /\ checkout' = IF emitted[e].type = "completed"
                           THEN [checkout EXCEPT ![emitted[e].plan] = "completed"] ELSE checkout
            /\ plansHad' = plansHad \cup {sub'.plan}
            /\ applied' = [applied EXCEPT ![e] = @ + 1]
            /\ inOrder' = (inOrder /\ \A f \in billed : f < e)
            /\ UNCHANGED <<provider, emitted>>
    /\ Done(h)
    /\ UNCHANGED <<fixed, memberVars, keyVars, subLock>>

\* BillingProviderError ends the handler.
Proceeds(accepts) == accepts

\* The provider is told while the row is locked and before anything is committed.
TellProvider(h, accepts) ==
    /\ At(h, "entered", "cancel") /\ subLock = Nobody
    /\ IF sub.plan # "free" /\ Proceeds(accepts)
       THEN /\ provider' = [provider EXCEPT !.told = @ \/ (accepts /\ provider.plan # "free")]
            /\ subLock' = h /\ hand' = [hand EXCEPT ![h].stage = "told"]
       ELSE Done(h) /\ UNCHANGED <<provider, subLock>>
    /\ UNCHANGED <<fixed, memberVars, keyVars, sub, billed, checkout, emitted, plansHad, applied, inOrder>>

cancel(h) ==
    /\ At(h, "told", "cancel")
    /\ sub' = [sub EXCEPT !.cancelling = TRUE]
    /\ Done(h) /\ Release(h)
    /\ UNCHANGED <<fixed, memberVars, keyVars, billed, checkout, provider, emitted, plansHad, applied, inOrder>>

MsNext ==
    \/ MsTick
    \/ \E type \in {"completed", "failed", "updated", "past_due", "canceled"},
          p \in DOMAIN MaxMembers \ {"free"} : Emit(type, p)
    \/ \E h \in org.hands :
        \/ CrashHand(h) \/ LockSeats(h) \/ CountPending(h) \/ accept_invitation(h)
        \/ \E u \in org.actors, op \in org.ops : Enter(h, u, op)
        \/ \E u \in Users, role \in org.roles : CheckMember(h, u, role) \/ change_member_role(h, u, role)
        \/ \E u \in Users : remove_member(h, u)
        \/ \E i \in Invitations : create_invitation(h, i) \/ revoke_invitation(h, i)
        \/ \E u \in Users, i \in Invitations : BeginAccept(h, u, i)
        \/ LockKeys(h) \/ Collide(h) \/ LoadKeys(h) \/ list_api_keys(h) \/ authenticate_api_key(h)
        \/ \E k \in APIKeys : revoke_api_key(h, k) \/ LoadKey(h, k)
                              \/ \E till \in org.expiries : create_api_key(h, k, till)
        \/ \E p \in DOMAIN MaxMembers : create_checkout(h, p)
        \/ \E e \in DOMAIN emitted : LookupEvent(h, e)
        \/ process_webhook(h) \/ cancel(h) \/ \E accepts \in BOOLEAN : TellProvider(h, accepts)

MsSpec == MsInit /\ [][MsNext]_msVars

(***************************************************************************)
(* Properties.                                                             *)
(***************************************************************************)
\* Every row has its type; the lock is held by a handler that is at work.
MsTypeOK ==
    /\ \A u \in Users : member[u] # NoMember =>
          member[u].role \in OrganizationRole /\ member[u].status \in MemberStatus
    /\ \A i \in Invitations : invitation[i] # NoInvitation =>
          invitation[i].status \in InvitationStatus /\ invitation[i].role \in OrganizationRole \ {"OWNER"}
    /\ \A k \in APIKeys : apiKey[k] # NoAPIKey => apiKey[k].status \in APIKeyStatus
    /\ sub.plan \in DOMAIN MaxMembers /\ sub.status \in SubscriptionStatus
    /\ subLock # Nobody => hand[subLock].stage \in {"seated", "counted", "cleared", "keyed", "told"}

\* Members and open invitations stay within the best plan the organization has had, except
\* for the acceptances that a count missed: one that turned an invitation into a member
\* after the members and before the invitations were counted, or one begun before the
\* invitation expired and committed after it.  A worse plan removes nobody.
SeatsWithinPlan == \E p \in plansHad : MemberCount + PendingCount <= MaxMembers[p] + slipped

\* Keys stay within the best plan, except for those created by an attempt after the first
\* one, which holds no lock and does not count.
KeysWithinPlan == \E p \in plansHad : KeyCount <= MaxKeys[p] + unguarded

\* An address has one open invitation at most: the lock taken for the plan's limit is what
\* keeps two handlers from inviting it at the same time.
OnePendingPerEmail ==
    \A i, j \in Invitations :
        (i # j /\ Pending(i) /\ Pending(j)) => invitation[i].email # invitation[j].email

\* An open invitation is for somebody who is not a member, unless another invitation of
\* theirs was accepted while this one was being written, or while it was open.
PendingForOutsiders ==
    org.bind => \A i \in Invitations : Pending(i) =>
        member[invitation[i].email].status # "ACTIVE" \/ invitation[i].email \in crossed

\* Nobody takes the organization from its owner, whatever administrators do at the same
\* time; only without invitation_bind_email may the owner accept an invitation meant for
\* somebody else and lose the role.
OwnerStays == org.bind => member[Owner] = Member("OWNER")

\* A key that is ACTIVE belongs to a member who may have keys: a member who comes back does
\* not find the old keys at work.  Two ways around it: the key was committed after the
\* removal by a handler that had resolved the role before it, or a member became a VIEWER by
\* accepting one invitation while another was open, or its acceptance under way.
KeysDieWithMembership ==
    org.bind => \A k \in APIKeys \ orphaned : apiKey[k].status = "ACTIVE" =>
        RoleOf(apiKey[k].by) \in Capable("key") \/ apiKey[k].by \in crossed

\* A key that is REVOKED or EXPIRED is never ACTIVE again, although handlers write rows they
\* loaded without a lock.
DeadKeysStay ==
    [][\A k \in APIKeys : apiKey[k].status \in {"REVOKED", "EXPIRED"} => apiKey'[k].status # "ACTIVE"]_msVars

\* An event of the provider changes the subscription once, however often it is delivered
\* and however its deliveries overlap.
BilledOnce == \A e \in DOMAIN applied : applied[e] <= 1

\* When all events have arrived in the order they were sent, the plan is the one the
\* provider has, and billing is past due exactly when the last event said so; a failed
\* first payment is enough for that, although the organization never left the free plan.
\* Out of order, the last to arrive wins.
EntitlementFollowsProvider ==
    (inOrder /\ billed # {} /\ billed = DOMAIN emitted) =>
        /\ sub.plan = provider.plan
        /\ sub.status = "PAST_DUE" <=> emitted[Len(emitted)].type \in {"past_due", "failed"}

\* A subscription shown as ending was ended at the provider.  The converse fails: a crash
\* after the call, or a later "updated" event, leaves it shown as renewing.
EndingWasTold == (sub.cancelling /\ inOrder /\ billed = DOMAIN emitted) => provider.told

\* However invitations, acceptances, removals and keys overlap: seats and keys exceed the plan
\* by no more than what overlapped, an address has one pending invitation, the owner stays,
\* and the keys of a member die with the membership but for the ones created meanwhile.
MembershipHolds ==
    /\ MsTypeOK /\ SeatsWithinPlan /\ KeysWithinPlan /\ OnePendingPerEmail /\ PendingForOutsiders
    /\ OwnerStays /\ KeysDieWithMembership

\* Events of the payment provider may be redelivered and overtake each other: each is applied
\* once, and once all have arrived in order, plan and status are what the provider has.
BillingHolds == BilledOnce /\ EntitlementFollowsProvider /\ EndingWasTold
=============================================================================
