------------------------- MODULE AgentSigningProofs -------------------------
(***************************************************************************)
(* For any numbers of keys, nonces, verifications and administrators, and  *)
(* any window: a signed request is accepted at most once as long as no     *)
(* verification stalls for as long as the margin on top of the retention;  *)
(* and, where no rotation runs, a revoked key fails at once.               *)
(*                                                                         *)
(* The first rests on the clock: the nonce of an accepted request is kept  *)
(* until no verification of it can still be under way (RetainedOK).        *)
(***************************************************************************)
EXTENDS AgentSigning, FiniteSetTheorems, TLAPS

\* The last instant at which a verification of m can insert lies before this.
TooLate(m) == m.at + Window + Margin

InFlightOK ==
    \A t \in Threads : job[t] # Idle =>
        /\ job[t].checked <= now /\ now <= job[t].checked + MaxStall
        /\ job[t].checked <= job[t].msg.at + Window
        /\ job[t].msg.at <= job[t].checked + Window

RetainedOK ==
    \A m \in Messages : accepts[m] # 0 =>
        nonces[Digest(m)] >= TooLate(m) \/ now >= TooLate(m)

IInv == TypeOK /\ InFlightOK /\ RetainedOK /\ AcceptedOnce

-----------------------------------------------------------------------------
\* The numbers and the digest of a signed request are what they seem.
LEMMA MessageFacts ==
    ASSUME NEW m \in Messages
    PROVE  m.at \in Nat /\ TooLate(m) \in Nat /\ Digest(m) \in Keys \X Nonces /\ m.key \in Keys
BY TimeAssumption, StallAssumption DEF Messages, TooLate, Digest, Time

\* The invariant holds before the first request.
LEMMA InitOK == Init => IInv
<1> SUFFICES ASSUME Init  PROVE IInv
  OBVIOUS
<1>1. TypeOK
  BY TimeAssumption, KeysAssumption DEF Init, TypeOK, Time, KeyRow, Usable, Absent, Idle
<1>2. InFlightOK /\ RetainedOK /\ AcceptedOnce
  BY DEF Init, InFlightOK, RetainedOK, AcceptedOnce
<1> QED  BY <1>1, <1>2 DEF IInv

\* Steps that concern keys, administrators and Redis only.
LEMMA KeyStepOK ==
    ASSUME IInv, TypeOK', UNCHANGED <<now, nonces, job, accepts>>
    PROVE  IInv'
BY DEF IInv, InFlightOK, RetainedOK, AcceptedOnce

\* register_key, rotate, revoke_key and the expiry sweep write well-formed rows
\* and no nonce.
LEMMA ManageTyped ==
    ASSUME TypeOK,
           \/ ExpireKeys \/ RevokeAgent \/ \E k \in Keys : RevokeKey(k)
           \/ \E a \in Admins : Manage(a)
    PROVE  TypeOK' /\ UNCHANGED <<now, nonces, job, accepts>>
<1>1. CASE RevokeAgent
  BY <1>1 DEF RevokeAgent, TypeOK, requestVars
<1>2. ASSUME NEW k \in Keys, RevokeKey(k)  PROVE TypeOK' /\ UNCHANGED <<now, nonces, job, accepts>>
  BY <1>2 DEF RevokeKey, TypeOK, requestVars, KeyRow
<1>3. CASE ExpireKeys
  BY <1>3 DEF ExpireKeys, TypeOK, requestVars, KeyRow
<1>4. ASSUME NEW a \in Admins, Manage(a)  PROVE TypeOK' /\ UNCHANGED <<now, nonces, job, accepts>>
  <2>1. CASE LoadForAdd(a)
    BY <2>1, KeysAssumption DEF LoadForAdd, TypeOK, requestVars, AdminRec
  <2>2. CASE RefuseKey(a)
    BY <2>2 DEF RefuseKey, TypeOK, requestVars
  <2>3. ASSUME NEW k \in Keys, LoadForRotate(a, k)
        PROVE  TypeOK' /\ UNCHANGED <<now, nonces, job, accepts>>
    BY <2>3 DEF LoadForRotate, TypeOK, requestVars, AdminRec
  <2>4. ASSUME NEW k \in Keys, NEW e \in Lifetimes, RegisterKey(a, k, e)
        PROVE  TypeOK' /\ UNCHANGED <<now, nonces, job, accepts>>
    <3>1. \A j \in Keys : Registered(a, k, e)[j] \in KeyRow
      <4> SUFFICES ASSUME NEW j \in Keys  PROVE Registered(a, k, e)[j] \in KeyRow
        OBVIOUS
      <4>1. e \in Nat /\ key[j] \in KeyRow
        BY LimitAssumption DEF TypeOK
      <4>2. /\ [status |-> "ACTIVE", expires |-> e] \in KeyRow
            /\ [key[j] EXCEPT !.status = "ROTATING"] \in KeyRow
        BY <4>1 DEF KeyRow, Usable
      <4> QED  BY <4>1, <4>2 DEF Registered
    <3>2. Registered(a, k, e) \in [Keys -> KeyRow]
      BY <3>1 DEF Registered
    <3> QED  BY <2>4, <3>2 DEF RegisterKey, TypeOK, requestVars
  <2> QED  BY <1>4, <2>1, <2>2, <2>3, <2>4 DEF Manage
<1> QED  BY <1>1, <1>2, <1>3, <1>4

-----------------------------------------------------------------------------
\* Time may pass: no verification in flight is older than its timeouts allow.
LEMMA TickOK == IInv /\ Tick => IInv'
<1> SUFFICES ASSUME IInv, Tick  PROVE IInv'
  OBVIOUS
<1>1. /\ now' = now + 1 /\ now \in Nat /\ now' \in Time
      /\ UNCHANGED <<key, agent, admin, revoked, redis, nonces, job, accepts>>
  BY TimeAssumption DEF Tick, keyVars, requestVars, IInv, TypeOK, Time
<1>2. TypeOK'
  BY <1>1 DEF IInv, TypeOK
<1>3. InFlightOK'
  <2> SUFFICES ASSUME NEW t \in Threads, job[t] # Idle
               PROVE  job[t].checked <= now' /\ now' <= job[t].checked + MaxStall
    BY <1>1 DEF IInv, InFlightOK
  <2>1. job[t] \in JobRec
    BY DEF IInv, TypeOK
  <2>2. job[t].stage # "idle" /\ job[t].checked \in Nat
    BY <2>1, TimeAssumption DEF JobRec, Time
  <2> QED  BY <1>1, <2>2, StallAssumption DEF Tick, IInv, InFlightOK
<1>4. RetainedOK'
  <2> SUFFICES ASSUME NEW m \in Messages, accepts[m] # 0
               PROVE  nonces[Digest(m)] >= TooLate(m) \/ now' >= TooLate(m)
    BY <1>1 DEF RetainedOK
  <2> QED  BY <1>1, MessageFacts DEF IInv, RetainedOK
<1> QED  BY <1>1, <1>2, <1>3, <1>4 DEF IInv, AcceptedOnce

\* A verification that moves on keeps its message and its clock.
LEMMA StageOK ==
    ASSUME IInv, NEW t \in Threads, NEW j \in JobRec \cup {Idle},
           job' = [job EXCEPT ![t] = j],
           UNCHANGED <<now, key, agent, admin, revoked, nonces, accepts>>,
           redis' \subseteq Keys \X Nonces,
           \/ j = Idle
           \/ job[t] # Idle /\ j.msg = job[t].msg /\ j.checked = job[t].checked
    PROVE  IInv'
<1>1. TypeOK'
  BY DEF IInv, TypeOK
<1>2. InFlightOK'
  <2> SUFFICES ASSUME NEW u \in Threads, job'[u] # Idle
               PROVE  /\ job'[u].checked <= now /\ now <= job'[u].checked + MaxStall
                      /\ job'[u].checked <= job'[u].msg.at + Window
                      /\ job'[u].msg.at <= job'[u].checked + Window
    BY DEF InFlightOK
  <2>1. CASE u = t
    <3>1. job'[u] = j
      BY <2>1 DEF IInv, TypeOK
    <3> QED  BY <2>1, <3>1 DEF IInv, InFlightOK
  <2>2. CASE u # t
    <3>1. job'[u] = job[u]
      BY <2>2 DEF IInv, TypeOK
    <3> QED  BY <3>1 DEF IInv, InFlightOK
  <2> QED  BY <2>1, <2>2
<1>3. RetainedOK' /\ AcceptedOnce'
  BY DEF IInv, RetainedOK, AcceptedOnce
<1> QED  BY <1>1, <1>2, <1>3 DEF IInv

\* verify_request takes up only what is in the clock window.
LEMMA StartVerifyOK ==
    ASSUME IInv, NEW t \in Threads, NEW m \in Messages, StartVerify(t, m)
    PROVE  IInv'
<1>1. PICK j : /\ job' = [job EXCEPT ![t] = j]
               /\ j = [stage |-> "started", msg |-> m, checked |-> now,
                       late |-> IF m.key \in revoked THEN "yes" ELSE "no"]
  BY DEF StartVerify
<1>2. /\ now \in Nat /\ now \in Time /\ m.at \in Nat
      /\ UNCHANGED <<now, key, agent, admin, revoked, redis, nonces, accepts>>
      /\ now <= m.at + Window /\ m.at <= now + Window
  <2>1. now \in Nat /\ now \in Time /\ m.at \in Nat
    BY MessageFacts, TimeAssumption DEF IInv, TypeOK, Time
  <2> QED  BY <2>1, TimeAssumption DEF StartVerify, keyVars, Gap
<1>3. j \in JobRec /\ j.checked = now /\ j.msg = m
  BY <1>1, <1>2 DEF JobRec
<1>4. TypeOK'
  BY <1>1, <1>2, <1>3 DEF IInv, TypeOK
<1>5. InFlightOK'
  <2> SUFFICES ASSUME NEW u \in Threads, job'[u] # Idle
               PROVE  /\ job'[u].checked <= now /\ now <= job'[u].checked + MaxStall
                      /\ job'[u].checked <= job'[u].msg.at + Window
                      /\ job'[u].msg.at <= job'[u].checked + Window
    BY <1>2 DEF InFlightOK
  <2>1. CASE u = t
    <3>1. job'[u] = j
      BY <1>1, <2>1 DEF IInv, TypeOK
    <3> QED  BY <1>2, <1>3, <3>1, StallAssumption
  <2>2. CASE u # t
    <3>1. job'[u] = job[u]
      BY <1>1, <2>2 DEF IInv, TypeOK
    <3> QED  BY <3>1 DEF IInv, InFlightOK
  <2> QED  BY <2>1, <2>2
<1>6. RetainedOK' /\ AcceptedOnce'
  BY <1>2 DEF IInv, RetainedOK, AcceptedOnce
<1> QED  BY <1>4, <1>5, <1>6 DEF IInv

\* A thread that is not idle holds a request.
LEMMA InFlightTyped ==
    ASSUME TypeOK, NEW t \in Threads, job[t].stage # "idle"
    PROVE  job[t] \in JobRec /\ job[t] # Idle
BY DEF TypeOK, Idle

\* The key check and the Redis guard only move a verification on, or end it.
LEMMA MovesOK ==
    ASSUME IInv, NEW t \in Threads,
           CheckKey(t) \/ SetInRedis(t) \/ SkipRedis(t) \/ Unavailable(t)
    PROVE  IInv'
<1>1. job[t].stage # "idle"
  BY DEF CheckKey, SetInRedis, SkipRedis, Unavailable
<1>2. job[t] \in JobRec /\ job[t] # Idle
  BY <1>1, InFlightTyped DEF IInv
<1>3. PICK j : /\ job' = [job EXCEPT ![t] = j]
               /\ \/ j = Idle \/ j = [job[t] EXCEPT !.stage = "verified"]
                  \/ j = [job[t] EXCEPT !.stage = "cached"]
  BY DEF CheckKey, SetInRedis, SkipRedis, Unavailable
<1>4. /\ j \in JobRec \cup {Idle}
      /\ j = Idle \/ (j.msg = job[t].msg /\ j.checked = job[t].checked)
  BY <1>2, <1>3 DEF JobRec
<1>5. UNCHANGED <<now, key, agent, admin, revoked, nonces, accepts>>
  BY DEF CheckKey, SetInRedis, SkipRedis, Unavailable, keyVars
<1>6. redis' \subseteq Keys \X Nonces
  <2>1. Digest(job[t].msg) \in Keys \X Nonces
    BY <1>2, MessageFacts DEF JobRec
  <2> QED  BY <2>1 DEF CheckKey, SetInRedis, SkipRedis, Unavailable, IInv, TypeOK
<1> QED  BY <1>2, <1>3, <1>4, <1>5, <1>6, StageOK

-----------------------------------------------------------------------------
\* What is deleted had expired, so every request it stood for is too late.
LEMMA RetentionLemma ==
    ASSUME IInv, NEW m \in Messages, accepts[m] # 0,
           nonces[Digest(m)] <= now
    PROVE  now >= TooLate(m)
<1>1. nonces[Digest(m)] \in Nat \cup {Absent} /\ TooLate(m) \in Nat /\ now \in Nat
  BY MessageFacts, TimeAssumption DEF IInv, TypeOK, Time
<1> QED  BY <1>1 DEF IInv, RetainedOK, Absent

\* cleanup_expired_nonces deletes only what no verification can still need.
LEMMA CleanupOK ==
    ASSUME IInv, NEW d \in Keys \X Nonces, CleanupNonce(d)
    PROVE  IInv'
<1>1. /\ UNCHANGED <<now, key, agent, admin, revoked, redis, job, accepts>>
      /\ nonces[d] <= now /\ nonces' = [nonces EXCEPT ![d] = Absent]
  BY DEF CleanupNonce, keyVars
<1>2. TypeOK'
  BY <1>1 DEF IInv, TypeOK
<1>3. RetainedOK'
  <2> SUFFICES ASSUME NEW m \in Messages, accepts[m] # 0
               PROVE  nonces'[Digest(m)] >= TooLate(m) \/ now >= TooLate(m)
    BY <1>1 DEF RetainedOK
  <2>1. CASE Digest(m) = d
    BY <1>1, <2>1, RetentionLemma
  <2>2. CASE Digest(m) # d
    BY <1>1, <2>2, MessageFacts DEF IInv, TypeOK, RetainedOK
  <2> QED  BY <2>1, <2>2
<1> QED  BY <1>1, <1>2, <1>3 DEF IInv, InFlightOK, AcceptedOnce

\* The insertion that succeeds is the first: a request that was accepted before
\* has its nonce in the way, or cannot still be in flight.
LEMMA InsertNonceOK ==
    ASSUME IInv, NEW t \in Threads, NEW purge \in BOOLEAN, InsertNonce(t, purge)
    PROVE  IInv'
<1> DEFINE m == job[t].msg
           d == Digest(m)
           kept == [e \in Keys \X Nonces |->
                      IF purge /\ nonces[e] <= job[t].checked THEN Absent ELSE nonces[e]]
<1>1. job[t] \in JobRec /\ job[t] # Idle
  BY InFlightTyped DEF InsertNonce, IInv
<1>2. /\ m \in Messages /\ job[t].checked \in Nat /\ now \in Nat
      /\ m.at \in Nat /\ TooLate(m) \in Nat /\ d \in Keys \X Nonces
  BY <1>1, MessageFacts, TimeAssumption DEF JobRec, Time, IInv, TypeOK
<1>3. /\ job[t].checked <= now /\ now <= job[t].checked + MaxStall
      /\ job[t].checked <= m.at + Window /\ m.at <= job[t].checked + Window
  BY <1>1 DEF IInv, InFlightOK
<1>4. /\ UNCHANGED <<now, key, agent, admin, revoked, redis>>
      /\ job' = [job EXCEPT ![t] = Idle]
      /\ kept[d] = Absent =>
           /\ nonces' = [kept EXCEPT ![d] = NonceExpiry(job[t].checked)]
           /\ accepts' = [accepts EXCEPT ![m] = @ + 1]
      /\ kept[d] # Absent => nonces' = kept /\ accepts' = accepts
  BY DEF InsertNonce, keyVars
<1>5. kept \in [Keys \X Nonces -> Nat \cup {Absent}]
  BY DEF IInv, TypeOK
<1>6. NonceExpiry(job[t].checked) \in Nat /\ NonceExpiry(job[t].checked) >= TooLate(m)
  BY <1>2, <1>3, TimeAssumption DEF NonceExpiry, TooLate
<1>7. now < TooLate(m)
  BY <1>2, <1>3, TimeAssumption, StallAssumption DEF TooLate
<1>8. \A n \in Messages : accepts[n] # 0 =>
         kept[Digest(n)] >= TooLate(n) \/ now >= TooLate(n)
  <2> SUFFICES ASSUME NEW n \in Messages, accepts[n] # 0
               PROVE  kept[Digest(n)] >= TooLate(n) \/ now >= TooLate(n)
    OBVIOUS
  <2>1. Digest(n) \in Keys \X Nonces
    BY MessageFacts
  <2>2. CASE purge /\ nonces[Digest(n)] <= job[t].checked
    <3>1. nonces[Digest(n)] <= now
      BY <1>2, <1>3, <2>1, <2>2 DEF IInv, TypeOK, Absent
    <3> QED  BY <3>1, RetentionLemma
  <2>3. CASE ~(purge /\ nonces[Digest(n)] <= job[t].checked)
    BY <2>1, <2>3 DEF IInv, RetainedOK
  <2> QED  BY <2>2, <2>3
<1> HIDE DEF kept
<1>9. kept[d] = Absent => accepts[m] = 0
  <2> SUFFICES ASSUME kept[d] = -1, accepts[m] # 0  PROVE FALSE
    BY DEF Absent
  <2>1. kept[d] >= TooLate(m) \/ now >= TooLate(m)
    BY <1>2, <1>8
  <2> QED  BY <1>2, <1>7, <2>1
<1>10. TypeOK'
  <2>1. nonces' \in [Keys \X Nonces -> Nat \cup {Absent}]
    BY <1>4, <1>5, <1>6
  <2>2. accepts' \in [Messages -> Nat]
    BY <1>4 DEF IInv, TypeOK
  <2> QED  BY <1>4, <2>1, <2>2 DEF IInv, TypeOK
<1>11. InFlightOK'
  BY <1>4 DEF IInv, TypeOK, InFlightOK
<1>12. RetainedOK'
  <2> SUFFICES ASSUME NEW n \in Messages, accepts'[n] # 0
               PROVE  nonces'[Digest(n)] >= TooLate(n) \/ now >= TooLate(n)
    BY <1>4 DEF RetainedOK
  <2>1. Digest(n) \in Keys \X Nonces /\ TooLate(n) \in Nat
    BY MessageFacts
  <2>2. CASE kept[d] # Absent
    BY <1>4, <1>8, <2>2
  <2>3. CASE kept[d] = Absent /\ n = m
    BY <1>2, <1>4, <1>5, <1>6, <2>3
  <2>4. CASE kept[d] = Absent /\ n # m
    <3>1. accepts[n] # 0
      BY <1>4, <2>4 DEF IInv, TypeOK
    <3>2. CASE Digest(n) # d
      BY <1>4, <1>5, <1>8, <2>1, <2>4, <3>1, <3>2
    <3>3. CASE Digest(n) = d
      <4>1. kept[d] >= TooLate(n) \/ now >= TooLate(n)
        BY <1>8, <3>1, <3>3
      <4>2. kept[d] = -1
        BY <2>4 DEF Absent
      <4>3. now >= TooLate(n)
        BY <2>1, <4>1, <4>2
      <4> QED  BY <4>3
    <3> QED  BY <3>2, <3>3
  <2> QED  BY <2>2, <2>3, <2>4
<1>13. AcceptedOnce'
  BY <1>4, <1>9 DEF IInv, TypeOK, AcceptedOnce
<1> QED  BY <1>10, <1>11, <1>12, <1>13 DEF IInv

-----------------------------------------------------------------------------
\* Every step preserves the invariant.
LEMMA NextOK == IInv /\ [Next]_vars => IInv'
<1> SUFFICES ASSUME IInv, [Next]_vars  PROVE IInv'
  OBVIOUS
<1>1. CASE Tick
  BY <1>1, TickOK
<1>2. CASE ExpireKeys \/ RevokeAgent \/ (\E k \in Keys : RevokeKey(k))
           \/ \E a \in Admins : Manage(a)
  BY <1>2, ManageTyped, KeyStepOK DEF IInv
<1>3. ASSUME NEW t \in Threads, Verify(t)  PROVE IInv'
  BY <1>3, StartVerifyOK, MovesOK, InsertNonceOK DEF Verify
<1>4. ASSUME NEW d \in Keys \X Nonces, CleanupNonce(d)  PROVE IInv'
  BY <1>4, CleanupOK
<1>5. ASSUME NEW d \in Keys \X Nonces, RedisForgets(d)  PROVE IInv'
  <2>1. TypeOK' /\ UNCHANGED <<now, nonces, job, accepts>>
    BY <1>5 DEF RedisForgets, keyVars, IInv, TypeOK
  <2> QED  BY <2>1, KeyStepOK
<1>6. CASE UNCHANGED vars
  <2>1. TypeOK' /\ UNCHANGED <<now, nonces, job, accepts>>
    BY <1>6 DEF vars, keyVars, requestVars, IInv, TypeOK
  <2> QED  BY <2>1, KeyStepOK
<1> QED  BY <1>1, <1>2, <1>3, <1>4, <1>5, <1>6 DEF Next

\* The retention invariant holds throughout, for any numbers of keys, nonces,
\* verifications and administrators and for any window.
THEOREM Invariance == Spec => []IInv
BY InitOK, NextOK, PTL DEF Spec

\* _accept_nonce lets a signed request through at most once, whatever Redis
\* forgets and whenever the cleanup runs.
THEOREM NoReplay == Spec => []AcceptedOnce
<1>1. IInv => AcceptedOnce
  BY DEF IInv
<1> QED  BY <1>1, Invariance, PTL

-----------------------------------------------------------------------------
(* The keys.  Typing is in IInv.                                           *)

\* A key loaded to be rotated can only have died of age if nobody revokes.
SeenOK ==
    \A a \in Admins : admin[a] # Idle /\ admin[a].seen = "ACTIVE" =>
        /\ "rotate" \in Ops
        /\ "revoke" \notin Ops =>
             \/ key[admin[a].old].status \in Usable
             \/ key[admin[a].old].status # "none" /\ key[admin[a].old].expires <= now

RevokedOK ==
    /\ \A k \in revoked : key[k].status = "REVOKED"
    /\ \A t \in Threads : job[t] # Idle /\ job[t].late = "yes" => job[t].msg.key \in revoked

\* What becomes of the rows: nothing, a revocation, an expiry, or a registration.
LEMMA RowChanges ==
    ASSUME TypeOK, [Next]_vars
    PROVE  \/ key' = key
           \/ \E k \in Keys : RevokeKey(k)
           \/ ExpireKeys
           \/ \E a \in Admins, k \in Keys, e \in Lifetimes : RegisterKey(a, k, e)
<1>1. ASSUME NEW t \in Threads, Verify(t)  PROVE key' = key
  BY <1>1 DEF Verify, StartVerify, CheckKey, SetInRedis, SkipRedis, Unavailable, InsertNonce, keyVars
<1>2. ASSUME NEW a \in Admins, Manage(a)
      PROVE  key' = key \/ \E k \in Keys, e \in Lifetimes : RegisterKey(a, k, e)
  BY <1>2 DEF Manage, LoadForAdd, LoadForRotate, RefuseKey
<1>3. ASSUME Tick \/ RevokeAgent \/ UNCHANGED vars  PROVE key' = key
  BY <1>3 DEF Tick, RevokeAgent, vars, keyVars
<1>4. ASSUME NEW d \in Keys \X Nonces, CleanupNonce(d) \/ RedisForgets(d)  PROVE key' = key
  BY <1>4 DEF CleanupNonce, RedisForgets, keyVars
<1> QED  BY <1>1, <1>2, <1>3, <1>4 DEF Next

\* The clock never goes back.
LEMMA ClockOnly ==
    ASSUME TypeOK, [Next]_vars
    PROVE  now \in Nat /\ now' \in Nat /\ now <= now'
<1>1. now \in Nat
  BY TimeAssumption DEF TypeOK, Time
<1>2. now' = now \/ now' = now + 1
  <2>1. ASSUME NEW t \in Threads, Verify(t)  PROVE now' = now
    BY <2>1 DEF Verify, StartVerify, CheckKey, SetInRedis, SkipRedis, Unavailable, InsertNonce
  <2>2. ASSUME NEW a \in Admins, Manage(a)  PROVE now' = now
    BY <2>2 DEF Manage, LoadForAdd, LoadForRotate, RefuseKey, RegisterKey
  <2>3. ASSUME NEW d \in Keys \X Nonces, CleanupNonce(d) \/ RedisForgets(d)  PROVE now' = now
    BY <2>3 DEF CleanupNonce, RedisForgets
  <2>4. ASSUME NEW k \in Keys, RevokeKey(k)  PROVE now' = now
    BY <2>4 DEF RevokeKey
  <2> QED  BY <2>1, <2>2, <2>3, <2>4 DEF Next, Tick, ExpireKeys, RevokeAgent, vars
<1> QED  BY <1>1, <1>2

\* The row of a key after a registration.
LEMMA RegisterRows ==
    ASSUME TypeOK, NEW a \in Admins, NEW k \in Keys, NEW e \in Lifetimes,
           RegisterKey(a, k, e)
    PROVE  /\ key[k].status = "none" /\ admin[a] # Idle
           /\ \A j \in Keys : j # k =>
                /\ key'[j].expires = key[j].expires
                /\ \/ key'[j] = key[j]
                   \/ /\ j = admin[a].old /\ admin[a].seen = "ACTIVE"
                      /\ key'[j].status = "ROTATING"
<1>1. key[k].status = "none" /\ admin[a] # Idle /\ key' = Registered(a, k, e)
  BY DEF RegisterKey, Idle
<1>2. \A j \in Keys : j # k =>
         \/ key'[j] = key[j]
         \/ /\ j = admin[a].old /\ admin[a].seen = "ACTIVE"
            /\ key'[j] = [key[j] EXCEPT !.status = "ROTATING"]
  BY <1>1 DEF Registered
<1>3. \A j \in Keys : key[j] \in KeyRow
  BY DEF TypeOK
<1> QED  BY <1>1, <1>2, <1>3 DEF KeyRow

\* Mandatory overlap of a rotation: what works goes on working.
LEMMA OverlapStep ==
    ASSUME TypeOK, [Next]_vars, NEW k \in UsableKeys,
           key[k].expires > now', k \notin revoked'
    PROVE  k \in UsableKeys'
<1>1. k \in Keys /\ key[k].status \in Usable /\ key[k] \in KeyRow
  BY DEF UsableKeys, TypeOK
<1>2. CASE key' = key
  BY <1>1, <1>2 DEF UsableKeys
<1>3. ASSUME NEW j \in Keys, RevokeKey(j)  PROVE k \in UsableKeys'
  <2>1. j # k
    BY <1>3 DEF RevokeKey
  <2>2. key'[k] = key[k]
    BY <1>1, <1>3, <2>1 DEF RevokeKey, TypeOK
  <2> QED  BY <1>1, <2>2 DEF UsableKeys
<1>4. CASE ExpireKeys
  <2>1. now' = now /\ now \in Nat /\ key[k].expires \in Nat
    BY <1>1, <1>4, TimeAssumption DEF ExpireKeys, TypeOK, Time, KeyRow
  <2>2. key'[k] = key[k]
    BY <1>1, <1>4, <2>1 DEF ExpireKeys
  <2> QED  BY <1>1, <2>2 DEF UsableKeys
<1>5. ASSUME NEW a \in Admins, NEW j \in Keys, NEW e \in Lifetimes, RegisterKey(a, j, e)
      PROVE  k \in UsableKeys'
  <2>1. j # k
    BY <1>1, <1>5, RegisterRows DEF Usable
  <2>2. key'[k].expires = key[k].expires /\ key'[k].status \in Usable
    BY <1>1, <1>5, <2>1, RegisterRows DEF Usable
  <2> QED  BY <1>1, <2>2 DEF UsableKeys
<1> QED  BY <1>2, <1>3, <1>4, <1>5, RowChanges

\* No rotation, registration or sweep takes a working key out of use before it
\* expires or is revoked.
THEOREM OverlapTheorem == Spec => RotationOverlaps
<1>1. IInv /\ [Next]_vars =>
        [\A k \in UsableKeys :
            key[k].expires > now' /\ k \notin revoked' => k \in UsableKeys']_vars
  BY OverlapStep DEF IInv
<1> QED  BY <1>1, Invariance, PTL DEF Spec, RotationOverlaps

-----------------------------------------------------------------------------
\* Without rotations a revoked key stays revoked, and its requests fail.
LEMMA RevokedStep ==
    ASSUME IInv, RevokedOK, SeenOK, RevokedFailsAtOnce, "rotate" \notin Ops, [Next]_vars
    PROVE  RevokedOK' /\ RevokedFailsAtOnce'
<1>1. \A k \in revoked : k \in Keys /\ key'[k].status = "REVOKED"
  <2> SUFFICES ASSUME NEW k \in revoked  PROVE k \in Keys /\ key'[k].status = "REVOKED"
    OBVIOUS
  <2>1. k \in Keys /\ key[k].status = "REVOKED" /\ key \in [Keys -> KeyRow]
    BY DEF IInv, TypeOK, RevokedOK
  <2>2. ASSUME NEW j \in Keys, RevokeKey(j)  PROVE key'[k].status = "REVOKED"
    <3>1. j # k
      BY <2>1, <2>2 DEF RevokeKey
    <3> QED  BY <2>1, <2>2, <3>1 DEF RevokeKey
  <2>3. CASE ExpireKeys
    <3>1. key'[k] = key[k]
      BY <2>1, <2>3 DEF ExpireKeys, Usable
    <3> QED  BY <2>1, <3>1
  <2>4. ASSUME NEW a \in Admins, NEW j \in Keys, NEW e \in Lifetimes, RegisterKey(a, j, e)
        PROVE  key'[k].status = "REVOKED"
    BY <2>1, <2>4, RegisterRows DEF IInv, SeenOK
  <2> QED  BY <2>1, <2>2, <2>3, <2>4, RowChanges DEF IInv
<1>2. ASSUME NEW k \in Keys, RevokeKey(k)  PROVE RevokedOK' /\ RevokedFailsAtOnce'
  <2>1. /\ job' = job /\ revoked' = revoked \cup {k}
        /\ key'[k].status = "REVOKED"
    BY <1>2 DEF RevokeKey, requestVars, IInv, TypeOK, KeyRow
  <2> QED  BY <1>1, <2>1 DEF RevokedOK, RevokedFailsAtOnce
<1>3. CASE revoked' = revoked /\ job' = job
  BY <1>1, <1>3 DEF RevokedOK, RevokedFailsAtOnce
<1>4. ASSUME NEW t \in Threads, Verify(t)  PROVE RevokedOK' /\ RevokedFailsAtOnce'
  <2>1. revoked' = revoked /\ key' = key
    BY <1>4 DEF Verify, StartVerify, CheckKey, SetInRedis, SkipRedis, Unavailable, InsertNonce, keyVars
  <2>2. ASSUME NEW m \in Messages, StartVerify(t, m)  PROVE RevokedOK' /\ RevokedFailsAtOnce'
    <3>1. PICK j : /\ job' = [job EXCEPT ![t] = j]
                   /\ j = [stage |-> "started", msg |-> m, checked |-> now,
                           late |-> IF m.key \in revoked THEN "yes" ELSE "no"]
      BY <2>2 DEF StartVerify
    <3>2. job'[t] = j /\ \A u \in Threads \ {t} : job'[u] = job[u]
      BY <3>1 DEF IInv, TypeOK
    <3>3. j.stage = "started" /\ j.msg = m /\ (j.late = "yes" => m.key \in revoked)
      BY <3>1
    <3>4. RevokedOK'
      BY <1>1, <2>1, <3>2, <3>3 DEF RevokedOK
    <3>5. RevokedFailsAtOnce'
      BY <3>2, <3>3 DEF RevokedFailsAtOnce
    <3> QED  BY <3>4, <3>5
  <2>3. ASSUME CheckKey(t) \/ SetInRedis(t) \/ SkipRedis(t) \/ Unavailable(t)
               \/ \E purge \in BOOLEAN : InsertNonce(t, purge)
        PROVE  RevokedOK' /\ RevokedFailsAtOnce'
    <3>1. job[t] \in JobRec /\ job[t] # Idle
      BY <2>3, InFlightTyped DEF CheckKey, SetInRedis, SkipRedis, Unavailable, InsertNonce, IInv
    <3>2. PICK j : /\ job' = [job EXCEPT ![t] = j]
                   /\ \/ j = Idle
                      \/ /\ j = [job[t] EXCEPT !.stage = "verified"]
                         /\ key[job[t].msg.key].status \in Usable
                      \/ /\ j = [job[t] EXCEPT !.stage = "cached"]
                         /\ job[t].stage = "verified"
      BY <2>3 DEF CheckKey, SetInRedis, SkipRedis, Unavailable, InsertNonce
    <3>3. job'[t] = j /\ \A u \in Threads \ {t} : job'[u] = job[u]
      BY <3>2 DEF IInv, TypeOK
    <3>4. job[t].late \in {"yes", "no"} /\ job[t].msg.key \in Keys
      BY <3>1, MessageFacts DEF JobRec
    <3>5. j = Idle \/ (j.late = job[t].late /\ j.msg = job[t].msg /\ job[t].late = "no")
      <4>1. key[job[t].msg.key].status \in Usable => job[t].late = "no"
        BY <3>1, <3>4 DEF RevokedOK, Usable
      <4>2. job[t].stage = "verified" => job[t].late = "no"
        BY DEF RevokedFailsAtOnce
      <4> QED  BY <3>1, <3>2, <4>1, <4>2 DEF JobRec
    <3>6. RevokedOK'
      BY <1>1, <2>1, <3>3, <3>5 DEF RevokedOK
    <3>7. RevokedFailsAtOnce'
      BY <3>3, <3>5 DEF RevokedFailsAtOnce, Idle
    <3> QED  BY <3>6, <3>7
  <2> QED  BY <1>4, <2>2, <2>3 DEF Verify
<1>5. ASSUME NEW a \in Admins, Manage(a)  PROVE revoked' = revoked /\ job' = job
  BY <1>5 DEF Manage, LoadForAdd, LoadForRotate, RefuseKey, RegisterKey, requestVars
<1>6. ASSUME NEW d \in Keys \X Nonces, CleanupNonce(d) \/ RedisForgets(d)
      PROVE  revoked' = revoked /\ job' = job
  BY <1>6 DEF CleanupNonce, RedisForgets, keyVars
<1>7. ASSUME Tick \/ ExpireKeys \/ RevokeAgent \/ UNCHANGED vars
      PROVE  revoked' = revoked /\ job' = job
  BY <1>7 DEF Tick, ExpireKeys, RevokeAgent, vars, keyVars, requestVars
<1> QED  BY <1>2, <1>3, <1>4, <1>5, <1>6, <1>7 DEF Next

\* An administrator's copy stays as good as nobody revokes.
LEMMA SeenStep ==
    ASSUME IInv, SeenOK, [Next]_vars
    PROVE  SeenOK'
<1> DEFINE Good(k) == \/ key[k].status \in Usable
                      \/ key[k].status # "none" /\ key[k].expires <= now
           GoodNext(k) == \/ key'[k].status \in Usable
                          \/ key'[k].status # "none" /\ key'[k].expires <= now'
<1>1. ASSUME NEW k \in Keys, "revoke" \notin Ops, Good(k)
      PROVE  GoodNext(k)
  <2>1. key[k] \in KeyRow /\ key \in [Keys -> KeyRow] /\ now \in Nat /\ now' \in Nat
        /\ now <= now' /\ key[k].expires \in Nat
    BY ClockOnly DEF IInv, TypeOK, KeyRow
  <2>2. CASE key' = key
    BY <1>1, <2>1, <2>2
  <2>3. CASE ExpireKeys
    <3>1. now' = now
      BY <2>3 DEF ExpireKeys
    <3>2. CASE key'[k] = key[k]
      BY <1>1, <3>1, <3>2
    <3>3. CASE key'[k] # key[k]
      <4>1. key'[k] = [key[k] EXCEPT !.status = "EXPIRED"] /\ key[k].expires <= now
        BY <2>3, <3>3 DEF ExpireKeys
      <4> QED  BY <2>1, <3>1, <4>1 DEF KeyRow
    <3> QED  BY <3>2, <3>3
  <2>4. ASSUME NEW a \in Admins, NEW j \in Keys, NEW e \in Lifetimes, RegisterKey(a, j, e)
        PROVE  GoodNext(k)
    <3>1. j # k /\ now' = now
      BY <1>1, <2>4, RegisterRows DEF RegisterKey, IInv, Usable
    <3> QED  BY <1>1, <2>4, <3>1, RegisterRows DEF IInv, Usable
  <2>5. ~\E j \in Keys : RevokeKey(j)
    BY <1>1 DEF RevokeKey
  <2> QED  BY <2>2, <2>3, <2>4, <2>5, RowChanges DEF IInv
<1> HIDE DEF Good, GoodNext
<1>2. SeenOK <=> \A a \in Admins : admin[a] # Idle /\ admin[a].seen = "ACTIVE" =>
          "rotate" \in Ops /\ ("revoke" \notin Ops => Good(admin[a].old))
  BY DEF SeenOK, Good
<1>3. \A a \in Admins : admin[a] # Idle => admin[a].old \in Keys
  BY DEF IInv, TypeOK, AdminRec
<1>4. SeenOK' <=> \A a \in Admins : admin'[a] # Idle /\ admin'[a].seen = "ACTIVE" =>
          "rotate" \in Ops /\ ("revoke" \notin Ops => GoodNext(admin'[a].old))
  BY DEF SeenOK, GoodNext
<1> SUFFICES ASSUME NEW a \in Admins, admin'[a] # Idle, admin'[a].seen = "ACTIVE"
             PROVE  "rotate" \in Ops /\ ("revoke" \notin Ops => GoodNext(admin'[a].old))
  BY <1>4
<1>5. CASE admin'[a] = admin[a]
  BY <1>1, <1>2, <1>3, <1>5
<1>6. ASSUME NEW k \in Keys, LoadForRotate(a, k)
      PROVE  "rotate" \in Ops /\ ("revoke" \notin Ops => GoodNext(admin'[a].old))
  <2>1. "rotate" \in Ops /\ Good(k) /\ admin'[a].old = k
    BY <1>6 DEF LoadForRotate, Good, IInv, TypeOK
  <2> QED  BY <1>1, <2>1
<1>7. admin'[a] = admin[a] \/ \E k \in Keys : LoadForRotate(a, k)
  <2>1. ASSUME NEW t \in Threads, Verify(t)  PROVE admin' = admin
    BY <2>1 DEF Verify, StartVerify, CheckKey, SetInRedis, SkipRedis, Unavailable, InsertNonce, keyVars
  <2>2. ASSUME NEW d \in Keys \X Nonces, CleanupNonce(d) \/ RedisForgets(d)  PROVE admin' = admin
    BY <2>2 DEF CleanupNonce, RedisForgets, keyVars
  <2>3. ASSUME NEW k \in Keys, RevokeKey(k)  PROVE admin' = admin
    BY <2>3 DEF RevokeKey
  <2>4. ASSUME NEW b \in Admins, Manage(b)
        PROVE  admin'[a] = admin[a] \/ \E k \in Keys : LoadForRotate(a, k)
    <3>1. CASE LoadForAdd(b)
      BY <3>1 DEF LoadForAdd, IInv, TypeOK
    <3>2. CASE RefuseKey(b)
      BY <3>2 DEF RefuseKey, IInv, TypeOK
    <3>3. ASSUME NEW k \in Keys, LoadForRotate(b, k)
          PROVE  admin'[a] = admin[a] \/ \E l \in Keys : LoadForRotate(a, l)
      <4>1. CASE b = a
        BY <3>3, <4>1
      <4>2. CASE b # a
        BY <3>3, <4>2 DEF LoadForRotate, IInv, TypeOK
      <4> QED  BY <4>1, <4>2
    <3>4. ASSUME NEW k \in Keys, NEW e \in Lifetimes, RegisterKey(b, k, e)
          PROVE  admin'[a] = admin[a]
      BY <3>4 DEF RegisterKey, IInv, TypeOK
    <3> QED  BY <2>4, <3>1, <3>2, <3>3, <3>4 DEF Manage
  <2>5. ASSUME Tick \/ ExpireKeys \/ RevokeAgent \/ UNCHANGED vars  PROVE admin' = admin
    BY <2>5 DEF Tick, ExpireKeys, RevokeAgent, vars, keyVars
  <2> QED  BY <2>1, <2>2, <2>3, <2>4, <2>5 DEF Next
<1> QED  BY <1>5, <1>6, <1>7

\* A registration adds one usable key, anything else none.
LEMMA CapStep ==
    ASSUME IInv, SeenOK, KeyCap, "rotate" \notin Ops \/ "revoke" \notin Ops, [Next]_vars
    PROVE  KeyCap'
<1>1. /\ IsFiniteSet(UsableKeys) /\ Cardinality(UsableKeys) \in Nat
      /\ key \in [Keys -> KeyRow] /\ now \in Nat /\ now' \in Nat /\ now <= now'
  BY KeysAssumption, FS_Subset, FS_CardinalityType, ClockOnly DEF UsableKeys, IInv, TypeOK
<1>2. ASSUME UsableKeys' \subseteq UsableKeys  PROVE KeyCap'
  <2>1. IsFiniteSet(UsableKeys') /\ Cardinality(UsableKeys') <= Cardinality(UsableKeys)
    BY <1>1, <1>2, FS_Subset
  <2> QED  BY <1>1, <2>1, FS_CardinalityType, LimitAssumption DEF KeyCap
<1>3. CASE key' = key
  <2>1. UsableKeys' \subseteq UsableKeys
    <3> SUFFICES ASSUME NEW j \in Keys, j \in UsableKeys'  PROVE j \in UsableKeys
      BY DEF UsableKeys
    <3>1. key'[j] = key[j]
      BY <1>3
    <3>2. key[j].expires \in Nat /\ key[j].expires > now'
      BY <1>1, <3>1 DEF UsableKeys, KeyRow
    <3> QED  BY <1>1, <3>1, <3>2 DEF UsableKeys
  <2> QED  BY <1>2, <2>1
<1>4. ASSUME NEW k \in Keys, RevokeKey(k)  PROVE KeyCap'
  <2>1. UsableKeys' \subseteq UsableKeys
    <3> SUFFICES ASSUME NEW j \in Keys, j \in UsableKeys'  PROVE j \in UsableKeys
      BY DEF UsableKeys
    <3>1. key'[j] = key[j]
      <4>1. key'[k].status = "REVOKED"
        BY <1>1, <1>4 DEF RevokeKey, KeyRow
      <4>2. j # k
        BY <4>1 DEF UsableKeys, Usable
      <4> QED  BY <1>1, <1>4, <4>2 DEF RevokeKey
    <3>2. key[j].expires \in Nat /\ key[j].expires > now'
      BY <1>1, <3>1 DEF UsableKeys, KeyRow
    <3> QED  BY <1>1, <3>1, <3>2 DEF UsableKeys
  <2> QED  BY <1>2, <2>1
<1>5. CASE ExpireKeys
  <2>1. UsableKeys' \subseteq UsableKeys
    <3> SUFFICES ASSUME NEW j \in Keys, j \in UsableKeys'  PROVE j \in UsableKeys
      BY DEF UsableKeys
    <3>1. key'[j] = key[j]
      <4>1. key'[j] = key[j] \/ key'[j] = [key[j] EXCEPT !.status = "EXPIRED"]
        BY <1>5 DEF ExpireKeys
      <4>2. key'[j].status # "EXPIRED"
        BY DEF UsableKeys, Usable
      <4> QED  BY <1>1, <4>1, <4>2 DEF KeyRow
    <3>2. key[j].expires \in Nat /\ key[j].expires > now'
      BY <1>1, <3>1 DEF UsableKeys, KeyRow
    <3> QED  BY <1>1, <3>1, <3>2 DEF UsableKeys
  <2> QED  BY <1>2, <2>1
<1>6. ASSUME NEW a \in Admins, NEW k \in Keys, NEW e \in Lifetimes, RegisterKey(a, k, e)
      PROVE  KeyCap'
  <2>1. now' = now /\ Cardinality(UsableKeys) < MaxKeys /\ k \notin UsableKeys
    BY <1>6 DEF RegisterKey, UsableKeys, Usable
  <2>2. UsableKeys' \subseteq UsableKeys \cup {k}
    <3> SUFFICES ASSUME NEW j \in Keys, j \in UsableKeys', j # k  PROVE j \in UsableKeys
      BY DEF UsableKeys
    <3>1. key'[j].status \in Usable /\ key'[j].expires > now /\ key'[j].expires = key[j].expires
      BY <1>6, <2>1, RegisterRows DEF UsableKeys, IInv
    <3>2. CASE key'[j] = key[j]
      BY <3>1, <3>2 DEF UsableKeys
    <3>3. CASE j = admin[a].old /\ admin[a].seen = "ACTIVE"
      <4>1. key[j].status \in Usable \/ key[j].expires <= now
        BY <1>6, <3>3, RegisterRows DEF IInv, SeenOK
      <4>2. key[j].expires \in Nat
        BY <1>1 DEF KeyRow
      <4> QED  BY <1>1, <3>1, <4>1, <4>2 DEF UsableKeys
    <3> QED  BY <1>6, <3>2, <3>3, RegisterRows DEF IInv
  <2>3. IsFiniteSet(UsableKeys \cup {k})
        /\ Cardinality(UsableKeys \cup {k}) = Cardinality(UsableKeys) + 1
    BY <1>1, <2>1, FS_AddElement
  <2>4. IsFiniteSet(UsableKeys') /\ Cardinality(UsableKeys') <= Cardinality(UsableKeys \cup {k})
    BY <2>2, <2>3, FS_Subset
  <2> QED  BY <1>1, <2>1, <2>3, <2>4, FS_CardinalityType, LimitAssumption DEF KeyCap
<1> QED  BY <1>3, <1>4, <1>5, <1>6, RowChanges DEF IInv

\* The key invariants hold initially.
LEMMA KeysInit == Init => SeenOK /\ RevokedOK /\ RevokedFailsAtOnce /\ KeyCap
<1> SUFFICES ASSUME Init  PROVE SeenOK /\ RevokedOK /\ RevokedFailsAtOnce /\ KeyCap
  OBVIOUS
<1>1. SeenOK /\ RevokedOK
  BY DEF Init, SeenOK, RevokedOK
<1>2. RevokedFailsAtOnce
  BY DEF Init, RevokedFailsAtOnce, Idle
<1>3. KeyCap
  <2>1. UsableKeys \subseteq {FirstKey}
    BY DEF Init, UsableKeys, Usable
  <2>2. IsFiniteSet({FirstKey}) /\ Cardinality({FirstKey}) = 1
    BY FS_Singleton
  <2>3. IsFiniteSet(UsableKeys) /\ Cardinality(UsableKeys) <= 1
    BY <2>1, <2>2, FS_Subset
  <2> QED  BY <2>3, FS_CardinalityType, LimitAssumption DEF KeyCap
<1> QED  BY <1>1, <1>2, <1>3

\* Without rotations in flight, a revoked signing key fails on every request that
\* arrives after its revocation.
THEOREM RevocationTheorem ==
    ASSUME "rotate" \notin Ops  PROVE Spec => []RevokedFailsAtOnce
<1> DEFINE KInv == SeenOK /\ RevokedOK /\ RevokedFailsAtOnce
<1>1. IInv /\ KInv /\ [Next]_vars => KInv'
  BY SeenStep, RevokedStep
<1>2. Init => KInv
  BY KeysInit
<1>3. KInv => RevokedFailsAtOnce
  OBVIOUS
<1> HIDE DEF KInv
<1> QED  BY <1>1, <1>2, <1>3, Invariance, PTL DEF Spec

\* Concurrent registrations keep the cap, unless a rotation races a revocation.
THEOREM CapTheorem ==
    ASSUME "rotate" \notin Ops \/ "revoke" \notin Ops  PROVE Spec => []KeyCap
<1> DEFINE KInv == SeenOK /\ KeyCap
<1>1. IInv /\ KInv /\ [Next]_vars => KInv'
  BY SeenStep, CapStep
<1>2. Init => KInv
  BY KeysInit
<1>3. KInv => KeyCap
  OBVIOUS
<1> HIDE DEF KInv
<1> QED  BY <1>1, <1>2, <1>3, Invariance, PTL DEF Spec
=============================================================================
