---------------------- MODULE DeveloperAuthorizeProofs ----------------------
(***************************************************************************)
(* For any number of concurrent requests, keys and months, whatever fails  *)
(* or dies: until an exception has followed a committed decision, an       *)
(* Idempotency-Key leads to one decision and one answer; and until then a  *)
(* month has no more decisions than the plan, as long as no unit was given *)
(* back to another month than its own.                                     *)
(*                                                                         *)
(* The argument is ownership of the reservation: the requests past Reserve *)
(* that share a key are at most one (OwnersOK), its row is there and empty *)
(* until it completes, and a row that led to a decision is never deleted.  *)
(* For the quota it is a count: a month's usage covers its decisions and   *)
(* the requests that hold one of its units (MeterOK).                      *)
(***************************************************************************)
EXTENDS DeveloperAuthorize, FiniteSetTheorems, TLAPS

Owning == {"reserved", "metered", "decided", "completed", "failing"}

Owns(t, k) == job[t].stage \in Owning /\ job[t].key = k

\* The one request that owns the reservation of key k, and what it finds there.
OwnerOK(t, k) ==
    /\ reserved[k] # None
    /\ reserved[k].payload = job[t].payload
    /\ job[t].stage = "completed" =>
         reserved[k].request = job[t].request /\ job[t].request # None
    /\ job[t].stage # "completed" => reserved[k].request = None
    /\ job[t].stage = "decided" => job[t].request # None
    /\ job[t].stage \in {"reserved", "metered", "failing"} =>
         \A r \in DOMAIN decisions : decisions[r].key # k

OwnersOK ==
    \A k \in Keys : \A t \in Threads : Owns(t, k) =>
        OwnerOK(t, k) /\ \A u \in Threads : Owns(u, k) => u = t

ConflictsOK ==
    \A t \in Threads : job[t].stage = "conflict" => job[t].key # None

\* What was decided, and answered, is still on record.
RecordsOK ==
    /\ \A r \in DOMAIN decisions :
          decisions[r].key # None => reserved[decisions[r].key] # None
    /\ \A x \in answers : x[1] # None =>
          /\ reserved[x[1]] # None
          /\ reserved[x[1]].payload = x[2] /\ reserved[x[1]].request = x[3]
          /\ x[3] # None

IInv == TypeOK /\ OwnersOK /\ ConflictsOK /\ RecordsOK /\ OneDecisionPerKey

-----------------------------------------------------------------------------
\* The invariant holds before the first request.
LEMMA InitOK == Init => IInv
<1> SUFFICES ASSUME Init  PROVE IInv
  OBVIOUS
<1>1. TypeOK
  BY LimitAssumption DEF Init, TypeOK, Months, Idle
<1>2. OwnersOK /\ ConflictsOK /\ RecordsOK /\ OneDecisionPerKey
  BY DEF Init, OwnersOK, Owns, Owning, ConflictsOK, RecordsOK, OneDecisionPerKey, Idle
<1> QED  BY <1>1, <1>2 DEF IInv

\* A thread's new job is well-typed, and the others keep theirs.
LEMMA StepChanges ==
    ASSUME TypeOK, NEW t \in Threads, NEW j \in JobRec \cup {Idle}, Step(t, j)
    PROVE  /\ job' \in [Threads -> JobRec \cup {Idle}]
           /\ job'[t] = j
           /\ \A u \in Threads \ {t} : job'[u] = job[u]
BY DEF TypeOK, Step

\* A reservation that is inserted was not there, so its request is its only owner.
LEMMA ReserveOK ==
    ASSUME IInv, NEW t \in Threads, NEW k \in Keys \cup {None}, NEW p \in Payloads,
           Reserve(t, k, p)
    PROVE  IInv'
<1> DEFINE fresh == k = None \/ reserved[k] = None
<1>1. PICK j : j = [stage |-> IF fresh THEN "reserved" ELSE "conflict",
                    key |-> k, payload |-> p, metered |-> None, request |-> None]
  OBVIOUS
<1>2. j \in JobRec /\ job[t].stage = "idle" /\ Step(t, j)
  BY <1>1 DEF Reserve, JobRec
<1>3. /\ job' \in [Threads -> JobRec \cup {Idle}] /\ job'[t] = j
      /\ \A u \in Threads \ {t} : job'[u] = job[u]
  BY <1>2, StepChanges DEF IInv
<1>4. /\ UNCHANGED <<month, usage, decisions, answers>>
      /\ ~fresh \/ k = None => reserved' = reserved
      /\ fresh /\ k # None =>
           reserved' = [reserved EXCEPT ![k] = [payload |-> p, request |-> None]]
  BY DEF Reserve
<1>5. TypeOK'
  <2>1. [payload |-> p, request |-> None] \in Row
    BY DEF Row
  <2>2. reserved' \in [Keys -> Row \cup {None}]
    BY <1>4, <2>1 DEF IInv, TypeOK
  <2> QED  BY <1>3, <1>4, <2>2 DEF IInv, TypeOK
<1>6. \A m \in Keys : reserved[m] # None => reserved'[m] = reserved[m]
  BY <1>4 DEF IInv, TypeOK
<1>7. OwnersOK'
  <2> SUFFICES ASSUME NEW m \in Keys, NEW u \in Threads, Owns(u, m)'
               PROVE  OwnerOK(u, m)' /\ \A v \in Threads : Owns(v, m)' => v = u
    BY DEF OwnersOK
  <2>1. CASE \E v \in Threads \ {t} : Owns(v, m)
    <3>1. PICK v \in Threads \ {t} : Owns(v, m)
      BY <2>1
    <3>2. reserved[m] # None /\ OwnerOK(v, m) /\ \A w \in Threads : Owns(w, m) => w = v
      BY <3>1 DEF IInv, OwnersOK, OwnerOK
    <3>3. ~Owns(t, m)'
      <4> SUFFICES ASSUME Owns(t, m)'  PROVE FALSE
        OBVIOUS
      <4>1. j.stage \in Owning /\ j.key = m
        BY <1>3 DEF Owns
      <4>2. fresh /\ k = m
        BY <1>1, <4>1 DEF Owning
      <4> QED  BY <3>2, <4>2, NoneAssumption
    <3>4. \A w \in Threads : Owns(w, m)' => w = v
      BY <1>3, <3>2, <3>3 DEF Owns
    <3>5. u = v
      BY <3>4
    <3>6. OwnerOK(v, m)'
      BY <1>3, <1>4, <1>6, <3>1, <3>2 DEF OwnerOK
    <3> QED  BY <3>4, <3>5, <3>6
  <2>2. CASE ~\E v \in Threads \ {t} : Owns(v, m)
    <3>1. \A v \in Threads : Owns(v, m)' => v = t
      BY <1>3, <2>2 DEF Owns
    <3>2. u = t /\ k = m /\ fresh /\ j.stage = "reserved"
      BY <1>1, <1>3, <3>1 DEF Owns, Owning
    <3>3. reserved'[m] = [payload |-> p, request |-> None] /\ reserved[m] = None
      BY <1>4, <3>2, NoneAssumption DEF IInv, TypeOK
    <3>4. reserved'[m] # None
      BY <3>3, <1>5, <2>2, NoneIsNoRow DEF Row
    <3>5. \A r \in DOMAIN decisions : decisions[r].key # m
      BY <3>3, NoneAssumption DEF IInv, RecordsOK
    <3>6. OwnerOK(t, m)'
      BY <1>1, <1>3, <1>4, <3>2, <3>3, <3>4, <3>5 DEF OwnerOK
    <3> QED  BY <3>1, <3>2, <3>6
  <2> QED  BY <2>1, <2>2
<1>8. ConflictsOK'
  BY <1>1, <1>3 DEF IInv, ConflictsOK
<1>9. RecordsOK' /\ OneDecisionPerKey'
  <2>1. OneDecisionPerKey'
    BY <1>4 DEF IInv, OneDecisionPerKey
  <2>2. \A r \in DOMAIN decisions : decisions[r].key \in Keys \cup {None}
    BY DEF IInv, TypeOK, DecisionRec
  <2>3. \A x \in answers : x[1] \in Keys \cup {None}
    BY DEF IInv, TypeOK
  <2> QED  BY <1>4, <1>6, <2>1, <2>2, <2>3 DEF IInv, RecordsOK
<1> QED  BY <1>5, <1>7, <1>8, <1>9 DEF IInv

\* Steps that change no reservation and no decision, and take no new key.
LEMMA QuietOK ==
    ASSUME IInv, NEW t \in Threads, NEW j \in JobRec \cup {Idle}, Step(t, j), TypeOK',
           UNCHANGED <<reserved, decisions>>,
           \/ j = Idle
           \/ /\ job[t].stage \in {"reserved", "metered", "failing"}
              /\ j.stage \in {"reserved", "metered", "failing"}
              /\ j.key = job[t].key /\ j.payload = job[t].payload,
           RecordsOK'
    PROVE  IInv'
<1>1. job'[t] = j /\ \A u \in Threads \ {t} : job'[u] = job[u]
  BY StepChanges DEF IInv
<1>2. \A k \in Keys, u \in Threads : Owns(u, k)' => Owns(u, k)
  BY <1>1 DEF Owns, Owning, Idle
<1>3. OwnersOK'
  <2> SUFFICES ASSUME NEW k \in Keys, NEW u \in Threads, Owns(u, k)'
               PROVE  OwnerOK(u, k)' /\ \A v \in Threads : Owns(v, k)' => v = u
    BY DEF OwnersOK
  <2>1. OwnerOK(u, k) /\ \A v \in Threads : Owns(v, k) => v = u
    BY <1>2 DEF IInv, OwnersOK
  <2>2. OwnerOK(u, k)'
    <3>1. CASE u # t
      BY <1>1, <2>1, <3>1 DEF OwnerOK
    <3>2. CASE u = t
      <4>1. j # Idle /\ job'[t] = j
        BY <1>1, <3>2 DEF Owns, Owning, Idle
      <4> QED  BY <2>1, <3>2, <4>1 DEF OwnerOK
    <3> QED  BY <3>1, <3>2
  <2> QED  BY <1>2, <2>1, <2>2
<1>4. ConflictsOK'
  BY <1>1 DEF IInv, ConflictsOK, Idle
<1>5. OneDecisionPerKey'
  BY DEF IInv, OneDecisionPerKey
<1> QED  BY <1>3, <1>4, <1>5 DEF IInv

-----------------------------------------------------------------------------
\* A thread that is not idle holds a request.
LEMMA JobTyped ==
    ASSUME TypeOK, NEW t \in Threads, job[t].stage # "idle"
    PROVE  job[t] \in JobRec
BY DEF TypeOK, Idle

\* The result that a request finds is the one on record.
LEMMA ReadExistingOK ==
    ASSUME IInv, NEW t \in Threads, ReadExisting(t)
    PROVE  IInv'
<1>1. PICK x : x = <<job[t].key, job[t].payload, reserved[job[t].key].request>>
  OBVIOUS
<1>2. /\ job[t] \in JobRec /\ job[t].stage = "conflict" /\ Step(t, Idle)
      /\ UNCHANGED <<month, reserved, usage, decisions>>
  BY JobTyped DEF ReadExisting, IInv
<1>3. job[t].key \in Keys /\ job[t].payload \in Payloads
  BY <1>2 DEF JobRec, IInv, ConflictsOK
<1>4. \/ answers' = answers
      \/ /\ answers' = answers \cup {x}
         /\ reserved[job[t].key] # None
         /\ reserved[job[t].key].payload = job[t].payload
         /\ reserved[job[t].key].request # None
  BY <1>1 DEF ReadExisting
<1>5. job' \in [Threads -> JobRec \cup {Idle}]
  BY <1>2, StepChanges DEF IInv
<1>6. reserved[job[t].key] \in Row \cup {None}
  BY <1>3 DEF IInv, TypeOK
<1>7. answers' \subseteq (Keys \cup {None}) \X Payloads \X (ReqIds \cup {None})
  <2>1. CASE answers' = answers
    BY <2>1 DEF IInv, TypeOK
  <2>2. CASE reserved[job[t].key] # None /\ answers' = answers \cup {x}
    <3>1. reserved[job[t].key].request \in ReqIds \cup {None}
      BY <1>6, <2>2 DEF Row
    <3>2. x \in (Keys \cup {None}) \X Payloads \X (ReqIds \cup {None})
      BY <1>1, <1>3, <3>1
    <3> QED  BY <2>2, <3>2 DEF IInv, TypeOK
  <2> QED  BY <1>4, <2>1, <2>2
<1>8. TypeOK'
  BY <1>2, <1>5, <1>7 DEF IInv, TypeOK
<1>9. RecordsOK'
  <2>1. \A y \in answers' : y \in answers \/ (y = x /\ answers' # answers)
    BY <1>4
  <2>2. x[1] = job[t].key /\ x[2] = job[t].payload /\ x[3] = reserved[job[t].key].request
    BY <1>1
  <2> QED  BY <1>2, <1>4, <2>1, <2>2 DEF IInv, RecordsOK
<1> QED  BY <1>2, <1>8, <1>9, QuietOK

\* The meter does not touch reservations.
LEMMA ConsumeOK ==
    ASSUME IInv, NEW t \in Threads, Consume(t)
    PROVE  IInv'
<1>1. /\ job[t] \in JobRec /\ job[t].stage = "reserved" /\ month \in Months
      /\ UNCHANGED <<month, reserved, decisions, answers>>
  BY JobTyped DEF Consume, IInv, TypeOK
<1>2. PICK j : /\ Step(t, j)
               /\ \/ j = [job[t] EXCEPT !.stage = "metered", !.metered = month]
                  \/ j = [job[t] EXCEPT !.stage = "failing"]
  BY DEF Consume
<1>3. /\ j \in JobRec /\ j.stage \in {"metered", "failing"}
      /\ j.key = job[t].key /\ j.payload = job[t].payload
  BY <1>1, <1>2 DEF JobRec
<1>4. usage' \in [Months -> Nat]
  BY <1>1 DEF Consume, IInv, TypeOK
<1>5. TypeOK'
  BY <1>1, <1>2, <1>3, <1>4, StepChanges DEF IInv, TypeOK
<1>6. RecordsOK'
  BY <1>1 DEF IInv, RecordsOK
<1> QED  BY <1>1, <1>2, <1>3, <1>5, <1>6, QuietOK

\* The compensation of the meter does not touch reservations.
LEMMA ReleaseOK ==
    ASSUME IInv, NEW t \in Threads, Release(t)
    PROVE  IInv'
<1>1. /\ job[t] \in JobRec /\ job[t].stage = "failing" /\ month \in Months
      /\ UNCHANGED <<month, reserved, decisions, answers>>
  BY JobTyped DEF Release, IInv, TypeOK
<1>2. PICK j : Step(t, j) /\ j = [job[t] EXCEPT !.metered = None]
  BY DEF Release
<1>3. /\ j \in JobRec /\ j.stage = "failing"
      /\ j.key = job[t].key /\ j.payload = job[t].payload
  BY <1>1, <1>2 DEF JobRec
<1>4. usage' \in [Months -> Nat]
  BY <1>1 DEF Release, IInv, TypeOK
<1>5. TypeOK'
  BY <1>1, <1>2, <1>3, <1>4, StepChanges DEF IInv, TypeOK
<1>6. RecordsOK'
  BY <1>1 DEF IInv, RecordsOK
<1> QED  BY <1>1, <1>2, <1>3, <1>5, <1>6, QuietOK

\* Before the decision an exception loses nothing but the reservation.
LEMMA RaiseOK ==
    ASSUME IInv, NEW t \in Threads, Raise(t), "late" \notin strayed'
    PROVE  IInv'
<1>1. /\ job[t].stage \in {"reserved", "metered"}
      /\ UNCHANGED <<month, reserved, usage, decisions, answers>>
  BY DEF Raise
<1>2. PICK j : Step(t, j) /\ j = [job[t] EXCEPT !.stage = "failing"]
  BY DEF Raise
<1>3. job[t] \in JobRec
  BY <1>1, JobTyped DEF IInv
<1>4. /\ j \in JobRec /\ j.stage = "failing"
      /\ j.key = job[t].key /\ j.payload = job[t].payload
  BY <1>2, <1>3 DEF JobRec
<1>5. TypeOK'
  BY <1>1, <1>2, <1>4, StepChanges DEF IInv, TypeOK
<1>6. RecordsOK'
  BY <1>1 DEF IInv, RecordsOK
<1> QED  BY <1>1, <1>2, <1>4, <1>5, <1>6, QuietOK

\* A process that dies leaves a reservation without an owner.
LEMMA CrashOK ==
    ASSUME IInv, NEW t \in Threads, Crash(t)
    PROVE  IInv'
<1>1. Step(t, Idle) /\ UNCHANGED <<month, reserved, usage, decisions, answers>>
  BY DEF Crash
<1>2. TypeOK'
  BY <1>1, StepChanges DEF IInv, TypeOK
<1>3. RecordsOK'
  BY <1>1 DEF IInv, RecordsOK
<1> QED  BY <1>1, <1>2, <1>3, QuietOK

\* The owner of a completed reservation answers what is on record.
LEMMA AnswerOK ==
    ASSUME IInv, NEW t \in Threads, Answer(t)
    PROVE  IInv'
<1>1. PICK x : x = <<job[t].key, job[t].payload, job[t].request>>
  OBVIOUS
<1>2. /\ job[t] \in JobRec /\ job[t].stage = "completed" /\ Step(t, Idle)
      /\ UNCHANGED <<month, reserved, usage, decisions>> /\ answers' = answers \cup {x}
  BY <1>1, JobTyped DEF Answer, IInv
<1>3. /\ x \in (Keys \cup {None}) \X Payloads \X (ReqIds \cup {None})
      /\ x[1] = job[t].key /\ x[2] = job[t].payload /\ x[3] = job[t].request
  BY <1>1, <1>2 DEF JobRec
<1>4. TypeOK'
  BY <1>2, <1>3, StepChanges DEF IInv, TypeOK
<1>5. x[1] # None => OwnerOK(t, x[1])
  BY <1>2, <1>3 DEF IInv, OwnersOK, Owns, Owning, JobRec
<1>6. RecordsOK'
  BY <1>2, <1>3, <1>5 DEF IInv, RecordsOK, OwnerOK
<1> QED  BY <1>2, <1>4, <1>6, QuietOK

-----------------------------------------------------------------------------
\* A decision of the owner is the first one of its key.
LEMMA DecideOK ==
    ASSUME IInv, NEW t \in Threads, NEW r \in ReqIds, Decide(t, r)
    PROVE  IInv'
<1> DEFINE k == job[t].key
           d == [key |-> k, payload |-> job[t].payload, metered |-> job[t].metered]
<1>1. /\ job[t] \in JobRec /\ job[t].stage = "metered" /\ r \notin DOMAIN decisions
      /\ UNCHANGED <<month, reserved, usage, answers>>
      /\ decisions' = [q \in DOMAIN decisions \cup {r} |->
                         IF q = r THEN d ELSE decisions[q]]
  BY JobTyped DEF Decide, IInv
<1>2. PICK j : Step(t, j) /\ j = [job[t] EXCEPT !.stage = "decided", !.request = r]
  BY DEF Decide
<1>3. /\ j \in JobRec /\ j.stage = "decided" /\ j.key = k
      /\ j.payload = job[t].payload /\ j.request = r /\ d \in DecisionRec
      /\ d.key = k
  BY <1>1, <1>2 DEF JobRec, DecisionRec
<1>4. /\ job' \in [Threads -> JobRec \cup {Idle}] /\ job'[t] = j
      /\ \A u \in Threads \ {t} : job'[u] = job[u]
  BY <1>2, <1>3, StepChanges DEF IInv
<1>5. /\ DOMAIN decisions' = DOMAIN decisions \cup {r} /\ decisions'[r] = d
      /\ \A q \in DOMAIN decisions : decisions'[q] = decisions[q]
  BY <1>1
<1>6. TypeOK'
  <2>1. decisions' \in [DOMAIN decisions' -> DecisionRec]
    BY <1>1, <1>3, <1>5 DEF IInv, TypeOK
  <2> QED  BY <1>1, <1>4, <1>5, <2>1 DEF IInv, TypeOK
<1>7. k \in Keys => /\ OwnerOK(t, k) /\ \A u \in Threads : Owns(u, k) => u = t
                    /\ \A q \in DOMAIN decisions : decisions[q].key # k
  BY <1>1 DEF IInv, OwnersOK, OwnerOK, Owns, Owning
<1>8. \A m \in Keys, u \in Threads : Owns(u, m)' => Owns(u, m)
  BY <1>1, <1>3, <1>4 DEF Owns, Owning
<1>9. OwnersOK'
  <2> SUFFICES ASSUME NEW m \in Keys, NEW u \in Threads, Owns(u, m)'
               PROVE  OwnerOK(u, m)' /\ \A v \in Threads : Owns(v, m)' => v = u
    BY DEF OwnersOK
  <2>1. Owns(u, m) /\ OwnerOK(u, m) /\ \A v \in Threads : Owns(v, m) => v = u
    BY <1>8 DEF IInv, OwnersOK
  <2>2. CASE u = t
    <3>1. job'[u] = j /\ j.stage = "decided" /\ j.request # None
      BY <1>3, <1>4, <2>2, NoneAssumption
    <3> QED  BY <1>1, <1>3, <1>8, <2>1, <2>2, <3>1 DEF OwnerOK
  <2>3. CASE u # t
    <3>1. job'[u] = job[u] /\ k # m
      BY <1>1, <1>4, <2>1, <2>3 DEF Owns, Owning
    <3>2. (\A q \in DOMAIN decisions : decisions[q].key # m)
            => \A q \in DOMAIN decisions' : decisions'[q].key # m
      BY <1>3, <1>5, <3>1
    <3> QED  BY <1>1, <1>8, <2>1, <3>1, <3>2 DEF OwnerOK
  <2> QED  BY <2>2, <2>3
<1>10. ConflictsOK'
  BY <1>3, <1>4 DEF IInv, ConflictsOK
<1>11. RecordsOK'
  <2>1. k # None => reserved[k] # None
    BY <1>1, <1>7 DEF JobRec, OwnerOK
  <2>2. \A q \in DOMAIN decisions' :
           decisions'[q].key # None => reserved[decisions'[q].key] # None
    BY <1>3, <1>5, <2>1 DEF IInv, RecordsOK
  <2> QED  BY <1>1, <2>2 DEF IInv, RecordsOK
<1>12. OneDecisionPerKey'
  <2>1. k # None => \A q \in DOMAIN decisions : decisions[q].key # k
    BY <1>1, <1>7 DEF JobRec
  <2> QED  BY <1>3, <1>5, <2>1 DEF IInv, OneDecisionPerKey
<1> QED  BY <1>6, <1>9, <1>10, <1>11, <1>12 DEF IInv

\* The owner writes the id of its decision where nothing was written before.
LEMMA CompleteOK ==
    ASSUME IInv, NEW t \in Threads, Complete(t)
    PROVE  IInv'
<1> DEFINE k == job[t].key
<1>1. /\ job[t] \in JobRec /\ job[t].stage = "decided"
      /\ UNCHANGED <<month, usage, decisions, answers>>
  BY JobTyped DEF Complete, IInv
<1>2. PICK j : Step(t, j) /\ j = [job[t] EXCEPT !.stage = "completed"]
  BY DEF Complete
<1>3. /\ j \in JobRec /\ j.stage = "completed" /\ j.key = k
      /\ j.payload = job[t].payload /\ j.request = job[t].request
  BY <1>1, <1>2 DEF JobRec
<1>4. /\ job' \in [Threads -> JobRec \cup {Idle}] /\ job'[t] = j
      /\ \A u \in Threads \ {t} : job'[u] = job[u]
  BY <1>2, <1>3, StepChanges DEF IInv
<1>5. k \in Keys => /\ reserved[k] \in Row /\ reserved[k].request = None
                    /\ reserved[k].payload = job[t].payload
                    /\ job[t].request # None
                    /\ \A u \in Threads : Owns(u, k) => u = t
  BY <1>1 DEF IInv, TypeOK, OwnersOK, OwnerOK, Owns, Owning
<1>6. k \in Keys => /\ reserved'[k] = [payload |-> job[t].payload, request |-> job[t].request]
                    /\ \A m \in Keys \ {k} : reserved'[m] = reserved[m]
                    /\ reserved' \in [Keys -> Row \cup {None}]
  <2> SUFFICES ASSUME k \in Keys
               PROVE  /\ reserved'[k] = [payload |-> job[t].payload, request |-> job[t].request]
                      /\ \A m \in Keys \ {k} : reserved'[m] = reserved[m]
                      /\ reserved' \in [Keys -> Row \cup {None}]
    OBVIOUS
  <2>1. PICK w : w = [reserved[k] EXCEPT !.request = job[t].request]
    OBVIOUS
  <2>2. w = [payload |-> job[t].payload, request |-> job[t].request] /\ w \in Row
    BY <1>1, <1>5, <2>1 DEF Row, JobRec
  <2>3. reserved' = [reserved EXCEPT ![k] = w]
    BY <2>1, NoneAssumption DEF Complete
  <2> QED  BY <2>2, <2>3 DEF IInv, TypeOK
<1>7. k \notin Keys => k = None /\ reserved' = reserved
  BY <1>1 DEF Complete, JobRec
<1>8. TypeOK'
  BY <1>1, <1>4, <1>6, <1>7 DEF IInv, TypeOK
<1>9. \A m \in Keys, u \in Threads : Owns(u, m)' => Owns(u, m)
  BY <1>1, <1>3, <1>4 DEF Owns, Owning
<1>10. \A m \in Keys : reserved[m] # None => reserved'[m] # None
  <2>1. k \in Keys => reserved'[k] \in Row
    BY <1>1, <1>5, <1>6 DEF Row, JobRec
  <2> QED  BY <1>6, <1>7, <2>1, NoneIsNoRow
<1>11. OwnersOK'
  <2> SUFFICES ASSUME NEW m \in Keys, NEW u \in Threads, Owns(u, m)'
               PROVE  OwnerOK(u, m)' /\ \A v \in Threads : Owns(v, m)' => v = u
    BY DEF OwnersOK
  <2>1. Owns(u, m) /\ OwnerOK(u, m) /\ \A v \in Threads : Owns(v, m) => v = u
    BY <1>9 DEF IInv, OwnersOK
  <2>2. CASE u = t
    <3>1. m = k /\ job'[u] = j /\ k \in Keys
      BY <1>4, <2>1, <2>2 DEF Owns
    <3>2. reserved'[m] # None
      BY <1>10, <2>1 DEF OwnerOK
    <3> QED  BY <1>3, <1>5, <1>6, <1>9, <2>1, <3>1, <3>2 DEF OwnerOK
  <2>3. CASE u # t
    <3>1. job'[u] = job[u] /\ k # m
      BY <1>1, <1>4, <2>1, <2>3 DEF Owns, Owning
    <3>2. reserved'[m] = reserved[m]
      BY <1>6, <1>7, <3>1
    <3> QED  BY <1>1, <1>9, <2>1, <3>1, <3>2 DEF OwnerOK
  <2> QED  BY <2>2, <2>3
<1>12. ConflictsOK'
  BY <1>3, <1>4 DEF IInv, ConflictsOK
<1>13. RecordsOK'
  <2>1. \A r \in DOMAIN decisions : decisions[r].key \in Keys \cup {None}
    BY DEF IInv, TypeOK, DecisionRec
  <2>2. \A x \in answers : x[1] \in Keys \cup {None}
    BY DEF IInv, TypeOK
  <2>3. \A x \in answers : x[1] # None => x[1] # k
    BY <1>5, <2>2 DEF IInv, RecordsOK
  <2>4. \A x \in answers : x[1] # None => reserved'[x[1]] = reserved[x[1]]
    BY <1>6, <1>7, <2>2, <2>3
  <2> QED  BY <1>1, <1>10, <2>1, <2>4 DEF IInv, RecordsOK
<1>14. OneDecisionPerKey'
  BY <1>1 DEF IInv, OneDecisionPerKey
<1> QED  BY <1>8, <1>11, <1>12, <1>13, <1>14 DEF IInv

\* The reservation that is deleted has led to no decision and no answer.
LEMMA UnreserveOK ==
    ASSUME IInv, NEW t \in Threads, Unreserve(t)
    PROVE  IInv'
<1> DEFINE k == job[t].key
<1>1. /\ job[t] \in JobRec /\ job[t].stage = "failing" /\ Step(t, Idle)
      /\ UNCHANGED <<month, usage, decisions, answers>>
  BY JobTyped DEF Unreserve, IInv
<1>2. /\ job' \in [Threads -> JobRec \cup {Idle}] /\ job'[t] = Idle
      /\ \A u \in Threads \ {t} : job'[u] = job[u]
  BY <1>1, StepChanges DEF IInv
<1>3. /\ k \in Keys => reserved' = [reserved EXCEPT ![k] = None]
      /\ k \notin Keys => k = None /\ reserved' = reserved
  BY <1>1, NoneAssumption DEF Unreserve, JobRec
<1>4. \A m \in Keys : m # k => reserved'[m] = reserved[m]
  BY <1>3 DEF IInv, TypeOK
<1>5. k \in Keys => /\ \A u \in Threads : Owns(u, k) => u = t
                    /\ reserved[k].request = None
                    /\ \A r \in DOMAIN decisions : decisions[r].key # k
  BY <1>1 DEF IInv, OwnersOK, OwnerOK, Owns, Owning
<1>6. TypeOK'
  BY <1>1, <1>2, <1>3 DEF IInv, TypeOK
<1>7. OwnersOK'
  <2> SUFFICES ASSUME NEW m \in Keys, NEW u \in Threads, Owns(u, m)'
               PROVE  OwnerOK(u, m)' /\ \A v \in Threads : Owns(v, m)' => v = u
    BY DEF OwnersOK
  <2>1. \A v \in Threads : Owns(v, m)' => v # t /\ Owns(v, m)
    BY <1>2 DEF Owns, Owning, Idle
  <2>2. u # t /\ m # k /\ OwnerOK(u, m) /\ \A v \in Threads : Owns(v, m) => v = u
    BY <1>5, <2>1 DEF IInv, OwnersOK
  <2> QED  BY <1>1, <1>2, <1>4, <2>1, <2>2 DEF OwnerOK
<1>8. ConflictsOK'
  BY <1>2 DEF IInv, ConflictsOK, Idle
<1>9. RecordsOK'
  <2>1. \A r \in DOMAIN decisions : decisions[r].key \in Keys \cup {None}
    BY DEF IInv, TypeOK, DecisionRec
  <2>2. \A x \in answers : x[1] \in Keys \cup {None}
    BY DEF IInv, TypeOK
  <2>3. \A x \in answers : x[1] # None => x[1] # k
    BY <1>5, <2>2 DEF IInv, RecordsOK
  <2>4. \A r \in DOMAIN decisions : decisions[r].key # None => decisions[r].key # k
    BY <1>5, <2>1
  <2> QED  BY <1>1, <1>4, <2>1, <2>2, <2>3, <2>4 DEF IInv, RecordsOK
<1>10. OneDecisionPerKey'
  BY <1>1 DEF IInv, OneDecisionPerKey
<1> QED  BY <1>6, <1>7, <1>8, <1>9, <1>10 DEF IInv

\* Steps of the calendar, and stuttering.
LEMMA CalendarOK ==
    ASSUME IInv, NextMonth \/ UNCHANGED vars
    PROVE  IInv'
<1>1. UNCHANGED <<reserved, usage, decisions, answers, job>> /\ month' \in Months
  BY LimitAssumption DEF NextMonth, vars, IInv, TypeOK, Months
<1>2. TypeOK'
  BY <1>1 DEF IInv, TypeOK
<1>3. OwnersOK'
  BY <1>1 DEF IInv, OwnersOK, OwnerOK, Owns
<1>4. ConflictsOK' /\ RecordsOK' /\ OneDecisionPerKey'
  BY <1>1 DEF IInv, ConflictsOK, RecordsOK, OneDecisionPerKey
<1> QED  BY <1>2, <1>3, <1>4 DEF IInv

-----------------------------------------------------------------------------
\* Every step preserves the invariant, unless an exception follows a decision.
LEMMA NextOK ==
    ASSUME IInv, [Next]_vars, "late" \notin strayed'
    PROVE  IInv'
<1>1. CASE NextMonth \/ Exhausted \/ UNCHANGED vars
  BY <1>1, CalendarOK DEF Exhausted
<1>2. ASSUME NEW t \in Threads, NEW k \in Keys \cup {None}, NEW p \in Payloads,
             Reserve(t, k, p)
      PROVE  IInv'
  BY <1>2, ReserveOK
<1>3. ASSUME NEW t \in Threads, Work(t)  PROVE IInv'
  BY <1>3, ReadExistingOK, ConsumeOK, CompleteOK, AnswerOK, ReleaseOK, UnreserveOK,
     DecideOK DEF Work
<1>4. ASSUME NEW t \in Threads, Raise(t) \/ Crash(t)  PROVE IInv'
  BY <1>4, RaiseOK, CrashOK
<1> QED  BY <1>1, <1>2, <1>3, <1>4 DEF Next

\* What has gone wrong is not forgotten.
LEMMA StrayedStays ==
    ASSUME [Next]_vars
    PROVE  strayed \subseteq strayed'
BY DEF Next, vars, NextMonth, Exhausted, Reserve, Work, ReadExisting, Consume, Complete, Answer,
       Release, Unreserve, Decide, Raise, Crash

\* The inductive invariant holds throughout, for any numbers of requests, keys,
\* ids and months, whatever the limit, until an exception follows a committed decision.
THEOREM Invariance == Spec => []("late" \notin strayed => IInv)
<1>1. ("late" \notin strayed => IInv) /\ [Next]_vars => ("late" \notin strayed => IInv)'
  BY NextOK, StrayedStays
<1>2. Init => ("late" \notin strayed => IInv)
  BY InitOK
<1> QED  BY <1>1, <1>2, PTL DEF Spec

\* All callers of one key have the answer on record for it.
LEMMA SameAnswer ==
    ASSUME IInv
    PROVE  SameAnswerPerKey
<1> SUFFICES ASSUME NEW x \in answers, NEW y \in answers, x[1] = y[1], x[1] # None
             PROVE  x = y
  BY DEF SameAnswerPerKey
<1>1. x[2] = y[2] /\ x[3] = y[3]
  BY DEF IInv, RecordsOK
<1>2. x = <<x[1], x[2], x[3]>> /\ y = <<y[1], y[2], y[3]>>
  BY DEF IInv, TypeOK
<1> QED  BY <1>1, <1>2

\* developer_authorize makes one decision per Idempotency-Key, and gives all callers with that key
\* the result of it, and only to those with the payload it was made for, though requests may be
\* retried, fail before the decision, or die anywhere.
THEOREM IdempotentTheorem == Spec => []IdempotentUnlessLate
<1>1. ("late" \notin strayed => IInv) => IdempotentUnlessLate
  BY SameAnswer DEF IdempotentUnlessLate, IInv
<1> QED  BY <1>1, Invariance, PTL

-----------------------------------------------------------------------------
(* The quota.                                                              *)

\* The decisions that month m pays for, and the requests that hold a unit of it.
Charged(m) == {r \in DOMAIN decisions : decisions[r].metered = m}
Held(m) == {t \in Threads : job[t].stage \in {"metered", "failing"} /\ job[t].metered = m}

\* The meter covers both, and does not pass the plan's limit.
MeterOK ==
    /\ \A m \in Months : /\ Cardinality(Charged(m)) + Cardinality(Held(m)) <= usage[m]
                         /\ usage[m] <= Limit
    /\ \A t \in Threads : job[t].stage \in {"reserved", "conflict"} => job[t].metered = None

\* The pools are finite, so what is charged and held can be counted.
LEMMA Countable ==
    ASSUME TypeOK, NEW m
    PROVE  /\ IsFiniteSet(Charged(m)) /\ IsFiniteSet(Held(m))
           /\ Cardinality(Charged(m)) \in Nat /\ Cardinality(Held(m)) \in Nat
<1>1. Charged(m) \subseteq ReqIds /\ Held(m) \subseteq Threads
  BY DEF TypeOK, Charged, Held
<1> QED  BY <1>1, PoolsAssumption, FS_Subset, FS_CardinalityType

\* A step that charges nothing new, and that holds no unit that was not held, keeps the meter.
LEMMA MeterKept ==
    ASSUME TypeOK, MeterOK, NEW t \in Threads, UNCHANGED <<usage, decisions>>,
           \A u \in Threads \ {t} : job'[u] = job[u],
           \A m \in Months : t \in Held(m)' => t \in Held(m),
           job'[t].stage \in {"reserved", "conflict"} => job'[t].metered = None
    PROVE  MeterOK'
<1>1. ASSUME NEW m \in Months
      PROVE  Cardinality(Charged(m)') + Cardinality(Held(m)') <= usage'[m] /\ usage'[m] <= Limit
  <2>1. Charged(m)' = Charged(m) /\ Held(m)' \subseteq Held(m)
    BY DEF Charged, Held
  <2>2. IsFiniteSet(Held(m)) /\ Cardinality(Held(m)) \in Nat /\ Cardinality(Charged(m)) \in Nat
    BY Countable
  <2>3. Cardinality(Held(m)') <= Cardinality(Held(m)) /\ Cardinality(Held(m)') \in Nat
    BY <2>1, <2>2, FS_Subset, FS_CardinalityType
  <2>4. /\ Cardinality(Charged(m)) + Cardinality(Held(m)) <= usage[m] /\ usage[m] <= Limit
        /\ usage[m] \in Nat /\ usage'[m] = usage[m]
    BY DEF MeterOK, TypeOK
  <2> QED  BY <2>1, <2>2, <2>3, <2>4, LimitAssumption
<1>2. \A u \in Threads : job'[u].stage \in {"reserved", "conflict"} => job'[u].metered = None
  BY DEF MeterOK
<1> QED  BY <1>1, <1>2 DEF MeterOK

\* The month's unit that a request takes was left of the plan.
LEMMA ConsumeMeter ==
    ASSUME TypeOK, MeterOK, NEW t \in Threads, Consume(t)
    PROVE  MeterOK'
<1>1. /\ job[t] \in JobRec /\ job[t].stage = "reserved" /\ job[t].metered = None
      /\ month \in Months /\ month # None /\ UNCHANGED decisions
  BY JobTyped, NoneAssumption DEF Consume, TypeOK, MeterOK, Months
<1>2. CASE usage[month] < Limit
  <2>1. PICK j : Step(t, j) /\ j = [job[t] EXCEPT !.stage = "metered", !.metered = month]
    BY <1>2 DEF Consume
  <2>2. j \in JobRec /\ j.stage = "metered" /\ j.metered = month
    BY <1>1, <2>1 DEF JobRec
  <2>3. job'[t] = j /\ \A u \in Threads \ {t} : job'[u] = job[u]
    BY <2>1, <2>2, StepChanges
  <2>4. usage' = [usage EXCEPT ![month] = usage[month] + 1]
    BY <1>2 DEF Consume
  <2>5. ASSUME NEW m \in Months
        PROVE  Cardinality(Charged(m)') + Cardinality(Held(m)') <= usage'[m] /\ usage'[m] <= Limit
    <3>1. Charged(m)' = Charged(m)
      BY <1>1 DEF Charged
    <3>2. /\ IsFiniteSet(Held(m)) /\ Cardinality(Held(m)) \in Nat /\ Cardinality(Charged(m)) \in Nat
          /\ Cardinality(Charged(m)) + Cardinality(Held(m)) <= usage[m] /\ usage[m] <= Limit
          /\ usage[m] \in Nat
      BY Countable DEF MeterOK, TypeOK
    <3>3. CASE m = month
      <4>1. Held(m)' = Held(m) \cup {t} /\ t \notin Held(m)
        BY <1>1, <2>2, <2>3, <3>3 DEF Held
      <4>2. Cardinality(Held(m)') = Cardinality(Held(m)) + 1
        BY <3>2, <4>1, FS_AddElement
      <4>3. usage'[m] = usage[m] + 1
        BY <2>4, <3>3 DEF TypeOK
      <4> QED  BY <1>2, <3>1, <3>2, <3>3, <4>2, <4>3, LimitAssumption
    <3>4. CASE m # month
      <4>1. Held(m)' = Held(m)
        BY <1>1, <2>2, <2>3, <3>4 DEF Held
      <4>2. usage'[m] = usage[m]
        BY <2>4, <3>4 DEF TypeOK
      <4> QED  BY <3>1, <3>2, <4>1, <4>2
    <3> QED  BY <3>3, <3>4
  <2>6. \A u \in Threads : job'[u].stage \in {"reserved", "conflict"} => job'[u].metered = None
    BY <2>2, <2>3 DEF MeterOK
  <2> QED  BY <2>5, <2>6 DEF MeterOK
<1>3. CASE ~(usage[month] < Limit)
  <2>1. PICK j : Step(t, j) /\ j = [job[t] EXCEPT !.stage = "failing"]
    BY <1>3 DEF Consume
  <2>2. j \in JobRec /\ j.stage = "failing" /\ j.metered = None
    BY <1>1, <2>1 DEF JobRec
  <2>3. job'[t] = j /\ \A u \in Threads \ {t} : job'[u] = job[u]
    BY <2>1, <2>2, StepChanges
  <2>4. UNCHANGED <<usage, decisions>>
    BY <1>3 DEF Consume
  <2>5. \A m \in Months : t \notin Held(m)'
    BY <2>2, <2>3, NoneAssumption DEF Held, Months
  <2> QED  BY <2>2, <2>3, <2>4, <2>5, MeterKept
<1> QED  BY <1>2, <1>3

\* The unit that a decision is charged for is the one its request held.
LEMMA DecideMeter ==
    ASSUME TypeOK, MeterOK, NEW t \in Threads, NEW r \in ReqIds, Decide(t, r)
    PROVE  MeterOK'
<1> DEFINE d == [key |-> job[t].key, payload |-> job[t].payload, metered |-> job[t].metered]
<1>1. /\ job[t] \in JobRec /\ job[t].stage = "metered" /\ r \notin DOMAIN decisions
      /\ UNCHANGED usage
      /\ decisions' = [q \in DOMAIN decisions \cup {r} |-> IF q = r THEN d ELSE decisions[q]]
  BY JobTyped DEF Decide
<1>2. PICK j : Step(t, j) /\ j = [job[t] EXCEPT !.stage = "decided", !.request = r]
  BY DEF Decide
<1>3. j \in JobRec /\ j.stage = "decided"
  BY <1>1, <1>2 DEF JobRec
<1>4. job'[t] = j /\ \A u \in Threads \ {t} : job'[u] = job[u]
  BY <1>2, <1>3, StepChanges
<1>5. /\ DOMAIN decisions' = DOMAIN decisions \cup {r} /\ decisions'[r].metered = job[t].metered
      /\ \A q \in DOMAIN decisions : decisions'[q] = decisions[q]
  BY <1>1
<1>6. ASSUME NEW m \in Months
      PROVE  Cardinality(Charged(m)') + Cardinality(Held(m)') <= usage'[m] /\ usage'[m] <= Limit
  <2>1. /\ IsFiniteSet(Held(m)) /\ Cardinality(Held(m)) \in Nat
        /\ IsFiniteSet(Charged(m)) /\ Cardinality(Charged(m)) \in Nat
        /\ Cardinality(Charged(m)) + Cardinality(Held(m)) <= usage[m] /\ usage[m] <= Limit
        /\ usage[m] \in Nat /\ usage'[m] = usage[m]
    BY <1>1, Countable DEF MeterOK, TypeOK
  <2>2. CASE job[t].metered = m
    <3>1. Held(m)' = Held(m) \ {t} /\ t \in Held(m)
      BY <1>1, <1>3, <1>4, <2>2 DEF Held
    <3>2. Charged(m)' = Charged(m) \cup {r} /\ r \notin Charged(m)
      BY <1>1, <1>5, <2>2 DEF Charged
    <3>3. Cardinality(Held(m)') = Cardinality(Held(m)) - 1
      BY <2>1, <3>1, FS_RemoveElement
    <3>4. Cardinality(Charged(m)') = Cardinality(Charged(m)) + 1
      BY <2>1, <3>2, FS_AddElement
    <3> QED  BY <2>1, <3>3, <3>4
  <2>3. CASE job[t].metered # m
    <3>1. Held(m)' = Held(m)
      BY <1>1, <1>3, <1>4, <2>3 DEF Held
    <3>2. Charged(m)' = Charged(m)
      BY <1>1, <1>5, <2>3 DEF Charged
    <3> QED  BY <2>1, <3>1, <3>2
  <2> QED  BY <2>2, <2>3
<1>7. \A u \in Threads : job'[u].stage \in {"reserved", "conflict"} => job'[u].metered = None
  BY <1>3, <1>4 DEF MeterOK
<1> QED  BY <1>6, <1>7 DEF MeterOK

\* A unit that is given back to its own month was held there, so the count is not cut off at zero.
LEMMA ReleaseMeter ==
    ASSUME TypeOK, MeterOK, NEW t \in Threads, Release(t), strayed' = {}
    PROVE  MeterOK'
<1>1. /\ job[t] \in JobRec /\ job[t].stage = "failing" /\ job[t].metered = month
      /\ month \in Months /\ UNCHANGED decisions
      /\ usage' = [usage EXCEPT ![month] = IF usage[month] > 0 THEN usage[month] - 1 ELSE 0]
  BY JobTyped DEF Release, TypeOK
<1>2. PICK j : Step(t, j) /\ j = [job[t] EXCEPT !.metered = None]
  BY DEF Release
<1>3. j \in JobRec /\ j.stage = "failing" /\ j.metered = None
  BY <1>1, <1>2 DEF JobRec
<1>4. job'[t] = j /\ \A u \in Threads \ {t} : job'[u] = job[u]
  BY <1>2, <1>3, StepChanges
<1>5. ASSUME NEW m \in Months
      PROVE  Cardinality(Charged(m)') + Cardinality(Held(m)') <= usage'[m] /\ usage'[m] <= Limit
  <2>1. Charged(m)' = Charged(m)
    BY <1>1 DEF Charged
  <2>2. /\ IsFiniteSet(Held(m)) /\ Cardinality(Held(m)) \in Nat /\ Cardinality(Charged(m)) \in Nat
        /\ Cardinality(Charged(m)) + Cardinality(Held(m)) <= usage[m] /\ usage[m] <= Limit
        /\ usage[m] \in Nat
    BY Countable DEF MeterOK, TypeOK
  <2>3. CASE m = month
    <3>1. Held(m)' = Held(m) \ {t} /\ t \in Held(m)
      BY <1>1, <1>3, <1>4, <2>3, NoneAssumption DEF Held, Months
    <3>2. Cardinality(Held(m)') = Cardinality(Held(m)) - 1 /\ Cardinality(Held(m)') \in Nat
      BY <2>2, <3>1, FS_RemoveElement, FS_CardinalityType
    <3>3. usage'[m] = usage[m] - 1
      BY <1>1, <2>2, <2>3, <3>2 DEF TypeOK
    <3> QED  BY <2>1, <2>2, <3>2, <3>3, LimitAssumption
  <2>4. CASE m # month
    <3>1. Held(m)' = Held(m)
      BY <1>1, <1>3, <1>4, <2>4, NoneAssumption DEF Held, Months
    <3>2. usage'[m] = usage[m]
      BY <1>1, <2>4 DEF TypeOK
    <3> QED  BY <2>1, <2>2, <3>1, <3>2
  <2> QED  BY <2>3, <2>4
<1>6. \A u \in Threads : job'[u].stage \in {"reserved", "conflict"} => job'[u].metered = None
  BY <1>3, <1>4 DEF MeterOK
<1> QED  BY <1>5, <1>6 DEF MeterOK

\* A request that ends, or that goes from stage to stage, takes no unit.
LEMMA MoveMeter ==
    ASSUME TypeOK, MeterOK, NEW t \in Threads, UNCHANGED <<usage, decisions>>,
           NEW j \in JobRec \cup {Idle}, Step(t, j),
           \/ j = Idle \/ j.stage \in {"decided", "completed"} \/ j.metered = None
           \/ job[t].stage = "metered" /\ j = [job[t] EXCEPT !.stage = "failing"],
           j # Idle /\ j.stage \in {"reserved", "conflict"} => j.metered = None
    PROVE  MeterOK'
<1>1. job'[t] = j /\ \A u \in Threads \ {t} : job'[u] = job[u]
  BY StepChanges
<1>2. ASSUME NEW m \in Months, t \in Held(m)'  PROVE t \in Held(m)
  <2>1. j.stage \in {"metered", "failing"} /\ j.metered = m
    BY <1>1, <1>2 DEF Held
  <2>2. job[t].stage = "metered" /\ j = [job[t] EXCEPT !.stage = "failing"]
    BY <2>1, NoneAssumption DEF Idle, Months
  <2>3. job[t] \in JobRec
    BY <2>2, JobTyped
  <2>4. job[t].metered = m
    BY <2>1, <2>2, <2>3 DEF JobRec
  <2> QED  BY <2>2, <2>4 DEF Held
<1>3. job'[t].stage \in {"reserved", "conflict"} => job'[t].metered = None
  BY <1>1 DEF Idle
<1> QED  BY <1>1, <1>2, <1>3, MeterKept

\* As long as nothing strays, every step keeps the meter.
LEMMA NextMeter ==
    ASSUME TypeOK, MeterOK, [Next]_vars, strayed' = {}
    PROVE  MeterOK'
<1>1. CASE NextMonth \/ Exhausted \/ UNCHANGED vars
  <2>1. UNCHANGED <<usage, decisions, job>>
    BY <1>1 DEF NextMonth, Exhausted, vars
  <2>2. \A m : Charged(m)' = Charged(m) /\ Held(m)' = Held(m)
    BY <2>1 DEF Charged, Held
  <2> QED  BY <2>1, <2>2 DEF MeterOK
<1>2. ASSUME NEW t \in Threads, NEW k \in Keys \cup {None}, NEW p \in Payloads,
             Reserve(t, k, p)
      PROVE  MeterOK'
  <2>1. PICK j : /\ Step(t, j) /\ UNCHANGED <<usage, decisions>>
                 /\ j = [stage |-> IF k = None \/ reserved[k] = None THEN "reserved" ELSE "conflict",
                         key |-> k, payload |-> p, metered |-> None, request |-> None]
    BY <1>2 DEF Reserve
  <2>2. j \in JobRec /\ j.metered = None
    BY <2>1 DEF JobRec
  <2> QED  BY <2>1, <2>2, MoveMeter
<1>3. ASSUME NEW t \in Threads,
             ReadExisting(t) \/ Answer(t) \/ Unreserve(t) \/ Crash(t)
      PROVE  MeterOK'
  <2>1. Step(t, Idle) /\ UNCHANGED <<usage, decisions>>
    BY <1>3 DEF ReadExisting, Answer, Unreserve, Crash
  <2> QED  BY <2>1, MoveMeter
<1>4. ASSUME NEW t \in Threads, Complete(t)  PROVE MeterOK'
  <2>1. PICK j : j = [job[t] EXCEPT !.stage = "completed"]
    OBVIOUS
  <2>2. Step(t, j) /\ UNCHANGED <<usage, decisions>> /\ job[t] \in JobRec
    BY <1>4, <2>1, JobTyped DEF Complete
  <2>3. j \in JobRec /\ j.stage = "completed"
    BY <2>1, <2>2 DEF JobRec
  <2> QED  BY <2>2, <2>3, MoveMeter
<1>5. ASSUME NEW t \in Threads, Raise(t)  PROVE MeterOK'
  <2>1. PICK j : j = [job[t] EXCEPT !.stage = "failing"]
    OBVIOUS
  <2>2. /\ Step(t, j) /\ UNCHANGED <<usage, decisions>>
        /\ job[t].stage \in {"reserved", "metered"} /\ job[t] \in JobRec
    BY <1>5, <2>1, JobTyped DEF Raise
  <2>3. j \in JobRec /\ j.stage = "failing" /\ j.metered = job[t].metered
    BY <2>1, <2>2 DEF JobRec
  <2>4. job[t].stage = "reserved" => j.metered = None
    BY <2>3 DEF MeterOK
  <2> QED  BY <2>1, <2>2, <2>3, <2>4, MoveMeter
<1>6. ASSUME NEW t \in Threads, Work(t)  PROVE MeterOK'
  BY <1>3, <1>4, <1>6, ConsumeMeter, ReleaseMeter, DecideMeter DEF Work
<1> QED  BY <1>1, <1>2, <1>3, <1>5, <1>6 DEF Next

\* No month has been charged or used before the first request.
LEMMA InitMeter == Init => MeterOK
<1> SUFFICES ASSUME Init  PROVE MeterOK
  OBVIOUS
<1>1. \A m \in Months : Charged(m) = {} /\ Held(m) = {} /\ usage[m] = 0
  BY DEF Init, Charged, Held, Idle
<1>2. ASSUME NEW m \in Months
      PROVE  Cardinality(Charged(m)) + Cardinality(Held(m)) <= usage[m] /\ usage[m] <= Limit
  <2>1. Cardinality(Charged(m)) = 0 /\ Cardinality(Held(m)) = 0
    BY <1>1, FS_EmptySet
  <2> QED  BY <1>1, <2>1, LimitAssumption
<1>3. \A t \in Threads : job[t].stage = "idle"
  BY DEF Init, Idle
<1> QED  BY <1>2, <1>3 DEF MeterOK

\* Until something strays, the meter covers the decisions and the units in hand.
THEOREM MeterInvariance == Spec => [](strayed = {} => MeterOK)
<1>1. /\ "late" \notin strayed => IInv
      /\ strayed = {} => MeterOK
      /\ [Next]_vars
      => (strayed = {} => MeterOK)'
  BY NextMeter, StrayedStays DEF IInv
<1> QED  BY <1>1, InitMeter, Invariance, PTL DEF Spec

\* Concurrent requests do not pass the plan's quota of a month by racing, whatever fails before the
\* decision and wherever processes die.
THEOREM QuotaTheorem == Spec => []QuotaWithinMonth
<1>1. IInv /\ MeterOK => QuotaHolds
  <2> SUFFICES ASSUME IInv, MeterOK, NEW m \in Months  PROVE Cardinality(Charged(m)) <= Limit
    BY DEF QuotaHolds, Charged
  <2>1. Cardinality(Charged(m)) \in Nat /\ Cardinality(Held(m)) \in Nat
    BY Countable DEF IInv
  <2>2. usage[m] \in Nat
    BY DEF IInv, TypeOK
  <2> QED  BY <2>1, <2>2, LimitAssumption DEF MeterOK
<1>2. ("late" \notin strayed => IInv) /\ (strayed = {} => MeterOK) => QuotaWithinMonth
  BY <1>1 DEF QuotaWithinMonth
<1> QED  BY <1>2, Invariance, MeterInvariance, PTL
=============================================================================
