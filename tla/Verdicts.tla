------------------------------ MODULE Verdicts -------------------------------
(***************************************************************************)
(* What an authorization service promises of its requests.  A request is   *)
(* answered at once or has to wait; one that waits is approved only by a   *)
(* backer, whose yes came in time and while the grant was alive, rejected  *)
(* by anybody and expired when it is overdue.  Whatever becomes of it is   *)
(* told once, together with the verdict, and stays.  A grant that died     *)
(* does not come back.                                                     *)
(***************************************************************************)
CONSTANTS Requests, Backers, Nothing

VARIABLES
    standing,   \* standing[r]: "none", "PENDING" or the verdict
    told,       \* told[r]: what was told of r, Nothing at first
    alive,      \* requests whose grant is alive
    overdue,    \* requests that have waited too long
    backed      \* backed[d]: the request that d said yes to in time, or Nothing
verdictVars == <<standing, told, alive, overdue, backed>>

VerdictsInit ==
    /\ standing = [r \in Requests |-> "none"] /\ told = [r \in Requests |-> Nothing]
    /\ alive = {} /\ overdue = {} /\ backed = [d \in Backers |-> Nothing]

\* An expiry is told as a rejection.
Told(v) == IF v = "APPROVED" THEN "APPROVED" ELSE "REJECTED"

AtOnce(r, v) ==
    /\ standing[r] = "none"
    /\ standing' = [standing EXCEPT ![r] = v] /\ told' = [told EXCEPT ![r] = v]
    /\ UNCHANGED <<alive, overdue, backed>>

Wait(r) ==
    /\ standing[r] = "none" /\ standing' = [standing EXCEPT ![r] = "PENDING"]
    /\ alive' \in {alive, alive \cup {r}} /\ overdue' \in {overdue, overdue \cup {r}}
    /\ UNCHANGED <<told, backed>>

Wither == alive' \subseteq alive /\ UNCHANGED <<standing, told, overdue, backed>>

Elapse == overdue \subseteq overdue' /\ UNCHANGED <<standing, told, alive, backed>>

Back(d, r) ==
    /\ backed[d] = Nothing /\ r \in alive \ overdue
    /\ backed' = [backed EXCEPT ![d] = r] /\ UNCHANGED <<standing, told, alive, overdue>>

Withdraw(d) == backed' = [backed EXCEPT ![d] = Nothing] /\ UNCHANGED <<standing, told, alive, overdue>>

Decide(d, r, v) ==
    /\ standing[r] = "PENDING"
    /\ v = "APPROVED" => backed[d] = r
    /\ v = "EXPIRED" => r \in overdue
    /\ standing' = [standing EXCEPT ![r] = v] /\ told' = [told EXCEPT ![r] = Told(v)]
    /\ backed' = [backed EXCEPT ![d] = Nothing] /\ UNCHANGED <<alive, overdue>>

Lapse(R) ==
    /\ R \subseteq overdue /\ \A r \in R : standing[r] = "PENDING"
    /\ standing' = [r \in Requests |-> IF r \in R THEN "EXPIRED" ELSE standing[r]]
    /\ told' = [r \in Requests |-> IF r \in R THEN Told("EXPIRED") ELSE told[r]]
    /\ UNCHANGED <<alive, overdue, backed>>

VerdictsNext ==
    \/ \E r \in Requests : Wait(r) \/ \E v \in {"APPROVED", "REJECTED"} : AtOnce(r, v)
    \/ Wither \/ Elapse
    \/ \E d \in Backers : Withdraw(d) \/ \E r \in Requests :
          Back(d, r) \/ \E v \in {"APPROVED", "REJECTED", "EXPIRED"} : Decide(d, r, v)
    \/ \E R \in SUBSET Requests : Lapse(R)

VerdictsSpec == VerdictsInit /\ [][VerdictsNext]_verdictVars
=============================================================================
