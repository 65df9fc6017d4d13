--------------------------- MODULE MCAgentSigning ---------------------------
(***************************************************************************)
(* Keys and signed requests for model checking.  A behaviour of MCSpec is  *)
(* either about requests and revocations, with the key there is, or about  *)
(* registrations and rotations.  (What happens when a rotation meets a     *)
(* revocation is the subject of a run of its own, with MeetSpec.)          *)
(***************************************************************************)
EXTENDS AgentSigning, TLC

CONSTANTS t1, t2, a1, a2, k1, k2, k3

VARIABLE about

MCInit == Init /\ about \in {"requests", "rotation"}
MCNext ==
    \/ about = "requests" /\ Next /\ UNCHANGED <<about, admin>>
    \/ about = "rotation" /\ Next /\ UNCHANGED <<about, revoked, job>>
MCSpec == MCInit /\ [][MCNext]_<<about, vars>>

MeetSpec == about = "meeting" /\ Init /\ [][Next /\ UNCHANGED about]_<<about, vars>>

MCSymmetry == Permutations({t1, t2}) \cup Permutations({a1, a2}) \cup Permutations({k2, k3})
=============================================================================
