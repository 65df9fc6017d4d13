----------------------------- MODULE AgentTrust ------------------------------
(***************************************************************************)
(* What an agent is allowed to be: its lifecycle and owners (Governance),  *)
(* what other organizations trust it with (CrossOrg), its credentials      *)
(* (Credentials), the services it offers and calls (AgentServices).  They  *)
(* meet in the status of the agent, which each of them loads for itself:   *)
(* whatever it is, each of them has to cope with it.                       *)
(***************************************************************************)
EXTENDS Governance, CrossOrg, Credentials, AgentServices

AgentTrustSpec == GovSpec /\ FedSpec /\ RegSpec /\ SvSpec

\* A revoked trust is ACTIVE again only after a new request, but for an acceptance loaded before;
\* no request is let through by a trust that had expired when it was judged; and a revoked key
\* of an issuer stays revoked, but for rotations that overlapped.
RevocationsStand == RevocationStands /\ NoExpiredTrust /\ KeyRevocationStands
=============================================================================
