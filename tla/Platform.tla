------------------------------ MODULE Platform -------------------------------
(***************************************************************************)
(* What an organization keeps of its own: members, keys and subscription   *)
(* (Membership), the accounts that sign in (Accounts), the workloads found *)
(* in its estate (Discovery), its policy documents (Apl) and the scoring   *)
(* of its requests (RiskEngine).  No table is written by two of them.      *)
(***************************************************************************)
EXTENDS Membership, Accounts, Discovery, Apl, RiskEngine

PlatformSpec == MsSpec /\ AcSpec /\ DiSpec /\ AplSpec /\ RkSpec

\* A revoked or expired key and a revoked session stay dead, whatever copy of their row a
\* handler writes back.
DeadStays == DeadKeysStay /\ RevokedStays
=============================================================================
