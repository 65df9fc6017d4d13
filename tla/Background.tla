----------------------------- MODULE Background ------------------------------
(***************************************************************************)
(* What goes on behind the requests: webhooks (Webhooks) and notifications *)
(* (Notifications) are sent, ATP messages relayed (AtpPipeline).  They     *)
(* share processes and no table.                                           *)
(***************************************************************************)
EXTENDS Webhooks, Notifications, AtpPipeline

BackgroundSpec == HookSpec /\ NtSpec /\ ApSpec

\* Nothing is taken up twice: no notification is queued afresh, and no message that a crash or
\* a missing endpoint left behind is sent by a later submission.
NeverTakenUpAgain == NeverRequeued /\ StrandedForGood
=============================================================================
