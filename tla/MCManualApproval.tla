-------------------------- MODULE MCManualApproval --------------------------
(***************************************************************************)
(* ManualApproval with two operators, one request, and a second agent to   *)
(* which the permission is delegated.  The permission ends after the       *)
(* window of a request made at once, and inside that of a later one.       *)
(***************************************************************************)
EXTENDS ManualApproval

CONSTANTS a1, a2, p1, d1, d2, s1, usd

Usd(n) == [amount |-> n, currency |-> usd]

OnePermTerm ==
    [p \in {p1} |->
       [agent |-> a1, scope |-> s1, limit |-> Usd(1), approval |-> TRUE,
        from |-> 0, exp |-> 3]]

OneMoney == {Usd(1)}
=============================================================================
