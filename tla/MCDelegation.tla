---------------------------- MODULE MCDelegation ----------------------------
(***************************************************************************)
(* Delegation on small instances.  The terms are chosen so that every      *)
(* check of create_delegation and verify_delegation_chain both passes and  *)
(* fails: limits of two sizes and none at all, an approval that a child    *)
(* may not drop, expiries and depths that cut a chain in the middle.       *)
(***************************************************************************)
EXTENDS Delegation, TLC

CONSTANTS a1, a2, a3, b1, d1, d2, d3, o1, o2, p1, h1, h2, c1, s1, usd, eur

ThreeAgents == {a1, a2, a3}
FourAgents == ThreeAgents \cup {b1}

\* b1 works for another organization than the others.
OneOrg == [a \in ThreeAgents |-> o1]
TwoOrgs == [a \in FourAgents |-> IF a = b1 THEN o2 ELSE o1]

Usd(n) == [amount |-> n, currency |-> usd]
Eur(n) == [amount |-> n, currency |-> eur]

PermTerm(l, ap) ==
    [scope |-> s1, limit |-> l, approval |-> ap, allow |-> TRUE,
     from |-> 0, exp |-> 2]
Term(l, ap, further, depth, exp) ==
    [scope |-> s1, limit |-> l, approval |-> ap, further |-> further,
     maxDepth |-> depth, from |-> 0, exp |-> exp]

\* For the run about creation: the first two delegation terms are accepted, the
\* first one not below the second; each of the others is too wide in one way.
ManyPermTerms ==
    {[PermTerm(Usd(1), FALSE) EXCEPT !.exp = 1],
     [PermTerm(None, FALSE) EXCEPT !.allow = FALSE]}
ManyDelegTerms ==
    {Term(Usd(1), FALSE, TRUE, 3, 1), Term(Usd(1), TRUE, TRUE, 2, 1),
     Term(Usd(2), FALSE, TRUE, 3, 1), Term(None, TRUE, TRUE, 3, 1),
     Term(Eur(1), FALSE, TRUE, 3, 1), Term(Usd(1), FALSE, TRUE, 3, 2)}

\* For the run about authorization: a delegation that may repeat the permission,
\* and one that lowers the limit, asks for approval and ends earlier.
FewPermTerms == {PermTerm(Usd(2), FALSE)}
FewDelegTerms ==
    {Term(Usd(2), FALSE, TRUE, 2, 2), Term(Usd(1), TRUE, TRUE, 2, 1)}
SomeMoney == {Usd(1), Usd(2)}

\* One of the behaviours that differ only by renaming delegations or agents (SYMMETRY, which is of
\* no use for liveness): d1 comes before d2, the permission is a1's, and a2 the first to get a share.
Canonical ==
    /\ d2 \in DOMAIN delegs => d1 \in DOMAIN delegs
    /\ p1 \in DOMAIN perms => perms[p1].agent = a1
    /\ d1 \in DOMAIN delegs => delegs[d1].childAgent = a2
CallsSpec == Init /\ [][Next /\ Canonical']_vars /\ \A c \in Callers : WF_vars(CallStep(c))

\* For the run about cascading revocation: a chain of three delegations.
OpenPermTerm == {PermTerm(None, FALSE)}
FourPeers == FourAgents
FourPeersOrg == [a \in FourPeers |-> o1]
DeepDelegTerm == {Term(None, FALSE, TRUE, 3, 2)}

CreationSymmetry ==
    Permutations(ThreeAgents) \cup Permutations({d1, d2, d3}) \cup Permutations({h1, h2})
=============================================================================
