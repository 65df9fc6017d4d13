------------------------------- MODULE Grants -------------------------------
(***************************************************************************)
(* The vocabulary that permissions (models/permission.py) and agent        *)
(* delegations (models/agent_delegation.py) share: what a grant covers,    *)
(* how long it runs, and when one monetary limit is no wider than another. *)
(*                                                                         *)
(* An (action, resource) pair is one member of Scopes: the code only ever  *)
(* compares the two strings for equality, and always both.  A limit is     *)
(* None or an amount with its currency: both tables constrain the two      *)
(* columns to be null together.                                            *)
(***************************************************************************)
EXTENDS Integers

CONSTANTS
    Scopes,        \* the (action, resource) pairs
    Currencies,
    None           \* SQL NULL / Python None

Amounts == Nat \ {0}

Limits == [amount : Amounts, currency : Currencies]

ASSUME NoneIsNoLimit == None \notin Limits

MaybeLimit == Limits \cup {None}

\* valid_from <= checked_at < expires_at
InWindow(grant, at) == grant.from <= at /\ at < grant.exp

IsUsable(grant, at) == grant.status = "ACTIVE" /\ InWindow(grant, at)

\* A requested limit passes the narrowing checks against an upstream one.
NoWider(limit, upstream) ==
    upstream # None =>
        /\ limit # None
        /\ limit.amount <= upstream.amount
        /\ limit.currency = upstream.currency

\* Mutant: the limit nearest the root wins, whatever its size.
TighterIsLast(effective, limit) == IF limit # None THEN limit ELSE effective

\* The restriction accumulated on the way up a chain: the smaller amount, and
\* the currency of the grant that set it.
Tighter(effective, limit) ==
    IF limit # None /\ (effective = None \/ limit.amount < effective.amount)
    THEN limit
    ELSE effective

\* What a limit says of the money in a request (None: no amount given).
Covers(limit, money) ==
    money # None =>
        /\ limit # None
        /\ money.currency = limit.currency
        /\ money.amount <= limit.amount
=============================================================================
