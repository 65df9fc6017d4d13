---------------------------- MODULE MCBackground ----------------------------
(***************************************************************************)
(* What goes on behind the requests: webhooks and notifications are sent,  *)
(* ATP messages relayed, bundles applied by gateways.  They share          *)
(* processes and no table, so a behaviour is about one of them, its side;  *)
(* the others are then given nothing to do, and their fairness holds       *)
(* trivially.                                                              *)
(***************************************************************************)
EXTENDS Background, MCGateway

CONSTANTS d1, d2, p1, w1, w2, s1, s2

VARIABLE side

\* ---- Notifications.
MCKind == [k \in {"suspended", "expiring", "expired", "key-expiring"} |->
             IF k \in {"suspended", "key-expiring"} THEN "security" ELSE "activity"]
MCPush == {"push", "in_app", "expiry"}
MCPreferences == {{"push", "in_app"}}
MCWorld(p, m, k, e, t) == [pref |-> p, perm |-> m, key |-> k, events |-> e, tokens |-> t]
NoNews == MCWorld({}, "none", "none", {}, {})
MCWorlds ==
    {NoNews,
     MCWorld(MCPush, "active", "none", {}, {"t1"}),
     MCWorld(MCPush \cup {"email", "security_email"}, "none", "active", {}, {}),
     MCWorld(MCPush, "none", "none", {"suspended"}, {"t1"}),
     MCWorld({}, "none", "none", {}, {"t1", "t2", "t3"})}

\* ---- ATP messages.
MCEnv(i, n) == [id |-> i, nonce |-> n, sent |-> 1, hold |-> FALSE, cred |-> "none", mock |-> FALSE]
MCMock(i, n) == [MCEnv(i, n) EXCEPT !.mock = TRUE]
MCSent(envs, ops) == [envelopes |-> envs, target |-> <<"safe">>, ops |-> ops, horizon |-> 0]
NoTraffic == MCSent({}, {})
MCTraffics ==
    {NoTraffic,
     \* A message signed twice; its nonces expire.
     [MCSent({MCEnv("A", "n"), MCEnv("A", "o")}, {}) EXCEPT !.horizon = 2],
     \* A nonce used twice, and after it has expired.
     MCSent({MCEnv("A", "n"), MCMock("B", "n")}, {"withdraw"}),
     [MCSent({MCMock("A", "n"), MCMock("B", "n")}, {}) EXCEPT !.horizon = 2],
     \* A message that is held, and one with a credential that does not verify.
     MCSent({[MCEnv("A", "n") EXCEPT !.hold = TRUE], [MCEnv("B", "n") EXCEPT !.cred = "bad"]},
               {"withdraw"}),
     \* The endpoint changes meanwhile.
     MCSent({MCEnv("A", "n")}, {"endpoint"})}
MCEnvelopes == UNION {t.envelopes : t \in MCTraffics}

\* ---- Webhooks: of two workers that are both free, the first one fetches.
Renamed == (sender[w1] = Free /\ sender[w2] = Free) => sender'[w2] = Free

\* ---- The sides.
Sides == {"webhooks", "notifications", "atp", "gateway"}
MCInit ==
    /\ side \in Sides
    /\ HookInit /\ NtInit /\ ApInit /\ GwInit /\ ScInit
    /\ side # "notifications" <=> world = NoNews
    /\ side # "atp" <=> traffic = NoTraffic
    /\ side # "gateway" <=> use = NoUse
MCNext ==
    \/ side = "webhooks" /\ HookNext /\ Renamed
       /\ UNCHANGED <<side, ntVars, apVars, gwVars, scVars>>
    \/ side = "notifications" /\ NtNext /\ UNCHANGED <<side, hookVars, apVars, gwVars, scVars>>
    \/ side = "atp" /\ ApNext /\ UNCHANGED <<side, hookVars, ntVars, gwVars, scVars>>
    \/ side = "gateway" /\ ScNext /\ UNCHANGED <<side, hookVars, ntVars, apVars>>
MCSpec ==
    /\ MCInit /\ [][MCNext]_<<side, hookVars, ntVars, apVars, gwVars, scVars>>
    /\ HookFairness /\ NtFairness /\ ApFairness /\ ScFairness

-----------------------------------------------------------------------------
(***************************************************************************)
(* The properties of the components, each on its side.                     *)
(***************************************************************************)
\* Work comes to an end under the fairness of its side: a queued webhook is settled although
\* any attempt may fail and processes crash, a permission past its expiry does not stay
\* ACTIVE, a submission that was verified frees its relay (both relays are alike), and a gateway
\* in service is up to date again and again.
Awaited ==
    CASE side = "webhooks" -> Queued(d1)
      [] side = "notifications" -> PastExpiry
      [] side = "atp" -> UnderWay(s1)
      [] OTHER -> TRUE
Attained ==
    CASE side = "webhooks" -> Settled(d1)
      [] side = "notifications" -> ExpiryActedUpon
      [] side = "atp" -> AtRest(s1)
      [] side = "gateway" -> UpToDate
WorkSettles == Awaited ~> Attained
=============================================================================
