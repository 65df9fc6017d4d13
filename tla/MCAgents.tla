------------------------------ MODULE MCAgents ------------------------------
(***************************************************************************)
(* What an agent is allowed to be: its lifecycle and owners, what other    *)
(* organizations trust it with, its credentials, the services it offers    *)
(* and calls.  They meet in the status of the agent, which each of them    *)
(* loads for itself, so a behaviour is about one of them, its side.        *)
(***************************************************************************)
EXTENDS AgentTrust, TLC

CONSTANTS a1, u1, u2, s1, s2, c1, r1, r2, k1, k2, k3

VARIABLE side

\* ---- The lifecycle of one agent with a delegation, its owner and a second
\* administrator; transfers of it are a side of their own.
MCTouches == [l \in {"delegation"} |-> {a1}]
MCPolicy(e) == [expiry |-> e, separation |-> TRUE, checklist |-> TRUE]
MCPolicies == {MCPolicy("ALERT_ONLY"), MCPolicy("SUSPEND")}
MCRequests ==
    {Suspend, Reactivate, [kind |-> "retire", force |-> FALSE],
     [kind |-> "transfer", to |-> [type |-> "USER", id |-> u1]],
     [kind |-> "transfer", to |-> [type |-> "USER", id |-> u2]],
     [kind |-> "patch", status |-> "active"],
     [kind |-> "scan"],
     [kind |-> "review", cert |-> c1],
     [kind |-> "decide", cert |-> c1, decision |-> "REJECTED"]}
MCKinds == [lifecycle |-> {"transition", "retire", "patch", "scan", "review", "decide"},
            ownership |-> {"transition", "transfer"}]
ServesSide == \A s \in Sessions : job'[s] # GovIdle => job'[s].req.kind \in MCKinds[side]

\* ---- Trust between two organizations.
MCPay(n) == [action |-> "buy", resource |-> "card", amount |-> n]
MCPayloads == {MCPay(1), MCPay(2)}
MCBoth == [OpenPolicy({"source", "target"}) EXCEPT !.human = TRUE]
MCAsk(e) == [op |-> "request", expires |-> e]
MCBasic == {[op |-> "accept"], [op |-> "revoke"], [op |-> "connect", expires |-> Never]}
NoBusiness == [offers |-> {}, keys |-> {}]
MCFedWorlds ==
    {NoBusiness,
     [offers |-> MCBasic \cup {MCAsk(2), [op |-> "reject"], [op |-> "disconnect"]}, keys |-> {}],
     [offers |-> {MCAsk(Never), [op |-> "tpolicy", to |-> MCBoth],
                  [op |-> "tpolicy", to |-> [OpenPolicy({"target"}) EXCEPT !.max = 1]],
                  [op |-> "gpolicy", to |-> [OpenPolicy({"target"}) EXCEPT !.actions = {"buy"}]]},
      keys |-> {}],
     [offers |-> MCBasic \cup {MCAsk(2)}, keys |-> {"k1"}],
     [offers |-> {MCAsk(Never), [op |-> "accept"], [op |-> "connect", expires |-> Never],
                  [op |-> "tpolicy", to |-> MCBoth]},
      keys |-> {"k1"}]}
MCGrants == {[kind |-> "none", max |-> Never, approval |-> FALSE],
             [kind |-> "permission", max |-> Never, approval |-> FALSE]}

\* ---- Calls: b works for another organization than a and c.
MCOrgOf == [a |-> "o1", b |-> "o2", c |-> "o1"]
MCHostOf == [e1 |-> "b", e2 |-> "b", e3 |-> "a", e4 |-> "c"]
MCService(v) == [status |-> "ACTIVE", visibility |-> v]
MCOnlyB(v) == [a |-> NoService, b |-> MCService(v), c |-> NoService]
MCScene(offered, ops, eps, pairs, n) ==
    [service |-> offered, ops |-> ops, endpoints |-> eps, desks |-> {"d1", "d2"}, pairs |-> pairs,
     hosts |-> {"b"}, edits |-> {}, keys |-> {NoKey}, calls |-> n, horizon |-> 0]
MCKeyed ==      \* Calls that overlap, and their retries under a key, with failover.
    [MCScene(MCOnlyB("PUBLIC_DISCOVERABLE"), {}, {"e1", "e2"}, {<<"a", "b">>}, 3) EXCEPT !.keys = {"k"}]
MCNested ==     \* Agents call on while they are called.
    [MCScene([a |-> MCService("PUBLIC_DISCOVERABLE"), b |-> MCService("TRUSTED_ORGANIZATIONS"),
              c |-> MCService("PUBLIC_DISCOVERABLE")], {"forget"}, {"e1", "e3", "e4"},
             {<<"a", "b">>, <<"b", "c">>, <<"b", "a">>, <<"c", "a">>}, 3)
        EXCEPT !.desks = {"d1", "d2", "d3"}]
MCOffers ==     \* Services are created and edited.
    [MCScene([MCOnlyB("TRUSTED_ORGANIZATIONS") EXCEPT !.b = NoService], {"create"}, {}, {}, 0) EXCEPT
        !.edits = {"status", "visibility"}]
MCEdited ==     \* A service is edited while it is called.
    [MCScene(MCOnlyB("TRUSTED_ORGANIZATIONS"), {"outside", "capability"}, {"e1"}, {<<"a", "b">>}, 1)
        EXCEPT !.keys = {"k"}, !.edits = {"status"}]
MCVerified ==   \* Endpoints are verified while they fail.
    [MCScene(MCOnlyB("PUBLIC_DISCOVERABLE"), {"verify"}, {"e1"}, {<<"a", "b">>}, 3) EXCEPT !.horizon = 1]
NoScene == MCScene(MCOnlyB("PRIVATE"), {}, {}, {}, 0)
MCScenes == {NoScene, MCKeyed, MCNested, MCOffers, MCEdited, MCVerified}

\* ---- Credentials: while keys are rotated, or while the agent is retired and restored.
MCRegistry == {"keys", "holder"}
RegistrySide ==
    IF side = "keys" THEN subject' = subject
    ELSE \A s \in Registrars : work'[s].stage # "rotating"

\* ---- The sides.
Sides == DOMAIN MCKinds \cup {"trust", "calls"} \cup MCRegistry
MCInit ==
    /\ side \in Sides
    /\ GovInit /\ FedInit /\ RegInit /\ SvInit
    /\ side \notin DOMAIN MCKinds => policy.expiry = "SUSPEND"
    /\ side # "trust" <=> clients = NoBusiness
    /\ side # "calls" <=> scene = NoScene
    /\ subject.caps = {"pay"}
MCNext ==
    \/ side \in DOMAIN MCKinds /\ GovNext /\ ServesSide /\ UNCHANGED <<side, fedVars, regVars, svVars>>
    \/ side = "trust" /\ FedNext /\ UNCHANGED <<side, govVars, regVars, svVars>>
    \/ side \in MCRegistry /\ RegNext /\ RegistrySide /\ UNCHANGED <<side, govVars, fedVars, svVars>>
    \/ side = "calls" /\ SvNext /\ UNCHANGED <<side, govVars, fedVars, regVars>>
MCSpec == MCInit /\ [][MCNext]_<<side, govVars, fedVars, regVars, svVars>>
MCSymmetry ==
    Permutations({s1, s2}) \cup Permutations({r1, r2}) \cup Permutations({k1, k2, k3})
=============================================================================
