----------------------------- MODULE MCGateway -----------------------------
EXTENDS Sidecar, TLC

\* One manager and one environment, unless the behaviour is about several.
MCPlain(ops, threads) ==
    [ops |-> ops, managers |-> {"m1"}, threads |-> threads, keys |-> {"local"}, envs |-> {"production"},
     nonces |-> {NoNonce}, policy |-> "FAIL_CLOSED",
     enrolled |-> TRUE, horizon |-> 0, versions |-> 2, faults |-> 0]

\* Enrolment, heartbeats, suspension and revocation overlap.
MCEnrolment ==
    [MCPlain({"enroll", "heartbeat", "stop"}, {}) EXCEPT
        !.managers = {"m1", "m2"}, !.keys = {"local", "other"}, !.enrolled = FALSE, !.horizon = 2]

\* Publications and rollbacks overlap.
MCPublication ==
    [MCPlain({"publish", "rollback", "strike"}, {}) EXCEPT
        !.managers = {"m1", "m2"}, !.envs = {"production", "staging"}]

\* Two synchronizations overlap, and the process may die between two of their steps.
MCOverlap == [MCPlain({"publish", "sync"}, {"loop", "t1"}) EXCEPT !.versions = 3, !.faults = 1]

\* The sidecar is cut off while agents are revoked.
MCCutOff ==
    [MCPlain({"publish", "strike", "sync", "evaluate"}, {"loop", "t1"}) EXCEPT
        !.policy = "LIMITED_OFFLINE", !.horizon = 2, !.versions = 1, !.faults = 1]

\* Two evaluations overlap.
MCReplay ==
    [MCPlain({"evaluate"}, {"t1", "t2"}) EXCEPT !.nonces = {"n"}, !.horizon = 3, !.faults = 1]

\* The gateway is stopped while it serves.
MCStopped ==
    [MCPlain({"publish", "sync", "evaluate", "heartbeat", "stop"}, {"loop", "t1"}) EXCEPT !.versions = 1]

\* A probe of the health of the sidecar.
MCHealth ==
    [MCPlain({"publish", "sync", "health", "evaluate"}, {"loop", "t1", "t2"}) EXCEPT !.versions = 1]

NoUse == MCPlain({}, {})
MCDeployments == {NoUse, MCEnrolment, MCPublication, MCOverlap, MCCutOff, MCReplay, MCStopped, MCHealth}

\* Only probes and what they disturb, every thread running on.
MCProbed == {MCHealth}
MCProbeSpec == ScSpec /\ ScFairness /\ ServeFairness
============================================================================
