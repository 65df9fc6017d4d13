SPECIFICATION MCSpec
CONSTANTS
    t1 = t1  t2 = t2  a1 = a1  a2 = a2  k1 = k1  k2 = k2  k3 = k3
    FirstKey = k1
    Keys = {k1, k2, k3}
    Nonces = {"n"}
    Threads = {t1, t2}
    Admins = {a1, a2}
    Ops = {"add", "rotate", "revoke"}
    MaxKeys = 2
    Lifetimes = {1, 3}
    Window = 1
    Margin = 2
    MaxStall = 1
    MaxTime = 6
SYMMETRY MCSymmetry
INVARIANTS
    AcceptedOnce
    RevokedFailsAtOnce
    KeyCap
PROPERTY
    RotationOverlaps
