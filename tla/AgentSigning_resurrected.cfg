SPECIFICATION MeetSpec
CONSTANTS
    t1 = t1  t2 = t2  a1 = a1  a2 = a2  k1 = k1  k2 = k2  k3 = k3
    FirstKey = k1
    Keys = {k1, k2}
    Nonces = {"n"}
    Threads = {t1}
    Admins = {a1}
    Ops = {"rotate", "revoke"}
    MaxKeys = 2
    Lifetimes = {3}
    Window = 0
    Margin = 1
    MaxStall = 0
    MaxTime = 1
INVARIANT RevokedFailsAtOnce
