SPECIFICATION MCSpec
CONSTANTS
    t1 = t1  t2 = t2  r1 = r1  r2 = r2  r3 = r3  None = None
    Threads = {t1, t2}
    Keys = {"k"}
    Payloads = {"p", "q"}
    ReqIds = {r1, r2, r3}
    Limit = 2
    LastMonth = 1
    Faults = {"early", "late", "crash"}
INVARIANTS
    IdempotentUnlessLate
    QuotaWithinMonth
PROPERTY
    ResolvesUnlessCrash
