\* Fairness of replies; no symmetry, which liveness checking does not allow.
SPECIFICATION FairSpec
CONSTANTS
    Consumer = {c1}
    Attr = {}
    Id = {t1, t2}
    Proc = {p1, p2}
    None = None
    MaxTime = 1
    Ops = {"findOrSave", "get"}
    TTL <- MCTTL
    Errors = FALSE
PROPERTIES
    CallsSettle
    StaleArchived
\* The clock stops at its bound and tokens run out: an instance comes to rest.
CHECK_DEADLOCK FALSE
