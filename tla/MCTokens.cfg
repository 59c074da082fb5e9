\* Any two calls at once; any command may fail.
SPECIFICATION Spec
CONSTANTS
    Consumer = {c1}
    Attr = {a1}
    Id = {t1, t2}
    Proc = {p1, p2}
    None = None
    MaxTime = 1
    Ops = {"findOrSave", "list", "revoke"}
    TTL <- MCTTL
    Errors = TRUE
SYMMETRY Symm
INVARIANTS
    TypeOK
    IndexConsistent
    SaveOnlyIfNoMatch
    StraysNeverReturned
    ListingComplete
PROPERTIES
    ImplementsLifecycle
\* The clock stops at its bound and tokens run out: an instance comes to rest.
CHECK_DEADLOCK FALSE
