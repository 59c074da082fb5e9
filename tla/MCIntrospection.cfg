\* Three requests with one token, two seconds of ttl, and a crash.
SPECIFICATION FairSpec
CONSTANTS
    Token = {t}
    Req = {r1, r2, r3}
    TTL = 4
    Exps = {2}
    None = None
    Forever = Forever
    MaxTime = 4
    MaxStops = 1
INVARIANTS
    CachedWithinTtl
PROPERTIES
    EveryAnswered
\* Every request ends and the clock stops at its bound.
CHECK_DEADLOCK FALSE
