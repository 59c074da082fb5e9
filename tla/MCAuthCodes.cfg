\* Two calls at once over one code that lives one tick.
SPECIFICATION Spec
CONSTANTS
    Client = {a1, a2}
    Uri = {u1, u2}
    User = {alice, bob}
    CodeId = {k1}
    Proc = {p1, p2}
    None = None
    MaxTime = 2
    TTL = 1
INVARIANTS
    AnswersTheGrant
    NoLateExchange
    OnlySpentCodesVanish
PROPERTIES
    KeepsPromise
    ExpiredRemoved
\* The clock stops at its bound, no more codes can be minted: rest is not an error.
CHECK_DEADLOCK FALSE
