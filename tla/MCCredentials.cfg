\* Any two calls at once over one consumer, with its single credential and one key.
SPECIFICATION Spec
CONSTANTS
    Consumer = {k1}
    Key = {c1}
    Scope = {s1}
    Proc = {p1, p2}
    None = None
    Gone = Gone
SYMMETRY Symm
\* Once two calls have overlapped on a credential, little more is claimed of it.
CONSTRAINT FewExempt
INVARIANTS
    TypeOK
    ScopesAgree
    GhostsAreCut
    RemovedStayClear
PROPERTIES
    NoScopeUnasked
