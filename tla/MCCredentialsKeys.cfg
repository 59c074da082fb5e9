\* One call after another, over one consumer with one key; nothing overlaps.
SPECIFICATION Spec
CONSTANTS
    Consumer = {k1}
    Key = {c1}
    Scope = {s1}
    Proc = {p1}
    None = None
    Gone = Gone
PROPERTY
    RemovedLoseKeys
