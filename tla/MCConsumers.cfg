\* Any two calls at once over two users and two applications.
SPECIFICATION Spec
CONSTANTS
    UserId = {u1, u2}
    AppId = {a1, a2}
    Username = {n1}
    AppName = {m1, m2}
    NewName = {m1}
    Proc = {p1, p2}
    None = None
    Ghost = Ghost
SYMMETRY Symm
INVARIANTS
    OrphansExplained
    IndexesFollow
    TakenNamesRefused
    CascadeRemoves
    CascadeDeactivates
\* An insert waits for good once the ids are used up: an instance comes to rest.
CHECK_DEADLOCK FALSE
