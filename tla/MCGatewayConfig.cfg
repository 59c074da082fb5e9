\* Two requests, perhaps at once, an edit and a crash; u does not exist.
SPECIFICATION FairSpec
CONSTANTS
    Name = {n}
    Policy = {p, u}
    Core = {p}
    Extra = {u}
    Proc = {r1, r2}
    None = None
    Bad = Bad
    Empty = Empty
    Mangled = Mangled
    MaxUpdates = 2
    MaxEdits = 1
    MaxCrashes = 1
INVARIANTS
    TypeOK
    RoutesOnlyLoaded
    AdminWritesLoaded
    SerialUpdatesAdd
PROPERTIES
    Converges
\* An instance rests when its bounds are used up; a process that has stopped and
\* whose file does not load stays down.
CHECK_DEADLOCK FALSE
