\* No crash, no edit, one request at a time.
SPECIFICATION Spec
CONSTANTS
    Name = {n}
    Policy = {p, u}
    Core = {p}
    Extra = {u}
    Proc = {r1}
    None = None
    Bad = Bad
    Empty = Empty
    Mangled = Mangled
    MaxUpdates = 2
    MaxEdits = 0
    MaxCrashes = 0
PROPERTIES
    OnlyCrashesStop
CHECK_DEADLOCK FALSE
